---------------------------- MODULE JobLifecycle ----------------------------
(***************************************************************************)
(* What the background-job registry promises about one job, as its package *)
(* comment and the comments of OnJobDone state it (src/jobs/jobs.go):      *)
(*                                                                         *)
(*   - a job is running, then possibly stopping, then in exactly one       *)
(*     terminal state; the first settlement wins;                          *)
(*   - completion listeners hear of a job only once it has settled, and    *)
(*     each of them hears of it at most once.                              *)
(*                                                                         *)
(* JobRegistry implements this specification.                              *)
(***************************************************************************)
CONSTANTS Jobs,       \* the job ids that may ever be issued
          Listeners   \* the completion listeners that may be registered

VARIABLES phase,      \* the state of each job, "none" before it exists
          heard       \* the listeners that have been told that the job ended

vars == <<phase, heard>>

Live     == {"running", "stopping"}
Terminal == {"completed", "killed", "failed"}
Phases   == {"none"} \cup Live \cup Terminal

TypeOK == /\ phase \in [Jobs -> Phases]
          /\ heard \in [Jobs -> SUBSET Listeners]

Init == /\ phase = [j \in Jobs |-> "none"]
        /\ heard = [j \in Jobs |-> {}]

Begin(j) == /\ phase[j] = "none"
            /\ phase' = [phase EXCEPT ![j] = "running"]
            /\ UNCHANGED heard

Stop(j) == /\ phase[j] = "running"
           /\ phase' = [phase EXCEPT ![j] = "stopping"]
           /\ UNCHANGED heard

End(j, s) == /\ phase[j] \in Live
             /\ phase' = [phase EXCEPT ![j] = s]
             /\ UNCHANGED heard

Announce(j, l) == /\ phase[j] \in Terminal
                  /\ l \notin heard[j]
                  /\ heard' = [heard EXCEPT ![j] = @ \cup {l}]
                  /\ UNCHANGED phase

Next == \E j \in Jobs : \/ Begin(j)
                        \/ Stop(j)
                        \/ \E s \in Terminal : End(j, s)
                        \/ \E l \in Listeners : Announce(j, l)

Spec == Init /\ [][Next]_vars
=============================================================================

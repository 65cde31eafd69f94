----------------------------- MODULE CronLedger ------------------------------
(***************************************************************************)
(* What the clients of the cron store see of it (src/cron/cron.go and       *)
(* src/core/cron.go): a table of jobs with two switches each, whose         *)
(* operations happen at one instant although SetEnabled reads and saves in  *)
(* two steps, and on which the runs of the jobs leave no trace.  An answer  *)
(* says that the table is on disk; after an error a job is open, and the    *)
(* refused change may still reach the disk with a later one, or be lost     *)
(* with the process.                                                        *)
(*                                                                         *)
(* CronScheduler implements this specification.                             *)
(***************************************************************************)
CONSTANT Jobs

VARIABLES wanted, \* the table the process works with
          table,  \* the table on disk
          asked   \* what a client was last told of each job

vars == <<wanted, table, asked>>

\* A job's entry: nothing, or that it is listed, with the switches that are on.
None     == {}
Switches == {"enabled", "notify"}
Entry(on) == {"listed"} \cup on

New  == [that |-> "new", flags |-> {}]
Open == [that |-> "unknown", flags |-> {}]
Answer(e) == [that |-> IF e = None THEN "gone" ELSE "has", flags |-> e \cap Switches]

Init == /\ wanted = [j \in Jobs |-> None]
        /\ table = [j \in Jobs |-> None]
        /\ asked = [j \in Jobs |-> New]

\* The entry of j becomes e, on disk too unless the client is told of an error.
Change(j, e) ==
  /\ \/ asked' = [asked EXCEPT ![j] = Answer(e)] /\ table' = wanted'
     \/ asked' = [asked EXCEPT ![j] = Open] /\ UNCHANGED table
  /\ wanted' = [wanted EXCEPT ![j] = e]

\* A success that does not settle what an earlier error left open.
ChangeOpen(j, e) ==
  /\ asked[j].that = Open.that
  /\ wanted' = [wanted EXCEPT ![j] = e]
  /\ table' = wanted'
  /\ UNCHANGED asked

Create(j, on) == asked[j].that = New.that /\ Change(j, Entry(on))

Delete(j) == wanted[j] # None /\ Change(j, None)

Turn(e, f, b) == IF b THEN e \cup {f} ELSE e \ {f}

Enable(j, b) == wanted[j] # None /\ Change(j, Turn(wanted[j], "enabled", b))

Notify(j, b) ==
  LET e == Turn(wanted[j], "notify", b)
  IN  wanted[j] # None /\ (Change(j, e) \/ ChangeOpen(j, e))

\* A run records its outcome: the table is written as it is.
Flush == UNCHANGED <<asked, wanted>> /\ table' = wanted

\* A new process; the operation that was under way is never answered.
Restart ==
  /\ wanted' = table
  /\ UNCHANGED table
  /\ \/ UNCHANGED asked
     \/ \E j \in Jobs : wanted[j] # None /\ asked' = [asked EXCEPT ![j] = Open]

Next ==
  \/ Flush \/ Restart
  \/ \E j \in Jobs :
       \/ \E on \in SUBSET Switches : Create(j, on)
       \/ Delete(j)
       \/ \E b \in BOOLEAN : Enable(j, b) \/ Notify(j, b)

Spec == Init /\ [][Next]_vars
=============================================================================

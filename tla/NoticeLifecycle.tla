--------------------------- MODULE NoticeLifecycle ---------------------------
(***************************************************************************)
(* What a completion notice goes through, as src/tui/wakeup.go promises    *)
(* it: announced once, it waits until the agent accepts it into a session, *)
(* or it is dropped because the model has read the result already, or it   *)
(* is lost on an error path.  Accepted notices are shown to the model and  *)
(* are never taken back.                                                   *)
(***************************************************************************)
CONSTANT Notices

VARIABLES announced, accepted, seen, lost, dropped

vars == <<announced, accepted, seen, lost, dropped>>

Waiting == announced \ (accepted \cup lost \cup dropped)

Init == /\ announced = {}
        /\ accepted = {}
        /\ seen = {}
        /\ lost = {}
        /\ dropped = {}

Announce(n) == /\ n \notin announced
               /\ announced' = announced \cup {n}
               /\ UNCHANGED <<accepted, seen, lost, dropped>>

Accept(S) == /\ S \subseteq Waiting
             /\ accepted' = accepted \cup S
             /\ UNCHANGED <<announced, seen, lost, dropped>>

Show == /\ seen' = accepted
        /\ UNCHANGED <<announced, accepted, lost, dropped>>

Lose(S) == /\ S \subseteq Waiting
           /\ lost' = lost \cup S
           /\ UNCHANGED <<announced, accepted, seen, dropped>>

\* n was read; what was queued in one text with it goes with it.
Drop(n, S) == /\ S \subseteq Waiting
              /\ n \in S
              /\ dropped' = dropped \cup {n}
              /\ lost' = lost \cup (S \ {n})
              /\ UNCHANGED <<announced, accepted, seen>>

Next == \/ \E n \in Notices : Announce(n)
        \/ \E S \in SUBSET Notices : Accept(S) \/ Lose(S)
        \/ \E S \in SUBSET Notices, n \in Notices : Drop(n, S)
        \/ Show

Spec == Init /\ [][Next]_vars
=============================================================================

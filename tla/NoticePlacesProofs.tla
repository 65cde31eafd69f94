-------------------------- MODULE NoticePlacesProofs --------------------------
(* Proofs about the way of a notice through NoticeDelivery: it is in one   *)
(* place at a time, and what happens to it is what NoticeLifecycle says.   *)
EXTENDS NoticeDeliveryProofs

-----------------------------------------------------------------------------
\* Where a notice is.

InQueue(n) == {e \in queue : n \in e}
InCalls(n) == {c \in calls : n \in c.ns /\ c.at # "ok"}
InRuns(n) == {r \in Runs : n \in input[r]}
Settled(n) == n \in session \cup lost \cup dropped

\* Handed over, and in nobody's hands.
Nobodys(n) == InQueue(n) = {} /\ InCalls(n) = {} /\ InRuns(n) = {}
Unknown(n) == n \notin announced /\ Nobodys(n) /\ ~ Settled(n)
Queued(n) == /\ n \in announced /\ ~ Settled(n)
             /\ (\E e \in queue : InQueue(n) = {e}) /\ InCalls(n) = {} /\ InRuns(n) = {}
Called(n) == /\ n \in announced /\ ~ Settled(n)
             /\ InQueue(n) = {} /\ (\E c \in calls : InCalls(n) = {c}) /\ InRuns(n) = {}
Running(n) == /\ n \in announced /\ ~ Settled(n)
              /\ InQueue(n) = {} /\ InCalls(n) = {} /\ \E r \in Runs : InRuns(n) = {r}
Accepted(n) == n \in announced /\ Nobodys(n) /\ n \in session /\ n \notin lost \cup dropped
Lost(n) == n \in announced /\ Nobodys(n) /\ n \in lost /\ n \notin session \cup dropped
Dropped(n) == n \in announced /\ Nobodys(n) /\ n \in dropped /\ n \notin session \cup lost

Place(n) == \/ Unknown(n) \/ Queued(n) \/ Called(n) \/ Running(n)
            \/ Accepted(n) \/ Lost(n) \/ Dropped(n)

\* A run that is past its prologue, or not yet called, holds no notice.
Handed == \A r \in Runs : pc[r] \notin {"submitted", "called", "claimed"} => input[r] = {}

Places == /\ \A n \in Notices : Place(n)
          /\ Handed
          /\ seen \subseteq session

\* A notice that a step does not touch.
Untouched(n) ==
  /\ \A e : (e \in queue' /\ n \in e) <=> (e \in queue /\ n \in e)
  /\ \A c : (c \in calls' /\ n \in c.ns /\ c.at # "ok") <=> (c \in calls /\ n \in c.ns /\ c.at # "ok")
  /\ \A r \in Runs : n \in input'[r] <=> n \in input[r]
  /\ n \in announced' <=> n \in announced
  /\ n \in session' <=> n \in session
  /\ n \in lost' <=> n \in lost
  /\ n \in dropped' <=> n \in dropped

LEMMA UntouchedStays ==
  ASSUME NEW n \in Notices, Place(n), Untouched(n)
  PROVE  Place(n)'
  <1>1. InQueue(n)' = InQueue(n)
    BY DEF Untouched, InQueue
  <1>2. InCalls(n)' = InCalls(n)
    BY DEF Untouched, InCalls
  <1>3. InRuns(n)' = InRuns(n)
    BY DEF Untouched, InRuns
  <1>4. /\ n \in announced' <=> n \in announced
        /\ n \in session' <=> n \in session
        /\ n \in lost' <=> n \in lost
        /\ n \in dropped' <=> n \in dropped
    BY DEF Untouched
  <1>5. CASE Unknown(n)
    BY <1>1, <1>2, <1>3, <1>4, <1>5 DEF Place, Unknown, Nobodys, Settled
  <1>6. CASE Queued(n)
    <2>1. PICK e \in queue : InQueue(n) = {e}
      BY <1>6 DEF Queued
    <2>2. e \in queue'
      BY <1>1, <2>1 DEF InQueue
    <2> QED BY <1>1, <1>2, <1>3, <1>4, <1>6, <2>1, <2>2 DEF Place, Queued, Settled
  <1>7. CASE Called(n)
    <2>1. PICK c \in calls : InCalls(n) = {c}
      BY <1>7 DEF Called
    <2>2. c \in calls'
      BY <1>2, <2>1 DEF InCalls
    <2> QED BY <1>1, <1>2, <1>3, <1>4, <1>7, <2>1, <2>2 DEF Place, Called, Settled
  <1>8. CASE Running(n)
    BY <1>1, <1>2, <1>3, <1>4, <1>8 DEF Place, Running, Settled
  <1>9. CASE Accepted(n) \/ Lost(n) \/ Dropped(n)
    BY <1>1, <1>2, <1>3, <1>4, <1>9 DEF Place, Accepted, Lost, Dropped, Nobodys
  <1> QED BY <1>5, <1>6, <1>7, <1>8, <1>9 DEF Place

NotQueued(n) == \A e \in queue : n \notin e
NotCalled(n) == \A c \in calls : n \in c.ns => c.at = "ok"
NotRunning(n) == \A r \in Runs : n \notin input[r]

\* Who holds a notice holds it alone.
LEMMA HolderQueue ==
  ASSUME NEW n, Place(n), NEW e \in queue, n \in e
  PROVE  /\ n \in announced /\ ~ Settled(n) /\ NotCalled(n) /\ NotRunning(n)
         /\ \A f \in queue : n \in f => f = e
  <1>1. e \in InQueue(n)
    BY DEF InQueue
  <1>2. Queued(n)
    BY <1>1 DEF Place, Unknown, Called, Running, Accepted, Lost, Dropped, Nobodys
  <1>3. PICK f \in queue : InQueue(n) = {f}
    BY <1>2 DEF Queued
  <1> QED BY <1>1, <1>2, <1>3 DEF Queued, InQueue, InCalls, InRuns, NotCalled, NotRunning

LEMMA HolderCall ==
  ASSUME NEW n, Place(n), NEW c \in calls, n \in c.ns, c.at # "ok"
  PROVE  /\ n \in announced /\ ~ Settled(n) /\ NotQueued(n) /\ NotRunning(n)
         /\ \A d \in calls : n \in d.ns /\ d.at # "ok" => d = c
  <1>1. c \in InCalls(n)
    BY DEF InCalls
  <1>2. Called(n)
    BY <1>1 DEF Place, Unknown, Queued, Running, Accepted, Lost, Dropped, Nobodys
  <1>3. PICK d \in calls : InCalls(n) = {d}
    BY <1>2 DEF Called
  <1> QED BY <1>1, <1>2, <1>3 DEF Called, InQueue, InCalls, InRuns, NotQueued, NotRunning

LEMMA HolderRun ==
  ASSUME NEW n, Place(n), NEW r \in Runs, n \in input[r]
  PROVE  /\ n \in announced /\ ~ Settled(n) /\ NotQueued(n) /\ NotCalled(n)
         /\ \A q \in Runs : n \in input[q] => q = r
  <1>1. r \in InRuns(n)
    BY DEF InRuns
  <1>2. Running(n)
    BY <1>1 DEF Place, Unknown, Queued, Called, Accepted, Lost, Dropped, Nobodys
  <1>3. PICK q \in Runs : InRuns(n) = {q}
    BY <1>2 DEF Running
  <1> QED BY <1>1, <1>2, <1>3 DEF Running, InQueue, InCalls, InRuns, NotQueued, NotCalled

LEMMA NotAnnounced ==
  ASSUME NEW n, Place(n), n \notin announced
  PROVE  ~ Settled(n) /\ NotQueued(n) /\ NotCalled(n) /\ NotRunning(n)
  <1>1. Unknown(n)
    BY DEF Place, Queued, Called, Running, Accepted, Lost, Dropped
  <1> QED BY <1>1 DEF Unknown, Nobodys, InQueue, InCalls, InRuns, NotQueued, NotCalled, NotRunning

\* A notice comes into new hands.
LEMMA IntoQueue ==
  ASSUME NEW n, n \in announced', ~ Settled(n)', NotCalled(n)', NotRunning(n)',
         NEW e \in queue', n \in e, \A f \in queue' : n \in f => f = e
  PROVE  Place(n)'
  <1>1. InQueue(n)' = {e} /\ InCalls(n)' = {} /\ InRuns(n)' = {}
    BY DEF InQueue, InCalls, InRuns, NotCalled, NotRunning
  <1> QED BY <1>1 DEF Queued, Place

LEMMA IntoCall ==
  ASSUME NEW n, n \in announced', ~ Settled(n)', NotQueued(n)', NotRunning(n)',
         NEW c \in calls', n \in c.ns, c.at # "ok",
         \A d \in calls' : n \in d.ns /\ d.at # "ok" => d = c
  PROVE  Place(n)'
  <1>1. InQueue(n)' = {} /\ InCalls(n)' = {c} /\ InRuns(n)' = {}
    BY DEF InQueue, InCalls, InRuns, NotQueued, NotRunning
  <1> QED BY <1>1 DEF Called, Place

LEMMA IntoRun ==
  ASSUME NEW n, n \in announced', ~ Settled(n)', NotQueued(n)', NotCalled(n)',
         NEW r \in Runs, n \in input'[r], \A q \in Runs : n \in input'[q] => q = r
  PROVE  Place(n)'
  <1>1. InQueue(n)' = {} /\ InCalls(n)' = {} /\ InRuns(n)' = {r}
    BY DEF InQueue, InCalls, InRuns, NotQueued, NotCalled
  <1> QED BY <1>1 DEF Running, Place

LEMMA IntoNobodys ==
  ASSUME NEW n, n \in announced', NotQueued(n)', NotCalled(n)', NotRunning(n)',
         \/ n \in session' /\ n \notin lost' \cup dropped'
         \/ n \in lost' /\ n \notin session' \cup dropped'
         \/ n \in dropped' /\ n \notin session' \cup lost'
  PROVE  Place(n)'
  <1>1. InQueue(n)' = {} /\ InCalls(n)' = {} /\ InRuns(n)' = {}
    BY DEF InQueue, InCalls, InRuns, NotQueued, NotCalled, NotRunning
  <1> QED BY <1>1 DEF Accepted, Lost, Dropped, Nobodys, Place

-----------------------------------------------------------------------------
\* Every step keeps a notice in one place.

LEMMA TurnRun ==
  ASSUME DeliveryTypeOK, Handed, NEW r \in Runs, Go(r, "free", "submitted"),
         NEW S, input' = [input EXCEPT ![r] = S]
  PROVE  /\ input[r] = {} /\ input'[r] = S
         /\ \A q \in Runs \ {r} : input'[q] = input[q]
         /\ Handed'
  <1>1. /\ pc[r] = "free" /\ pc'[r] = "submitted"
        /\ \A q \in Runs \ {r} : pc'[q] = pc[q]
    BY DEF Go, DeliveryTypeOK, AgentTypeOK
  <1>2. /\ input'[r] = S
        /\ \A q \in Runs \ {r} : input'[q] = input[q]
    BY DEF DeliveryTypeOK, AgentTypeOK
  <1> QED BY <1>1, <1>2 DEF Handed

\* The queue, and what else the event loop had in its hand, goes to a run.
LEMMA TurnPlaces ==
  ASSUME DeliveryTypeOK, Places, NEW r \in Runs, Go(r, "free", "submitted"),
         NEW S, input' = [input EXCEPT ![r] = S], queue' = {},
         UNCHANGED <<session, seen, lost, dropped>>,
         \A n \in Notices \cap S : /\ n \in announced' /\ ~ Settled(n) /\ NotRunning(n)
                                   /\ NotCalled(n)',
         \A n \in Notices \ S :
            /\ NotQueued(n)
            /\ n \in announced' <=> n \in announced
            /\ \A c : (c \in calls' /\ n \in c.ns /\ c.at # "ok")
                        <=> (c \in calls /\ n \in c.ns /\ c.at # "ok")
  PROVE  Places'
  <1>1. /\ input[r] = {} /\ input'[r] = S
        /\ \A q \in Runs \ {r} : input'[q] = input[q]
        /\ Handed'
    BY TurnRun DEF Places
  <1>2. ASSUME NEW n \in Notices, n \in S PROVE Place(n)'
    <2>1. /\ n \in announced' /\ ~ Settled(n)' /\ NotQueued(n)' /\ NotCalled(n)'
          /\ n \in input'[r]
      BY <1>1, <1>2 DEF Settled, NotQueued
    <2>2. \A q \in Runs : n \in input'[q] => q = r
      BY <1>1, <1>2 DEF NotRunning
    <2> QED BY <2>1, <2>2, IntoRun
  <1>3. ASSUME NEW n \in Notices, n \notin S PROVE Place(n)'
    <2>1. Untouched(n)
      BY <1>1, <1>3 DEF Untouched, NotQueued
    <2> QED BY <2>1, UntouchedStays DEF Places
  <1> QED BY <1>1, <1>2, <1>3 DEF Places

LEMMA WakeupPlaces ==
  ASSUME DeliveryTypeOK, Places, NEW q, Wakeup(q),
         UNCHANGED <<session, seen, lost, dropped>>,
         \A n \in Notices \cap UNION q : /\ n \in announced' /\ ~ Settled(n)
                                         /\ NotRunning(n) /\ NotCalled(n)',
         \A n \in Notices \ UNION q :
            /\ NotQueued(n)
            /\ n \in announced' <=> n \in announced
            /\ \A c : (c \in calls' /\ n \in c.ns /\ c.at # "ok")
                        <=> (c \in calls /\ n \in c.ns /\ c.at # "ok")
  PROVE  Places'
  <1>1. CASE \E r \in Runs : /\ Go(r, "free", "submitted")
                             /\ input' = [input EXCEPT ![r] = UNION q]
    <2>1. queue' = {}
      BY WakeupRun
    <2> DEFINE S == UNION q
    <2>2. PICK r \in Runs : /\ Go(r, "free", "submitted")
                            /\ input' = [input EXCEPT ![r] = S]
      BY <1>1
    <2> HIDE DEF S
    <2>3. /\ \A n \in Notices \cap S : /\ n \in announced' /\ ~ Settled(n)
                                       /\ NotRunning(n) /\ NotCalled(n)'
          /\ \A n \in Notices \ S :
               /\ NotQueued(n)
               /\ n \in announced' <=> n \in announced
               /\ \A c : (c \in calls' /\ n \in c.ns /\ c.at # "ok")
                           <=> (c \in calls /\ n \in c.ns /\ c.at # "ok")
      BY DEF S
    <2> QED BY <2>1, <2>2, <2>3, TurnPlaces
  <1>2. CASE q = {} /\ UNCHANGED <<pc, input>>
    <2>1. queue' = {} /\ \A n \in Notices : n \notin UNION q
      BY <1>2, WakeupRun
    <2>2. ASSUME NEW n \in Notices PROVE Place(n)'
      <3>1. Untouched(n)
        BY <1>2, <2>1 DEF Untouched, NotQueued
      <3> QED BY <3>1, UntouchedStays DEF Places
    <2> QED BY <1>2, <2>2 DEF Places, Handed
  <1> QED BY <1>1, <1>2, WakeupRun

\* The queue, and what else the event loop had in its hand, goes to a call.
LEMMA CallPlaces ==
  ASSUME Places, NEW c, c.at = "sent", queue' = {}, calls' = calls \cup {c},
         UNCHANGED <<pc, input, session, seen, lost, dropped>>,
         \A n \in Notices \cap c.ns : /\ n \in announced' /\ ~ Settled(n)
                                      /\ NotRunning(n) /\ NotCalled(n),
         \A n \in Notices \ c.ns : NotQueued(n) /\ (n \in announced' <=> n \in announced)
  PROVE  Places'
  <1>1. ASSUME NEW n \in Notices, n \in c.ns PROVE Place(n)'
    <2>1. /\ n \in announced' /\ ~ Settled(n)' /\ NotQueued(n)' /\ NotRunning(n)'
      BY <1>1 DEF Settled, NotQueued, NotRunning
    <2>2. \A d \in calls' : n \in d.ns /\ d.at # "ok" => d = c
      BY <1>1 DEF NotCalled
    <2> QED BY <1>1, <2>1, <2>2, IntoCall
  <1>2. ASSUME NEW n \in Notices, n \notin c.ns PROVE Place(n)'
    <2>1. Untouched(n)
      BY <1>2 DEF Untouched, NotQueued
    <2> QED BY <2>1, UntouchedStays DEF Places
  <1> QED BY <1>1, <1>2 DEF Places, Handed

LEMMA SamePlaces ==
  ASSUME Places,
         UNCHANGED <<pc, input, session, seen, lost, announced, queue, calls, dropped>>
  PROVE  Places'
  <1>1. ASSUME NEW n \in Notices PROVE Place(n)'
    <2>1. Untouched(n)
      BY DEF Untouched
    <2> QED BY <2>1, UntouchedStays DEF Places
  <1> QED BY <1>1 DEF Places, Handed

LEMMA DeliverPlaces ==
  ASSUME DeliveryTypeOK, Places, NEW n \in Notices, Deliver(n)
  PROVE  Places'
  <1> DEFINE q == queue \cup {{n}}
  <1>0. /\ n \notin announced /\ announced' = announced \cup {n}
        /\ UNCHANGED <<session, seen, lost, dropped>>
    BY DEF Deliver, agentVars
  <1>1. \A m \in Notices \cap UNION q : /\ m \in announced' /\ ~ Settled(m)
                                        /\ NotRunning(m) /\ NotCalled(m)
    <2> SUFFICES ASSUME NEW m \in Notices, m \in UNION q
                 PROVE  /\ m \in announced' /\ ~ Settled(m)
                        /\ NotRunning(m) /\ NotCalled(m)
      OBVIOUS
    <2>1. CASE m = n
      BY <1>0, <2>1, NotAnnounced DEF Places
    <2>2. ASSUME NEW e \in queue, m \in e
          PROVE  /\ m \in announced' /\ ~ Settled(m)
                 /\ NotRunning(m) /\ NotCalled(m)
      BY <1>0, <2>2, HolderQueue DEF Places
    <2> QED BY <2>1, <2>2
  <1>2. \A m \in Notices \ UNION q : NotQueued(m) /\ (m \in announced' <=> m \in announced)
    BY <1>0 DEF NotQueued
  <1>3. CASE working
    <2> DEFINE c == [ns |-> UNION q, by |-> "notice", at |-> "sent"]
    <2>1. /\ queue' = {} /\ calls' = calls \cup {c}
          /\ UNCHANGED <<pc, input>>
      BY <1>3 DEF Deliver
    <2>2. c.ns = UNION q /\ c.at = "sent"
      OBVIOUS
    <2> HIDE DEF c, q
    <2> QED BY <1>0, <1>1, <1>2, <2>1, <2>2, CallPlaces
  <1>4. CASE ~working
    <2>1. Wakeup(q) /\ UNCHANGED calls
      BY <1>4 DEF Deliver
    <2> HIDE DEF q
    <2>2. \A m : NotCalled(m)' <=> NotCalled(m)
      BY <2>1 DEF NotCalled
    <2> QED BY <1>0, <1>1, <1>2, <2>1, <2>2, WakeupPlaces
  <1> QED BY <1>3, <1>4

\* What is queued is nowhere else.
LEMMA QueueAlone ==
  ASSUME Places
  PROVE  /\ \A n \in Notices \cap UNION queue : /\ n \in announced /\ ~ Settled(n)
                                                /\ NotRunning(n) /\ NotCalled(n)
         /\ \A n \in Notices \ UNION queue : NotQueued(n)
  <1>1. ASSUME NEW n \in Notices, NEW e \in queue, n \in e
        PROVE  n \in announced /\ ~ Settled(n) /\ NotRunning(n) /\ NotCalled(n)
    BY <1>1, HolderQueue DEF Places
  <1> QED BY <1>1 DEF NotQueued

LEMMA EnterPlaces ==
  ASSUME DeliveryTypeOK, Places, Enter
  PROVE  Places'
  <1> DEFINE ns == UNION queue
             c == [ns |-> ns, by |-> "user", at |-> "sent"]
  <1>0. UNCHANGED <<announced, session, seen, lost, dropped>>
    BY DEF Enter, agentVars
  <1>1. /\ \A n \in Notices \cap ns : /\ n \in announced' /\ ~ Settled(n)
                                      /\ NotRunning(n) /\ NotCalled(n)
        /\ \A n \in Notices \ ns : NotQueued(n) /\ (n \in announced' <=> n \in announced)
    BY <1>0, QueueAlone
  <1>2. CASE working
    <2>1. /\ queue' = {} /\ calls' = calls \cup {c} /\ UNCHANGED <<pc, input>>
      BY <1>2 DEF Enter
    <2>2. c.ns = ns /\ c.at = "sent"
      OBVIOUS
    <2> HIDE DEF c, ns
    <2> QED BY <1>0, <1>1, <2>1, <2>2, CallPlaces
  <1>3. CASE ~working
    <2>1. StartTurn(ns) /\ UNCHANGED calls
      BY <1>3 DEF Enter
    <2> HIDE DEF c, ns
    <2>2. PICK r \in Runs : /\ Go(r, "free", "submitted")
                            /\ input' = [input EXCEPT ![r] = ns]
                            /\ queue' = {}
      BY <2>1, StartTurnRun
    <2>3. \A m : NotCalled(m)' <=> NotCalled(m)
      BY <2>1 DEF NotCalled
    <2> QED BY <1>0, <1>1, <2>1, <2>2, <2>3, TurnPlaces
  <1> QED BY <1>2, <1>3

\* What a run was handed goes into the session, or is lost.
LEMMA RunHandsOver ==
  ASSUME DeliveryTypeOK, Places, NEW r \in Runs, input' = [input EXCEPT ![r] = {}],
         UNCHANGED <<announced, queue, calls, dropped>>,
         \/ session' = session \cup input[r] /\ UNCHANGED lost
         \/ lost' = lost \cup input[r] /\ UNCHANGED session
  PROVE  \A n \in Notices : Place(n)'
  <1>0. input'[r] = {} /\ \A q \in Runs \ {r} : input'[q] = input[q]
    BY DEF DeliveryTypeOK, AgentTypeOK
  <1>1. ASSUME NEW n \in Notices, n \in input[r] PROVE Place(n)'
    <2>1. /\ n \in announced /\ ~ Settled(n) /\ NotQueued(n) /\ NotCalled(n)
          /\ \A q \in Runs : n \in input[q] => q = r
      BY <1>1, HolderRun DEF Places
    <2>2. n \in announced' /\ NotQueued(n)' /\ NotCalled(n)' /\ NotRunning(n)'
      BY <1>0, <2>1 DEF NotQueued, NotCalled, NotRunning
    <2>3. \/ n \in session' /\ n \notin lost' \cup dropped'
          \/ n \in lost' /\ n \notin session' \cup dropped'
      BY <1>1, <2>1 DEF Settled
    <2> QED BY <2>2, <2>3, IntoNobodys
  <1>2. ASSUME NEW n \in Notices, n \notin input[r] PROVE Place(n)'
    <2>1. Untouched(n)
      BY <1>0, <1>2 DEF Untouched
    <2> QED BY <2>1, UntouchedStays DEF Places
  <1> QED BY <1>1, <1>2

\* A run comes to a place where it holds nothing with its hands empty.
LEMMA HandedKept ==
  ASSUME DeliveryTypeOK, Handed, NEW r \in Runs, NEW a, NEW b, Go(r, a, b),
         UNCHANGED input \/ input' = [input EXCEPT ![r] = {}],
         \/ a \notin {"submitted", "called", "claimed"}
         \/ b \in {"submitted", "called", "claimed"}
         \/ input' = [input EXCEPT ![r] = {}]
  PROVE  Handed'
  <1>1. pc[r] = a /\ pc'[r] = b /\ \A q \in Runs \ {r} : pc'[q] = pc[q]
    BY DEF Go, DeliveryTypeOK, AgentTypeOK
  <1>2. /\ \A q \in Runs : input'[q] = {} \/ input'[q] = input[q]
        /\ input' = [input EXCEPT ![r] = {}] => input'[r] = {}
    BY DEF DeliveryTypeOK, AgentTypeOK
  <1> QED BY <1>1, <1>2 DEF Handed

LEMMA AgentStepPlace ==
  ASSUME DeliveryTypeOK, Places, NEW r \in Runs, AgentStep(r)
  PROVE  Places'
  <1>0. UNCHANGED <<announced, queue, calls, dropped>>
    BY DEF AgentStep, noticeVars
  <1>1. CASE Record(r) \/ SetUpFails(r)
    <2>1. /\ input' = [input EXCEPT ![r] = {}] /\ UNCHANGED seen
          /\ \/ session' = session \cup input[r] /\ UNCHANGED lost
             \/ lost' = lost \cup input[r] /\ UNCHANGED session
      BY <1>1 DEF Record, SetUpFails, agentVars
    <2>2. \A n \in Notices : Place(n)'
      BY <1>0, <2>1, RunHandsOver
    <2>3. PICK a, b : Go(r, a, b)
      BY <1>1 DEF Record, SetUpFails, Emit
    <2>4. Handed'
      BY <2>1, <2>3, HandedKept DEF Places
    <2> QED BY <2>1, <2>2, <2>4 DEF Places
  <1>2. CASE ~ Record(r) /\ ~ SetUpFails(r)
    <2>1. UNCHANGED <<input, session, lost>> /\ seen' \in {seen, seen \cup session}
      BY <1>2 DEF AgentStep, RunStep, Begin, Derive, ToolsDone, NoToolCall, Conclude,
                  RequestFails, Exhausted, LoopCancelled, Continue, Complete, Tell, Leave,
                  Release, Close, Progress, Move, agentVars
    <2>2. ASSUME NEW n \in Notices PROVE Place(n)'
      <3>1. Untouched(n)
        BY <1>0, <2>1 DEF Untouched
      <3> QED BY <3>1, UntouchedStays DEF Places
    <2>3. \/ Go(r, "called", "claimed")
          \/ \E a \in {"loop", "stepping", "deciding", "telling", "leaving", "releasing",
                       "over"} : \E b : Go(r, a, b)
      BY <1>2 DEF AgentStep, RunStep, Begin, Derive, ToolsDone, NoToolCall, Conclude,
                  RequestFails, Exhausted, LoopCancelled, Continue, Complete, Tell, Leave,
                  Release, Close, Progress, Move, Emit
    <2>4. Handed'
      BY <2>1, <2>3, HandedKept DEF Places
    <2>5. seen' \subseteq session'
      BY <2>1 DEF Places
    <2> QED BY <2>2, <2>4, <2>5 DEF Places
  <1> QED BY <1>1, <1>2

\* dropNoticeFor: the notice is taken back, its neighbours in the text are lost.
LEMMA DropPlaces ==
  ASSUME Places, NEW m, DropNoticeFor(m),
         UNCHANGED <<pc, input, session, seen, announced, calls>>
  PROVE  Places'
  <1> DEFINE S == UNION {e \in queue : m \in e}
  <1>0. /\ queue' = {e \in queue : m \notin e}
        /\ dropped' = dropped \cup (S \cap {m})
        /\ lost' = lost \cup (S \ {m})
    BY DEF DropNoticeFor
  <1>1. ASSUME NEW n \in Notices, n \in S PROVE Place(n)'
    <2>1. PICK e \in queue : m \in e /\ n \in e
      BY <1>1
    <2>2. /\ n \in announced /\ ~ Settled(n) /\ NotCalled(n) /\ NotRunning(n)
          /\ \A f \in queue : n \in f => f = e
      BY <2>1, HolderQueue DEF Places
    <2>3. n \in announced' /\ NotQueued(n)' /\ NotCalled(n)' /\ NotRunning(n)'
      BY <1>0, <2>1, <2>2 DEF NotQueued, NotCalled, NotRunning
    <2> HIDE DEF S
    <2>4. \/ n \in lost' /\ n \notin session' \cup dropped'
          \/ n \in dropped' /\ n \notin session' \cup lost'
      BY <1>0, <1>1, <2>2 DEF Settled
    <2> QED BY <2>3, <2>4, IntoNobodys
  <1>2. ASSUME NEW n \in Notices, n \notin S PROVE Place(n)'
    <2>1. \A e : (e \in queue' /\ n \in e) <=> (e \in queue /\ n \in e)
      BY <1>0, <1>2
    <2> HIDE DEF S
    <2>2. Untouched(n)
      BY <1>0, <1>2, <2>1 DEF Untouched
    <2> QED BY <2>2, UntouchedStays DEF Places
  <1> QED BY <1>1, <1>2 DEF Places, Handed

LEMMA StreamPlaces ==
  ASSUME DeliveryTypeOK, Places, NEW r \in Runs,
         Open(r) \/ Refuse(r) \/ HandleFirst(r) \/ Recycle(r)
  PROVE  Places'
  <1>1. CASE HandleFirst(r)
    BY <1>1, SamePlaces DEF HandleFirst, runVars, agentVars
  <1>2. CASE Refuse(r)
    <2>1. /\ input' = [input EXCEPT ![r] = {}]
          /\ lost' = lost \cup input[r]
          /\ UNCHANGED <<announced, queue, calls, dropped, session, seen>>
      BY <1>2 DEF Refuse, agentVars, noticeVars
    <2>2. \A n \in Notices : Place(n)'
      BY <2>1, RunHandsOver
    <2>3. Handed'
      BY <1>2, <2>1, HandedKept DEF Places, Refuse
    <2> QED BY <2>1, <2>2, <2>3 DEF Places
  <1>3. CASE Open(r) \/ Recycle(r)
    <2>1. UNCHANGED <<input, session, seen, lost, announced, queue, calls, dropped>>
      BY <1>3 DEF Open, Recycle, agentVars, noticeVars
    <2>2. ASSUME NEW n \in Notices PROVE Place(n)'
      <3>1. Untouched(n)
        BY <2>1 DEF Untouched
      <3> QED BY <3>1, UntouchedStays DEF Places
    <2>3. Handed'
      BY <1>3, <2>1, HandedKept DEF Places, Open, Recycle
    <2> QED BY <2>1, <2>2, <2>3 DEF Places
  <1> QED BY <1>1, <1>2, <1>3

LEMMA HandleFramePlaces ==
  ASSUME DeliveryTypeOK, Places, NEW r \in Runs, HandleFrame(r)
  PROVE  Places'
  <1>0. UNCHANGED <<session, seen>>
    BY DEF HandleFrame, agentVars
  <1>1. CASE Discard(r)
    BY <1>0, <1>1, SamePlaces DEF Discard, noticeVars
  <1>2. CASE Render(Head(frames[r]))
    <2>1. CASE DropNoticeFor(Head(frames[r]))
      BY <1>0, <1>2, <2>1, DropPlaces DEF Render
    <2>2. CASE UNCHANGED <<queue, dropped, lost>>
      BY <1>0, <1>2, <2>2, SamePlaces DEF Render
    <2> QED BY <1>2, <2>1, <2>2 DEF Render
  <1>3. CASE EndTurn
    <2>1. Wakeup(queue) /\ UNCHANGED <<announced, calls, dropped, lost>>
      BY <1>3 DEF EndTurn
    <2>2. \A n : NotCalled(n)' <=> NotCalled(n)
      BY <2>1 DEF NotCalled
    <2> QED BY <1>0, <2>1, <2>2, QueueAlone, WakeupPlaces
  <1> QED BY <1>1, <1>2, <1>3 DEF HandleFrame

LEMMA ExecPlaces ==
  ASSUME DeliveryTypeOK, Places, NEW c \in calls, Exec(c)
  PROVE  Places'
  <1> DEFINE ok == [c EXCEPT !.at = "ok"]
             failed == [c EXCEPT !.at = "failed"]
  <1>0. /\ c.at = "sent"
        /\ UNCHANGED <<pc, input, seen, lost, announced, queue, dropped>>
    BY DEF Exec, InjectMessage, runVars, agentVars
  <1>1. ok.ns = c.ns /\ ok.at = "ok" /\ failed.ns = c.ns /\ failed.at = "failed"
    BY DEF DeliveryTypeOK, Calls
  <1>2. CASE calls' = (calls \ {c}) \cup {ok} /\ session' = session \cup c.ns
    <2> HIDE DEF ok, failed
    <2>1. ASSUME NEW n \in Notices, n \in c.ns PROVE Place(n)'
      <3>1. /\ n \in announced /\ ~ Settled(n) /\ NotQueued(n) /\ NotRunning(n)
            /\ \A d \in calls : n \in d.ns /\ d.at # "ok" => d = c
        BY <1>0, <2>1, HolderCall DEF Places
      <3>2. n \in announced' /\ NotQueued(n)' /\ NotRunning(n)'
        BY <1>0, <3>1 DEF NotQueued, NotRunning
      <3>3. NotCalled(n)'
        BY <1>1, <1>2, <3>1 DEF NotCalled
      <3>4. n \in session' /\ n \notin lost' \cup dropped'
        BY <1>0, <1>2, <2>1, <3>1 DEF Settled
      <3> QED BY <3>2, <3>3, <3>4, IntoNobodys
    <2>2. ASSUME NEW n \in Notices, n \notin c.ns PROVE Place(n)'
      <3>1. Untouched(n)
        BY <1>0, <1>1, <1>2, <2>2 DEF Untouched
      <3> QED BY <3>1, UntouchedStays DEF Places
    <2> QED BY <1>0, <1>2, <2>1, <2>2 DEF Places, Handed
  <1>3. CASE calls' = (calls \ {c}) \cup {failed} /\ UNCHANGED session
    <2> HIDE DEF ok, failed
    <2>1. ASSUME NEW n \in Notices, n \in c.ns PROVE Place(n)'
      <3>1. /\ n \in announced /\ ~ Settled(n) /\ NotQueued(n) /\ NotRunning(n)
            /\ \A d \in calls : n \in d.ns /\ d.at # "ok" => d = c
        BY <1>0, <2>1, HolderCall DEF Places
      <3>2. n \in announced' /\ ~ Settled(n)' /\ NotQueued(n)' /\ NotRunning(n)'
        BY <1>0, <1>3, <3>1 DEF NotQueued, NotRunning, Settled
      <3>3. /\ failed \in calls' /\ n \in failed.ns /\ failed.at # "ok"
            /\ \A d \in calls' : n \in d.ns /\ d.at # "ok" => d = failed
        BY <1>1, <1>3, <2>1, <3>1
      <3> QED BY <3>2, <3>3, IntoCall
    <2>2. ASSUME NEW n \in Notices, n \notin c.ns PROVE Place(n)'
      <3>1. Untouched(n)
        BY <1>0, <1>1, <1>3, <2>2 DEF Untouched
      <3> QED BY <3>1, UntouchedStays DEF Places
    <2> QED BY <1>0, <1>3, <2>1, <2>2 DEF Places, Handed
  <1> QED BY <1>2, <1>3 DEF Exec, InjectMessage, agentVars

\* The result of a call comes back: what was refused is queued or lost.
LEMMA HandleCallPlaces ==
  ASSUME DeliveryTypeOK, Places, NEW c \in calls, HandleCall(c)
  PROVE  Places'
  <1>0. /\ c.at # "sent" /\ calls' = calls \ {c} /\ c.at \in {"ok", "failed"}
        /\ UNCHANGED <<announced, session, seen, dropped>>
    BY DEF HandleCall, DeliveryTypeOK, Calls, agentVars
  <1>1. ASSUME NEW n \in Notices, n \in c.ns, c.at = "failed"
        PROVE  /\ n \in announced' /\ ~ Settled(n) /\ NotQueued(n) /\ NotRunning(n)
               /\ NotCalled(n)'
    <2>1. /\ n \in announced /\ ~ Settled(n) /\ NotQueued(n) /\ NotRunning(n)
          /\ \A d \in calls : n \in d.ns /\ d.at # "ok" => d = c
      BY <1>1, HolderCall DEF Places
    <2> QED BY <1>0, <2>1 DEF NotCalled
  <1>2. ASSUME NEW n \in Notices, n \notin c.ns \/ c.at = "ok"
        PROVE  \A d : (d \in calls' /\ n \in d.ns /\ d.at # "ok")
                        <=> (d \in calls /\ n \in d.ns /\ d.at # "ok")
    BY <1>0, <1>2
  <1>3. CASE UserInjected(c)
    <2>0. UNCHANGED <<pc, input, queue>> /\ lost' = IF c.at = "failed" THEN lost \cup c.ns ELSE lost
      BY <1>3 DEF UserInjected
    <2>1. ASSUME NEW n \in Notices, n \in c.ns, c.at = "failed" PROVE Place(n)'
      <3>1. NotQueued(n)' /\ NotRunning(n)' /\ n \in announced' /\ NotCalled(n)'
        BY <1>1, <2>0, <2>1 DEF NotQueued, NotRunning
      <3>2. n \in lost' /\ n \notin session' \cup dropped'
        BY <1>0, <1>1, <2>0, <2>1 DEF Settled
      <3> QED BY <3>1, <3>2, IntoNobodys
    <2>2. ASSUME NEW n \in Notices, n \notin c.ns \/ c.at = "ok" PROVE Place(n)'
      <3>1. Untouched(n)
        BY <1>0, <1>2, <2>0, <2>2 DEF Untouched
      <3> QED BY <3>1, UntouchedStays DEF Places
    <2> QED BY <1>0, <2>0, <2>1, <2>2 DEF Places, Handed
  <1>4. CASE NoticeInjected(c)
    <2> DEFINE q == IF c.at = "failed" THEN queue \cup {c.ns} ELSE queue
    <2>0. UNCHANGED lost
      BY <1>4 DEF NoticeInjected
    <2>1. CASE queue' = q /\ UNCHANGED <<pc, input, working>>
      <3>1. ASSUME NEW n \in Notices, n \in c.ns, c.at = "failed" PROVE Place(n)'
        <4>1. n \in announced' /\ ~ Settled(n)' /\ NotCalled(n)' /\ NotRunning(n)'
          BY <1>0, <1>1, <2>0, <2>1, <3>1 DEF Settled, NotRunning
        <4>2. c.ns \in queue' /\ \A f \in queue' : n \in f => f = c.ns
          BY <1>1, <2>1, <3>1 DEF NotQueued
        <4> QED BY <3>1, <4>1, <4>2, IntoQueue
      <3>2. ASSUME NEW n \in Notices, n \notin c.ns \/ c.at = "ok" PROVE Place(n)'
        <4>1. \A e : (e \in queue' /\ n \in e) <=> (e \in queue /\ n \in e)
          BY <2>1, <3>2
        <4>2. Untouched(n)
          BY <1>0, <1>2, <2>0, <2>1, <3>2, <4>1 DEF Untouched
        <4> QED BY <4>2, UntouchedStays DEF Places
      <3> QED BY <1>0, <2>0, <2>1, <3>1, <3>2 DEF Places, Handed
    <2>2. CASE Wakeup(q)
      <3>1. /\ \A n \in Notices \cap UNION queue : /\ n \in announced /\ ~ Settled(n)
                                                   /\ NotRunning(n) /\ NotCalled(n)
            /\ \A n \in Notices \ UNION queue : NotQueued(n)
        BY QueueAlone
      <3>2. \A n : NotCalled(n) => NotCalled(n)'
        BY <1>0 DEF NotCalled
      <3>3. \A n : n \in UNION q <=> n \in UNION queue \/ (c.at = "failed" /\ n \in c.ns)
        BY <1>0
      <3>4. \A n \in Notices \cap UNION q : /\ n \in announced' /\ ~ Settled(n)
                                            /\ NotRunning(n) /\ NotCalled(n)'
        BY <1>0, <1>1, <3>1, <3>2, <3>3
      <3>5. \A n \in Notices \ UNION q :
              /\ NotQueued(n)
              /\ n \in announced' <=> n \in announced
              /\ \A d : (d \in calls' /\ n \in d.ns /\ d.at # "ok")
                          <=> (d \in calls /\ n \in d.ns /\ d.at # "ok")
        BY <1>0, <1>2, <3>1, <3>3
      <3> HIDE DEF q
      <3> QED BY <1>0, <2>0, <2>2, <3>4, <3>5, WakeupPlaces
    <2> QED BY <1>4, <2>1, <2>2 DEF NoticeInjected
  <1> QED BY <1>3, <1>4 DEF HandleCall

LEMMA NextPlaces ==
  ASSUME DeliveryTypeOK, Places, [Next]_vars
  PROVE  Places'
  <1>1. ASSUME NEW n \in Notices, Deliver(n) PROVE Places'
    BY <1>1, DeliverPlaces
  <1>2. ASSUME NEW r \in Runs, AgentStep(r) PROVE Places'
    BY <1>2, AgentStepPlace
  <1>3. ASSUME NEW r \in Runs, Open(r) \/ Refuse(r) \/ HandleFirst(r) \/ Recycle(r)
        PROVE  Places'
    BY <1>3, StreamPlaces
  <1>4. ASSUME NEW r \in Runs, HandleFrame(r) PROVE Places'
    BY <1>4, HandleFramePlaces
  <1>5. ASSUME NEW c \in calls, Exec(c) \/ HandleCall(c) PROVE Places'
    BY <1>5, ExecPlaces, HandleCallPlaces
  <1>6. CASE Enter
    BY <1>6, EnterPlaces
  <1>7. CASE Key \/ Interrupt \/ UNCHANGED vars
    BY <1>7, SamePlaces DEF Key, Interrupt, vars, runVars, agentVars, noticeVars
  <1> QED BY <1>1, <1>2, <1>3, <1>4, <1>5, <1>6, <1>7 DEF Next

LEMMA InitPlaces == Init => Places
  BY DEF Init, AgentInit, Places, Place, Unknown, Nobodys, Settled, Handed,
         InQueue, InCalls, InRuns

LEMMA PlacesHold == Spec => []Places
  BY InitPlaces, DeliveryTypesHold, NextPlaces, PTL DEF Spec

-----------------------------------------------------------------------------
\* The handlers of wakeup.go and the results of injections: a notice is never
\* in two hands, and never in none.
THEOREM NoticeInOnePlace == Spec => []OnePlace
  <1>1. ASSUME Places PROVE OnePlace
    <2> DEFINE settled(n) == {S \in {<<"session", session>>, <<"lost", lost>>,
                                     <<"dropped", dropped>>} : n \in S[2]}
    <2>1. ASSUME NEW n \in Notices
          PROVE  Cardinality(InQueue(n)) + Cardinality(InCalls(n))
                   + Cardinality(InRuns(n)) + Cardinality(settled(n))
                     = IF n \in announced THEN 1 ELSE 0
      <3>0. /\ Cardinality({}) = 0
            /\ \A x : Cardinality({x}) = 1
        BY FS_EmptySet, FS_Singleton
      <3>1. /\ ~ Settled(n) => settled(n) = {}
            /\ Accepted(n) => settled(n) = {<<"session", session>>}
            /\ Lost(n) => settled(n) = {<<"lost", lost>>}
            /\ Dropped(n) => settled(n) = {<<"dropped", dropped>>}
        BY DEF Settled, Accepted, Lost, Dropped
      <3> HIDE DEF settled
      <3>2. CASE Unknown(n)
        BY <3>0, <3>1, <3>2 DEF Unknown, Nobodys
      <3>3. CASE Queued(n)
        <4>1. PICK e \in queue : InQueue(n) = {e}
          BY <3>3 DEF Queued
        <4>2. Cardinality(InQueue(n)) = 1
          BY <3>0, <4>1
        <4> QED BY <3>0, <3>1, <3>3, <4>2 DEF Queued
      <3>4. CASE Called(n)
        <4>1. PICK c \in calls : InCalls(n) = {c}
          BY <3>4 DEF Called
        <4>2. Cardinality(InCalls(n)) = 1
          BY <3>0, <4>1
        <4> QED BY <3>0, <3>1, <3>4, <4>2 DEF Called
      <3>5. CASE Running(n)
        <4>1. PICK r \in Runs : InRuns(n) = {r}
          BY <3>5 DEF Running
        <4>2. Cardinality(InRuns(n)) = 1
          BY <3>0, <4>1
        <4> QED BY <3>0, <3>1, <3>5, <4>2 DEF Running
      <3>6. CASE Accepted(n) \/ Lost(n) \/ Dropped(n)
        <4>1. Cardinality(settled(n)) = 1
          BY <3>0, <3>1, <3>6
        <4>2. n \in announced /\ InQueue(n) = {} /\ InCalls(n) = {} /\ InRuns(n) = {}
          BY <3>6 DEF Accepted, Lost, Dropped, Nobodys
        <4> QED BY <3>0, <4>1, <4>2
      <3> QED BY <1>1, <3>2, <3>3, <3>4, <3>5, <3>6 DEF Places, Place
    <2> QED BY <2>1 DEF OnePlace, InQueue, InCalls, InRuns
  <1> QED BY <1>1, PlacesHold, PTL

\* wakeup.go: in an idle terminal without injections or starting runs, every
\* announced notice has arrived or was written off, or waits after an interrupt.
THEOREM NothingIsLeftBehind == Spec => []NothingLeftBehind
  <1>1. DeliveryTypeOK /\ Places /\ WaitsOnlyAfterInterrupt => NothingLeftBehind
    <2> SUFFICES ASSUME Places, WaitsOnlyAfterInterrupt, ~working, calls = {},
                        \A r \in Runs : pc[r] \notin {"submitted", "called", "claimed"},
                        DeliveryTypeOK, NEW n \in announced,
                        n \notin session \cup lost \cup dropped
                 PROVE  streamCancelled /\ n \in UNION queue
      BY DEF NothingLeftBehind
    <2>1. n \in Notices
      BY DEF DeliveryTypeOK
    <2>2. InCalls(n) = {} /\ InRuns(n) = {}
      BY DEF Places, Handed, InCalls, InRuns
    <2>3. Queued(n)
      BY <2>1, <2>2 DEF Places, Place, Unknown, Called, Running, Accepted, Lost, Dropped
    <2>4. PICK e \in queue : n \in e
      BY <2>3 DEF Queued, InQueue
    <2> QED BY <2>4 DEF WaitsOnlyAfterInterrupt
  <1> QED BY <1>1, DeliveryTypesHold, PlacesHold, IdleQueueIsEmpty, PTL

-----------------------------------------------------------------------------
\* The way of a notice is that of NoticeLifecycle.

AbstractStep == [Abstract!Next]_(Abstract!vars)

LEMMA Losing ==
  ASSUME NEW S, S \subseteq Notices, lost' = lost \cup S,
         \A n \in S : n \in announced /\ ~ Settled(n),
         UNCHANGED <<announced, session, seen, dropped>>
  PROVE  AbstractStep
  <1>1. S \subseteq Abstract!Waiting
    BY DEF Abstract!Waiting, Settled
  <1>2. Abstract!Lose(S) /\ S \in SUBSET Notices
    BY <1>1 DEF Abstract!Lose
  <1> QED BY <1>2 DEF AbstractStep, Abstract!Next

LEMMA Accepting ==
  ASSUME NEW S, S \subseteq Notices, session' = session \cup S,
         \A n \in S : n \in announced /\ ~ Settled(n),
         UNCHANGED <<announced, seen, lost, dropped>>
  PROVE  AbstractStep
  <1>1. S \subseteq Abstract!Waiting
    BY DEF Abstract!Waiting, Settled
  <1>2. Abstract!Accept(S) /\ S \in SUBSET Notices
    BY <1>1 DEF Abstract!Accept
  <1> QED BY <1>2 DEF AbstractStep, Abstract!Next

LEMMA Resting ==
  ASSUME UNCHANGED <<announced, session, seen, lost, dropped>>
  PROVE  AbstractStep
  BY DEF AbstractStep, Abstract!vars

\* What a run holds is waiting.
LEMMA RunWaits ==
  ASSUME DeliveryTypeOK, Places, NEW r \in Runs
  PROVE  /\ input[r] \subseteq Notices
         /\ \A n \in input[r] : n \in announced /\ ~ Settled(n)
  <1>1. input[r] \subseteq Notices
    BY DEF DeliveryTypeOK, AgentTypeOK
  <1> QED BY <1>1, HolderRun DEF Places

LEMMA CallWaits ==
  ASSUME DeliveryTypeOK, Places, NEW c \in calls, c.at # "ok"
  PROVE  /\ c.ns \subseteq Notices
         /\ \A n \in c.ns : n \in announced /\ ~ Settled(n)
  <1>1. c.ns \subseteq Notices
    BY DEF DeliveryTypeOK, Calls
  <1> QED BY <1>1, HolderCall DEF Places

LEMMA AgentStepAbstract ==
  ASSUME DeliveryTypeOK, Places, NEW r \in Runs, AgentStep(r)
  PROVE  AbstractStep
  <1>0. UNCHANGED <<announced, dropped>>
    BY DEF AgentStep, noticeVars
  <1>1. CASE Record(r)
    <2>1. session' = session \cup input[r] /\ UNCHANGED <<seen, lost>>
      BY <1>1 DEF Record
    <2> QED BY <1>0, <2>1, RunWaits, Accepting
  <1>2. CASE SetUpFails(r)
    <2>1. lost' = lost \cup input[r] /\ UNCHANGED <<session, seen>>
      BY <1>2 DEF SetUpFails, agentVars
    <2> QED BY <1>0, <2>1, RunWaits, Losing
  <1>3. CASE Derive(r)
    <2>1. seen' = session /\ UNCHANGED <<session, lost>>
      BY <1>3 DEF Derive, Places
    <2>2. Abstract!Show
      BY <1>0, <2>1 DEF Abstract!Show
    <2> QED BY <2>2 DEF AbstractStep, Abstract!Next
  <1>4. CASE ~ Record(r) /\ ~ SetUpFails(r) /\ ~ Derive(r)
    <2>1. UNCHANGED <<session, seen, lost>>
      BY <1>4 DEF AgentStep, RunStep, Begin, ToolsDone, NoToolCall, Conclude,
                  RequestFails, Exhausted, LoopCancelled, Continue, Complete, Tell, Leave,
                  Release, Close, Progress, Move, agentVars
    <2> QED BY <1>0, <2>1, Resting
  <1> QED BY <1>1, <1>2, <1>3, <1>4

LEMMA DropAbstract ==
  ASSUME DeliveryTypeOK, Places, NEW m \in Notices, DropNoticeFor(m),
         UNCHANGED <<announced, session, seen>>
  PROVE  AbstractStep
  <1> DEFINE S == UNION {e \in queue : m \in e}
  <1>1. /\ dropped' = dropped \cup (S \cap {m})
        /\ lost' = lost \cup (S \ {m})
    BY DEF DropNoticeFor
  <1>2. /\ S \subseteq Notices
        /\ \A n \in S : n \in announced /\ ~ Settled(n)
    BY QueueAlone DEF DeliveryTypeOK
  <1>3. m \in S \/ S = {}
    OBVIOUS
  <1> HIDE DEF S
  <1>4. CASE m \in S
    <2>1. S \subseteq Abstract!Waiting
      BY <1>2 DEF Abstract!Waiting, Settled
    <2>2. Abstract!Drop(m, S)
      BY <1>1, <1>4, <2>1 DEF Abstract!Drop
    <2> QED BY <1>2, <2>2 DEF AbstractStep, Abstract!Next
  <1>5. CASE S = {}
    BY <1>1, <1>5, Resting
  <1> QED BY <1>3, <1>4, <1>5

LEMMA NextAbstract ==
  ASSUME DeliveryTypeOK, Places, [Next]_vars
  PROVE  AbstractStep
  <1>1. ASSUME NEW n \in Notices, Deliver(n) PROVE AbstractStep
    <2>1. Abstract!Announce(n)
      BY <1>1 DEF Deliver, Abstract!Announce, agentVars
    <2> QED BY <2>1 DEF AbstractStep, Abstract!Next
  <1>2. ASSUME NEW r \in Runs, AgentStep(r) PROVE AbstractStep
    BY <1>2, AgentStepAbstract
  <1>3. ASSUME NEW r \in Runs, Open(r) \/ HandleFirst(r) \/ Recycle(r) PROVE AbstractStep
    BY <1>3, Resting DEF Open, HandleFirst, Recycle, agentVars, noticeVars
  <1>4. ASSUME NEW r \in Runs, Refuse(r) PROVE AbstractStep
    <2>1. lost' = lost \cup input[r] /\ UNCHANGED <<announced, session, seen, dropped>>
      BY <1>4 DEF Refuse, agentVars, noticeVars
    <2> QED BY <2>1, RunWaits, Losing
  <1>5. ASSUME NEW r \in Runs, HandleFrame(r) PROVE AbstractStep
    <2>0. UNCHANGED <<announced, session, seen>>
      BY <1>5 DEF HandleFrame, Discard, Render, EndTurn, agentVars, noticeVars
    <2>1. CASE UNCHANGED <<lost, dropped>>
      BY <2>0, <2>1, Resting
    <2>2. CASE \E m \in Notices : DropNoticeFor(m)
      BY <2>0, <2>2, DropAbstract
    <2> QED BY <1>5, <2>1, <2>2 DEF HandleFrame, Discard, Render, EndTurn, noticeVars
  <1>6. ASSUME NEW c \in calls, Exec(c) PROVE AbstractStep
    <2>1. c.at # "ok" /\ UNCHANGED <<announced, seen, lost, dropped>>
      BY <1>6 DEF Exec, InjectMessage, agentVars
    <2>2. session' = session \cup c.ns \/ UNCHANGED session
      BY <1>6 DEF Exec, InjectMessage, agentVars
    <2> QED BY <2>1, <2>2, CallWaits, Accepting, Resting
  <1>7. ASSUME NEW c \in calls, HandleCall(c) PROVE AbstractStep
    <2>1. UNCHANGED <<announced, session, seen, dropped>>
      BY <1>7 DEF HandleCall, agentVars
    <2>2. UNCHANGED lost \/ (c.at = "failed" /\ lost' = lost \cup c.ns)
      BY <1>7 DEF HandleCall, NoticeInjected, UserInjected
    <2> QED BY <2>1, <2>2, CallWaits, Losing, Resting
  <1>8. CASE Enter \/ Key \/ Interrupt \/ UNCHANGED vars
    BY <1>8, Resting DEF Enter, Key, Interrupt, vars, agentVars, noticeVars
  <1> QED BY <1>1, <1>2, <1>3, <1>4, <1>5, <1>6, <1>7, <1>8 DEF Next

\* wakeup.go, InjectMessage and dropNoticeFor: whatever a notice goes through,
\* it is announced once, and accepted, dropped or lost at most once.
THEOREM DeliveryImplementsLifecycle == Spec => ImplementsLifecycle
  <1>1. Init => Abstract!Init
    BY DEF Init, AgentInit, Abstract!Init
  <1>2. DeliveryTypeOK /\ Places /\ [Next]_vars => [Abstract!Next]_(Abstract!vars)
    BY NextAbstract DEF AbstractStep
  <1> QED BY <1>1, <1>2, DeliveryTypesHold, PlacesHold, PTL
          DEF Spec, ImplementsLifecycle, Abstract!Spec
=============================================================================

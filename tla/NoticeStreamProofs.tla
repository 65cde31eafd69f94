-------------------------- MODULE NoticeStreamProofs --------------------------
(* Proofs about the streams of NoticeDelivery: each is read by one reader  *)
(* at most, and by one as long as its run has something to say.            *)
EXTENDS NoticeDeliveryProofs

-----------------------------------------------------------------------------
\* One reader per stream.

\* An open stream is counted as being read, so pumpStreamIfOpen finds nothing
\* to do; only a first frame, or the error in its place, begins a read.
Reads ==
  /\ streamCh # NoRun => pumpInflight > 0
  /\ streamCancelled => streamCh = NoRun
  /\ \A r \in Runs :
       /\ readers[r] <= 1
       /\ pc[r] \in {"free", "submitted"} => r \notin opened
       /\ pc[r] \in {"free", "submitted"} \/ r \in opened => readers[r] = 0

LEMMA PumpUnneeded ==
  ASSUME Reads, PumpIfOpen
  PROVE  UNCHANGED <<pumpInflight, readers>>
  BY DEF Reads, PumpIfOpen

\* A run that has been called is not taken for a new one again.
Later == \A q \in Runs : pc'[q] \in {"free", "submitted"} => pc[q] \in {"free", "submitted"}

LEMMA TurnLater ==
  ASSUME DeliveryTypeOK, Starts
  PROVE  Later
  <1>1. Early
    BY StartsEarly
  <1> QED BY <1>1 DEF Early, Later

LEMMA AgentStepLater ==
  ASSUME DeliveryTypeOK, NEW r \in Runs, AgentStep(r)
  PROVE  Later
  <1>1. \E a, b \in Stages : b \notin {"free", "submitted"} /\ Go(r, a, b)
    BY DEF AgentStep, RunStep, Begin, SetUpFails, Record, Derive, ToolsDone, NoToolCall,
           Conclude, RequestFails, Exhausted, LoopCancelled, Continue, Complete, Tell,
           Leave, Release, Close, Progress, Move, Emit, Stages
  <1> QED BY <1>1 DEF Go, Later, DeliveryTypeOK, AgentTypeOK

\* Nothing of the streams changes, or reads come to an end.
LEMMA SameReads ==
  ASSUME DeliveryTypeOK, Reads, Later,
         UNCHANGED <<streamCancelled, streamCh, pumpInflight, opened, readers>>
  PROVE  Reads'
  BY DEF Reads, Later

LEMMA ReadEnds ==
  ASSUME DeliveryTypeOK, NEW r \in Runs, readers[r] > 0,
         \/ UNCHANGED readers
         \/ readers' = [readers EXCEPT ![r] = @ - 1]
  PROVE  \A q \in Runs : readers'[q] \in Nat /\ readers'[q] <= readers[q]
  BY DEF DeliveryTypeOK

LEMMA HandleFrameReads ==
  ASSUME DeliveryTypeOK, Reads, NEW r \in Runs, HandleFrame(r)
  PROVE  Reads'
  <1>1. readers[r] > 0 /\ UNCHANGED <<opened, streamCancelled>>
    BY DEF HandleFrame
  <1>2. \/ Discard(r)
        \/ Render(Head(frames[r]))
        \/ EndTurn /\ readers' = [readers EXCEPT ![r] = @ - 1]
    BY DEF HandleFrame
  <1>3. \A q \in Runs : readers'[q] \in Nat /\ readers'[q] <= readers[q]
    BY <1>1, <1>2, ReadEnds DEF Discard, Render
  <1>4. Later
    BY <1>2, WakeupStarts, TurnLater DEF Discard, Render, EndTurn, Later
  <1>5. streamCh' # NoRun => pumpInflight' > 0
    BY <1>2 DEF Discard, Render, EndTurn, Inflight, Reads, DeliveryTypeOK
  <1>6. streamCancelled' => streamCh' = NoRun
    BY <1>1, <1>2 DEF Discard, Render, EndTurn, Reads
  <1>7. \A q \in Runs : readers[q] = 0 => readers'[q] = 0
    BY <1>3 DEF DeliveryTypeOK
  <1>8. \A q \in Runs : readers'[q] <= 1
    <2> SUFFICES ASSUME NEW q \in Runs PROVE readers'[q] <= 1
      OBVIOUS
    <2>1. readers[q] \in Nat /\ readers[q] <= 1
      BY DEF Reads, DeliveryTypeOK
    <2> QED BY <1>3, <2>1
  <1> QED BY <1>1, <1>4, <1>5, <1>6, <1>7, <1>8 DEF Reads, Later

LEMMA NextReads ==
  ASSUME DeliveryTypeOK, Reads, [Next]_vars
  PROVE  Reads'
  <1> DEFINE Same == UNCHANGED <<streamCancelled, streamCh, pumpInflight, opened, readers>>
  <1>0. /\ pc \in [Runs -> Stages] /\ readers \in [Runs -> Nat] /\ pumpInflight \in Nat
        /\ NoRun \notin Runs
    BY AgentAssumption DEF DeliveryTypeOK, AgentTypeOK
  <1>1. ASSUME NEW n \in Notices, Deliver(n) PROVE Reads'
    <2>1. Starts
      BY <1>1, WakeupStarts DEF Deliver, Starts
    <2> QED BY <1>1, <2>1, TurnLater, SameReads DEF Deliver, streamVars
  <1>2. ASSUME NEW r \in Runs, AgentStep(r) PROVE Reads'
    BY <1>2, AgentStepLater, SameReads DEF AgentStep, streamVars
  <1>3. ASSUME NEW r \in Runs, Open(r) PROVE Reads'
    <2>1. pc[r] = "submitted" /\ pc'[r] = "called" /\ \A q \in Runs \ {r} : pc'[q] = pc[q]
      BY <1>0, <1>3 DEF Open, Go
    <2> QED BY <1>3, <2>1 DEF Open, Reads
  <1>4. ASSUME NEW r \in Runs, Refuse(r) PROVE Reads'
    <2>1. pc[r] = "submitted" /\ pc'[r] = "closed" /\ \A q \in Runs \ {r} : pc'[q] = pc[q]
      BY <1>0, <1>4 DEF Refuse, Go
    <2>2. readers'[r] = 1 /\ \A q \in Runs \ {r} : readers'[q] = readers[q]
      BY <1>0, <1>4, <2>1 DEF Refuse, Reads
    <2> QED BY <1>4, <2>1, <2>2 DEF Refuse, Reads
  <1>5. ASSUME NEW r \in Runs, HandleFirst(r) PROVE Reads'
    <2>1. readers'[r] = 1 /\ \A q \in Runs \ {r} : readers'[q] = readers[q]
      BY <1>0, <1>5 DEF HandleFirst, Reads
    <2>2. pumpInflight' > 0
      BY <1>0, <1>5 DEF HandleFirst, Inflight
    <2>3. pc[r] \notin {"free", "submitted"} /\ UNCHANGED pc
      BY <1>5 DEF HandleFirst, Reads, runVars
    <2> QED BY <1>5, <2>1, <2>2, <2>3 DEF HandleFirst, Reads
  <1>6. ASSUME NEW r \in Runs, HandleFrame(r) PROVE Reads'
    BY <1>6, HandleFrameReads
  <1>7. ASSUME NEW r \in Runs, Recycle(r) PROVE Reads'
    <2>1. pc'[r] = "free" /\ \A q \in Runs \ {r} : pc'[q] = pc[q]
      BY <1>0, <1>7 DEF Recycle, Go
    <2>2. r \notin opened /\ readers[r] = 0 /\ Same
      BY <1>7 DEF Recycle
    <2> QED BY <2>1, <2>2 DEF Reads
  <1>8. ASSUME NEW c \in calls, Exec(c) PROVE Reads'
    <2>1. UNCHANGED pc /\ Same
      BY <1>8 DEF Exec, InjectMessage, runVars, streamVars
    <2> QED BY <2>1, SameReads DEF Later
  <1>9. ASSUME NEW c \in calls, HandleCall(c) PROVE Reads'
    <2>1. UNCHANGED <<pumpInflight, readers>>
      BY <1>9, PumpUnneeded DEF HandleCall, NoticeInjected, UserInjected
    <2>2. Starts
      BY <1>9, WakeupStarts DEF HandleCall, NoticeInjected, UserInjected, Starts
    <2> QED BY <1>9, <2>1, <2>2, TurnLater, SameReads DEF HandleCall
  <1>10. ASSUME Enter PROVE Reads'
    <2>1. UNCHANGED <<pumpInflight, readers>>
      BY <1>10, PumpUnneeded DEF Enter
    <2>2. Starts
      <3>1. CASE UNCHANGED pc
        BY <3>1 DEF Starts
      <3>2. CASE StartTurn(UNION queue)
        BY <3>2, StartTurnRun DEF Starts
      <3> QED BY <1>10, <3>1, <3>2 DEF Enter
    <2> QED BY <1>10, <2>1, <2>2, TurnLater, SameReads DEF Enter
  <1>11. ASSUME Key PROVE Reads'
    <2>1. UNCHANGED pc /\ Same
      BY <1>11, PumpUnneeded DEF Key, runVars
    <2> QED BY <2>1, SameReads DEF Later
  <1>12. ASSUME Interrupt PROVE Reads'
    BY <1>12 DEF Interrupt, Reads
  <1>13. ASSUME UNCHANGED vars PROVE Reads'
    <2>1. UNCHANGED pc /\ Same
      BY <1>13 DEF vars, runVars, streamVars
    <2> QED BY <2>1, SameReads DEF Later
  <1> QED
    BY <1>1, <1>2, <1>3, <1>4, <1>5, <1>6, <1>7, <1>8, <1>9, <1>10, <1>11, <1>12, <1>13
    DEF Next

LEMMA ReadsHold == Spec => []Reads
  <1>1. Init => Reads
    BY DEF Init, AgentInit, Reads
  <1> QED BY <1>1, DeliveryTypesHold, NextReads, PTL DEF Spec

\* pumpStream, pumpInflight, interruptTurn: a stream has one consumer, also when
\* interrupts have set the count of reads back while reads are under way.
THEOREM OneConsumer == Spec => []SingleReader
  <1>1. Reads => SingleReader
    BY DEF Reads, SingleReader
  <1> QED BY <1>1, ReadsHold, PTL

-----------------------------------------------------------------------------
\* Runs are read.

\* The run has a frame to send, and its caller still wants it.
Speaks(r) == Unfinished(r) /\ gone[r] = "no"

\* Of a run that speaks the end has not come, and its frames are not discarded.
Heard(r) ==
  /\ r \in opened \/ readers[r] > 0
  /\ readers[r] > 0 => ~streamCancelled
  /\ NoEnd(r)

\* The turn that can be cancelled is the one that is being read.
Cancellable == \A r \in Runs : Unfinished(r) /\ readers[r] > 0 => turnCancel = r

\* A run that has not been called has no frames, and cannot be cancelled.
Uncalled ==
  \A r \in Runs : /\ pc[r] \in {"free", "submitted"} => frames[r] = <<>> /\ turnCancel # r
                  /\ pc[r] = "stuck" => gone[r] # "no"

AllHeard ==
  /\ Uncalled
  /\ interrupts = 0 => Cancellable
  /\ interrupts <= 1 => \A r \in Runs : Speaks(r) => Heard(r)

\* A turn is started, or none: nothing speaks that did not.
LEMMA TurnHeard ==
  ASSUME DeliveryTypeOK, Reads, AllHeard, Starts,
         UNCHANGED <<told, gone, frames, streamCancelled, turnCancel, opened, readers,
                     interrupts>>
  PROVE  AllHeard'
  <1>0. pc \in [Runs -> Stages]
    BY DEF DeliveryTypeOK, AgentTypeOK
  <1>1. \A q \in Runs : pc'[q] = pc[q] \/ (pc[q] = "free" /\ pc'[q] = "submitted")
    BY <1>0 DEF Starts, Go
  <1>2. \A q \in Runs : Unfinished(q)' <=> Unfinished(q)
    BY <1>1 DEF Unfinished
  <1>3. \A q \in Runs : (NoEnd(q)' <=> NoEnd(q)) /\ (Speaks(q)' <=> Speaks(q))
    BY <1>2 DEF NoEnd, Speaks
  <1>4. \A q \in Runs : Heard(q)' <=> Heard(q)
    BY <1>3 DEF Heard
  <1>5. Uncalled'
    BY <1>1 DEF AllHeard, Uncalled
  <1>6. Cancellable' <=> Cancellable
    BY <1>2 DEF Cancellable
  <1> QED BY <1>3, <1>4, <1>5, <1>6 DEF AllHeard

\* What a step of the agent leaves alone, whether or not the caller is there.
LEMMA AgentStepAlone ==
  ASSUME DeliveryTypeOK, NEW r \in Runs, AgentStep(r)
  PROVE  /\ pc'[r] \notin {"free", "submitted"}
         /\ \A q \in Runs \ {r} : /\ pc'[q] = pc[q] /\ told'[q] = told[q]
                                  /\ frames'[q] = frames[q] /\ gone'[q] = gone[q]
         /\ gone[r] # "no" \/ pc'[r] = "stuck" => gone'[r] # "no"
         /\ UNCHANGED streamVars
  <1>0. /\ pc \in [Runs -> Stages] /\ told \in [Runs -> BOOLEAN]
        /\ frames \in [Runs -> Seq(Frames)] /\ gone \in [Runs -> {"no", "cancelled", "left"}]
    BY DEF DeliveryTypeOK, AgentTypeOK
  <1> DEFINE Conclusion ==
         /\ pc'[r] \notin {"free", "submitted"}
         /\ \A q \in Runs \ {r} : /\ pc'[q] = pc[q] /\ told'[q] = told[q]
                                  /\ frames'[q] = frames[q] /\ gone'[q] = gone[q]
         /\ gone[r] # "no" \/ pc'[r] = "stuck" => gone'[r] # "no"
         Calm == {"claimed", "loop", "stepping", "deciding", "telling", "leaving",
                  "releasing", "over", "closed"}
  <1>1. ASSUME NEW a, NEW b \in Calm, Go(r, a, b), UNCHANGED <<told, frames, gone>>
        PROVE  Conclusion
    BY <1>0, <1>1 DEF Go
  <1>2. ASSUME NEW f, NEW a, NEW b \in Calm, Emit(r, f, a, b),
               told' = told \/ told' = [told EXCEPT ![r] = TRUE]
        PROVE  Conclusion
    <2>1. /\ frames' = frames \/ frames' = [frames EXCEPT ![r] = Append(@, f)]
          /\ gone' = gone \/ (gone[r] = "cancelled" /\ gone' = [gone EXCEPT ![r] = "left"])
          /\ Go(r, a, b) \/ (Go(r, a, "stuck") /\ gone[r] = "left" /\ gone' = gone)
      BY <1>2 DEF Emit
    <2>2. /\ \A q \in Runs \ {r} : frames'[q] = frames[q] /\ told'[q] = told[q]
          /\ \A q \in Runs \ {r} : gone'[q] = gone[q]
          /\ gone[r] # "no" => gone'[r] # "no"
      BY <1>0, <1>2, <2>1
    <2>3. \A q \in Runs \ {r} : pc'[q] = pc[q]
      BY <1>0, <2>1 DEF Go
    <2>4. pc'[r] = b \/ (pc'[r] = "stuck" /\ gone[r] = "left" /\ gone' = gone)
      BY <1>0, <2>1 DEF Go
    <2> QED BY <2>2, <2>3, <2>4
  <1>3. ASSUME Tell(r) PROVE Conclusion
    <2>1. Emit(r, "end", "telling", "leaving") /\ told' = [told EXCEPT ![r] = TRUE]
      BY <1>3 DEF Tell
    <2>2. "leaving" \in Calm
      OBVIOUS
    <2> HIDE DEF Conclusion, Calm
    <2> QED BY <1>2, <2>1, <2>2
  <1>4. ASSUME Close(r) PROVE Conclusion
    <2>1. Emit(r, "end", "over", "closed") /\ told' = told
      BY <1>4 DEF Close
    <2>2. "closed" \in Calm
      OBVIOUS
    <2> HIDE DEF Conclusion, Calm
    <2> QED BY <1>2, <2>1, <2>2
  <1>5. ASSUME NEW f, Progress(r, f) PROVE Conclusion
    <2>1. Emit(r, f, "stepping", "stepping") /\ told' = told
      BY <1>5 DEF Progress
    <2>2. "stepping" \in Calm
      OBVIOUS
    <2> HIDE DEF Conclusion, Calm
    <2> QED BY <1>2, <2>1, <2>2
  <1>6. ASSUME Record(r) \/ Continue(r) PROVE Conclusion
    <2>1. PICK a : Emit(r, "quiet", a, "loop") /\ told' = told
      BY <1>6 DEF Record, Continue
    <2>2. "loop" \in Calm
      OBVIOUS
    <2> HIDE DEF Conclusion, Calm
    <2> QED BY <1>2, <2>1, <2>2
  <1>7. ASSUME RunStep(r), ~ Tell(r), ~ Close(r), ~ Record(r), ~ Continue(r)
        PROVE  Conclusion
    <2>1. UNCHANGED <<told, frames, gone>>
      BY <1>7 DEF RunStep, Begin, SetUpFails, Derive, ToolsDone, NoToolCall,
                  Conclude, RequestFails, Exhausted, LoopCancelled, Complete,
                  Leave, Release, Move
    <2>2. \E a : \E b \in Calm : Go(r, a, b)
      BY <1>7 DEF RunStep, Begin, SetUpFails, Derive, ToolsDone, NoToolCall,
                  Conclude, RequestFails, Exhausted, LoopCancelled, Complete,
                  Leave, Release, Move
    <2>3. PICK a : \E b \in Calm : Go(r, a, b)
      BY <2>2
    <2> HIDE DEF Conclusion, Calm
    <2> QED BY <1>1, <2>1, <2>3
  <1>8. Conclusion
    BY <1>3, <1>4, <1>5, <1>6, <1>7 DEF AgentStep
  <1> QED BY <1>8 DEF AgentStep

LEMMA AgentStepHeard ==
  ASSUME DeliveryTypeOK, Reads, OneTurn, AllHeard, NEW r \in Runs, AgentStep(r)
  PROVE  AllHeard'
  <1>1. /\ pc'[r] \notin {"free", "submitted"}
        /\ \A q \in Runs \ {r} : /\ pc'[q] = pc[q] /\ told'[q] = told[q]
                                 /\ frames'[q] = frames[q] /\ gone'[q] = gone[q]
        /\ gone[r] # "no" \/ pc'[r] = "stuck" => gone'[r] # "no"
        /\ UNCHANGED <<streamCancelled, turnCancel, opened, readers, interrupts>>
    BY AgentStepAlone DEF streamVars
  <1>2. gone[r] = "no" => (Unfinished(r)' => Unfinished(r) /\ (NoEnd(r) => NoEnd(r)'))
    BY AgentStepPlaces
  <1>3. Uncalled'
    BY <1>1 DEF AllHeard, Uncalled
  <1>4. \A q \in Runs \ {r} : /\ Unfinished(q)' <=> Unfinished(q)
                              /\ NoEnd(q)' <=> NoEnd(q)
    BY <1>1 DEF Unfinished, NoEnd
  <1>5. interrupts' = 0 => Cancellable'
    <2> SUFFICES ASSUME interrupts = 0, NEW q \in Runs, Unfinished(q)', readers'[q] > 0
                 PROVE  turnCancel' = q
      BY <1>1 DEF Cancellable
    <2>1. gone[r] = "no"
      BY DEF OneTurn, OnStage
    <2>2. Unfinished(q)
      BY <1>2, <1>4, <2>1
    <2> QED BY <1>1, <2>2 DEF AllHeard, Cancellable
  <1>6. ASSUME interrupts' <= 1, NEW q \in Runs, Speaks(q)' PROVE Heard(q)'
    <2>1. Speaks(q) /\ (NoEnd(q) => NoEnd(q)')
      <3>1. CASE q = r
        BY <1>1, <1>2, <1>6, <3>1 DEF Speaks
      <3>2. CASE q # r
        BY <1>1, <1>4, <1>6, <3>2 DEF Speaks
      <3> QED BY <3>1, <3>2
    <2>2. Heard(q)
      BY <1>1, <1>6, <2>1 DEF AllHeard
    <2> QED BY <1>1, <2>1, <2>2 DEF Heard
  <1> QED BY <1>3, <1>5, <1>6 DEF AllHeard

\* The stream of a run is opened, refused or first handled, or its identity is
\* given back.
LEMMA StreamHeard ==
  ASSUME DeliveryTypeOK, Reads, OneTurn, AllHeard, NEW r \in Runs,
         Open(r) \/ Refuse(r) \/ HandleFirst(r) \/ Recycle(r)
  PROVE  AllHeard'
  <1>0. /\ pc \in [Runs -> Stages] /\ readers \in [Runs -> Nat]
        /\ told \in [Runs -> BOOLEAN] /\ frames \in [Runs -> Seq(Frames)]
        /\ gone \in [Runs -> {"no", "cancelled", "left"}]
        /\ NoRun \notin Runs
    BY AgentAssumption DEF DeliveryTypeOK, AgentTypeOK
  <1>1. CASE Open(r)
    <2>1. /\ pc[r] = "submitted" /\ pc'[r] = "called" /\ \A q \in Runs \ {r} : pc'[q] = pc[q]
          /\ opened' = opened \cup {r}
          /\ UNCHANGED <<told, gone, frames, streamCancelled, turnCancel, readers, interrupts>>
      BY <1>0, <1>1 DEF Open, Go
    <2>2. readers[r] = 0 /\ frames[r] = <<>>
      BY <2>1 DEF Reads, AllHeard, Uncalled
    <2>3. \A q \in Runs : NoEnd(q)' <=> NoEnd(q)
      BY <2>1 DEF NoEnd
    <2>4. \A q \in Runs \ {r} : (Unfinished(q)' <=> Unfinished(q)) /\ (Speaks(q)' <=> Speaks(q))
      BY <2>1 DEF Unfinished, Speaks
    <2>5. Uncalled'
      BY <2>1 DEF AllHeard, Uncalled
    <2>6. Cancellable => Cancellable'
      BY <2>1, <2>2, <2>4 DEF Cancellable
    <2>7. Heard(r)'
      BY <2>1, <2>2 DEF Heard, NoEnd
    <2>8. \A q \in Runs \ {r} : Heard(q) => Heard(q)'
      BY <2>1, <2>3 DEF Heard
    <2> QED BY <2>1, <2>4, <2>5, <2>6, <2>7, <2>8 DEF AllHeard
  <1>2. CASE Refuse(r)
    <2>1. /\ pc[r] = "submitted" /\ pc'[r] = "closed" /\ \A q \in Runs \ {r} : pc'[q] = pc[q]
          /\ \A q \in Runs \ {r} : readers'[q] = readers[q]
          /\ UNCHANGED <<told, gone, frames, streamCancelled, turnCancel, opened, interrupts>>
      BY <1>0, <1>2 DEF Refuse, Go
    <2>2. ~ Unfinished(r)'
      BY <2>1 DEF Unfinished
    <2>3. \A q \in Runs \ {r} : /\ Unfinished(q)' <=> Unfinished(q)
                                /\ Speaks(q)' <=> Speaks(q)
                                /\ Heard(q)' <=> Heard(q)
      BY <2>1 DEF Unfinished, Speaks, Heard, NoEnd
    <2>4. Uncalled'
      BY <2>1 DEF AllHeard, Uncalled
    <2>5. Cancellable => Cancellable'
      BY <2>1, <2>2, <2>3 DEF Cancellable
    <2> QED BY <2>1, <2>2, <2>3, <2>4, <2>5 DEF AllHeard, Speaks
  <1>3. CASE HandleFirst(r)
    <2>1. /\ r \in opened /\ opened' = opened \ {r}
          /\ readers'[r] = readers[r] + 1 /\ \A q \in Runs \ {r} : readers'[q] = readers[q]
          /\ ~streamCancelled' /\ turnCancel' = r
          /\ UNCHANGED <<pc, told, gone, frames, interrupts>>
      BY <1>0, <1>3 DEF HandleFirst, runVars
    <2>2. \A q \in Runs : /\ Unfinished(q)' <=> Unfinished(q)
                          /\ Speaks(q)' <=> Speaks(q)
                          /\ NoEnd(q)' <=> NoEnd(q)
      BY <2>1 DEF Unfinished, Speaks, NoEnd
    <2>3. Uncalled'
      <3>1. pc[r] \notin {"free", "submitted"}
        BY <2>1 DEF Reads
      <3> QED BY <2>1, <3>1 DEF AllHeard, Uncalled
    <2>4. interrupts' = 0 => Cancellable'
      <3> SUFFICES ASSUME interrupts = 0, NEW q \in Runs, Unfinished(q), readers'[q] > 0, q # r
                   PROVE  FALSE
        BY <2>1, <2>2 DEF Cancellable
      <3>1. Awaited(q) /\ Awaited(r)
        BY <2>1 DEF Awaited
      <3> QED BY <3>1 DEF OneTurn, Streams
    <2>5. \A q \in Runs : Heard(q) => Heard(q)'
      <3> SUFFICES ASSUME NEW q \in Runs, Heard(q) PROVE Heard(q)'
        OBVIOUS
      <3>1. q = r => readers'[q] > 0
        BY <1>0, <2>1
      <3> QED BY <2>1, <2>2, <3>1 DEF Heard
    <2> QED BY <2>1, <2>2, <2>3, <2>4, <2>5 DEF AllHeard
  <1>4. CASE Recycle(r)
    <2>1. /\ pc'[r] = "free" /\ frames'[r] = <<>> /\ turnCancel' # r
          /\ \A q \in Runs \ {r} : /\ pc'[q] = pc[q] /\ told'[q] = told[q]
                                   /\ frames'[q] = frames[q] /\ gone'[q] = gone[q]
                                   /\ turnCancel' = q <=> turnCancel = q
          /\ UNCHANGED <<streamCancelled, opened, readers, interrupts>>
      BY <1>0, <1>4 DEF Recycle, Go
    <2>2. ~ Unfinished(r)'
      BY <2>1 DEF Unfinished
    <2>3. \A q \in Runs \ {r} : /\ Unfinished(q)' <=> Unfinished(q)
                                /\ Speaks(q)' <=> Speaks(q)
                                /\ Heard(q)' <=> Heard(q)
      BY <2>1 DEF Unfinished, Speaks, Heard, NoEnd
    <2>4. Uncalled'
      BY <2>1 DEF AllHeard, Uncalled
    <2>5. Cancellable => Cancellable'
      BY <2>1, <2>2, <2>3 DEF Cancellable
    <2> QED BY <2>1, <2>2, <2>3, <2>4, <2>5 DEF AllHeard, Speaks
  <1> QED BY <1>1, <1>2, <1>3, <1>4

\* A frame is handled: a run that speaks is read on.
LEMMA HandleFrameHeard ==
  ASSUME DeliveryTypeOK, Reads, AllHeard, NEW r \in Runs, HandleFrame(r)
  PROVE  AllHeard'
  <1>0. /\ pc \in [Runs -> Stages] /\ readers \in [Runs -> Nat]
        /\ frames \in [Runs -> Seq(Frames)]
    BY DEF DeliveryTypeOK, AgentTypeOK
  <1>1. /\ readers[r] > 0
        /\ UNCHANGED <<told, gone, streamCancelled, turnCancel, opened, interrupts>>
    BY DEF HandleFrame
  <1>2. /\ \/ UNCHANGED readers
           \/ readers' = [readers EXCEPT ![r] = @ - 1]
        /\ Starts
    BY WakeupStarts DEF HandleFrame, Discard, Render, EndTurn, Starts
  <1>3. \A q \in Runs : readers'[q] \in Nat /\ readers'[q] <= readers[q]
    BY <1>1, <1>2, ReadEnds
  <1>4. /\ \A q \in Runs : NoEnd(q) => NoEnd(q)'
        /\ \A q \in Runs : frames[q] = <<>> => frames'[q] = <<>>
    <2>1. CASE UNCHANGED frames
      BY <2>1 DEF NoEnd
    <2>2. CASE frames[r] # <<>> /\ frames' = [frames EXCEPT ![r] = Tail(@)]
      BY <1>0, <2>2, TailNoEnd
    <2> QED BY <2>1, <2>2 DEF HandleFrame
  <1>5. \A q \in Runs : pc'[q] = pc[q] \/ (pc[q] = "free" /\ pc'[q] = "submitted")
    BY <1>0, <1>2 DEF Starts, Go
  <1>6. \A q \in Runs : (Unfinished(q)' <=> Unfinished(q)) /\ (Speaks(q)' <=> Speaks(q))
    BY <1>1, <1>5 DEF Unfinished, Speaks
  <1>7. Uncalled'
    BY <1>1, <1>4, <1>5 DEF AllHeard, Uncalled
  <1>8. Cancellable => Cancellable'
    <2> SUFFICES ASSUME Cancellable, NEW q \in Runs, Unfinished(q), readers'[q] > 0
                 PROVE  turnCancel = q
      BY <1>1, <1>6 DEF Cancellable
    <2>1. readers[q] > 0
      BY <1>0, <1>3
    <2> QED BY <2>1 DEF Cancellable
  <1>9. ASSUME interrupts <= 1, NEW q \in Runs, Speaks(q) PROVE Heard(q)'
    <2>1. Heard(q)
      BY <1>9 DEF AllHeard
    <2>2. q # r => readers'[q] = readers[q]
      BY <1>0, <1>2
    <2>3. q = r => readers'[q] = readers[q]
      <3> SUFFICES ASSUME q = r, readers' = [readers EXCEPT ![r] = @ - 1] PROVE FALSE
        BY <1>2
      <3>1. ~streamCancelled /\ NoEnd(r)
        BY <1>1, <2>1 DEF Heard
      <3>2. ~ Discard(r)
        BY <3>1 DEF Discard
      <3>3. ~ Render(Head(frames[r]))
        BY <1>0, <1>1 DEF Render
      <3>4. frames[r] = <<>> => pc[r] = "closed"
        BY DEF HandleFrame
      <3>5. frames[r] # <<>> => Head(frames[r]) = "end"
        BY <3>2, <3>3 DEF HandleFrame
      <3>6. frames[r] = <<>>
        <4> SUFFICES ASSUME frames[r] # <<>> PROVE FALSE
          OBVIOUS
        <4>1. frames[r] \in Seq(Frames)
          BY <1>0
        <4>2. 1 \in DOMAIN frames[r] /\ frames[r][1] = "end"
          <5> HIDE DEF Frames
          <5> QED BY <3>5, <4>1
        <4> QED BY <3>1, <4>2 DEF NoEnd
      <3> QED BY <1>9, <3>4, <3>6 DEF Speaks, Unfinished
    <2> QED BY <1>1, <1>4, <2>1, <2>2, <2>3 DEF Heard
  <1> QED BY <1>1, <1>6, <1>7, <1>8, <1>9 DEF AllHeard

\* The first interrupt cancels the one turn that is being read.
LEMMA InterruptHeard ==
  ASSUME DeliveryTypeOK, AllHeard, Interrupt
  PROVE  AllHeard'
  <1>0. /\ gone \in [Runs -> {"no", "cancelled", "left"}] /\ readers \in [Runs -> Nat]
        /\ frames \in [Runs -> Seq(Frames)] /\ interrupts \in Nat /\ NoRun \notin Runs
    BY AgentAssumption, DeliveryAssumption DEF DeliveryTypeOK, AgentTypeOK
  <1>1. /\ interrupts' = interrupts + 1 /\ turnCancel' = NoRun
        /\ UNCHANGED <<pc, told, opened, readers>>
    BY DEF Interrupt
  <1>2. /\ \A q \in Runs \ {turnCancel} : gone'[q] = gone[q] /\ frames'[q] = frames[q]
        /\ \A q \in Runs : gone'[q] = "no" => q # turnCancel
        /\ \A q \in Runs : gone[q] # "no" => gone'[q] # "no"
    <2>1. CASE turnCancel = NoRun
      BY <1>0, <2>1 DEF Interrupt
    <2>2. CASE turnCancel # NoRun
      <3>1. gone' = [gone EXCEPT ![turnCancel] = IF @ = "no" THEN "cancelled" ELSE @]
        BY <2>2 DEF Interrupt
      <3>2. PICK k \in 0..Len(frames[turnCancel]) :
              frames' = [frames EXCEPT ![turnCancel] = Append(SubSeq(@, 1, k), "end")]
        BY <2>2 DEF Interrupt
      <3>3. \A q \in Runs \ {turnCancel} : gone'[q] = gone[q] /\ frames'[q] = frames[q]
        BY <1>0, <3>1, <3>2
      <3>4. turnCancel \in Runs /\ gone'[turnCancel] # "no"
        BY <1>0, <2>2, <3>1 DEF DeliveryTypeOK
      <3> QED BY <3>3, <3>4
    <2> QED BY <2>1, <2>2
  <1>3. Uncalled'
    BY <1>0, <1>1, <1>2 DEF AllHeard, Uncalled
  <1>4. ASSUME interrupts' <= 1, NEW q \in Runs, Speaks(q)' PROVE Heard(q)'
    <2>1. interrupts = 0 /\ interrupts <= 1
      BY <1>0, <1>1, <1>4
    <2>2. q # turnCancel /\ Unfinished(q) /\ Speaks(q)
      BY <1>1, <1>2, <1>4 DEF Speaks, Unfinished
    <2>3. Heard(q)
      BY <2>1, <2>2 DEF AllHeard
    <2>4. readers[q] = 0
      BY <1>0, <2>1, <2>2 DEF AllHeard, Cancellable
    <2>5. q \in opened /\ NoEnd(q)'
      BY <1>2, <2>2, <2>3, <2>4 DEF Heard, NoEnd
    <2> QED BY <1>1, <2>4, <2>5 DEF Heard
  <1> QED BY <1>0, <1>1, <1>3, <1>4 DEF AllHeard

LEMMA NextAllHeard ==
  ASSUME DeliveryTypeOK, Reads, OneTurn, AllHeard, [Next]_vars
  PROVE  AllHeard'
  <1> DEFINE Same == UNCHANGED <<told, gone, frames, streamCancelled, turnCancel, opened,
                                 readers, interrupts>>
  <1>1. ASSUME NEW n \in Notices, Deliver(n) PROVE AllHeard'
    <2>1. Starts
      BY <1>1, WakeupStarts DEF Deliver, Starts
    <2> QED BY <1>1, <2>1, TurnHeard DEF Deliver, streamVars
  <1>2. ASSUME NEW r \in Runs, AgentStep(r) PROVE AllHeard'
    BY <1>2, AgentStepHeard
  <1>3. ASSUME NEW r \in Runs, Open(r) \/ Refuse(r) \/ HandleFirst(r) \/ Recycle(r)
        PROVE  AllHeard'
    BY <1>3, StreamHeard
  <1>4. ASSUME NEW r \in Runs, HandleFrame(r) PROVE AllHeard'
    BY <1>4, HandleFrameHeard
  <1>5. ASSUME NEW c \in calls, Exec(c) PROVE AllHeard'
    <2>1. UNCHANGED pc /\ Same
      BY <1>5 DEF Exec, InjectMessage, runVars, streamVars
    <2> QED BY <2>1, TurnHeard DEF Starts
  <1>6. ASSUME NEW c \in calls, HandleCall(c) PROVE AllHeard'
    <2>1. UNCHANGED readers
      BY <1>6, PumpUnneeded DEF HandleCall, NoticeInjected, UserInjected
    <2>2. Starts
      BY <1>6, WakeupStarts DEF HandleCall, NoticeInjected, UserInjected, Starts
    <2> QED BY <1>6, <2>1, <2>2, TurnHeard DEF HandleCall
  <1>7. ASSUME Enter PROVE AllHeard'
    <2>1. UNCHANGED readers
      BY <1>7, PumpUnneeded DEF Enter
    <2>2. Starts
      <3>1. CASE UNCHANGED pc
        BY <3>1 DEF Starts
      <3>2. CASE StartTurn(UNION queue)
        BY <3>2, StartTurnRun DEF Starts
      <3> QED BY <1>7, <3>1, <3>2 DEF Enter
    <2> QED BY <1>7, <2>1, <2>2, TurnHeard DEF Enter
  <1>8. ASSUME Key PROVE AllHeard'
    <2>1. UNCHANGED pc /\ Same
      BY <1>8, PumpUnneeded DEF Key, runVars
    <2> QED BY <2>1, TurnHeard DEF Starts
  <1>9. ASSUME Interrupt PROVE AllHeard'
    BY <1>9, InterruptHeard
  <1>10. ASSUME UNCHANGED vars PROVE AllHeard'
    <2>1. UNCHANGED pc /\ Same
      BY <1>10 DEF vars, runVars, streamVars
    <2> QED BY <2>1, TurnHeard DEF Starts
  <1> QED BY <1>1, <1>2, <1>3, <1>4, <1>5, <1>6, <1>7, <1>8, <1>9, <1>10 DEF Next

LEMMA AllHeardHolds == Spec => []AllHeard
  <1>1. Init => AllHeard
    <2> SUFFICES ASSUME Init PROVE AllHeard
      OBVIOUS
    <2>1. \A r \in Runs : ~ Unfinished(r)
      BY DEF Init, AgentInit, Unfinished
    <2>2. Uncalled
      BY AgentAssumption DEF Init, AgentInit, Uncalled
    <2> QED BY <2>1, <2>2 DEF AllHeard, Cancellable, Speaks
  <1> QED BY <1>1, DeliveryTypesHold, ReadsHold, OneTurnHolds, NextAllHeard, PTL DEF Spec

\* emit, pumpStream, interruptTurn: until the user interrupts a second time, a run
\* that still has a frame to send and was not cancelled has a reader, so it does
\* not block on its channel for good.
THEOREM SpeakersAreRead == Spec => []RunsAreRead
  <1>1. DeliveryTypeOK /\ AllHeard => RunsAreRead
    <2> SUFFICES ASSUME DeliveryTypeOK, AllHeard, interrupts <= 1,
                        NEW r \in Runs, gone[r] = "no", ~told[r],
                        pc[r] \notin {"free", "submitted", "closed"}
                 PROVE  r \in opened \/ readers[r] > 0
      BY DEF RunsAreRead
    <2>1. pc[r] \in Stages /\ pc[r] # "stuck"
      BY DEF DeliveryTypeOK, AgentTypeOK, AllHeard, Uncalled
    <2>2. Speaks(r)
      BY <2>1 DEF Stages, Speaks, Unfinished
    <2> QED BY <2>2 DEF AllHeard, Heard
  <1> QED BY <1>1, DeliveryTypesHold, AllHeardHolds, PTL
=============================================================================

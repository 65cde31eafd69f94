------------------------ MODULE NoticeDeliveryProofs ------------------------
(* Proofs about NoticeDelivery, for any number of runs and notices.  The   *)
(* terminal and the agent are proved about together: most invariants       *)
(* relate what the one believes to where the other is.                     *)
EXTENDS NoticeDelivery, FiniteSetTheorems, TLAPS

-----------------------------------------------------------------------------
\* Types.

LEMMA InitTypes == Init => DeliveryTypeOK
  <1> SUFFICES ASSUME Init PROVE DeliveryTypeOK
    OBVIOUS
  <1> USE AgentAssumption, DeliveryAssumption
  <1>1. AgentTypeOK
    <2>1. frames \in [Runs -> Seq(Frames)]
      <3>1. <<>> \in Seq(Frames)
        OBVIOUS
      <3> HIDE DEF Frames
      <3> QED BY <3>1 DEF Init, AgentInit
    <2>2. pc \in [Runs -> Stages] /\ gone \in [Runs -> {"no", "cancelled", "left"}]
      BY DEF Init, AgentInit, Stages
    <2>3. input \in [Runs -> SUBSET Notices] /\ step \in [Runs -> 0..MaxIterations]
      BY DEF Init, AgentInit
    <2> QED BY <2>1, <2>2, <2>3 DEF Init, AgentInit, AgentTypeOK
  <1>2. 0 \in 0..MaxUserActions
    OBVIOUS
  <1> QED BY <1>1, <1>2 DEF Init, DeliveryTypeOK, Calls

\* A run moves from one place to another.
LEMMA GoTypes ==
  ASSUME pc \in [Runs -> Stages], NEW r \in Runs, NEW p, NEW q \in Stages, Go(r, p, q)
  PROVE  pc' \in [Runs -> Stages]
  BY DEF Go

LEMMA EmitTypes ==
  ASSUME AgentTypeOK, NEW r \in Runs, NEW f \in Frames, NEW p, NEW q \in Stages,
         Emit(r, f, p, q)
  PROVE  /\ pc' \in [Runs -> Stages]
         /\ frames' \in [Runs -> Seq(Frames)]
         /\ gone' \in [Runs -> {"no", "cancelled", "left"}]
  <1>1. pc' \in [Runs -> Stages]
    <2>1. "stuck" \in Stages
      BY DEF Stages
    <2>2. Go(r, p, q) \/ Go(r, p, "stuck")
      BY DEF Emit
    <2> QED BY <2>1, <2>2, GoTypes DEF AgentTypeOK
  <1>2. frames' \in [Runs -> Seq(Frames)]
    <2>1. frames[r] \in Seq(Frames)
      BY DEF AgentTypeOK
    <2>2. Append(frames[r], f) \in Seq(Frames)
      BY <2>1
    <2>3. frames' = frames \/ frames' = [frames EXCEPT ![r] = Append(frames[r], f)]
      BY DEF Emit
    <2> HIDE DEF Frames
    <2> QED BY <2>2, <2>3 DEF AgentTypeOK
  <1>3. gone' \in [Runs -> {"no", "cancelled", "left"}]
    <2>1. gone' = gone \/ gone' = [gone EXCEPT ![r] = "left"]
      BY DEF Emit
    <2> QED BY <2>1 DEF AgentTypeOK
  <1> QED BY <1>1, <1>2, <1>3

LEMMA RunStepTypes ==
  ASSUME AgentTypeOK, NEW r \in Runs,
         RunStep(r) \/ \E f \in {"content", "quiet"} \cup Notices : Progress(r, f)
  PROVE  AgentTypeOK'
  <1> USE AgentAssumption
  <1> DEFINE P == /\ pc' \in [Runs -> Stages]
                  /\ frames' \in [Runs -> Seq(Frames)]
                  /\ gone' \in [Runs -> {"no", "cancelled", "left"}]
             N == UNCHANGED <<frames, gone>>
  <1>0. {"called", "claimed", "loop", "stepping", "deciding", "telling", "leaving",
         "releasing", "over", "closed"} \subseteq Stages
    BY DEF Stages
  <1>1. ASSUME N, NEW p, NEW q \in Stages, Go(r, p, q) PROVE P
    BY <1>1, GoTypes DEF AgentTypeOK
  <1>2. CASE Begin(r)
    <2>1. P
      BY <1>0, <1>1, <1>2 DEF Begin
    <2>2. cancelled' \in [Runs -> BOOLEAN]
      BY <1>2 DEF Begin, AgentTypeOK
    <2> QED BY <1>2, <2>1, <2>2 DEF Begin, AgentTypeOK
  <1>3. CASE SetUpFails(r)
    <2>1. P
      BY <1>0, <1>1, <1>3 DEF SetUpFails
    <2>2. input' \in [Runs -> SUBSET Notices] /\ lost' \in SUBSET Notices
      BY <1>3 DEF SetUpFails, AgentTypeOK
    <2> QED BY <1>3, <2>1, <2>2 DEF SetUpFails, AgentTypeOK, agentVars
  <1>4. CASE Record(r)
    <2>0. "quiet" \in Frames
      BY DEF Frames
    <2>1. P
      BY <1>0, <1>4, <2>0, EmitTypes DEF Record
    <2>2. input' \in [Runs -> SUBSET Notices] /\ session' \in SUBSET Notices
      BY <1>4 DEF Record, AgentTypeOK
    <2> QED BY <1>4, <2>1, <2>2 DEF Record, AgentTypeOK
  <1>5. CASE Derive(r)
    <2>1. P
      BY <1>0, <1>1, <1>5 DEF Derive
    <2>2. step' \in [Runs -> 0..MaxIterations]
      <3>1. step[r] \in 0..MaxIterations /\ step[r] < MaxIterations
        BY <1>5 DEF Derive, AgentTypeOK
      <3>2. step[r] + 1 \in 0..MaxIterations
        BY <3>1
      <3> QED BY <1>5, <3>2 DEF Derive, AgentTypeOK
    <2>3. fresh' \in SUBSET Runs /\ seen' \in SUBSET Notices
      BY <1>5 DEF Derive, AgentTypeOK
    <2> QED BY <1>5, <2>1, <2>2, <2>3 DEF Derive, AgentTypeOK
  <1>6. CASE \E p, q \in Stages : Move(r, p, q)
    <2>1. P
      BY <1>1, <1>6 DEF Move
    <2> QED BY <1>6, <2>1 DEF Move, AgentTypeOK, agentVars
  <1>7. CASE Tell(r)
    <2>0. "end" \in Frames
      BY DEF Frames
    <2>1. P
      BY <1>0, <1>7, <2>0, EmitTypes DEF Tell
    <2>2. told' \in [Runs -> BOOLEAN]
      BY <1>7 DEF Tell, AgentTypeOK
    <2> QED BY <1>7, <2>1, <2>2 DEF Tell, AgentTypeOK, agentVars
  <1>8. CASE Leave(r)
    <2>1. P
      BY <1>0, <1>1, <1>8 DEF Leave
    <2> QED BY <1>8, <2>1 DEF Leave, AgentTypeOK
  <1>9. CASE Release(r)
    <2>1. P
      BY <1>0, <1>1, <1>9 DEF Release
    <2> QED BY <1>9, <2>1 DEF Release, AgentTypeOK
  <1>10. CASE Close(r)
    <2>0. "end" \in Frames
      BY DEF Frames
    <2>1. P
      BY <1>0, <1>10, <2>0, EmitTypes DEF Close
    <2> QED BY <1>10, <2>1 DEF Close, AgentTypeOK, agentVars
  <1>11. CASE \E f \in {"content", "quiet"} \cup Notices : Progress(r, f)
    <2>0. PICK f \in Frames : Progress(r, f)
      BY <1>11 DEF Frames
    <2>1. P
      BY <1>0, <2>0, EmitTypes DEF Progress
    <2> QED BY <2>0, <2>1 DEF Progress, AgentTypeOK, agentVars
  <1>12. CASE Continue(r)
    <2>0. "quiet" \in Frames
      BY DEF Frames
    <2>1. P
      BY <1>0, <1>12, <2>0, EmitTypes DEF Continue
    <2> QED BY <1>12, <2>1 DEF Continue, AgentTypeOK, agentVars
  <1> QED
    BY <1>0, <1>2, <1>3, <1>4, <1>5, <1>6, <1>7, <1>8, <1>9, <1>10, <1>11, <1>12
    DEF RunStep, ToolsDone, NoToolCall, Conclude, RequestFails, Exhausted,
        LoopCancelled, Complete

\* The run a turn is started in.
LEMMA StartTurnRun ==
  ASSUME NEW ns, StartTurn(ns)
  PROVE  \E r \in Runs : /\ Go(r, "free", "submitted")
                         /\ input' = [input EXCEPT ![r] = ns]
                         /\ working' = TRUE
                         /\ queue' = {}
  <1> DEFINE r == CHOOSE q \in Runs : pc[q] = "free"
  <1>1. r \in Runs
    BY DEF StartTurn
  <1>2. Submit(r, ns) /\ working' = TRUE /\ queue' = {}
    BY DEF StartTurn
  <1> HIDE DEF r
  <1> QED BY <1>1, <1>2 DEF Submit

\* A wake-up clears the queue; it starts a turn when something was in it.
LEMMA WakeupRun ==
  ASSUME NEW q, Wakeup(q)
  PROVE  /\ queue' = {}
         /\ \/ q = {} /\ working' = FALSE /\ UNCHANGED <<pc, input>>
            \/ q # {} /\ \E r \in Runs : /\ Go(r, "free", "submitted")
                                         /\ input' = [input EXCEPT ![r] = UNION q]
                                         /\ working' = TRUE
  <1>1. CASE q = {}
    BY <1>1 DEF Wakeup
  <1>2. CASE q # {}
    <2>1. StartTurn(UNION q)
      BY <1>2 DEF Wakeup
    <2> QED BY <1>2, <2>1, StartTurnRun
  <1> QED BY <1>1, <1>2

LEMMA WakeupTypes ==
  ASSUME AgentTypeOK, NEW q \in SUBSET (SUBSET Notices), Wakeup(q)
  PROVE  /\ pc' \in [Runs -> Stages]
         /\ input' \in [Runs -> SUBSET Notices]
         /\ working' \in BOOLEAN
         /\ queue' = {}
  <1>1. queue' = {} /\ working' \in BOOLEAN
    BY WakeupRun
  <1>2. CASE UNCHANGED <<pc, input>>
    BY <1>1, <1>2 DEF AgentTypeOK
  <1>3. ASSUME NEW r \in Runs, Go(r, "free", "submitted"), input' = [input EXCEPT ![r] = UNION q]
        PROVE  pc' \in [Runs -> Stages] /\ input' \in [Runs -> SUBSET Notices]
    <2>1. "submitted" \in Stages
      BY DEF Stages
    <2>2. UNION q \in SUBSET Notices
      OBVIOUS
    <2> QED BY <1>3, <2>1, <2>2, GoTypes DEF AgentTypeOK
  <1> QED BY <1>1, <1>2, <1>3, WakeupRun

\* The reads of streams, and the count of them.
ReadersOK == pumpInflight \in Nat /\ readers \in [Runs -> Nat]

LEMMA PumpTypes ==
  ASSUME ReadersOK, streamCh \in Runs \cup {NoRun}, PumpIfOpen
  PROVE  ReadersOK'
  <1>1. CASE UNCHANGED <<pumpInflight, readers>>
    BY <1>1 DEF ReadersOK
  <1>2. CASE /\ streamCh # NoRun
             /\ pumpInflight' = 1
             /\ readers' = [readers EXCEPT ![streamCh] = @ + 1]
    BY <1>2 DEF ReadersOK
  <1> QED BY <1>1, <1>2 DEF PumpIfOpen

\* What the terminal's actions change of the agent's types.
LEMMA AgentTypesKept ==
  ASSUME AgentTypeOK, UNCHANGED <<step, told, cancelled, fresh, agentVars>>,
         pc' \in [Runs -> Stages], input' \in [Runs -> SUBSET Notices],
         gone' \in [Runs -> {"no", "cancelled", "left"}],
         frames' \in [Runs -> Seq(Frames)], lost' \in SUBSET Notices
  PROVE  AgentTypeOK'
  BY DEF AgentTypeOK, agentVars

LEMMA DeliverTypes ==
  ASSUME DeliveryTypeOK, NEW n \in Notices, Deliver(n)
  PROVE  DeliveryTypeOK'
  <1> DEFINE q == queue \cup {{n}}
  <1>1. q \in SUBSET (SUBSET Notices) /\ announced' \in SUBSET Notices
    BY DEF Deliver, DeliveryTypeOK
  <1>2. CASE /\ calls' = calls \cup {[ns |-> UNION q, by |-> "notice", at |-> "sent"]}
             /\ queue' = {}
             /\ UNCHANGED <<pc, input, working>>
    <2>1. [ns |-> UNION q, by |-> "notice", at |-> "sent"] \in Calls
      <3>1. UNION q \in SUBSET Notices
        BY <1>1
      <3> HIDE DEF q
      <3> QED BY <3>1 DEF Calls
    <2>2. calls' \in SUBSET Calls
      BY <1>2, <2>1 DEF DeliveryTypeOK
    <2>3. AgentTypeOK'
      BY <1>2, AgentTypesKept DEF Deliver, DeliveryTypeOK, AgentTypeOK
    <2> QED BY <1>1, <1>2, <2>2, <2>3 DEF Deliver, DeliveryTypeOK, streamVars
  <1>3. CASE Wakeup(q) /\ UNCHANGED calls
    <2> HIDE DEF q
    <2>1. /\ pc' \in [Runs -> Stages]
          /\ input' \in [Runs -> SUBSET Notices]
          /\ working' \in BOOLEAN
          /\ queue' = {}
      BY <1>1, <1>3, WakeupTypes DEF DeliveryTypeOK
    <2>2. AgentTypeOK'
      BY <2>1, AgentTypesKept DEF Deliver, DeliveryTypeOK, AgentTypeOK
    <2> QED BY <1>1, <1>3, <2>1, <2>2 DEF Deliver, DeliveryTypeOK, streamVars
  <1> QED BY <1>2, <1>3 DEF Deliver

LEMMA EnterTypes ==
  ASSUME DeliveryTypeOK, Enter
  PROVE  DeliveryTypeOK'
  <1> USE DeliveryAssumption
  <1> DEFINE ns == UNION queue
             c == [ns |-> ns, by |-> "user", at |-> "sent"]
  <1>1. ns \in SUBSET Notices
    BY DEF DeliveryTypeOK
  <1>2. messages' \in 0..MaxUserActions
    <2>1. messages + interrupts < MaxUserActions /\ messages' = messages + 1
      BY DEF Enter
    <2> QED BY <2>1 DEF DeliveryTypeOK
  <1>3. CASE /\ calls' = calls \cup {c}
             /\ queue' = {}
             /\ PumpIfOpen
             /\ UNCHANGED <<pc, input, working>>
    <2>1. calls' \in SUBSET Calls
      <3> HIDE DEF ns
      <3>1. c \in Calls
        BY <1>1 DEF Calls
      <3> QED BY <1>3, <3>1 DEF DeliveryTypeOK
    <2>2. ReadersOK'
      BY <1>3, PumpTypes DEF DeliveryTypeOK, ReadersOK
    <2>3. AgentTypeOK'
      BY <1>3, AgentTypesKept DEF Enter, DeliveryTypeOK, AgentTypeOK
    <2> QED BY <1>2, <1>3, <2>1, <2>2, <2>3 DEF Enter, DeliveryTypeOK, ReadersOK
  <1>4. CASE StartTurn(ns) /\ UNCHANGED <<calls, pumpInflight, readers>>
    <2> HIDE DEF ns
    <2>1. PICK r \in Runs : /\ Go(r, "free", "submitted")
                            /\ input' = [input EXCEPT ![r] = ns]
                            /\ working' = TRUE
                            /\ queue' = {}
      BY <1>4, StartTurnRun
    <2>2. pc' \in [Runs -> Stages] /\ input' \in [Runs -> SUBSET Notices]
      <3>1. "submitted" \in Stages
        BY DEF Stages
      <3> QED BY <1>1, <2>1, <3>1, GoTypes DEF DeliveryTypeOK, AgentTypeOK
    <2>3. AgentTypeOK'
      BY <2>2, AgentTypesKept DEF Enter, DeliveryTypeOK, AgentTypeOK
    <2> QED BY <1>2, <1>4, <2>1, <2>3 DEF Enter, DeliveryTypeOK
  <1> QED BY <1>3, <1>4 DEF Enter

LEMMA InterruptTypes ==
  ASSUME DeliveryTypeOK, Interrupt
  PROVE  DeliveryTypeOK'
  <1> USE DeliveryAssumption
  <1>1. interrupts' \in 0..MaxUserActions
    <2>1. messages + interrupts < MaxUserActions /\ interrupts' = interrupts + 1
      BY DEF Interrupt
    <2> QED BY <2>1 DEF DeliveryTypeOK
  <1>2. /\ gone' \in [Runs -> {"no", "cancelled", "left"}]
        /\ frames' \in [Runs -> Seq(Frames)]
    <2>1. CASE turnCancel = NoRun
      BY <2>1 DEF Interrupt, DeliveryTypeOK, AgentTypeOK
    <2>2. CASE turnCancel # NoRun
      <3>1. turnCancel \in Runs
        BY <2>2 DEF DeliveryTypeOK
      <3>2. gone' = [gone EXCEPT ![turnCancel] = IF @ = "no" THEN "cancelled" ELSE @]
        BY <2>2 DEF Interrupt
      <3>3. PICK k \in 0..Len(frames[turnCancel]) :
              frames' = [frames EXCEPT ![turnCancel] =
                           Append(SubSeq(frames[turnCancel], 1, k), "end")]
        BY <2>2 DEF Interrupt
      <3>4. Append(SubSeq(frames[turnCancel], 1, k), "end") \in Seq(Frames)
        <4>1. frames[turnCancel] \in Seq(Frames)
          BY <3>1 DEF DeliveryTypeOK, AgentTypeOK
        <4>2. "end" \in Frames
          BY DEF Frames
        <4> HIDE DEF Frames
        <4>3. k \in Nat /\ k <= Len(frames[turnCancel])
          BY <4>1
        <4>4. SubSeq(frames[turnCancel], 1, k) \in Seq(Frames)
          BY <4>1, <4>3
        <4> QED BY <4>2, <4>4
      <3>5. frames' \in [Runs -> Seq(Frames)]
        BY <3>3, <3>4 DEF DeliveryTypeOK, AgentTypeOK
      <3> QED BY <3>1, <3>2, <3>5 DEF DeliveryTypeOK, AgentTypeOK
    <2> QED BY <2>1, <2>2
  <1>3. AgentTypeOK'
    BY <1>2, AgentTypesKept DEF Interrupt, DeliveryTypeOK, AgentTypeOK
  <1> QED BY <1>1, <1>3 DEF Interrupt, DeliveryTypeOK

LEMMA StreamTypes ==
  ASSUME DeliveryTypeOK, NEW r \in Runs, Open(r) \/ Refuse(r) \/ HandleFirst(r)
  PROVE  DeliveryTypeOK'
  <1>0. "called" \in Stages /\ "closed" \in Stages
    BY DEF Stages
  <1>1. CASE Open(r)
    <2>1. pc' \in [Runs -> Stages]
      BY <1>0, <1>1, GoTypes DEF Open, DeliveryTypeOK, AgentTypeOK
    <2>2. AgentTypeOK'
      BY <1>1, <2>1, AgentTypesKept DEF Open, DeliveryTypeOK, AgentTypeOK
    <2> QED BY <1>1, <2>2 DEF Open, DeliveryTypeOK, noticeVars
  <1>2. CASE Refuse(r)
    <2>1. pc' \in [Runs -> Stages]
      BY <1>0, <1>2, GoTypes DEF Refuse, DeliveryTypeOK, AgentTypeOK
    <2>2. input' \in [Runs -> SUBSET Notices] /\ lost' \in SUBSET Notices
      BY <1>2 DEF Refuse, DeliveryTypeOK, AgentTypeOK
    <2>3. AgentTypeOK'
      BY <1>2, <2>1, <2>2, AgentTypesKept DEF Refuse, DeliveryTypeOK, AgentTypeOK
    <2>4. readers' \in [Runs -> Nat]
      BY <1>2 DEF Refuse, DeliveryTypeOK
    <2> QED BY <1>2, <2>3, <2>4 DEF Refuse, DeliveryTypeOK, noticeVars
  <1>3. CASE HandleFirst(r)
    <2>1. AgentTypeOK'
      BY <1>3 DEF HandleFirst, DeliveryTypeOK, AgentTypeOK, runVars, agentVars
    <2>2. pumpInflight' \in Nat /\ readers' \in [Runs -> Nat]
      BY <1>3 DEF HandleFirst, DeliveryTypeOK, Inflight
    <2> QED BY <1>3, <2>1, <2>2 DEF HandleFirst, DeliveryTypeOK
  <1> QED BY <1>1, <1>2, <1>3

\* A read comes back.
LEMMA ReadBackTypes ==
  ASSUME ReadersOK, NEW r \in Runs, readers[r] > 0,
         readers' = [readers EXCEPT ![r] = @ - 1],
         pumpInflight' = Inflight \/ pumpInflight' = 0
  PROVE  ReadersOK'
  <1>1. readers[r] - 1 \in Nat /\ Inflight \in Nat
    BY DEF ReadersOK, Inflight
  <1> QED BY <1>1 DEF ReadersOK

LEMMA HandleFrameTypes ==
  ASSUME DeliveryTypeOK, NEW r \in Runs, HandleFrame(r)
  PROVE  DeliveryTypeOK'
  <1>1. frames' \in [Runs -> Seq(Frames)]
    <2>1. frames' = frames \/ (frames[r] # <<>> /\ frames' = [frames EXCEPT ![r] = Tail(frames[r])])
      BY DEF HandleFrame
    <2>2. frames[r] \in Seq(Frames)
      BY DEF DeliveryTypeOK, AgentTypeOK
    <2> HIDE DEF Frames
    <2>3. frames[r] # <<>> => Tail(frames[r]) \in Seq(Frames)
      BY <2>2
    <2> QED BY <2>1, <2>3 DEF DeliveryTypeOK, AgentTypeOK
  <1> DEFINE Rest == /\ UNCHANGED <<step, told, cancelled, gone, fresh, agentVars,
                                    streamCancelled, turnCancel, opened,
                                    interrupts, messages>>
  <1>2. Rest /\ readers[r] > 0
    BY DEF HandleFrame
  <1> DEFINE Moved == /\ pc' \in [Runs -> Stages]
                      /\ input' \in [Runs -> SUBSET Notices]
                      /\ lost' \in SUBSET Notices
                      /\ working' \in BOOLEAN
                      /\ queue' \in SUBSET (SUBSET Notices)
                      /\ dropped' \in SUBSET Notices
                      /\ streamCh' \in Runs \cup {NoRun}
                      /\ ReadersOK'
                      /\ UNCHANGED <<announced, calls>>
  <1>3. CASE Discard(r)
    <2>1. ReadersOK'
      BY <1>2, <1>3, ReadBackTypes DEF Discard, DeliveryTypeOK, ReadersOK
    <2> QED BY <1>1, <1>2, <1>3, <2>1, AgentTypesKept
         DEF Discard, DeliveryTypeOK, AgentTypeOK, ReadersOK, noticeVars
  <1>4. ASSUME Moved PROVE DeliveryTypeOK'
    <2>1. gone' \in [Runs -> {"no", "cancelled", "left"}]
      BY <1>2 DEF DeliveryTypeOK, AgentTypeOK
    <2>2. AgentTypeOK'
      BY <1>1, <1>2, <1>4, <2>1, AgentTypesKept DEF DeliveryTypeOK
    <2> QED BY <1>2, <1>4, <2>2 DEF DeliveryTypeOK, ReadersOK
  <1>5. CASE frames[r] # <<>> /\ Render(Head(frames[r]))
    <2> DEFINE f == Head(frames[r])
    <2>1. ReadersOK'
      <3>1. Inflight + 1 \in Nat
        BY DEF Inflight, DeliveryTypeOK
      <3> QED BY <1>5, <3>1 DEF Render, DeliveryTypeOK, ReadersOK
    <2>2. /\ queue' \in SUBSET (SUBSET Notices)
          /\ dropped' \in SUBSET Notices
          /\ lost' \in SUBSET Notices
      <3>1. CASE UNCHANGED <<queue, dropped, lost>>
        BY <3>1 DEF DeliveryTypeOK, AgentTypeOK
      <3>2. CASE f \in Notices /\ DropNoticeFor(f)
        BY <3>2 DEF DropNoticeFor, DeliveryTypeOK, AgentTypeOK
      <3> QED BY <1>5, <3>1, <3>2 DEF Render
    <2>3. working' \in BOOLEAN
      BY <1>5 DEF Render, DeliveryTypeOK
    <2> QED BY <1>4, <1>5, <2>1, <2>2, <2>3 DEF Render, DeliveryTypeOK, AgentTypeOK
  <1>6. CASE EndTurn /\ readers' = [readers EXCEPT ![r] = @ - 1]
    <2>1. ReadersOK'
      BY <1>2, <1>6, ReadBackTypes DEF EndTurn, DeliveryTypeOK, ReadersOK
    <2>2. /\ pc' \in [Runs -> Stages]
          /\ input' \in [Runs -> SUBSET Notices]
          /\ working' \in BOOLEAN
          /\ queue' = {}
      BY <1>6, WakeupTypes DEF EndTurn, DeliveryTypeOK
    <2> QED BY <1>4, <1>6, <2>1, <2>2 DEF EndTurn, DeliveryTypeOK, AgentTypeOK
  <1> QED BY <1>3, <1>5, <1>6 DEF HandleFrame

LEMMA CallTypes ==
  ASSUME DeliveryTypeOK, NEW c \in calls, Exec(c) \/ HandleCall(c)
  PROVE  DeliveryTypeOK'
  <1>0. c \in Calls /\ c.ns \in SUBSET Notices
    BY DEF DeliveryTypeOK, Calls
  <1>1. CASE Exec(c)
    <2>1. [c EXCEPT !.at = "ok"] \in Calls /\ [c EXCEPT !.at = "failed"] \in Calls
      BY <1>0 DEF Calls
    <2>2. calls' \in SUBSET Calls
      BY <1>1, <2>1 DEF Exec, DeliveryTypeOK
    <2>3. AgentTypeOK'
      BY <1>0, <1>1 DEF Exec, InjectMessage, DeliveryTypeOK, AgentTypeOK, runVars, agentVars
    <2> QED BY <1>1, <2>2, <2>3 DEF Exec, DeliveryTypeOK, streamVars
  <1>2. CASE HandleCall(c)
    <2>1. calls' \in SUBSET Calls
      BY <1>2 DEF HandleCall, DeliveryTypeOK
    <2>2. CASE NoticeInjected(c)
      <3> DEFINE q == IF c.at = "failed" THEN queue \cup {c.ns} ELSE queue
      <3>1. q \in SUBSET (SUBSET Notices)
        BY <1>0 DEF DeliveryTypeOK
      <3> HIDE DEF q
      <3>2. \/ queue' = q /\ UNCHANGED <<pc, input, working>>
            \/ Wakeup(q)
        BY <2>2 DEF NoticeInjected, q
      <3>3. /\ pc' \in [Runs -> Stages]
            /\ input' \in [Runs -> SUBSET Notices]
            /\ working' \in BOOLEAN
            /\ queue' \in SUBSET (SUBSET Notices)
        BY <3>1, <3>2, WakeupTypes DEF DeliveryTypeOK, AgentTypeOK
      <3>4. AgentTypeOK'
        BY <1>2, <2>2, <3>3, AgentTypesKept
        DEF HandleCall, NoticeInjected, DeliveryTypeOK, AgentTypeOK
      <3> QED BY <1>2, <2>1, <2>2, <3>3, <3>4 DEF HandleCall, NoticeInjected, DeliveryTypeOK
    <2>3. CASE UserInjected(c)
      <3>1. lost' \in SUBSET Notices
        BY <1>0, <2>3 DEF UserInjected, DeliveryTypeOK, AgentTypeOK
      <3>2. ReadersOK'
        BY <2>3, PumpTypes DEF UserInjected, DeliveryTypeOK, ReadersOK
      <3>3. AgentTypeOK'
        BY <1>2, <2>3, <3>1, AgentTypesKept
        DEF HandleCall, UserInjected, DeliveryTypeOK, AgentTypeOK
      <3> QED BY <1>2, <2>1, <2>3, <3>2, <3>3
           DEF HandleCall, UserInjected, DeliveryTypeOK, ReadersOK
    <2> QED BY <1>2, <2>2, <2>3 DEF HandleCall
  <1> QED BY <1>1, <1>2

LEMMA RecycleTypes ==
  ASSUME DeliveryTypeOK, NEW r \in Runs, Recycle(r)
  PROVE  DeliveryTypeOK'
  <1> USE AgentAssumption
  <1>1. pc' \in [Runs -> Stages]
    <2>1. "free" \in Stages
      BY DEF Stages
    <2> QED BY <2>1, GoTypes DEF Recycle, DeliveryTypeOK, AgentTypeOK
  <1>2. frames' \in [Runs -> Seq(Frames)]
    <2>1. <<>> \in Seq(Frames)
      OBVIOUS
    <2> HIDE DEF Frames
    <2> QED BY <2>1 DEF Recycle, DeliveryTypeOK, AgentTypeOK
  <1>3. AgentTypeOK'
    <2>1. /\ step' \in [Runs -> 0..MaxIterations]
          /\ told' \in [Runs -> BOOLEAN]
          /\ cancelled' \in [Runs -> BOOLEAN]
          /\ gone' \in [Runs -> {"no", "cancelled", "left"}]
      BY DEF Recycle, DeliveryTypeOK, AgentTypeOK
    <2> QED BY <1>1, <1>2, <2>1 DEF Recycle, DeliveryTypeOK, AgentTypeOK, agentVars
  <1> QED BY <1>3 DEF Recycle, DeliveryTypeOK, noticeVars

\* A step of the agent, without the terminal.
LEMMA AgentStepTypes ==
  ASSUME DeliveryTypeOK, NEW r \in Runs, AgentStep(r)
  PROVE  DeliveryTypeOK'
  <1>1. AgentTypeOK'
    <2>1. announced \subseteq Notices
      BY DEF DeliveryTypeOK
    <2>2. RunStep(r) \/ \E f \in {"content", "quiet"} \cup Notices : Progress(r, f)
      BY <2>1 DEF AgentStep
    <2> QED BY <2>2, RunStepTypes DEF DeliveryTypeOK
  <1> QED BY <1>1 DEF AgentStep, DeliveryTypeOK, streamVars, noticeVars

LEMMA NextTypes ==
  ASSUME DeliveryTypeOK, [Next]_vars
  PROVE  DeliveryTypeOK'
  <1>1. CASE Key
    <2>1. ReadersOK'
      BY <1>1, PumpTypes DEF Key, DeliveryTypeOK, ReadersOK
    <2> QED BY <1>1, <2>1
         DEF Key, DeliveryTypeOK, AgentTypeOK, ReadersOK, runVars, agentVars, noticeVars
  <1>2. CASE UNCHANGED vars
    BY <1>2 DEF DeliveryTypeOK, AgentTypeOK, vars, runVars, agentVars, streamVars, noticeVars
  <1> QED
    BY <1>1, <1>2, DeliverTypes, EnterTypes, InterruptTypes, StreamTypes,
       HandleFrameTypes, CallTypes, RecycleTypes, AgentStepTypes
    DEF Next

\* Runs, streams, queue and calls stay within their types: the counters of
\* reads in particular, whatever an interrupt has written off.
THEOREM DeliveryTypesHold == Spec => []DeliveryTypeOK
  BY InitTypes, NextTypes, PTL DEF Spec

-----------------------------------------------------------------------------
\* The queue of an idle terminal.

LEMMA NextWaits ==
  ASSUME WaitsOnlyAfterInterrupt, [Next]_vars
  PROVE  WaitsOnlyAfterInterrupt'
  <1>1. ASSUME NEW n \in Notices, Deliver(n) PROVE queue' = {}
    BY <1>1, WakeupRun DEF Deliver
  <1>2. ASSUME NEW r \in Runs, AgentStep(r) \/ Open(r) \/ Refuse(r) \/ Recycle(r)
        PROVE  UNCHANGED <<queue, working, streamCancelled>>
    BY <1>2 DEF AgentStep, Open, Refuse, Recycle, streamVars, noticeVars
  <1>3. ASSUME NEW r \in Runs, HandleFirst(r) PROVE working'
    BY <1>3 DEF HandleFirst
  <1>4. ASSUME NEW r \in Runs, HandleFrame(r) PROVE WaitsOnlyAfterInterrupt'
    <2>1. UNCHANGED streamCancelled
      BY <1>4 DEF HandleFrame
    <2>2. CASE Discard(r)
      BY <2>1, <2>2 DEF Discard, WaitsOnlyAfterInterrupt, noticeVars
    <2>3. CASE Render(Head(frames[r]))
      <3>1. working => working'
        BY <2>3 DEF Render
      <3>2. queue' \subseteq queue
        BY <2>3 DEF Render, DropNoticeFor
      <3> QED BY <2>1, <3>1, <3>2 DEF WaitsOnlyAfterInterrupt
    <2>4. CASE EndTurn
      BY <2>4, WakeupRun DEF EndTurn, WaitsOnlyAfterInterrupt
    <2> QED BY <1>4, <2>2, <2>3, <2>4 DEF HandleFrame
  <1>5. ASSUME NEW c \in calls, Exec(c) PROVE UNCHANGED <<queue, working, streamCancelled>>
    BY <1>5 DEF Exec, streamVars
  <1>6. ASSUME NEW c \in calls, HandleCall(c) PROVE WaitsOnlyAfterInterrupt'
    <2>1. UNCHANGED streamCancelled
      BY <1>6 DEF HandleCall
    <2>2. CASE NoticeInjected(c)
      <3>1. CASE working /\ UNCHANGED working
        BY <3>1 DEF WaitsOnlyAfterInterrupt
      <3>2. CASE \E q : Wakeup(q)
        BY <3>2, WakeupRun DEF WaitsOnlyAfterInterrupt
      <3> QED BY <2>2, <3>1, <3>2 DEF NoticeInjected
    <2>3. CASE UserInjected(c)
      BY <2>1, <2>3 DEF UserInjected, WaitsOnlyAfterInterrupt
    <2> QED BY <1>6, <2>2, <2>3 DEF HandleCall
  <1>7. ASSUME Enter PROVE queue' = {}
    BY <1>7, StartTurnRun DEF Enter
  <1>8. ASSUME Key PROVE UNCHANGED <<queue, working, streamCancelled>>
    BY <1>8 DEF Key, noticeVars
  <1>9. ASSUME Interrupt PROVE streamCancelled'
    BY <1>9 DEF Interrupt
  <1>10. ASSUME UNCHANGED vars PROVE UNCHANGED <<queue, working, streamCancelled>>
    BY <1>10 DEF vars, streamVars, noticeVars
  <1> QED
    BY <1>1, <1>2, <1>3, <1>4, <1>5, <1>6, <1>7, <1>8, <1>9, <1>10
    DEF Next, WaitsOnlyAfterInterrupt

\* tryWakeup and deliverCompletionNotice: whatever order jobs, frames, keys and
\* failed injections come in, notices wait in an idle terminal only after an
\* interrupt.
THEOREM IdleQueueIsEmpty == Spec => []WaitsOnlyAfterInterrupt
  <1>1. Init => WaitsOnlyAfterInterrupt
    BY DEF Init, WaitsOnlyAfterInterrupt
  <1> QED BY <1>1, NextWaits, PTL DEF Spec

-----------------------------------------------------------------------------
\* A turn that the terminal shows at work.

\* After an interrupt frames are discarded: only a first frame counts then.
SomethingComes ==
  working => \/ opened # {}
             \/ \E r \in Runs : pc[r] = "submitted"
             \/ ~streamCancelled /\ \E r \in Runs : readers[r] > 0
             \/ OpenFails /\ streamCancelled

\* A run that the agent takes on has been called.
LEMMA AgentStepLeavesSubmitted ==
  ASSUME NEW r \in Runs, AgentStep(r), NEW q \in Runs, pc[q] = "submitted"
  PROVE  pc'[q] = "submitted"
  <1>1. \E a, b \in Stages : a # "submitted" /\ Go(r, a, b)
    BY DEF AgentStep, RunStep, Begin, SetUpFails, Record, Derive, ToolsDone, NoToolCall,
           Conclude, RequestFails, Exhausted, LoopCancelled, Continue, Complete, Tell,
           Leave, Release, Close, Progress, Move, Emit, Stages
  <1> QED BY <1>1 DEF Go

\* A read more is started.
LEMMA PumpReaders ==
  ASSUME DeliveryTypeOK, PumpIfOpen, NEW q \in Runs, readers[q] > 0
  PROVE  readers'[q] > 0
  <1>1. CASE UNCHANGED readers
    BY <1>1
  <1>2. CASE readers' = [readers EXCEPT ![streamCh] = @ + 1]
    BY <1>2 DEF DeliveryTypeOK
  <1> QED BY <1>1, <1>2 DEF PumpIfOpen

LEMMA WakeupComes ==
  ASSUME DeliveryTypeOK, NEW q, Wakeup(q), working'
  PROVE  \E r \in Runs : pc'[r] = "submitted"
  <1>1. PICK r \in Runs : Go(r, "free", "submitted")
    BY WakeupRun DEF DeliveryTypeOK
  <1> QED BY <1>1 DEF Go, DeliveryTypeOK, AgentTypeOK

LEMMA NextSomethingComes ==
  ASSUME DeliveryTypeOK, SomethingComes, [Next]_vars
  PROVE  SomethingComes'
  <1> DEFINE Same == UNCHANGED <<working, streamCancelled, opened, readers>>
             Sub == \A q \in Runs : pc[q] = "submitted" => pc'[q] = "submitted"
  <1>0. ASSUME Same, Sub PROVE SomethingComes'
    BY <1>0, Zenon DEF SomethingComes
  <1>1. ASSUME NEW n \in Notices, Deliver(n) PROVE SomethingComes'
    <2>1. CASE UNCHANGED <<pc, working>>
      BY <1>1, <2>1, <1>0 DEF Deliver, streamVars
    <2>2. CASE \E q : Wakeup(q)
      BY <2>2, WakeupComes DEF SomethingComes
    <2> QED BY <1>1, <2>1, <2>2 DEF Deliver
  <1>2. ASSUME NEW r \in Runs, AgentStep(r) PROVE SomethingComes'
    <2>1. Sub
      BY <1>2, AgentStepLeavesSubmitted
    <2>2. Same
      BY <1>2 DEF AgentStep, streamVars, noticeVars
    <2> QED BY <2>1, <2>2, <1>0
  <1>3. ASSUME NEW r \in Runs, Open(r) PROVE SomethingComes'
    BY <1>3 DEF Open, SomethingComes
  <1>4. ASSUME NEW r \in Runs, Refuse(r) PROVE SomethingComes'
    <2>1. OpenFails /\ readers'[r] > 0 /\ UNCHANGED streamCancelled
      BY <1>4 DEF Refuse, DeliveryTypeOK
    <2> QED BY <2>1 DEF SomethingComes
  <1>5. ASSUME NEW r \in Runs, HandleFirst(r) PROVE SomethingComes'
    <2>1. readers'[r] > 0 /\ ~streamCancelled'
      BY <1>5 DEF HandleFirst, DeliveryTypeOK
    <2> QED BY <2>1 DEF SomethingComes
  <1>6. ASSUME NEW r \in Runs, HandleFrame(r) PROVE SomethingComes'
    <2>1. UNCHANGED <<streamCancelled, opened>> /\ readers[r] > 0
      BY <1>6 DEF HandleFrame
    <2>2. CASE Discard(r)
      BY <2>1, <2>2 DEF Discard, SomethingComes, noticeVars
    <2>3. CASE Render(Head(frames[r]))
      BY <2>1, <2>3 DEF Render, SomethingComes
    <2>4. CASE EndTurn
      BY <2>4, WakeupComes DEF EndTurn, SomethingComes
    <2> QED BY <1>6, <2>2, <2>3, <2>4 DEF HandleFrame
  <1>7. ASSUME NEW c \in calls, Exec(c) PROVE SomethingComes'
    <2>1. Same /\ UNCHANGED pc
      BY <1>7 DEF Exec, InjectMessage, streamVars, runVars
    <2> QED BY <2>1, <1>0
  <1>8. ASSUME NEW c \in calls, HandleCall(c) PROVE SomethingComes'
    <2>1. UNCHANGED <<streamCancelled, opened>>
      BY <1>8 DEF HandleCall
    <2>2. CASE NoticeInjected(c)
      <3>1. CASE UNCHANGED <<pc, working>>
        BY <2>1, <2>2, <3>1, <1>0 DEF NoticeInjected
      <3>2. CASE \E q : Wakeup(q)
        BY <3>2, WakeupComes DEF SomethingComes
      <3> QED BY <2>2, <3>1, <3>2 DEF NoticeInjected
    <2>3. CASE UserInjected(c)
      BY <2>1, <2>3, PumpReaders DEF UserInjected, SomethingComes
    <2> QED BY <1>8, <2>2, <2>3 DEF HandleCall
  <1>9. ASSUME NEW r \in Runs, Recycle(r) PROVE SomethingComes'
    <2>1. Sub
      BY <1>9 DEF Recycle, Go
    <2>2. Same
      BY <1>9 DEF Recycle, noticeVars
    <2> QED BY <2>1, <2>2, <1>0
  <1>10. ASSUME Enter PROVE SomethingComes'
    <2>1. CASE PumpIfOpen /\ UNCHANGED <<pc, working>>
      BY <1>10, <2>1, PumpReaders DEF Enter, SomethingComes
    <2>2. CASE \E ns : StartTurn(ns)
      <3>1. PICK r \in Runs : Go(r, "free", "submitted")
        BY <2>2, StartTurnRun
      <3>2. pc'[r] = "submitted"
        BY <3>1 DEF Go, DeliveryTypeOK, AgentTypeOK
      <3> QED BY <3>2 DEF SomethingComes
    <2> QED BY <1>10, <2>1, <2>2 DEF Enter
  <1>11. ASSUME Key PROVE SomethingComes'
    BY <1>11, PumpReaders DEF Key, SomethingComes, runVars, noticeVars
  <1>12. ASSUME Interrupt PROVE SomethingComes'
    BY <1>12 DEF Interrupt, SomethingComes
  <1>13. ASSUME UNCHANGED vars PROVE SomethingComes'
    <2>1. Same /\ UNCHANGED pc
      BY <1>13 DEF vars, streamVars, noticeVars, runVars
    <2> QED BY <2>1, <1>0
  <1> QED
    BY <1>1, <1>2, <1>3, <1>4, <1>5, <1>6, <1>7, <1>8, <1>9, <1>10, <1>11, <1>12, <1>13
    DEF Next

\* submitCmd, pumpStream and the handlers of frames: a turn the terminal shows
\* has a call or a read under way that will come back.
THEOREM NoTurnIsStuck == Spec => []NoStuckTurn
  <1>1. Init => SomethingComes
    BY DEF Init, SomethingComes
  <1>2. SomethingComes => NoStuckTurn
    BY DEF SomethingComes, NoStuckTurn
  <1> QED BY <1>1, <1>2, DeliveryTypesHold, NextSomethingComes, PTL DEF Spec

-----------------------------------------------------------------------------
\* One turn at a time, as long as nobody interrupts.

\* The frame that ends the run's stream is still to be emitted.
Unfinished(r) ==
  \/ pc[r] \in {"called", "claimed", "loop", "stepping", "deciding", "telling", "over"}
  \/ pc[r] \in {"leaving", "releasing"} /\ ~told[r]

\* The terminal waits for something of the run.
Awaited(r) == pc[r] = "submitted" \/ r \in opened \/ readers[r] > 0

NoEnd(r) == \A i \in DOMAIN frames[r] : frames[r][i] # "end"

\* The terminal waits for one run at a time, with one read.
Streams ==
  /\ ~streamCancelled
  /\ pumpInflight <= 1
  /\ \A r \in Runs : Awaited(r) => working
  /\ \A r, q \in Runs : Awaited(r) /\ Awaited(q) => r = q
  /\ \A r \in Runs : /\ readers[r] <= 1
                     /\ pc[r] = "submitted" \/ r \in opened => readers[r] = 0
                     /\ pc[r] = "submitted" => r \notin opened
                     /\ streamCh = r => readers[r] = 1 /\ pumpInflight = 1

\* A run that has not finished is the one the terminal waits for.
OnStage ==
  \A r \in Runs : /\ gone[r] = "no"
                  /\ pc[r] # "stuck"
                  /\ Unfinished(r) => Awaited(r)
                  /\ Unfinished(r) \/ pc[r] \in {"free", "submitted"} => NoEnd(r)

\* The run that the next one cancels, and those that were cancelled.
Cancels ==
  \A r \in Runs :
    /\ cancelFunc = r => pc[r] \in {"claimed", "loop", "stepping", "deciding",
                                   "telling", "leaving", "releasing"}
    /\ cancelled[r] => pc[r] \in {"leaving", "releasing", "over", "closed"}

\* A run that was not injected into has shown the model the whole session.
Saw == \A r \in Runs : pc[r] \in {"stepping", "deciding"} /\ r \notin fresh
                         => session \subseteq seen

OneTurn == interrupts = 0 => Streams /\ OnStage /\ Cancels /\ Saw

\* A step of the agent: where runs are, and the frame that ends a stream.
LEMMA AgentStepPlaces ==
  ASSUME DeliveryTypeOK, NEW r \in Runs, AgentStep(r), gone[r] = "no"
  PROVE  /\ UNCHANGED gone
         /\ pc[r] # "submitted" /\ pc'[r] \notin {"free", "submitted", "stuck"}
         /\ \A q \in Runs \ {r} : /\ pc'[q] = pc[q]
                                  /\ told'[q] = told[q]
                                  /\ frames'[q] = frames[q]
         /\ Unfinished(r)' => Unfinished(r) /\ (NoEnd(r) => NoEnd(r)')
  <1> USE AgentAssumption
  <1> DEFINE Conclusion ==
         /\ UNCHANGED gone
         /\ pc[r] # "submitted" /\ pc'[r] \notin {"free", "submitted", "stuck"}
         /\ \A q \in Runs \ {r} : /\ pc'[q] = pc[q]
                                  /\ told'[q] = told[q]
                                  /\ frames'[q] = frames[q]
         /\ Unfinished(r)' => Unfinished(r) /\ (NoEnd(r) => NoEnd(r)')
         On == {"called", "claimed", "loop", "stepping", "deciding", "telling"}
  <1>0. pc \in [Runs -> Stages] /\ told \in [Runs -> BOOLEAN] /\ frames \in [Runs -> Seq(Frames)]
    BY DEF DeliveryTypeOK, AgentTypeOK
  <1>1. ASSUME NEW a \in On, NEW b \in On \cup {"leaving"},
               Go(r, a, b), UNCHANGED <<told, frames, gone>>
        PROVE  Conclusion
    BY <1>0, <1>1 DEF Go, Unfinished, NoEnd
  <1>2. CASE \/ Begin(r) \/ SetUpFails(r) \/ Derive(r)
             \/ ToolsDone(r) \/ NoToolCall(r) \/ Conclude(r) \/ RequestFails(r)
             \/ Exhausted(r) \/ LoopCancelled(r) \/ Complete(r)
    <2>1. \E a \in On : \E b \in On \cup {"leaving"} : Go(r, a, b)
      BY <1>2 DEF Begin, SetUpFails, Derive, ToolsDone, NoToolCall, Conclude,
                  RequestFails, Exhausted, LoopCancelled, Complete, Move
    <2>2. UNCHANGED <<told, frames, gone>>
      BY <1>2 DEF Begin, SetUpFails, Derive, ToolsDone, NoToolCall, Conclude,
                  RequestFails, Exhausted, LoopCancelled, Complete, Move
    <2>3. PICK a \in On, b \in On \cup {"leaving"} : Go(r, a, b)
      BY <2>1
    <2> HIDE DEF On, Conclusion
    <2>4. Conclusion
      BY <2>2, <2>3, <1>1
    <2> QED BY <2>4 DEF Conclusion
  <1>3. CASE Leave(r)
    BY <1>0, <1>3 DEF Leave, Go, Unfinished, NoEnd
  <1>4. CASE Release(r)
    BY <1>0, <1>4 DEF Release, Go, Unfinished, NoEnd
  <1>5. ASSUME NEW f, NEW a, NEW b, Emit(r, f, a, b)
        PROVE  /\ UNCHANGED gone
               /\ Go(r, a, b)
               /\ frames' = [frames EXCEPT ![r] = Append(@, f)]
    BY <1>5 DEF Emit
  <1>6. CASE Tell(r) \/ Close(r)
    <2>1. \/ Go(r, "telling", "leaving") /\ told' = [told EXCEPT ![r] = TRUE]
          \/ Go(r, "over", "closed") /\ UNCHANGED told
      BY <1>5, <1>6 DEF Tell, Close
    <2>2. /\ UNCHANGED gone
          /\ frames' = [frames EXCEPT ![r] = Append(@, "end")]
      BY <1>5, <1>6 DEF Tell, Close
    <2>3. ~ Unfinished(r)' /\ pc[r] # "submitted" /\ pc'[r] \in {"leaving", "closed"}
      BY <1>0, <2>1 DEF Go, Unfinished
    <2>4. \A q \in Runs \ {r} : /\ pc'[q] = pc[q]
                                /\ told'[q] = told[q]
                                /\ frames'[q] = frames[q]
      BY <1>0, <2>1, <2>2 DEF Go
    <2> QED BY <2>2, <2>3, <2>4
  <1>7. ASSUME NEW f, f # "end", NEW a \in On, NEW b \in On, Emit(r, f, a, b), told' = told
        PROVE  Conclusion
    <2>2. /\ UNCHANGED <<gone, told>>
          /\ Go(r, a, b)
          /\ frames' = [frames EXCEPT ![r] = Append(@, f)]
      BY <1>5, <1>7
    <2>3. pc[r] = a /\ pc'[r] = b /\ \A q \in Runs \ {r} : pc'[q] = pc[q]
      BY <1>0, <2>2 DEF Go
    <2>4. NoEnd(r) => NoEnd(r)'
      <3>1. frames[r] \in Seq(Frames) /\ frames'[r] = Append(frames[r], f)
        BY <1>0, <2>2
      <3> HIDE DEF Frames
      <3> QED BY <1>7, <3>1 DEF NoEnd
    <2>5. \A q \in Runs \ {r} : frames'[q] = frames[q]
      BY <1>0, <2>2
    <2>6. Unfinished(r)
      BY <1>7, <2>3 DEF Unfinished
    <2> QED BY <1>7, <2>2, <2>3, <2>4, <2>5, <2>6
  <1>8. CASE Record(r) \/ Continue(r)
    <2>1. PICK a \in On : Emit(r, "quiet", a, "loop") /\ told' = told
      BY <1>8 DEF Record, Continue
    <2>2. "loop" \in On
      OBVIOUS
    <2> HIDE DEF On, Conclusion
    <2>3. Conclusion
      BY <1>7, <2>1, <2>2
    <2> QED BY <2>3 DEF Conclusion
  <1>9. CASE \E f \in {"content", "quiet"} \cup announced : Progress(r, f)
    <2>1. PICK f : Progress(r, f) /\ f # "end"
      BY <1>9 DEF DeliveryTypeOK
    <2>2. "stepping" \in On /\ Emit(r, f, "stepping", "stepping") /\ told' = told
      BY <2>1 DEF Progress
    <2> HIDE DEF On, Conclusion
    <2>3. Conclusion
      BY <1>7, <2>1, <2>2
    <2> QED BY <2>3 DEF Conclusion
  <1> QED BY <1>2, <1>3, <1>4, <1>6, <1>8, <1>9 DEF AgentStep, RunStep

\* A step of the agent keeps all four.
LEMMA AgentStepOneTurn ==
  ASSUME DeliveryTypeOK, Streams, OnStage, Cancels, Saw, NEW r \in Runs, AgentStep(r)
  PROVE  Streams' /\ OnStage' /\ Cancels' /\ Saw'
  <1> USE AgentAssumption
  <1>0. /\ gone[r] = "no" /\ pc \in [Runs -> Stages]
        /\ UNCHANGED <<streamVars, noticeVars>>
    BY DEF OnStage, DeliveryTypeOK, AgentTypeOK, AgentStep
  <1>1. /\ UNCHANGED gone
        /\ pc[r] # "submitted" /\ pc'[r] \notin {"free", "submitted", "stuck"}
        /\ \A q \in Runs \ {r} : /\ pc'[q] = pc[q]
                                 /\ told'[q] = told[q]
                                 /\ frames'[q] = frames[q]
        /\ Unfinished(r)' => Unfinished(r) /\ (NoEnd(r) => NoEnd(r)')
    BY <1>0, AgentStepPlaces
  <1>2. \A q \in Runs : (pc'[q] = "submitted") <=> (pc[q] = "submitted")
    BY <1>1
  <1>3. \A q \in Runs : Awaited(q)' <=> Awaited(q)
    BY <1>0, <1>2 DEF Awaited, streamVars
  <1>4. Streams'
    BY <1>0, <1>2, <1>3 DEF Streams, streamVars, noticeVars
  <1>5. OnStage'
    <2> SUFFICES ASSUME NEW q \in Runs
                 PROVE  /\ gone'[q] = "no"
                        /\ pc'[q] # "stuck"
                        /\ Unfinished(q)' => Awaited(q)'
                        /\ Unfinished(q)' \/ pc'[q] \in {"free", "submitted"} => NoEnd(q)'
      BY DEF OnStage
    <2>1. CASE q = r
      BY <2>1, <1>1, <1>3 DEF OnStage
    <2>2. CASE q # r
      <3>1. /\ Unfinished(q)' <=> Unfinished(q)
            /\ NoEnd(q)' <=> NoEnd(q)
            /\ pc'[q] = pc[q]
        BY <1>1, <2>2 DEF Unfinished, NoEnd
      <3> QED BY <3>1, <1>1, <1>3 DEF OnStage
    <2> QED BY <2>1, <2>2
  <1>6. Cancels'
    <2>1. CASE Begin(r)
      <3>1. /\ Go(r, "called", "claimed") /\ cancelFunc' = r
            /\ cancelled' = [q \in Runs |-> cancelled[q] \/ q = cancelFunc]
        BY <2>1 DEF Begin
      <3>2. pc[r] = "called" /\ pc'[r] = "claimed" /\ \A q \in Runs \ {r} : pc'[q] = pc[q]
        BY <1>0, <3>1 DEF Go
      <3>3. ~ cancelled[r] /\ cancelFunc # r
        BY <3>2 DEF Cancels
      <3>4. ASSUME NEW q \in Runs, q # r, q = cancelFunc
            PROVE  pc[q] \in {"leaving", "releasing"}
        <4>1. Awaited(r) /\ ~ Awaited(q)
          BY <3>2, <3>4 DEF OnStage, Unfinished, Streams
        <4>2. ~ Unfinished(q)
          BY <4>1 DEF OnStage
        <4> QED BY <3>4, <4>2 DEF Cancels, Unfinished
      <3>5. ASSUME NEW q \in Runs, cancelled'[q]
            PROVE  pc'[q] \in {"leaving", "releasing", "over", "closed"}
        <4>1. q # r /\ (cancelled[q] \/ q = cancelFunc)
          BY <3>1, <3>3, <3>5
        <4> QED BY <3>2, <3>4, <4>1 DEF Cancels
      <3> QED BY <3>1, <3>2, <3>5 DEF Cancels
    <2>2. CASE Release(r)
      <3>1. /\ Go(r, "releasing", IF told[r] THEN "closed" ELSE "over")
            /\ cancelFunc' = NoRun /\ UNCHANGED cancelled
        BY <2>2 DEF Release
      <3>2. pc'[r] \in {"over", "closed"}
        BY <1>0, <3>1 DEF Go
      <3> QED BY <1>1, <3>1, <3>2 DEF Cancels
    <2>3. CASE ~ Begin(r) /\ ~ Release(r)
      <3>1. UNCHANGED <<cancelFunc, cancelled>>
        BY <2>3 DEF AgentStep, RunStep, SetUpFails, Record, Derive, ToolsDone, NoToolCall,
                    Conclude, RequestFails, Exhausted, LoopCancelled, Continue, Complete,
                    Tell, Leave, Close, Progress, Move, agentVars
      <3>2. \/ \E b \in {"loop", "stepping", "deciding", "telling", "leaving"} :
                  \E a \in Stages \ {"leaving", "releasing", "over", "closed"} : Go(r, a, b)
            \/ Go(r, "leaving", "releasing")
            \/ Go(r, "over", "closed")
        BY <1>0, <2>3
        DEF AgentStep, RunStep, SetUpFails, Record, Derive, ToolsDone, NoToolCall,
            Conclude, RequestFails, Exhausted, LoopCancelled, Continue, Complete,
            Tell, Leave, Close, Progress, Move, Emit, Stages
      <3>3. /\ cancelFunc = r => pc'[r] \in {"claimed", "loop", "stepping", "deciding",
                                             "telling", "leaving", "releasing"}
            /\ cancelled[r] => pc'[r] \in {"leaving", "releasing", "over", "closed"}
        BY <1>0, <3>2 DEF Go, Cancels
      <3> QED BY <1>1, <3>1, <3>3 DEF Cancels
    <2> QED BY <2>1, <2>2, <2>3
  <1>7. Saw'
    <2> SUFFICES ASSUME NEW q \in Runs, pc'[q] \in {"stepping", "deciding"}, q \notin fresh'
                 PROVE  session' \subseteq seen'
      BY DEF Saw
    <2>1. CASE Record(r)
      <3>1. pc[r] = "claimed" /\ pc'[r] = "loop" /\ q # r
        BY <1>0, <2>1 DEF Record, Emit, Go
      <3>2. Unfinished(r) /\ Unfinished(q)
        BY <1>1, <3>1 DEF Unfinished
      <3>3. q = r
        BY <3>2 DEF OnStage, Streams
      <3> QED BY <3>1, <3>3
    <2>2. CASE Derive(r)
      BY <2>2 DEF Derive
    <2>3. CASE ~ Record(r) /\ ~ Derive(r)
      <3>1. UNCHANGED <<session, seen, fresh>>
        BY <2>3 DEF AgentStep, RunStep, Begin, SetUpFails, ToolsDone, NoToolCall,
                    Conclude, RequestFails, Exhausted, LoopCancelled, Continue, Complete,
                    Tell, Leave, Release, Close, Progress, Move, agentVars
      <3>2. \/ Go(r, "stepping", "deciding") \/ Go(r, "stepping", "stepping")
            \/ \E a \in Stages : \E b \in Stages \ {"stepping", "deciding"} : Go(r, a, b)
        BY <1>0, <2>3
        DEF AgentStep, RunStep, Begin, SetUpFails, ToolsDone, NoToolCall,
            Conclude, RequestFails, Exhausted, LoopCancelled, Continue, Complete,
            Tell, Leave, Release, Close, Progress, Move, Emit, Stages
      <3>3. pc[q] \in {"stepping", "deciding"}
        BY <1>0, <1>1, <3>2 DEF Go
      <3> QED BY <3>1, <3>3 DEF Saw
    <2> QED BY <2>1, <2>2, <2>3
  <1> QED BY <1>4, <1>5, <1>6, <1>7

\* While the terminal is idle nothing is awaited.
LEMMA IdleTerminal ==
  ASSUME DeliveryTypeOK, Streams, ~working
  PROVE  /\ \A q \in Runs : pc[q] # "submitted" /\ q \notin opened /\ readers[q] = 0
         /\ streamCh \notin Runs
  <1>1. \A q \in Runs : ~ Awaited(q) /\ readers[q] \in Nat
    BY DEF Streams, DeliveryTypeOK
  <1>2. \A q \in Runs : pc[q] # "submitted" /\ q \notin opened /\ readers[q] = 0
    BY <1>1 DEF Awaited
  <1> QED BY <1>2 DEF Streams

\* A turn may be started, when none is awaited any more.
Starts == UNCHANGED pc \/ (working' /\ \E r \in Runs : Go(r, "free", "submitted"))

LEMMA StreamsAfterTurn ==
  ASSUME DeliveryTypeOK, Starts, ~streamCancelled', pumpInflight' <= 1, streamCh' \notin Runs,
         \A q \in Runs : pc[q] # "submitted" /\ q \notin opened' /\ readers'[q] = 0
  PROVE  Streams'
  <1>0. pc \in [Runs -> Stages]
    BY DEF DeliveryTypeOK, AgentTypeOK
  <1>1. CASE UNCHANGED pc
    <2>1. \A q \in Runs : ~ Awaited(q)'
      BY <1>1 DEF Awaited
    <2> QED BY <1>1, <2>1 DEF Streams
  <1>2. CASE working' /\ \E r \in Runs : Go(r, "free", "submitted")
    <2>1. PICK r \in Runs : Go(r, "free", "submitted")
      BY <1>2
    <2>2. pc'[r] = "submitted" /\ \A q \in Runs \ {r} : pc'[q] # "submitted"
      BY <1>0, <2>1 DEF Go
    <2>3. \A q \in Runs : Awaited(q)' <=> q = r
      BY <2>2 DEF Awaited
    <2> QED BY <1>2, <2>2, <2>3 DEF Streams
  <1> QED BY <1>1, <1>2 DEF Starts

LEMMA OnStageAfterTurn ==
  ASSUME DeliveryTypeOK, OnStage, Starts, UNCHANGED <<gone, told>>,
         \A q \in Runs : ~ Unfinished(q) /\ (NoEnd(q) => NoEnd(q)')
  PROVE  OnStage'
  <1>0. pc \in [Runs -> Stages]
    BY DEF DeliveryTypeOK, AgentTypeOK
  <1>1. \A q \in Runs : pc'[q] = pc[q] \/ (pc[q] = "free" /\ pc'[q] = "submitted")
    BY <1>0 DEF Starts, Go
  <1>2. \A q \in Runs : ~ Unfinished(q)'
    BY <1>1 DEF Unfinished
  <1>3. \A q \in Runs : pc'[q] \in {"free", "submitted"} => pc[q] \in {"free", "submitted"}
    BY <1>1
  <1> QED BY <1>1, <1>2, <1>3 DEF OnStage

\* Runs that are called, refused or started leave the others' places.
Early ==
  \A q \in Runs : \/ pc'[q] = pc[q]
                  \/ /\ pc[q] \in {"free", "submitted"}
                     /\ pc'[q] \in {"submitted", "called", "closed"}

LEMMA EarlyKeeps ==
  ASSUME Cancels, Saw, Early, UNCHANGED <<cancelFunc, cancelled, fresh, session, seen>>
  PROVE  Cancels' /\ Saw'
  <1>1. Cancels'
    BY DEF Cancels, Early
  <1>2. \A q \in Runs : pc'[q] \in {"stepping", "deciding"} => pc'[q] = pc[q]
    BY DEF Early
  <1>3. Saw'
    BY <1>2 DEF Saw
  <1> QED BY <1>1, <1>3

LEMMA StartsEarly ==
  ASSUME DeliveryTypeOK, Starts
  PROVE  Early
  <1>1. CASE UNCHANGED pc
    BY <1>1 DEF Early
  <1>2. ASSUME NEW r \in Runs, Go(r, "free", "submitted") PROVE Early
    <2>1. pc \in [Runs -> Stages]
      BY DEF DeliveryTypeOK, AgentTypeOK
    <2>2. pc[r] = "free" /\ pc'[r] = "submitted" /\ \A q \in Runs \ {r} : pc'[q] = pc[q]
      BY <1>2, <2>1 DEF Go
    <2> QED BY <2>2 DEF Early
  <1> QED BY <1>1, <1>2 DEF Starts

LEMMA WakeupStarts ==
  ASSUME NEW q, Wakeup(q)
  PROVE  Starts
  BY WakeupRun DEF Starts

\* An idle terminal starts a turn, or does not.
LEMMA IdleOneTurn ==
  ASSUME DeliveryTypeOK, Streams, OnStage, Cancels, Saw, ~working, Starts,
         UNCHANGED <<step, told, cancelled, gone, frames, fresh, agentVars>>,
         UNCHANGED streamVars
  PROVE  Streams' /\ OnStage' /\ Cancels' /\ Saw'
  <1>1. /\ \A q \in Runs : pc[q] # "submitted" /\ q \notin opened /\ readers[q] = 0
        /\ streamCh \notin Runs
    BY IdleTerminal
  <1>2. Streams'
    <2>1. ~streamCancelled' /\ pumpInflight' <= 1 /\ streamCh' \notin Runs
      BY <1>1 DEF Streams, streamVars
    <2>2. \A q \in Runs : pc[q] # "submitted" /\ q \notin opened' /\ readers'[q] = 0
      BY <1>1 DEF streamVars
    <2> QED BY <2>1, <2>2, StreamsAfterTurn
  <1>3. OnStage'
    <2>1. \A q \in Runs : ~ Unfinished(q)
      BY <1>1 DEF OnStage, Awaited
    <2>2. \A q \in Runs : NoEnd(q) => NoEnd(q)'
      BY DEF NoEnd
    <2> QED BY <2>1, <2>2, OnStageAfterTurn
  <1>4. Cancels' /\ Saw'
    BY StartsEarly, EarlyKeeps DEF agentVars
  <1> QED BY <1>2, <1>3, <1>4

\* A working terminal changes nothing of the stream; a read is under way, so
\* none is started.
LEMMA PumpIsIdle ==
  ASSUME DeliveryTypeOK, Streams, PumpIfOpen
  PROVE  UNCHANGED <<pumpInflight, readers>>
  BY DEF PumpIfOpen, Streams, DeliveryTypeOK

LEMMA SameStreams ==
  ASSUME Streams, OnStage, UNCHANGED <<pc, told, gone, frames>>, UNCHANGED <<streamVars, working>>
  PROVE  Streams' /\ OnStage'
  <1>0. UNCHANGED <<pc, told, gone, frames, streamCancelled, streamCh, pumpInflight, opened,
                    readers, working>>
    BY DEF streamVars
  <1>1. ASSUME NEW q \in Runs PROVE /\ Awaited(q)' <=> Awaited(q)
                                    /\ Unfinished(q)' <=> Unfinished(q)
                                    /\ NoEnd(q)' <=> NoEnd(q)
    BY <1>0, Zenon DEF Awaited, Unfinished, NoEnd
  <1>2. Streams'
    <2>1. ~streamCancelled' /\ pumpInflight' <= 1
      BY <1>0 DEF Streams
    <2>2. \A r \in Runs : Awaited(r)' => working'
      BY <1>0, <1>1 DEF Streams
    <2>3. \A r, q \in Runs : Awaited(r)' /\ Awaited(q)' => r = q
      BY <1>1 DEF Streams
    <2>4. \A r \in Runs :
            /\ readers'[r] <= 1
            /\ pc'[r] = "submitted" \/ r \in opened' => readers'[r] = 0
            /\ pc'[r] = "submitted" => r \notin opened'
            /\ streamCh' = r => readers'[r] = 1 /\ pumpInflight' = 1
      BY <1>0 DEF Streams
    <2> QED BY <2>1, <2>2, <2>3, <2>4 DEF Streams
  <1>3. OnStage'
    BY <1>0, <1>1 DEF OnStage
  <1> QED BY <1>2, <1>3

LEMMA SameOneTurn ==
  ASSUME Streams, OnStage, Cancels, Saw,
         UNCHANGED <<runVars, agentVars, streamVars, working>>
  PROVE  Streams' /\ OnStage' /\ Cancels' /\ Saw'
  <1>1. UNCHANGED <<pc, told, gone, frames>> /\ UNCHANGED <<streamVars, working>>
    BY DEF runVars
  <1>2. Streams' /\ OnStage'
    BY <1>1, SameStreams
  <1>3. Cancels' /\ Saw'
    BY DEF Cancels, Saw, runVars, agentVars
  <1> QED BY <1>2, <1>3

LEMMA DeliverOneTurn ==
  ASSUME DeliveryTypeOK, Streams, OnStage, Cancels, Saw, NEW n \in Notices, Deliver(n)
  PROVE  Streams' /\ OnStage' /\ Cancels' /\ Saw'
  <1>1. CASE UNCHANGED <<pc, input, working>>
    <2>1. UNCHANGED <<runVars, agentVars, streamVars, working>>
      BY <1>1 DEF Deliver, runVars
    <2> QED BY <2>1, SameOneTurn
  <1>2. CASE ~working /\ Wakeup(queue \cup {{n}})
    <2>1. Starts
      BY <1>2, WakeupStarts
    <2> QED BY <1>2, <2>1, IdleOneTurn DEF Deliver
  <1> QED BY <1>1, <1>2 DEF Deliver

LEMMA KeysOneTurn ==
  ASSUME DeliveryTypeOK, Streams, OnStage, Cancels, Saw, Key \/ Enter
  PROVE  Streams' /\ OnStage' /\ Cancels' /\ Saw'
  <1>1. CASE Key
    <2>1. UNCHANGED <<runVars, agentVars, streamVars, working>>
      BY <1>1, PumpIsIdle DEF Key, streamVars, noticeVars
    <2> QED BY <2>1, SameOneTurn
  <1>2. CASE Enter /\ working
    <2>1. UNCHANGED <<runVars, agentVars, streamVars, working>>
      BY <1>2, PumpIsIdle DEF Enter, runVars, streamVars
    <2> QED BY <2>1, SameOneTurn
  <1>3. CASE Enter /\ ~working
    <2>1. Starts
      <3>1. StartTurn(UNION queue)
        BY <1>3 DEF Enter
      <3> QED BY <3>1, StartTurnRun DEF Starts
    <2>2. /\ UNCHANGED <<step, told, cancelled, gone, frames, fresh, agentVars>>
          /\ UNCHANGED streamVars
      BY <1>3 DEF Enter, streamVars
    <2> QED BY <1>3, <2>1, <2>2, IdleOneTurn
  <1> QED BY <1>1, <1>2, <1>3

LEMMA CallsOneTurn ==
  ASSUME DeliveryTypeOK, Streams, OnStage, Cancels, Saw, NEW c \in calls,
         Exec(c) \/ HandleCall(c)
  PROVE  Streams' /\ OnStage' /\ Cancels' /\ Saw'
  <1>1. CASE Exec(c)
    <2>1. CASE UNCHANGED <<runVars, agentVars, lost>>
      BY <1>1, <2>1, SameOneTurn DEF Exec
    <2>2. CASE InjectMessage(c.ns)
      <3>1. UNCHANGED <<pc, told, gone, frames>> /\ UNCHANGED <<streamVars, working>>
        BY <1>1, <2>2 DEF Exec, InjectMessage
      <3>2. Streams' /\ OnStage'
        BY <3>1, SameStreams
      <3>4. Cancels'
        BY <2>2 DEF InjectMessage, Cancels
      <3>5. \A q \in Runs : pc'[q] \in {"stepping", "deciding"} => q \in fresh'
        BY <2>2 DEF InjectMessage
      <3> QED BY <3>2, <3>4, <3>5 DEF Saw
    <2> QED BY <1>1, <2>1, <2>2 DEF Exec
  <1>2. CASE HandleCall(c) /\ UserInjected(c)
    <2>1. UNCHANGED <<runVars, agentVars, streamVars, working>>
      BY <1>2, PumpIsIdle DEF HandleCall, UserInjected, runVars, streamVars
    <2> QED BY <2>1, SameOneTurn
  <1>3. CASE HandleCall(c) /\ NoticeInjected(c)
    <2>1. /\ UNCHANGED <<step, told, cancelled, gone, frames, fresh, agentVars>>
          /\ UNCHANGED streamVars
      BY <1>3 DEF HandleCall, NoticeInjected, streamVars
    <2>2. CASE UNCHANGED <<pc, input, working>>
      BY <2>1, <2>2, SameOneTurn DEF runVars
    <2>3. CASE ~working /\ \E q : Wakeup(q)
      BY <2>1, <2>3, WakeupStarts, IdleOneTurn
    <2> QED BY <1>3, <2>2, <2>3 DEF NoticeInjected
  <1> QED BY <1>1, <1>2, <1>3 DEF HandleCall

LEMMA OpenOneTurn ==
  ASSUME DeliveryTypeOK, Streams, OnStage, Cancels, Saw, NEW r \in Runs, Open(r)
  PROVE  Streams' /\ OnStage' /\ Cancels' /\ Saw'
  <1>1. /\ pc[r] = "submitted" /\ pc'[r] = "called"
        /\ \A q \in Runs \ {r} : pc'[q] = pc[q]
        /\ opened' = opened \cup {r}
        /\ UNCHANGED <<told, cancelled, gone, frames, fresh, agentVars, working,
                       streamCancelled, streamCh, pumpInflight, readers>>
    BY DEF Open, Go, DeliveryTypeOK, AgentTypeOK, noticeVars
  <1>2. \A q \in Runs : Awaited(q)' <=> Awaited(q)
    BY <1>1 DEF Awaited
  <1>3. Streams'
    BY <1>1, <1>2 DEF Streams
  <1>4. OnStage'
    <2>1. \A q \in Runs : NoEnd(q)' <=> NoEnd(q)
      BY <1>1, Zenon DEF NoEnd
    <2>2. \A q \in Runs \ {r} : Unfinished(q)' <=> Unfinished(q)
      BY <1>1 DEF Unfinished
    <2>3. Awaited(r) /\ NoEnd(r)
      BY <1>1 DEF OnStage, Awaited
    <2> QED BY <1>1, <1>2, <2>1, <2>2, <2>3 DEF OnStage
  <1>5. Cancels' /\ Saw'
    BY <1>1, EarlyKeeps DEF Early, agentVars
  <1> QED BY <1>3, <1>4, <1>5

LEMMA RefuseOneTurn ==
  ASSUME DeliveryTypeOK, Streams, OnStage, Cancels, Saw, NEW r \in Runs, Refuse(r)
  PROVE  Streams' /\ OnStage' /\ Cancels' /\ Saw'
  <1>1. /\ pc[r] = "submitted" /\ pc'[r] = "closed"
        /\ \A q \in Runs \ {r} : pc'[q] = pc[q] /\ readers'[q] = readers[q]
        /\ readers'[r] = readers[r] + 1
        /\ UNCHANGED <<told, cancelled, gone, frames, fresh, agentVars, working,
                       streamCancelled, streamCh, pumpInflight, opened>>
    BY DEF Refuse, Go, DeliveryTypeOK, AgentTypeOK, noticeVars
  <1>2. readers[r] = 0 /\ readers'[r] = 1
    BY <1>1 DEF Streams
  <1>3. \A q \in Runs : Awaited(q)' <=> Awaited(q)
    BY <1>1, <1>2 DEF Awaited
  <1>4. Streams'
    BY <1>1, <1>2, <1>3 DEF Streams
  <1>5. OnStage'
    <2>1. \A q \in Runs : NoEnd(q)' <=> NoEnd(q)
      BY <1>1, Zenon DEF NoEnd
    <2>2. \A q \in Runs \ {r} : Unfinished(q)' <=> Unfinished(q)
      BY <1>1 DEF Unfinished
    <2>3. ~ Unfinished(r)'
      BY <1>1 DEF Unfinished
    <2> QED BY <1>1, <1>3, <2>1, <2>2, <2>3 DEF OnStage
  <1>6. Cancels' /\ Saw'
    BY <1>1, EarlyKeeps DEF Early, agentVars
  <1> QED BY <1>4, <1>5, <1>6

LEMMA HandleFirstOneTurn ==
  ASSUME DeliveryTypeOK, Streams, OnStage, Cancels, Saw, NEW r \in Runs, HandleFirst(r)
  PROVE  Streams' /\ OnStage' /\ Cancels' /\ Saw'
  <1>1. /\ r \in opened /\ opened' = opened \ {r}
        /\ working' /\ ~streamCancelled' /\ streamCh' = r
        /\ readers'[r] = readers[r] + 1
        /\ \A q \in Runs \ {r} : readers'[q] = readers[q]
        /\ UNCHANGED <<pc, told, cancelled, gone, frames, fresh, agentVars>>
    BY DEF HandleFirst, DeliveryTypeOK, runVars
  <1>2. pumpInflight' = 1
    BY DEF HandleFirst, Inflight, Streams, DeliveryTypeOK
  <1>3. readers[r] = 0 /\ readers'[r] = 1 /\ pc[r] # "submitted"
    BY <1>1 DEF Streams
  <1>4. \A q \in Runs : Awaited(q)' <=> Awaited(q)
    BY <1>1, <1>3 DEF Awaited
  <1>5. Streams'
    BY <1>1, <1>2, <1>3, <1>4 DEF Streams
  <1>6. OnStage'
    <2>1. \A q \in Runs : (NoEnd(q)' <=> NoEnd(q)) /\ (Unfinished(q)' <=> Unfinished(q))
      BY <1>1, Zenon DEF NoEnd, Unfinished
    <2> QED BY <1>1, <1>4, <2>1 DEF OnStage
  <1>7. Cancels' /\ Saw'
    BY <1>1 DEF Cancels, Saw, agentVars
  <1> QED BY <1>5, <1>6, <1>7

\* The frames behind one that ends no stream.
LEMMA TailNoEnd ==
  ASSUME DeliveryTypeOK, NEW r \in Runs, frames[r] # <<>>,
         frames' = [frames EXCEPT ![r] = Tail(@)]
  PROVE  \A q \in Runs : NoEnd(q) => NoEnd(q)'
  <1>1. frames \in [Runs -> Seq(Frames)]
    BY DEF DeliveryTypeOK, AgentTypeOK
  <1>2. frames[r] \in Seq(Frames) /\ frames'[r] = Tail(frames[r])
    BY <1>1
  <1>3. NoEnd(r) => NoEnd(r)'
    <2> HIDE DEF Frames
    <2> QED BY <1>2 DEF NoEnd
  <1>4. ASSUME NEW q \in Runs, q # r PROVE NoEnd(q) => NoEnd(q)'
    <2>1. frames'[q] = frames[q]
      BY <1>1, <1>4
    <2> QED BY <2>1 DEF NoEnd
  <1> QED BY <1>3, <1>4

LEMMA RenderOneTurn ==
  ASSUME DeliveryTypeOK, Streams, OnStage, Cancels, Saw, NEW r \in Runs,
         readers[r] > 0, frames[r] # <<>>, frames' = [frames EXCEPT ![r] = Tail(@)],
         NEW f, Render(f),
         UNCHANGED <<told, cancelled, gone, fresh, agentVars, streamCancelled, opened>>
  PROVE  Streams' /\ OnStage' /\ Cancels' /\ Saw'
  <1>1. UNCHANGED <<pc, readers, streamCh>> /\ (working => working')
    BY DEF Render
  <1>2. pumpInflight' \in {1, pumpInflight} /\ pumpInflight' = 1
    BY DEF Render, Inflight, Streams, DeliveryTypeOK
  <1>3. \A q \in Runs : Awaited(q)' <=> Awaited(q)
    BY <1>1 DEF Awaited
  <1>4. Streams'
    BY <1>1, <1>2, <1>3 DEF Streams
  <1>5. OnStage'
    <2>1. \A q \in Runs : Unfinished(q)' <=> Unfinished(q)
      BY <1>1 DEF Unfinished
    <2> QED BY <1>1, <1>3, <2>1, TailNoEnd DEF OnStage
  <1>6. Cancels' /\ Saw'
    BY <1>1 DEF Cancels, Saw, agentVars
  <1> QED BY <1>4, <1>5, <1>6

\* The end of the turn on stage: nothing is awaited any more.
LEMMA EndTurnOneTurn ==
  ASSUME DeliveryTypeOK, Streams, OnStage, Cancels, Saw, NEW r \in Runs,
         readers[r] > 0, ~ Unfinished(r), EndTurn,
         readers' = [readers EXCEPT ![r] = @ - 1],
         \A q \in Runs : NoEnd(q) => NoEnd(q)',
         UNCHANGED <<told, cancelled, gone, fresh, agentVars, streamCancelled, opened>>
  PROVE  Streams' /\ OnStage' /\ Cancels' /\ Saw'
  <1>0. NoRun \notin Runs
    BY AgentAssumption
  <1>1. Starts
    BY WakeupStarts DEF EndTurn
  <1>2. Awaited(r) /\ readers[r] = 1
    BY DEF Awaited, Streams, DeliveryTypeOK
  <1>3. \A q \in Runs \ {r} : ~ Awaited(q)
    BY <1>2 DEF Streams
  <1>4. \A q \in Runs : pc[q] # "submitted" /\ q \notin opened' /\ readers'[q] = 0
    <2>1. pc[r] # "submitted" /\ r \notin opened /\ readers'[r] = 0
      BY <1>2 DEF Streams, DeliveryTypeOK
    <2>2. ASSUME NEW q \in Runs, q # r
          PROVE  pc[q] # "submitted" /\ q \notin opened /\ readers'[q] = 0
      BY <1>3, <2>2 DEF Awaited, DeliveryTypeOK
    <2> QED BY <2>1, <2>2
  <1>5. Streams'
    <2>1. ~streamCancelled' /\ pumpInflight' <= 1 /\ streamCh' \notin Runs
      BY <1>0 DEF Streams, EndTurn
    <2> QED BY <1>1, <1>4, <2>1, StreamsAfterTurn
  <1>6. OnStage'
    <2>1. \A q \in Runs : ~ Unfinished(q)
      BY <1>3 DEF OnStage
    <2> QED BY <1>1, <2>1, OnStageAfterTurn
  <1>7. Cancels' /\ Saw'
    BY <1>1, StartsEarly, EarlyKeeps DEF agentVars
  <1> QED BY <1>5, <1>6, <1>7

LEMMA HandleFrameOneTurn ==
  ASSUME DeliveryTypeOK, Streams, OnStage, Cancels, Saw, NEW r \in Runs, HandleFrame(r)
  PROVE  Streams' /\ OnStage' /\ Cancels' /\ Saw'
  <1>1. /\ readers[r] > 0 /\ ~streamCancelled
        /\ UNCHANGED <<told, cancelled, gone, fresh, agentVars, streamCancelled, opened>>
    BY DEF HandleFrame, Streams
  <1>2. CASE frames[r] # <<>> /\ Head(frames[r]) # "end"
    <2>1. frames' = [frames EXCEPT ![r] = Tail(@)] /\ Render(Head(frames[r]))
      BY <1>1, <1>2 DEF HandleFrame, Discard
    <2> QED BY <1>1, <1>2, <2>1, RenderOneTurn
  <1>3. CASE frames[r] # <<>> /\ Head(frames[r]) = "end"
    <2>1. /\ frames' = [frames EXCEPT ![r] = Tail(@)] /\ EndTurn
          /\ readers' = [readers EXCEPT ![r] = @ - 1]
      BY <1>1, <1>3 DEF HandleFrame, Discard
    <2>2. ~ Unfinished(r)
      <3>1. frames[r] \in Seq(Frames)
        BY DEF DeliveryTypeOK, AgentTypeOK
      <3>2. 1 \in DOMAIN frames[r] /\ frames[r][1] = "end"
        <4> HIDE DEF Frames
        <4> QED BY <1>3, <3>1
      <3>3. ~ NoEnd(r)
        BY <3>2 DEF NoEnd
      <3> QED BY <3>3 DEF OnStage
    <2>3. \A q \in Runs : NoEnd(q) => NoEnd(q)'
      BY <1>3, <2>1, TailNoEnd
    <2> QED BY <1>1, <2>1, <2>2, <2>3, EndTurnOneTurn
  <1>4. CASE frames[r] = <<>>
    <2>1. /\ pc[r] = "closed" /\ EndTurn /\ UNCHANGED frames
          /\ readers' = [readers EXCEPT ![r] = @ - 1]
      BY <1>1, <1>4 DEF HandleFrame, Discard
    <2>2. ~ Unfinished(r) /\ \A q \in Runs : NoEnd(q) => NoEnd(q)'
      BY <2>1 DEF Unfinished, NoEnd
    <2> QED BY <1>1, <2>1, <2>2, EndTurnOneTurn
  <1> QED BY <1>2, <1>3, <1>4

LEMMA RecycleOneTurn ==
  ASSUME DeliveryTypeOK, Streams, OnStage, Cancels, Saw, NEW r \in Runs, Recycle(r)
  PROVE  Streams' /\ OnStage' /\ Cancels' /\ Saw'
  <1>1. /\ pc[r] = "closed" /\ pc'[r] = "free"
        /\ ~ cancelled'[r] /\ gone'[r] = "no" /\ frames'[r] = <<>>
        /\ \A q \in Runs \ {r} : /\ pc'[q] = pc[q] /\ told'[q] = told[q]
                                 /\ cancelled'[q] = cancelled[q] /\ gone'[q] = gone[q]
                                 /\ frames'[q] = frames[q]
        /\ UNCHANGED <<fresh, agentVars, working, streamCancelled, streamCh,
                       pumpInflight, opened, readers>>
    BY DEF Recycle, Go, DeliveryTypeOK, AgentTypeOK, noticeVars
  <1>2. \A q \in Runs : Awaited(q)' <=> Awaited(q)
    BY <1>1 DEF Awaited
  <1>3. Streams'
    BY <1>1, <1>2 DEF Streams
  <1>4. OnStage'
    <2>1. ~ Unfinished(r)' /\ NoEnd(r)'
      BY <1>1 DEF Unfinished, NoEnd
    <2>2. \A q \in Runs \ {r} : (NoEnd(q)' <=> NoEnd(q)) /\ (Unfinished(q)' <=> Unfinished(q))
      BY <1>1 DEF NoEnd, Unfinished
    <2> QED BY <1>1, <1>2, <2>1, <2>2 DEF OnStage
  <1>5. Cancels'
    <2>1. cancelFunc # r
      BY <1>1 DEF Cancels
    <2> QED BY <1>1, <2>1 DEF Cancels, agentVars
  <1>6. Saw'
    BY <1>1 DEF Saw, agentVars
  <1> QED BY <1>3, <1>4, <1>5, <1>6

LEMMA InitOneTurn == Init => OneTurn
  <1> SUFFICES ASSUME Init PROVE Streams /\ OnStage /\ Cancels /\ Saw
    BY DEF OneTurn
  <1> USE AgentAssumption DEF Init, AgentInit
  <1>1. \A r \in Runs : ~ Awaited(r) /\ ~ Unfinished(r)
    BY DEF Awaited, Unfinished
  <1>2. Streams
    BY <1>1 DEF Streams
  <1>3. OnStage
    BY <1>1 DEF OnStage, NoEnd
  <1> QED BY <1>2, <1>3 DEF Cancels, Saw

\* The user's interrupts are counted, and nothing else touches the count.
LEMMA Uninterrupted ==
  ASSUME DeliveryTypeOK, [Next]_vars, interrupts' = 0
  PROVE  interrupts = 0 /\ ~ Interrupt
  <1>1. ~ Interrupt
    BY DEF Interrupt, DeliveryTypeOK
  <1>2. UNCHANGED interrupts
    BY <1>1 DEF Next, Deliver, AgentStep, Open, Refuse, HandleFirst, HandleFrame, Recycle,
                Exec, HandleCall, Enter, Key, streamVars, vars
  <1> QED BY <1>1, <1>2

LEMMA NextOneTurn ==
  ASSUME DeliveryTypeOK, OneTurn, [Next]_vars
  PROVE  OneTurn'
  <1> SUFFICES ASSUME interrupts' = 0 PROVE Streams' /\ OnStage' /\ Cancels' /\ Saw'
    BY DEF OneTurn
  <1>0. Streams /\ OnStage /\ Cancels /\ Saw /\ ~ Interrupt
    BY Uninterrupted DEF OneTurn
  <1>1. ASSUME NEW n \in Notices, Deliver(n) PROVE Streams' /\ OnStage' /\ Cancels' /\ Saw'
    BY <1>0, <1>1, DeliverOneTurn
  <1>2. ASSUME NEW r \in Runs, \/ AgentStep(r) \/ Open(r) \/ Refuse(r)
                               \/ HandleFirst(r) \/ HandleFrame(r) \/ Recycle(r)
        PROVE  Streams' /\ OnStage' /\ Cancels' /\ Saw'
    BY <1>0, <1>2, AgentStepOneTurn, OpenOneTurn, RefuseOneTurn, HandleFirstOneTurn,
       HandleFrameOneTurn, RecycleOneTurn
  <1>3. ASSUME NEW c \in calls, Exec(c) \/ HandleCall(c)
        PROVE  Streams' /\ OnStage' /\ Cancels' /\ Saw'
    BY <1>0, <1>3, CallsOneTurn
  <1>4. CASE Enter \/ Key
    BY <1>0, <1>4, KeysOneTurn
  <1>5. CASE UNCHANGED vars
    BY <1>0, <1>5, SameOneTurn DEF vars, noticeVars
  <1> QED BY <1>0, <1>1, <1>2, <1>3, <1>4, <1>5 DEF Next

LEMMA OneTurnHolds == Spec => []OneTurn
  BY InitOneTurn, DeliveryTypesHold, NextOneTurn, PTL DEF Spec

\* RunStream and the deferred releases of earlier runs: without an interrupt, a
\* run that is cancelled by a later one has nothing left to do but to return.
THEOREM TurnsEndByThemselves == Spec => []NoTurnIsCutShort
  <1>1. OneTurn => NoTurnIsCutShort
    BY DEF OneTurn, Cancels, NoTurnIsCutShort
  <1> QED BY <1>1, OneTurnHolds, PTL

\* hasNewInjectedSince: without an interrupt, the model has seen every message
\* the agent accepted before the turn is reported complete.
THEOREM CompletedTurnsSaw == Spec => CompletedTurnSawAll
  <1>1. OneTurn /\ [Next]_vars =>
          [interrupts = 0 => \A r \in Runs : Complete(r) => session \subseteq seen]_vars
    BY DEF OneTurn, Saw, Complete, Move, Go
  <1> QED BY <1>1, OneTurnHolds, PTL DEF Spec, CompletedTurnSawAll
=============================================================================

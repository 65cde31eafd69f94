--------------------------- MODULE NoticeDelivery ---------------------------
(***************************************************************************)
(* The terminal's event loop as far as it carries completion notices to    *)
(* the agent: src/tui/wakeup.go, and in src/tui/tui.go the handlers of     *)
(* keys, stream frames and injection results.                              *)
(*                                                                         *)
(* Each handler of the event loop is one action; the commands it returns   *)
(* (the call of RunStream, a read of the stream, a call of InjectMessage)  *)
(* run on goroutines of their own and are actions too, except that a read  *)
(* and the handling of what it read are one.                               *)
(*                                                                         *)
(* The queue holds texts.  A text that is put back after a failed          *)
(* injection may carry several notices, so an entry is a set of notices.   *)
(* A user message is known by the notices that were joined to it.          *)
(***************************************************************************)
EXTENDS AgentRun

CONSTANTS MaxUserActions, \* bound: messages and interrupts of the user
          OpenFails       \* the call of RunStream may fail

ASSUME DeliveryAssumption == MaxUserActions \in Nat /\ OpenFails \in BOOLEAN

VARIABLES announced,       \* notices given to deliverCompletionNotice
          queue,           \* pendingWakeups
          working,         \* thinking or streaming
          streamCancelled, turnCancel, streamCh, pumpInflight,
          opened,          \* runs whose first frame waits to be handled
          readers,         \* reads of a run's stream under way
          calls,           \* calls of InjectMessage under way
          dropped,         \* history: notices taken back as read
          interrupts,      \* history: how often the user interrupted
          messages         \* history: how many messages the user typed

streamVars == <<streamCancelled, turnCancel, streamCh, pumpInflight, opened,
                readers, interrupts>>
noticeVars == <<announced, queue, working, calls, dropped, messages>>
vars == <<runVars, agentVars, lost, streamVars, noticeVars>>

Calls == [ns : SUBSET Notices, by : {"notice", "user"},
          at : {"sent", "ok", "failed"}]

\* Runs, streams, queue and calls stay within their types.
DeliveryTypeOK ==
  /\ AgentTypeOK
  /\ announced \in SUBSET Notices
  /\ queue \in SUBSET (SUBSET Notices)
  /\ working \in BOOLEAN
  /\ streamCancelled \in BOOLEAN
  /\ turnCancel \in Runs \cup {NoRun}
  /\ streamCh \in Runs \cup {NoRun}
  /\ pumpInflight \in Nat
  /\ opened \in SUBSET Runs
  /\ readers \in [Runs -> Nat]
  /\ calls \in SUBSET Calls
  /\ dropped \in SUBSET Notices
  /\ interrupts \in 0..MaxUserActions
  /\ messages \in 0..MaxUserActions

Init ==
  /\ AgentInit
  /\ announced = {}
  /\ queue = {}
  /\ working = FALSE
  /\ streamCancelled = FALSE
  /\ turnCancel = NoRun
  /\ streamCh = NoRun
  /\ pumpInflight = 0
  /\ opened = {}
  /\ readers = [r \in Runs |-> 0]
  /\ calls = {}
  /\ dropped = {}
  /\ interrupts = 0
  /\ messages = 0

-----------------------------------------------------------------------------
\* Turns.

\* startTurn, with its command submitCmd.  The handler waits when all runs of
\* the bound are in use.
StartTurn(ns) ==
  LET r == CHOOSE q \in Runs : pc[q] = "free"
  IN  /\ \E q \in Runs : pc[q] = "free"
      /\ Submit(r, ns)
      /\ working' = TRUE
      /\ queue' = {}

\* A bug: what is queued is left to the next event.
WakeupLater(q) == /\ working' = FALSE
                  /\ queue' = q
                  /\ UNCHANGED <<pc, input>>

\* The turn is over, q is queued: tryWakeup.
Wakeup(q) ==
  IF q = {} THEN /\ working' = FALSE
                 /\ queue' = {}
                 /\ UNCHANGED <<pc, input>>
            ELSE StartTurn(UNION q)

\* A bug: a notice always starts a turn of its own.
DeliverAsTurn(n) ==
  /\ n \notin announced
  /\ announced' = announced \cup {n}
  /\ Wakeup(queue \cup {{n}})
  /\ UNCHANGED <<step, told, cancelled, gone, frames, fresh, agentVars, lost,
                 streamVars, calls, dropped, messages>>

\* deliverCompletionNotice, called for a finished job or a cron job that asked
\* to be announced.
Deliver(n) ==
  LET q == queue \cup {{n}} IN
  /\ n \notin announced
  /\ announced' = announced \cup {n}
  /\ IF working
     THEN /\ calls' = calls \cup {[ns |-> UNION q, by |-> "notice", at |-> "sent"]}
          /\ queue' = {}
          /\ UNCHANGED <<pc, input, working>>
     ELSE Wakeup(q) /\ UNCHANGED calls
  /\ UNCHANGED <<step, told, cancelled, gone, frames, fresh, agentVars, lost,
                 streamVars, dropped, messages>>

\* A bug: a read is started whether or not one is under way.
PumpAlways ==
  IF streamCh # NoRun
  THEN /\ pumpInflight' = 1
       /\ readers' = [readers EXCEPT ![streamCh] = @ + 1]
  ELSE UNCHANGED <<pumpInflight, readers>>

\* pumpStreamIfOpen
PumpIfOpen ==
  IF pumpInflight = 0 /\ streamCh # NoRun
  THEN /\ pumpInflight' = 1
       /\ readers' = [readers EXCEPT ![streamCh] = @ + 1]
  ELSE UNCHANGED <<pumpInflight, readers>>

\* Enter, with a text: what is queued goes along with it.
Enter ==
  LET ns == UNION queue
      c == [ns |-> ns, by |-> "user", at |-> "sent"] IN
  /\ messages + interrupts < MaxUserActions
  /\ messages' = messages + 1
  /\ IF working
     THEN /\ c \notin calls
          /\ calls' = calls \cup {c}
          /\ queue' = {}
          /\ PumpIfOpen
          /\ UNCHANGED <<pc, input, working>>
     ELSE StartTurn(ns) /\ UNCHANGED <<calls, pumpInflight, readers>>
  /\ UNCHANGED <<step, told, cancelled, gone, frames, fresh, agentVars, lost,
                 streamCancelled, turnCancel, streamCh, opened, interrupts,
                 announced, dropped>>

\* Any other key while a turn is going on.
Key ==
  /\ PumpIfOpen
  /\ UNCHANGED <<runVars, agentVars, lost, noticeVars, streamCancelled,
                 turnCancel, streamCh, opened, interrupts>>

\* Ctrl+C: interruptTurn.  Frames the client has not received are replaced by
\* the error that ends its stream.
Interrupt ==
  /\ working
  /\ messages + interrupts < MaxUserActions
  /\ interrupts' = interrupts + 1
  /\ working' = FALSE
  /\ streamCancelled' = TRUE
  /\ turnCancel' = NoRun
  /\ streamCh' = NoRun
  /\ pumpInflight' = 0
  /\ IF turnCancel = NoRun THEN UNCHANGED <<gone, frames>>
     ELSE /\ gone' = [gone EXCEPT ![turnCancel] = IF @ = "no" THEN "cancelled" ELSE @]
          /\ \E k \in 0..Len(frames[turnCancel]) :
               frames' = [frames EXCEPT ![turnCancel] =
                            Append(SubSeq(@, 1, k), "end")]
  /\ UNCHANGED <<pc, input, step, told, cancelled, fresh, agentVars, lost,
                 opened, readers, announced, queue, calls, dropped, messages>>

-----------------------------------------------------------------------------
\* The stream.

\* submitCmd returns: the stream is open, or could not be opened.
Open(r) ==
  /\ Go(r, "submitted", "called")
  /\ opened' = opened \cup {r}
  /\ UNCHANGED <<input, step, told, cancelled, gone, frames, fresh, agentVars,
                 lost, noticeVars, streamCancelled, turnCancel, streamCh,
                 pumpInflight, readers, interrupts>>

\* A bug: the error is not reported to the event loop.
RefuseSilently(r) ==
  /\ OpenFails
  /\ Go(r, "submitted", "closed")
  /\ lost' = lost \cup input[r]
  /\ input' = [input EXCEPT ![r] = {}]
  /\ UNCHANGED <<step, told, cancelled, gone, frames, fresh, agentVars,
                 noticeVars, streamVars>>

\* The error comes back as a last frame without a first one, and is handled
\* like the end of a stream.
Refuse(r) ==
  /\ OpenFails
  /\ Go(r, "submitted", "closed")
  /\ lost' = lost \cup input[r]
  /\ input' = [input EXCEPT ![r] = {}]
  /\ readers' = [readers EXCEPT ![r] = @ + 1]
  /\ UNCHANGED <<step, told, cancelled, gone, frames, fresh, agentVars,
                 noticeVars, streamCancelled, turnCancel, streamCh,
                 pumpInflight, opened, interrupts>>

\* A bug: reads that an interrupt has written off are counted back.
InflightUnchecked == pumpInflight - 1

\* A frame that was handled was a read that came back.
Inflight == IF pumpInflight > 0 THEN pumpInflight - 1 ELSE 0

\* A bug: the first frame is handled, and the stream is not read on.
FirstFrameOnly(r) ==
  /\ r \in opened
  /\ opened' = opened \ {r}
  /\ working' = TRUE
  /\ streamCancelled' = FALSE
  /\ turnCancel' = r
  /\ streamCh' = r
  /\ UNCHANGED <<runVars, agentVars, lost, announced, queue, calls, dropped,
                 pumpInflight, readers, interrupts, messages>>

HandleFirst(r) ==
  /\ r \in opened
  /\ opened' = opened \ {r}
  /\ working' = TRUE
  /\ streamCancelled' = FALSE
  /\ turnCancel' = r
  /\ streamCh' = r
  /\ pumpInflight' = Inflight + 1
  /\ readers' = [readers EXCEPT ![r] = @ + 1]
  /\ UNCHANGED <<runVars, agentVars, lost, announced, queue, calls, dropped,
                 interrupts, messages>>

\* A frame of an interrupted turn: not read on.
Discard(r) ==
  /\ streamCancelled
  /\ pumpInflight' = Inflight
  /\ readers' = [readers EXCEPT ![r] = @ - 1]
  /\ UNCHANGED <<pc, input, lost, noticeVars, streamCh>>

\* job_output returned what n announces: dropNoticeFor.
DropNoticeFor(n) ==
  LET S == UNION {e \in queue : n \in e} IN
  /\ queue' = {e \in queue : n \notin e}
  /\ dropped' = dropped \cup (S \cap {n})
  /\ lost' = lost \cup (S \ {n})

\* Any frame but the last: read the next one of the same stream.
Render(f) ==
  /\ ~streamCancelled
  /\ working' = (working \/ f = "content")
  /\ pumpInflight' = Inflight + 1
  /\ IF f \in Notices THEN DropNoticeFor(f) ELSE UNCHANGED <<queue, dropped, lost>>
  /\ UNCHANGED <<pc, input, announced, calls, readers, streamCh>>

\* The turn is over: success, error, or the stream is closed.
EndTurn ==
  /\ ~streamCancelled
  /\ streamCh' = NoRun
  /\ pumpInflight' = 0
  /\ Wakeup(queue)
  /\ UNCHANGED <<announced, calls, dropped, lost>>

HandleFrame(r) ==
  /\ readers[r] > 0
  /\ \/ /\ frames[r] # <<>>
        /\ frames' = [frames EXCEPT ![r] = Tail(@)]
        /\ \/ Discard(r)
           \/ Head(frames[r]) # "end" /\ Render(Head(frames[r]))
           \/ /\ Head(frames[r]) = "end" /\ EndTurn
              /\ readers' = [readers EXCEPT ![r] = @ - 1]
     \/ /\ frames[r] = <<>> /\ pc[r] = "closed"
        /\ \/ Discard(r)
           \/ EndTurn /\ readers' = [readers EXCEPT ![r] = @ - 1]
        /\ UNCHANGED frames
  /\ UNCHANGED <<step, told, cancelled, gone, fresh, agentVars,
                 streamCancelled, turnCancel, opened, interrupts, messages>>

-----------------------------------------------------------------------------
\* Injections.

\* A call of InjectMessage runs in the agent.
Exec(c) ==
  /\ c.at = "sent"
  /\ IF Accepts
     THEN /\ InjectMessage(c.ns)
          /\ calls' = (calls \ {c}) \cup {[c EXCEPT !.at = "ok"]}
     ELSE /\ calls' = (calls \ {c}) \cup {[c EXCEPT !.at = "failed"]}
          /\ UNCHANGED <<runVars, agentVars, lost>>
  /\ UNCHANGED <<streamVars, announced, queue, working, dropped, messages>>

\* A bug: the notices are queued again although the agent has taken them.
NoticeKept(c) ==
  LET q == queue \cup {c.ns} IN
  /\ IF working THEN queue' = q /\ UNCHANGED <<pc, input, working>> ELSE Wakeup(q)
  /\ UNCHANGED <<lost, pumpInflight, readers>>

\* A bug: they are queued again and nobody looks whether a turn is going on.
NoticeWaits(c) ==
  /\ queue' = IF c.at = "failed" THEN queue \cup {c.ns} ELSE queue
  /\ UNCHANGED <<pc, input, working, lost, pumpInflight, readers>>

\* A bug: notices that were refused are queued again only while a turn is going
\* on.
NoticeForgotten(c) ==
  /\ queue' = IF c.at = "failed" /\ working THEN queue \cup {c.ns} ELSE queue
  /\ UNCHANGED <<pc, input, working, lost, pumpInflight, readers>>

\* jobNoticeInjectedMsg: notices that were refused are queued again.
NoticeInjected(c) ==
  LET q == IF c.at = "failed" THEN queue \cup {c.ns} ELSE queue IN
  /\ IF working THEN queue' = q /\ UNCHANGED <<pc, input, working>> ELSE Wakeup(q)
  /\ UNCHANGED <<lost, pumpInflight, readers>>

\* injectedMsg: the user reads an error message, nothing is queued again.
UserInjected(c) ==
  /\ lost' = IF c.at = "failed" THEN lost \cup c.ns ELSE lost
  /\ PumpIfOpen
  /\ UNCHANGED <<pc, input, working, queue>>

HandleCall(c) ==
  /\ c.at # "sent"
  /\ calls' = calls \ {c}
  /\ IF c.by = "notice" THEN NoticeInjected(c) ELSE UserInjected(c)
  /\ UNCHANGED <<step, told, cancelled, gone, frames, fresh, agentVars,
                 announced, dropped, streamCancelled, turnCancel, streamCh,
                 opened, interrupts, messages>>

-----------------------------------------------------------------------------
\* A run that is over and whose stream nobody holds: its identity may be used
\* again.  Cancelling it has no effect any more.
Recycle(r) ==
  /\ Go(r, "closed", "free")
  /\ r \notin opened
  /\ readers[r] = 0
  /\ streamCh # r
  /\ step' = [step EXCEPT ![r] = 0]
  /\ told' = [told EXCEPT ![r] = FALSE]
  /\ cancelled' = [cancelled EXCEPT ![r] = FALSE]
  /\ gone' = [gone EXCEPT ![r] = "no"]
  /\ frames' = [frames EXCEPT ![r] = <<>>]
  /\ turnCancel' = IF turnCancel = r THEN NoRun ELSE turnCancel
  /\ UNCHANGED <<input, fresh, agentVars, lost, noticeVars, streamCancelled,
                 streamCh, pumpInflight, opened, readers, interrupts>>

AgentStep(r) ==
  /\ \/ RunStep(r)
     \/ \E f \in {"content", "quiet"} \cup announced : Progress(r, f)
  /\ UNCHANGED <<streamVars, noticeVars>>

Next ==
  \/ \E n \in Notices : Deliver(n)
  \/ \E r \in Runs : \/ AgentStep(r) \/ Open(r) \/ Refuse(r)
                     \/ HandleFirst(r) \/ HandleFrame(r) \/ Recycle(r)
  \/ \E c \in calls : Exec(c) \/ HandleCall(c)
  \/ Enter \/ Key \/ Interrupt

Spec == Init /\ [][Next]_vars

\* Goroutines, calls and the event loop go on; users and jobs need not.  A run
\* in the middle of a step finishes it: Progress alone is no progress.
Fairness ==
  /\ \A r \in Runs :
       /\ WF_vars(RunStep(r) /\ UNCHANGED <<streamVars, noticeVars>>)
       /\ WF_vars(Open(r) \/ HandleFirst(r) \/ HandleFrame(r) \/ Recycle(r))
  /\ \A n \in Notices :
       WF_vars(\E c \in calls : n \in c.ns /\ (Exec(c) \/ HandleCall(c)))

FairSpec == Spec /\ Fairness

-----------------------------------------------------------------------------
\* Properties.

\* A notice is in one place only: in the queue, in one call of InjectMessage
\* that has not succeeded, with one run, in the session, or written off; so it
\* is never delivered twice and never vanishes between two handlers.
OnePlace ==
  LET inQueue(n) == {e \in queue : n \in e}
      inCalls(n) == {c \in calls : n \in c.ns /\ c.at # "ok"}
      inRuns(n) == {r \in Runs : n \in input[r]}
      settled(n) == {S \in {<<"session", session>>, <<"lost", lost>>,
                            <<"dropped", dropped>>} : n \in S[2]}
  IN  \A n \in Notices :
        Cardinality(inQueue(n)) + Cardinality(inCalls(n))
          + Cardinality(inRuns(n)) + Cardinality(settled(n))
            = IF n \in announced THEN 1 ELSE 0

\* pumpStream, pumpInflight: a stream has one consumer, whatever interrupts have
\* done to the count of reads; two reads at once would let frames change places.
SingleReader == \A r \in Runs : readers[r] <= 1

\* emit, pumpStream: a run that has a frame to send, and whose caller has not
\* cancelled it, is being read, so it does not block for good.  A second
\* interrupt may miss a run: only the last turn that began can be cancelled.
RunsAreRead ==
  interrupts <= 1 =>
    \A r \in Runs :
      /\ gone[r] = "no"
      /\ pc[r] \notin {"free", "submitted", "closed"}
      /\ ~told[r]
      => r \in opened \/ readers[r] > 0

\* The terminal shows a turn at work only while something will still come back
\* to the event loop for it.
NoStuckTurn ==
  working => \/ opened # {}
             \/ \E r \in Runs : pc[r] = "submitted" \/ readers[r] > 0
             \/ OpenFails /\ streamCancelled

\* wakeup.go: notices wait in the queue of an idle terminal only when the user
\* has just interrupted a turn.
WaitsOnlyAfterInterrupt == queue # {} /\ ~working => streamCancelled

\* wakeup.go: when the terminal is idle, no injection is under way and no run
\* is in its prologue, every announced notice is in the session or written
\* off, except for what waits in the queue after an interrupt.
NothingLeftBehind ==
  /\ ~working /\ calls = {}
  /\ \A r \in Runs : pc[r] \notin {"submitted", "called", "claimed"}
  => announced \subseteq session \cup lost \cup dropped
                            \cup (IF streamCancelled THEN UNION queue ELSE {})

\* A turn is cut short by a later one only if the user interrupted before.
NoTurnIsCutShort ==
  interrupts = 0 =>
    \A r \in Runs : cancelled[r] => pc[r] \in {"leaving", "releasing", "over", "closed"}

\* hasNewInjectedSince: a turn the model completes has shown it all that was
\* accepted until then (the input of another run is that run's business).
CompletedTurnSawAll ==
  [][interrupts = 0 => \A r \in Runs : Complete(r) => session \subseteq seen]_vars

\* Every announced notice is accepted by the agent, or is written off, unless
\* the user interrupts.  (There are finitely many notices, and none is taken
\* back from where it ends up, so "again and again" says it of each.)
Delivered == []<>(announced \subseteq session \cup lost \cup dropped \/ interrupts > 0)

Abstract == INSTANCE NoticeLifecycle WITH accepted <- session

\* The way of a notice is the abstract one.
ImplementsLifecycle == Abstract!Spec
=============================================================================

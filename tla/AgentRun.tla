------------------------------ MODULE AgentRun ------------------------------
(***************************************************************************)
(* The agent's side of a turn: src/plugins/agent-react-loop/main.go        *)
(* (RunStream, runLoop, InjectMessage) and the stream that carries its     *)
(* frames to the host (src/core/grpc_agent.go).                            *)
(*                                                                         *)
(* A run is one call of RunStream; pc keeps its place:                     *)
(*                                                                         *)
(*   submitted             the host's call is on its way    *)
(*   called, claimed       the run's prologue                              *)
(*   loop, stepping        between two requests, and in the middle of one  *)
(*   deciding, telling     the model called no tool; the last frame        *)
(*   leaving .. over       the deferred functions                          *)
(*   stuck                 blocked for good on a channel nobody reads      *)
(*                                                                         *)
(* Abstracted: the prompt, the tools and the answers.  Of a user message   *)
(* only the completion notices it carries are kept, of the session only    *)
(* the notices recorded in it.  Of the event log, see SessionLog.          *)
(* The module has no Next: NoticeDelivery composes it with the terminal.   *)
(***************************************************************************)
EXTENDS Naturals, Sequences, FiniteSets

CONSTANTS Runs,          \* identities of runs, used again when a run is over
          NoRun,
          Notices,       \* completion notices, one per job
          MaxIterations, \* DSC_MAX_ITERATIONS: requests per run
          MaxFrames,     \* bound: frames in flight between agent and host
          RunFails       \* setting a run up, or a request, may fail

ASSUME AgentAssumption ==
  /\ NoRun \notin Runs
  /\ Notices \cap {"content", "quiet", "end"} = {}
  /\ MaxIterations \in Nat \ {0}
  /\ MaxFrames \in Nat \ {0}
  /\ RunFails \in BOOLEAN

VARIABLES pc,         \* where a run is
          input,      \* the notices handed to a run and not yet recorded
          step,       \* its requests so far
          told,       \* its last frame has been emitted
          cancelled,  \* its own context was cancelled by a later run
          gone,       \* its caller: there, cancelled, or no longer reading
          frames,     \* the frames on their way to the host
          fresh,      \* runs injected into since they last took the history
          runActive, cancelFunc,  \* fields of the agent
          loaded,     \* the agent has a session
          session,    \* the notices in it
          seen,       \* those that were part of a request to the model
          lost        \* history: notices dropped on an error path

runVars == <<pc, input, step, told, cancelled, gone, frames, fresh>>
agentVars == <<runActive, cancelFunc, loaded, session, seen>>

Stages == {"free", "submitted", "called", "claimed", "loop", "stepping",
           "deciding", "telling", "leaving", "releasing", "over", "closed",
           "stuck"}

Frames == {"content", "quiet", "end"} \cup Notices

AgentTypeOK ==
  /\ pc \in [Runs -> Stages]
  /\ input \in [Runs -> SUBSET Notices]
  /\ step \in [Runs -> 0..MaxIterations]
  /\ told \in [Runs -> BOOLEAN]
  /\ cancelled \in [Runs -> BOOLEAN]
  /\ gone \in [Runs -> {"no", "cancelled", "left"}]
  /\ frames \in [Runs -> Seq(Frames)]
  /\ fresh \in SUBSET Runs
  /\ runActive \in BOOLEAN
  /\ cancelFunc \in Runs \cup {NoRun}
  /\ loaded \in BOOLEAN
  /\ session \in SUBSET Notices
  /\ seen \in SUBSET Notices
  /\ lost \in SUBSET Notices

\* A session may have been loaded before the first run (SwitchSession).
AgentInit ==
  /\ pc = [r \in Runs |-> "free"]
  /\ input = [r \in Runs |-> {}]
  /\ step = [r \in Runs |-> 0]
  /\ told = [r \in Runs |-> FALSE]
  /\ cancelled = [r \in Runs |-> FALSE]
  /\ gone = [r \in Runs |-> "no"]
  /\ frames = [r \in Runs |-> <<>>]
  /\ fresh = {}
  /\ runActive = FALSE
  /\ cancelFunc = NoRun
  /\ loaded \in BOOLEAN
  /\ session = {}
  /\ seen = {}
  /\ lost = {}

Go(r, p, q) == /\ pc[r] = p
               /\ pc' = [pc EXCEPT ![r] = q]

\* The stream's context ends with the caller's, some time later.
MayBeCancelled(r) == cancelled[r] \/ gone[r] # "no"

\* ch <- item, with the host's server forwarding from ch.  Once the caller has
\* cancelled, a forward fails sooner or later; the server then returns, and
\* nothing reads ch any more.
Emit(r, f, p, q) ==
  \/ /\ gone[r] = "no"
     /\ Len(frames[r]) < MaxFrames
     /\ Go(r, p, q)
     /\ frames' = [frames EXCEPT ![r] = Append(@, f)]
     /\ UNCHANGED gone
  \/ /\ gone[r] = "cancelled"
     /\ Go(r, p, q)
     /\ gone' \in {gone, [gone EXCEPT ![r] = "left"]}
     /\ UNCHANGED frames
  \/ /\ gone[r] = "left"
     /\ Go(r, p, "stuck")
     /\ UNCHANGED <<gone, frames>>

-----------------------------------------------------------------------------
\* A run, from the host's call to the end of its loop.

Submit(r, ns) == /\ Go(r, "free", "submitted")
                 /\ input' = [input EXCEPT ![r] = ns]

\* runActive is set, and a run that is still going on is cancelled: two locks,
\* but what other runs can do in between commutes with one of them.
Begin(r) ==
  /\ Go(r, "called", "claimed")
  /\ runActive' = TRUE
  /\ cancelled' = [q \in Runs |-> cancelled[q] \/ q = cancelFunc]
  /\ cancelFunc' = r
  /\ UNCHANGED <<input, step, told, gone, frames, fresh,
                 loaded, session, seen, lost>>

\* No services, no connection, no tool list, no session: the run returns an
\* error before the input was recorded.
SetUpFails(r) ==
  /\ RunFails \/ MayBeCancelled(r)
  /\ Go(r, "claimed", "leaving")
  /\ lost' = lost \cup input[r]
  /\ input' = [input EXCEPT ![r] = {}]
  /\ UNCHANGED <<step, told, cancelled, gone, frames, fresh, agentVars>>

\* A bug: every run begins with a session of its own.
RecordAnew(r) ==
  /\ Emit(r, "quiet", "claimed", "loop")
  /\ loaded' = TRUE
  /\ session' = input[r]
  /\ input' = [input EXCEPT ![r] = {}]
  /\ UNCHANGED <<step, told, cancelled, fresh, runActive, cancelFunc, seen, lost>>

\* The session is there, loaded if need be, and the input is in it; the frame
\* that clears the list of todos is sent.  Nothing else fills the stream before,
\* and whether the caller is gone does not depend on the record: one step.
Record(r) ==
  /\ Emit(r, "quiet", "claimed", "loop")
  /\ loaded' = TRUE
  /\ session' = session \cup input[r]
  /\ input' = [input EXCEPT ![r] = {}]
  /\ UNCHANGED <<step, told, cancelled, fresh, runActive, cancelFunc, seen, lost>>

\* The history is taken and the injections are counted in one critical section.
Derive(r) ==
  /\ ~cancelled[r]
  /\ step[r] < MaxIterations
  /\ Go(r, "loop", "stepping")
  /\ step' = [step EXCEPT ![r] = @ + 1]
  /\ fresh' = fresh \ {r}
  /\ seen' = seen \cup session
  /\ UNCHANGED <<input, told, cancelled, gone, frames,
                 runActive, cancelFunc, loaded, session, lost>>

\* A frame in the middle of a step; a notice stands for the frame with the
\* final output of its job, which job_output returned.
Progress(r, f) ==
  /\ Emit(r, f, "stepping", "stepping")
  /\ UNCHANGED <<input, step, told, cancelled, fresh, agentVars, lost>>

\* A move that changes nothing but the run's place.
Move(r, p, q) ==
  /\ Go(r, p, q)
  /\ UNCHANGED <<input, step, told, cancelled, gone, frames, fresh,
                 agentVars, lost>>

\* A bug: the injections are counted when the answer is there, not when the
\* history was taken.
NoToolCallCounts(r) ==
  /\ Go(r, "stepping", "deciding")
  /\ fresh' = fresh \ {r}
  /\ UNCHANGED <<input, step, told, cancelled, gone, frames, agentVars, lost>>

ToolsDone(r) == Move(r, "stepping", "loop")
NoToolCall(r) == Move(r, "stepping", "deciding")
Conclude(r) == Move(r, "stepping", "telling")
RequestFails(r) == (RunFails \/ MayBeCancelled(r)) /\ Move(r, "stepping", "telling")
Exhausted(r) == step[r] = MaxIterations /\ Move(r, "loop", "telling")
LoopCancelled(r) == /\ MayBeCancelled(r)
                    /\ \E p \in {"loop", "stepping"} : Move(r, p, "leaving")

\* Goal rounds, injected messages, truncation and open todos go on, each with
\* a frame that says so.
Continue(r) ==
  /\ Emit(r, "quiet", "deciding", "loop")
  /\ UNCHANGED <<input, step, told, cancelled, fresh, agentVars, lost>>

Complete(r) == r \notin fresh /\ Move(r, "deciding", "telling")

Tell(r) ==
  /\ Emit(r, "end", "telling", "leaving")
  /\ told' = [told EXCEPT ![r] = TRUE]
  /\ UNCHANGED <<input, step, cancelled, fresh, agentVars, lost>>

-----------------------------------------------------------------------------
\* The deferred functions, and the end of the stream.

Leave(r) ==
  /\ Go(r, "leaving", "releasing")
  /\ runActive' = FALSE
  /\ UNCHANGED <<input, step, told, cancelled, gone, frames, fresh,
                 cancelFunc, loaded, session, seen, lost>>

Release(r) ==
  /\ Go(r, "releasing", IF told[r] THEN "closed" ELSE "over")
  /\ cancelFunc' = NoRun
  /\ UNCHANGED <<input, step, told, cancelled, gone, frames, fresh,
                 runActive, loaded, session, seen, lost>>

\* A run that failed without a frame gets one here.
Close(r) ==
  /\ Emit(r, "end", "over", "closed")
  /\ UNCHANGED <<input, step, told, cancelled, fresh, agentVars, lost>>

\* InjectMessage.  A run that takes the history later sees the message anyway.
Accepts == loaded /\ runActive

InjectMessage(ns) ==
  /\ session' = session \cup ns
  /\ fresh' = fresh \cup {r \in Runs : pc[r] \in {"stepping", "deciding"}}
  /\ UNCHANGED <<pc, input, step, told, cancelled, gone, frames,
                 runActive, cancelFunc, loaded, seen, lost>>

RunStep(r) ==
  \/ Begin(r) \/ SetUpFails(r) \/ Record(r) \/ Derive(r)
  \/ ToolsDone(r) \/ NoToolCall(r) \/ Conclude(r) \/ RequestFails(r)
  \/ Exhausted(r) \/ LoopCancelled(r) \/ Continue(r) \/ Complete(r)
  \/ Tell(r) \/ Leave(r) \/ Release(r) \/ Close(r)
=============================================================================

--------------------------- MODULE BackgroundJobs ---------------------------
(***************************************************************************)
(* How the host uses the job registry: src/core/auto_background.go (a tool *)
(* call with a foreground grace period), src/core/tool_pipeline.go (an     *)
(* explicit run_in_background and the goroutine that runs the tool),       *)
(* src/core/jobs.go (the tools job_output and job_kill, the host's view)   *)
(* and the manager's completion listener.                                  *)
(*                                                                         *)
(* The module extends JobRegistry: every step that touches a record is one *)
(* of its operations, so this specification implements JobRegistry!Spec.   *)
(* A thread runs one tool call at a time; stage and call keep its place.   *)
(* What the model (the language model) has been told of a job is history:  *)
(*                                                                         *)
(*   "inline"  the tool call returned the job's result                     *)
(*   "output"  job_output returned the final output                        *)
(*   "status"  job_kill answered that the job had finished                 *)
(*   "kill"    job_kill accepted to stop the job                           *)
(*   "notice"  the completion event was emitted                            *)
(***************************************************************************)
EXTENDS JobRegistry

CONSTANTS Me,         \* the session whose tool calls are modelled
          Manager,    \* the manager's completion listener
          Grace,      \* auto-background is on (DSC_AUTO_BACKGROUND_SECS > 0)
          Interrupts, \* turns may be interrupted while a tool call runs
          HostKills   \* the user may kill jobs from the TUI (/jobs kill)

ASSUME HostAssumption == /\ Me \in Sessions
                         /\ Listeners = {Manager}
                         /\ {Grace, Interrupts, HostKills} \subseteq BOOLEAN
                         /\ FALSE \in Streams  \* tool jobs have no ReadOutput hook
                         /\ "text" \in Texts

VARIABLES stage,  \* what the tool call of a thread does next
          call,   \* the job it is about
          gone,   \* its turn was interrupted: nobody receives its answer
          ran,    \* what the tool pipeline of a job returned
          moved,  \* the model was given a job's id, and whether it still ran then
          told    \* what the model has been told of the job's end

toolVars == <<stage, call, gone>>
modelVars == <<ran, moved, told>>
hostVars == <<vars, toolVars, modelVars>>

Stages == {"idle", "claim", "poll", "decide", "release", "return",  \* grace
           "waiting", "read", "await", "note"}                 \* job_output
Results == {"none", "ok", "exit", "error"}
Moves == {"no", "running", "ended"}
Facts == {"inline", "output", "status", "kill", "notice"}

HostTypeOK ==
  /\ TypeOK
  /\ stage \in [Threads -> Stages]
  /\ call \in [Threads -> Jobs \cup {NoJob}]
  /\ gone \in [Threads -> BOOLEAN]
  /\ ran \in [Jobs -> Results]
  /\ moved \in [Jobs -> Moves]
  /\ told \in [Jobs -> SUBSET Facts]

HostInit ==
  /\ Init
  /\ stage = [t \in Threads |-> "idle"]
  /\ call = [t \in Threads |-> NoJob]
  /\ gone = [t \in Threads |-> FALSE]
  /\ ran = [j \in Jobs |-> "none"]
  /\ moved = [j \in Jobs |-> "no"]
  /\ told = [j \in Jobs |-> {}]

\* The thread goes from stage s to stage s2 of the same tool call.
Go(t, s, s2) == /\ stage[t] = s
                /\ stage' = [stage EXCEPT ![t] = s2]
                /\ UNCHANGED <<call, gone>>

Enter(t, j, s) == /\ stage[t] = "idle"
                  /\ stage' = [stage EXCEPT ![t] = s]
                  /\ call' = [call EXCEPT ![t] = j]
                  /\ UNCHANGED gone

Leave(t, s) == /\ stage[t] = s
               /\ stage' = [stage EXCEPT ![t] = "idle"]
               /\ call' = [call EXCEPT ![t] = NoJob]
               /\ gone' = [gone EXCEPT ![t] = FALSE]

Tell(j, fact) == told' = [told EXCEPT ![j] = @ \cup {fact}]

\* The answer of a tool call reaches the model unless its turn is gone.
Answer(t, fact) == IF gone[t] THEN UNCHANGED told ELSE Tell(call[t], fact)

\* NewManager registers the listener before any tool can run.
Booted == Manager \in listeners
Boot == /\ OnJobDone(Manager)
        /\ UNCHANGED <<toolVars, modelVars>>

-----------------------------------------------------------------------------
(* The producer of a tool job, and its completion.                         *)

\* What the goroutine that ran the pipeline puts on Done.  "ok" and "exit"
\* (a command that exits non-zero) come with text, "error" (a veto, a failed
\* call) without.  A job whose cancellation the goroutine sees is killed,
\* whatever the pipeline returned, and falls back on the last tail that was
\* observed, if any; a cancellation after it has looked changes nothing.
Result(j, r) ==
  LET text   == IF r = "error" THEN "" ELSE "text"
      ended  == {[status |-> IF r = "ok" THEN "completed" ELSE "failed",
                  text |-> text]}
      killed == {[status |-> "killed", text |-> x] :
                   x \in IF text = "" THEN Texts ELSE {text}}
  IN  IF cancelled[j] THEN ended \cup killed ELSE ended

Finish(j, r) ==
  /\ \E o \in Result(j, r) : Deliver(j, o)
  /\ ran' = [ran EXCEPT ![j] = r]
  /\ UNCHANGED <<toolVars, moved, told>>

SettleJob(j) == Settle(j) /\ UNCHANGED <<toolVars, modelVars>>

\* A bug: the test of the listener is the wrong way round.
NotifyInverted(j) ==
  /\ CallListener(j, Manager)
  /\ IF snapReported[j] THEN Tell(j, "notice") ELSE UNCHANGED told
  /\ UNCHANGED <<toolVars, ran, moved>>

\* The manager's listener drops a reported job and emits JobDoneEvent for
\* any other.
Notify(j) ==
  /\ CallListener(j, Manager)
  /\ IF snapReported[j] THEN UNCHANGED told ELSE Tell(j, "notice")
  /\ UNCHANGED <<toolVars, ran, moved>>

\* startBackgroundTool: the answer is the job's id.
RunInBackground(j) ==
  /\ Booted
  /\ Start(j, Me, FALSE)
  /\ moved' = [moved EXCEPT ![j] = "running"]
  /\ UNCHANGED <<toolVars, ran, told>>

-----------------------------------------------------------------------------
(* runWithGrace.                                                           *)

GraceStart(t, j) ==
  /\ Grace /\ Booted
  /\ Start(j, Me, FALSE)
  /\ Enter(t, j, "claim")
  /\ UNCHANGED modelVars

\* An unknown id is ignored, by Claim's caller, by Release and by Discard.
GraceClaim(t) ==
  /\ Go(t, "claim", "poll")
  /\ IF call[t] \in table THEN Claim(call[t]) ELSE UNCHANGED vars
  /\ UNCHANGED modelVars

\* AwaitBudget answers at once when the job has ended, or is unknown.
GraceLook(t) ==
  /\ pc[t] = "idle"
  /\ \/ call[t] \notin table /\ Go(t, "poll", "decide")
     \/ /\ call[t] \in table
        /\ status[call[t]] \in Terminal
        /\ Go(t, "poll", "return")
  /\ UNCHANGED <<vars, modelVars>>

GraceBlock(t) ==
  /\ stage[t] = "poll"
  /\ BudgetBegin(t, call[t])
  /\ UNCHANGED <<toolVars, modelVars>>

GraceDone(t) ==
  /\ Go(t, "poll", "return")
  /\ BudgetSettled(t)
  /\ UNCHANGED modelVars

\* A bug: the end of the budget is taken for the end of the job.
GraceTickReturns(t) ==
  /\ Go(t, "poll", "return")
  /\ BudgetTimeout(t)
  /\ UNCHANGED modelVars

GraceTick(t) ==
  /\ Go(t, "poll", "decide")
  /\ BudgetTimeout(t)
  /\ UNCHANGED modelVars

\* Activity, or a budget not used up yet, buys another round; an idle budget
\* that is used up moves the job to the background.
GraceDecide(t) ==
  /\ Go(t, "decide", "poll") \/ Go(t, "decide", "release")
  /\ UNCHANGED <<vars, modelVars>>

\* The answer is the job's id, and that it still runs: true or not.
Handed(t) ==
  moved' = [moved EXCEPT ![call[t]] =
    IF gone[t] THEN @ ELSE IF status[call[t]] \in Live THEN "running" ELSE "ended"]

\* A bug: the job is moved to the background and the claim forgotten.
GraceReleaseKeepsClaim(t) ==
  /\ Leave(t, "release")
  /\ Handed(t)
  /\ UNCHANGED <<vars, ran, told>>

GraceRelease(t) ==
  /\ Leave(t, "release")
  /\ IF call[t] \in table THEN Release(call[t]) ELSE UNCHANGED vars
  /\ Handed(t)
  /\ UNCHANGED <<ran, told>>

GraceReturn(t) ==
  /\ Leave(t, "return")
  /\ IF call[t] \in table THEN Discard(call[t]) ELSE UNCHANGED vars
  /\ Answer(t, "inline")
  /\ UNCHANGED <<ran, moved>>

-----------------------------------------------------------------------------
(* job_output and job_kill.                                                *)

\* With wait: block until the job ends or the time is up, then read.
OutputWait(t, j) ==
  /\ Booted
  /\ Enter(t, j, "waiting")
  /\ WaitBegin(t, j, Me)
  /\ UNCHANGED modelVars

OutputWaited(t) ==
  /\ Go(t, "waiting", "read")
  /\ WaitSettled(t) \/ WaitTimeout(t)
  /\ UNCHANGED modelVars

\* Without wait, or with wait on a job that has ended: read at once.  When that
\* read finds a job that runs and has said nothing, awaitFirstOutput follows.
OutputNow(t, j) ==
  /\ Authorized(j, Me)
  /\ Enter(t, j, "read") \/ (status[j] \in Live /\ Enter(t, j, "await"))
  /\ UNCHANGED <<vars, modelVars>>

\* The read, which awaitFirstOutput repeats as long as it finds nothing.  It
\* ends with the final output, with a partial one, with nothing (then the empty
\* read is counted) or, when the job is unknown, in an error.
OutputRead(t) ==
  \E s \in {"read", "await"} :
    \/ /\ Leave(t, s)
       /\ Read(call[t], Me)
       /\ Answer(t, "output")
       /\ UNCHANGED <<ran, moved>>
    \/ /\ Authorized(call[t], Me) => status[call[t]] \in Live
       /\ Leave(t, s)
       /\ UNCHANGED <<vars, modelVars>>
    \/ /\ Authorized(call[t], Me)
       /\ status[call[t]] \in Live
       /\ Go(t, s, "note")
       /\ UNCHANGED <<vars, modelVars>>

\* awaitFirstOutput looks at the call's context and returns the empty read it
\* has, also when the job has ended since; a tick may still come first.
OutputCut(t) ==
  /\ gone[t]
  /\ Go(t, "await", "note")
  /\ UNCHANGED <<vars, modelVars>>

OutputNote(t) ==
  /\ Leave(t, "note")
  /\ IF Authorized(call[t], Me) THEN NoteEmptyRead(call[t], Me) ELSE UNCHANGED vars
  /\ UNCHANGED modelVars

\* A job that still runs is asked to stop.  Of one that has ended the answer
\* tells the status, unless the record goes between Kill and Get.
JobKill(j) ==
  \/ /\ Kill(j, Me)
     /\ Tell(j, "kill")
     /\ UNCHANGED <<toolVars, ran, moved>>
  \/ /\ Authorized(j, Me)
     /\ status[j] \in Terminal
     /\ Tell(j, "status")
     /\ UNCHANGED <<vars, toolVars, ran, moved>>

\* The user's /jobs output and /jobs kill: the model sees neither.
UserRead(j) == ReadHost(j) /\ UNCHANGED <<toolVars, modelVars>>
UserKill(j) == HostKills /\ KillHost(j) /\ UNCHANGED <<toolVars, modelVars>>

\* The turn is interrupted, and the context of the call is cancelled with it.
\* Only awaitFirstOutput looks at that context (OutputCut): Wait, AwaitBudget
\* and what follows them go on to the end, and the answer is dropped.
Interrupt(t) ==
  /\ Interrupts
  /\ stage[t] # "idle"
  /\ ~gone[t]
  /\ gone' = [gone EXCEPT ![t] = TRUE]
  /\ UNCHANGED <<vars, stage, call, modelVars>>

-----------------------------------------------------------------------------
ToolStep(t) ==
  \/ GraceClaim(t) \/ GraceLook(t) \/ GraceBlock(t) \/ GraceDone(t)
  \/ GraceTick(t) \/ GraceDecide(t) \/ GraceRelease(t) \/ GraceReturn(t)
  \/ OutputWaited(t) \/ OutputRead(t) \/ OutputCut(t) \/ OutputNote(t)

HostNext ==
  \/ Boot
  \/ \E j \in Jobs :
       \/ RunInBackground(j)
       \/ \E r \in Results \ {"none"} : Finish(j, r)
       \/ SettleJob(j)
       \/ Notify(j)
       \/ JobKill(j)
       \/ UserRead(j)
       \/ UserKill(j)
       \/ \E t \in Threads : \/ GraceStart(t, j)
                             \/ OutputWait(t, j)
                             \/ OutputNow(t, j)
  \/ \E t \in Threads : ToolStep(t) \/ Interrupt(t)

HostSpec == HostInit /\ [][HostNext]_hostVars

(* Goroutines that can run do run: settlements, listener calls and tool     *)
(* calls.  What the model, the user and the tools do is theirs to choose.   *)
HostFairness ==
  /\ \A j \in Jobs : WF_hostVars(SettleJob(j)) /\ WF_hostVars(Notify(j))
  /\ \A t \in Threads : WF_hostVars(ToolStep(t))

HostFairSpec == HostSpec /\ HostFairness

-----------------------------------------------------------------------------
(* Safety.                                                                 *)

\* The settle goroutine of a job is through and no tool call is about it.
Quiet(j) == /\ status[j] \in Terminal
            /\ calls[j] = {}
            /\ \A t \in Threads : call[t] # j

\* The promise the tool texts make to the model ("a completion notice reaches
\* you"): of a job that was handed to the background the model learns the end
\* in some way -- it stopped it, it read the output, it asked, or the notice
\* was emitted.  Nothing silences a job whose result nobody took.
NoLostNotice ==
  \A j \in Jobs : moved[j] # "no" /\ Quiet(j) => told[j] # {}

\* Whatever interferes: a job that still ran when the model was given its id
\* ends in silence only if somebody saw its end and left a mark: the user killed
\* or read it, or a call of the model saw it end and could not answer, because
\* its turn was interrupted or the record pruned before the read.  Withdrawn
\* claims and overlapping waits silence nothing by themselves.
SilentEndsWereSeen ==
  \A j \in Jobs :
    moved[j] = "running" /\ Quiet(j) => told[j] # {} \/ reported[j]

\* A claim has a holder: as long as a job lives and is marked as awaited, a
\* tool call is still going to collect its result or to withdraw the claim.
\* A claim without one silences the job for ever.
ClaimHasHolder ==
  \A j \in Jobs : awaited[j] /\ status[j] \in Live =>
    \E t \in Threads :
      /\ call[t] = j
      /\ stage[t] \in {"poll", "decide", "release", "return", "waiting"}

\* A job the model stopped itself never rings: the notice would tell it what
\* it has done.
KilledIsSilent ==
  \A j \in Jobs : "kill" \in told[j] => "notice" \notin told[j]

\* The text the grace period hands back is the tool's text: a command that
\* printed something is never answered with nothing.
InlineTextIsComplete ==
  \A j \in Jobs : "inline" \in told[j] /\ ran[j] \in {"ok", "exit"}
                     => output[j] = "text"

(* What a step may never do.                                               *)

\* A job leaves the registry only when it has ended: neither a tool call nor
\* pruning makes a running process unreachable for job_output and job_kill.
OnlyEndedJobsLeave ==
  [][\A j \in table \ table' : status'[j] \in Terminal]_hostVars

\* A completion event is not emitted for a job whose final output the model
\* has read before.
ReadJobsDoNotRing ==
  [][\A j \in Jobs : "output" \in told[j] /\ "notice" \notin told[j]
                        => "notice" \notin told'[j]]_hostVars

(* Liveness.                                                               *)

\* A job that runs on its own and ends is made known to the model.
EndIsMadeKnown ==
  \A j \in Jobs : moved[j] # "no" /\ status[j] \in Terminal ~> told[j] # {}
=============================================================================

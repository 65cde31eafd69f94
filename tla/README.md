# A TLA+ verification of DSC

DSC is a coding agent written in Go: a host process that loads language models,
tools, policies and agents as plugins over gRPC, keeps a conversation as an
event log, and runs tool calls in the foreground, in the background and on a
schedule. This directory holds TLA+ models of the parts of the host where
several goroutines, callbacks, failures and restarts meet, the TLC runs that
check them on small instances, and TLAPS proofs for every instance.

Paths below are relative to the repository; `src/` is its root.

## 1. Inventory

Only the program's own logic is listed; `libs/` (copies of third-party modules
that `go.mod` points at), `plugin/` and `proto/` are vendored or generated. Of
`libs/`, only what the scheduler takes from `libs/cron` is modelled. For each part: its state, its operations, whom it talks
to, what is hard about it, and what makes it correct.

### Background-job registry: `src/jobs/jobs.go`

* State: the table of jobs, their order, the completion listeners; per job its
  status, owner, `Reported` and `Awaited` flags, output, read counters and a
  channel closed at the settlement. One mutex.
* Operations: `Start`, `Read`, `ReadHost`, `NoteEmptyRead`, `Kill`, `KillHost`,
  `Claim`, `Release`, `AwaitBudget`, `Wait`, `Discard`, `OnJobDone`, `List`.
* Interaction: a producer's `Done` channel and `Cancel` callback on one side,
  completion listeners on the other, tool calls blocked in `Wait`.
* Hard: the settle goroutine copies a snapshot and the listeners under the lock
  and uses both after it; two blocking operations release the lock half-way;
  ended records are pruned while others hold them.
* Correct when: the first settlement wins and statuses never go back; listeners
  hear of a job at most once, after it ended, with a sound snapshot; the table
  and its order agree; ended records stay bounded, the youngest are kept;
  waiters and kills always come to an end.

### Background tool execution and job tools: `src/core/auto_background.go`, `tool_pipeline.go`, `jobs.go`, `manager.go`

* State: per tool call its place in `runWithGrace` or `job_output`; what the
  language model has been told.
* Operations: `runWithGrace`, `startBackgroundTool`, `job_output`, `job_kill`,
  the user's `/jobs` commands, the manager's completion listener.
* Interaction: all of them call the registry; the listener emits `JobDoneEvent`.
* Hard: `Claim`, `AwaitBudget`, `Release` and `Discard` are separate critical
  sections; the answer of a tool call and the completion notice are two ways of
  telling one fact, and exactly one of them is wanted.
* Correct when: the model learns how every job it was given ended; a claim is
  never left behind on a running job; a job the model stopped does not ring; a
  foreground result is complete.

### Scheduled jobs: `src/cron/cron.go`, `src/cron/scheduler.go`

* State: the store in memory, `cron.json`, the scheduler's entries.
* Operations: `Start`, `Stop`, `Add`, `Remove`, `SetEnabled`, `SetNotify`, and
  `fire`, which the cron thread calls.
* Interaction: `core/cron.go` supplies the runner (a subagent) and a hook that
  emits `CronDoneEvent`; `core/cron_tools.go` and the admin API call the rest.
* Hard: two locks of different extent; a run outlives any operation; writes
  fail; the process ends at any point.
* Correct when: an acknowledged change lasts; entries agree with what clients
  were told; a status is "running" only while something runs; one run at a time.

### Delivery of completion notices: `src/tui/wakeup.go`, `src/tui/tui.go`, `src/core/grpc_agent.go`

* State: the queue `pendingWakeups`; the flags of a turn in the terminal
  (thinking or streaming, `streamCancelled`, `turnCancel`, `streamCh`,
  `pumpInflight`); reads of a stream and calls of `InjectMessage` under way.
* Operations: a job or a scheduled job ends, a turn starts, a frame arrives, a
  key, an interrupt, an injection returns.
* Interaction: the registry's and the scheduler's listeners (above) send the
  notices; turns and injections are gRPC calls to the agent (below).
* Hard: the terminal decides by its own flags, the agent by its own; reads that
  an interrupt wrote off still come back; a failed injection is queued again.
* Correct when: each notice reaches the model once, in this turn or by a
  wake-up, and is not delivered twice; the stream has one reader; the terminal
  does not show a turn that is over.

### ReAct agent loop: `src/plugins/agent-react-loop/main.go`

* State: `runActive`, `cancelFunc`, the session and the count of injections;
  per run its place and its context.
* Operations: `RunStream` with `runLoop`, `InjectMessage`, `SwitchSession`,
  `SetPlanMode`, `SetHistoryInjection`.
* Interaction: frames go to the terminal through a gRPC stream; events go to the
  session log.
* Hard: an injection may be accepted after the loop has looked for the last
  time; deferred functions of an old run may hit a new one; a frame for a caller
  that has gone blocks.
* Correct when: a turn that the model completes has shown it all that was
  accepted; no turn cuts another one short unless the user wanted it.

### Session event log: `src/session/`

* State: an append-only event list, its surface (the events the model is shown),
  how much of it was loaded, the JSONL file.
* Operations: append with or without a surface operation, projection of the
  system prompt, save (temporary file and rename), load, derivation of the
  messages of a request under a history limit.
* Hard: the surface in memory must be the one a reload computes after any
  mixture of operations; a crash in a save; a prompt that is replaced often
  stays at the head although its event is new.
* Correct when: files only grow; the surface is the latest prompt and every
  message in order; turns are numbered upwards; the limit hides loaded messages
  and nothing else.

### Plugin lifecycle, capability dependencies, hot reload: `src/core/manager.go`, `lifecycle.go`, `hot_reload_*.go`, `capability_deps.go`

* State: loaded plugins with versions, scopes, provided and required
  capabilities.
* Operations: load, unload, two-phase reload with rollback, reactive stop and
  start of dependants.
* Hard: most of a reload runs without the global lock; a failure must leave the
  old instance in place; dependants stop and start in cascades.
* Correct when: a plugin runs only if what it requires runs; a failed reload
  changes nothing; one provider per capability.

### LLM router and pipeline: `src/core/llm_router.go`, `llm_pipeline.go`

* State: providers, retry counters, whether the stream has begun.
* Hard: retry and failover must stop once output has reached the caller.
* Correct when: no output is delivered twice; each provider is tried boundedly.

### Approval and user questions: `src/core/approval.go`, `userquestions.go`, `src/userquestions/`

* State: pending questions and the channels that wait for answers.
* Hard: a late answer races cancellation; several clients may answer.
* Correct when: a question has at most one answer, and nobody waits for ever.

### Workflow engine and subagents: `src/workflow/`, `src/core/workflow.go`, `subagent.go`

* A second producer of background jobs, with a scheduler of coroutines of its
  own; hard where a kill meets nested calls.

### Configuration persistence, backups and profiles: `src/core/config*.go`, `plugins_backup.go`

* Files with rotation and recovery at start-up; hard where a crash falls between
  two files.

### Others

The event bus dispatches synchronously over a snapshot of its listeners. The
token meter is a sliding window over floating-point estimates. Tool registry,
sandbox, path handling, attachments, the admin API, history search, LSP
clients, notification sounds, the TUI's rendering and the plugin SDK hold little
shared state, or only forward. `PROJECT.json` lists each with the reason it is
left out.

## 2. Plan

In this order; the modules depend on each other as the last column says.

| # | Modules | About | Builds on |
|---|---------|-------|-----------|
| 1 | `JobLifecycle`, `JobRegistry`, `JobRegistryProofs` | the registry for any client | |
| 2 | `BackgroundJobs`, `BackgroundJobsProofs` | the host's protocol over the registry | extends 1 |
| 3 | `CronLedger`, `CronScheduler`, `CronSchedulerProofs` | scheduled jobs, failed writes, restarts | |
| 4 | `AgentRun` | the agent's side of a turn | |
| 5 | `NoticeLifecycle`, `NoticeDelivery`, `NoticeDeliveryProofs`, `NoticeStreamProofs`, `NoticePlacesProofs` | the terminal's side, composed with the agent; its input is the "notice" of 2 and 3 | extends 4 |
| 6 | `Conversation`, `SessionLog`, `SessionLogProofs`, `ConversationProofs` | the event log and its writer, crashes, history limits | |

What would come next, each a module of its own: the plugin lifecycle (reload
with rollback, dependants never outlive their providers), the LLM router (no
output is delivered twice after a failover), approval (a question has at most
one answer).

## 3. The modules

An action is one critical section, or one step between two blocking points; its
guard is the code's conditions, and `PROJECT.json` "map" gives the lines each
definition stands for. Operators whose comment starts with "A bug:" are
deliberate mistakes that show a property can fail; no specification uses them.

### `JobLifecycle`

What the registry promises of one job: running, possibly stopping, one terminal
state for good, and each listener told at most once, after the end.

### `JobRegistry`

* A `*Job` lives on after its table entry has gone (waiters and the settle
  goroutine hold the pointer), so job fields are functions over all ids, and
  `table` and `order` are the two ways the registry lists them. `order` is a
  set, with `rank` for the places: a slice would tell nothing more apart.
* `Start` issues an unused id. `Deliver` is the producer sending on `Done`, with
  any status, valid or not. `Settle` is the settle goroutine's whole critical
  section: it clamps the status, keeps the output unless the outcome failed,
  copies the snapshot and the listeners (none for an awaited job), and prunes.
  `CallListener` is one call after the unlock.
* `WaitBegin`/`WaitSettled`/`WaitTimeout` and
  `BudgetBegin`/`BudgetSettled`/`BudgetTimeout` are the two blocking calls on
  either side of the select. When both channels are ready, Go picks either: so
  may the model.
* Data: output is empty or not; read counters saturate at `MaxReads`; details,
  labels and times are left out.
* `ImplementsLifecycle` is a refinement with `phase <- status` and
  `heard <- notified`.

### `BackgroundJobs`

Extends `JobRegistry`: each step that touches a record is one of its operations,
conjoined with where the tool call is (`stage`, `call`), whether its turn was
interrupted (`gone`), and history: what the tool's pipeline returned (`ran`),
which jobs the model was told run on their own (`moved`, which also keeps
whether that was still true) and what it has been told of their end (`told`). The pipeline itself appears by its results: ok, a
non-zero exit, an error without text; a job whose cancellation the goroutine
sees is killed instead. Activity probes and budgets are the free choice of
`GraceDecide`.

`awaitFirstOutput` is the place "await" of a call: it reads again until it finds
something, the job ends or the budget is over (`OutputRead`), or the call's
context is cancelled (`OutputCut`). `Wait` and `AwaitBudget` do not look at that
context.

`job_kill` is one step although the code calls `Kill` and then `Get`: the second
call only words the answer.

### `CronScheduler`

* `Scheduler.mu` (under the manager's lock) covers a whole operation, `Store.mu`
  one access to the store. `SetEnabled` reads under the one and saves under the
  other, so it is two actions, with its copy in `op`; the other operations touch
  the store once and are one action each.
* `fire` is `FireLook`, `FireMark`, then the goroutine's `Settle` and `Hook`.
  `token` is the SkipIfStillRunning wrapper of an entry, free again as soon as
  `fire` returns (`Release`). `Tick` is the loop of `libs/cron/cron.go` with that
  wrapper, `libs/cron/chain.go`: it starts a goroutine for an entry that is due,
  or skips it.
* Errors: with `WriteFails`, every write of `cron.json` may fail, which leaves
  memory changed and the file as it was.
* `Restart` may come at any point; the next process loads the file and goes
  through `ResetStale` and `Launch`.
* `asked` is history: what a client was last told of a job. An error leaves a
  job's flags open ("unknown"), and so does a crash before the answer.
* Of `LastStatus` the model keeps whether it is "running" ("settled" stands for
  never run, success and error, which nothing tells apart).

### `CronLedger`

What a client of the cron store may rely on: a table of jobs with two switches
each, every operation at one instant, a copy on disk that an answer says is up
to date, a restart that goes back to the copy; after an error the entry of a job
is open. There are no runs, no entries, no locks and no two-step operation in it.
`CronScheduler` implements it (`ImplementsLedger`) with `wanted` and `table` the
jobs and switches in memory and in the file: so no run, tick, outcome, half-done
`SetEnabled` or other client's write shows in what a client sees. The step of
`SetEnabled` is its save; what it read before must still be what the table says,
which is why `Scheduler.mu` is held over both (the mutant `SetNotifyUnlocked`
takes it away from one operation).

### `AgentRun`

* A run is one call of `RunStream`; `pc` is where it is. `Begin` takes
  `runActive` and `cancelFunc` over and cancels the run that held the latter,
  `Record` puts its message into the session, `Derive` takes the history of one
  request, and `Leave`, `Release`, `Close` are the deferred functions and the
  late error frame, each a step because other runs may come in between.
* `fresh` are the runs into whose request an injection no longer came: the
  comparison of `pendingInjects` with its snapshot.
* `Emit` is `ch <- item` with the gRPC server behind it: while the host listens,
  the frame arrives if there is room; once it has cancelled, the server's next
  send fails sooner or later and it returns; after that nobody reads the
  channel and the run is `stuck`. `Record` and `Continue` emit as well (the
  cleared list of todos, the note that the turn goes on) and may block there.
* The model's and the tools' answers are free choices. Of a message only the
  notices it carries are kept.

### `NoticeDelivery`, `NoticeLifecycle`

* A handler of the terminal's event loop is one action; the commands it returns
  run on goroutines of their own. `readers` counts reads of a stream under way,
  which is what really happens, and `pumpInflight` what the terminal believes.
* `Interrupt` may cut the frames under way anywhere: those the client has not
  received are replaced by the error that ends its stream.
* An entry of the queue is a set of notices, because a text that is put back
  after a failed injection may carry several.
* `lost` and `dropped` are history: notices on error paths where the code keeps
  nothing (section 6), and notices withdrawn because `job_output` has returned
  their result.
* `Recycle` reuses the identity of a run nobody refers to any more, so that any
  number of turns fits into two runs.
* `RunsAreRead` says that a run that nobody has cancelled and that has not sent
  its last frame has a reader, or its stream is about to get one. `emit` blocks
  for ever otherwise.
* `NothingLeftBehind` is about rest: terminal idle, no call, no run with work. A
  notice that is then neither in the session, nor withdrawn, nor written off
  would wait for an event that may never come.
* `ImplementsLifecycle` is a refinement with `accepted <- session`: a notice is
  announced once, waits, and is accepted, lost or dropped, for good; requests
  show what was accepted.

### `SessionLog`

* A `Session` in memory is an object with its log, its surface and how much of
  it was loaded; `current` is the agent's, `held` the one its run writes to.
  The two differ when the session is switched during a run; files that were
  switched to during a run (`strayed`) are outside the properties, see section 6.
* `CommitPrompt` is `ProjectSystemPrompt` and the `Append` after it. `Applied`
  is `applySurfaceLocked` for the replacements the code asks for, which cover
  one event.
* `Rebuilt` is what `Load` computes, as a recursive function over the log. The
  way of an event through JSON is the identity here. What makes `Load` refuse a
  file (`persist.go:228-258`: a line that is too long, a type it does not know, a
  gap in the numbers) opens no session and changes nothing, so it has no action.
* `Save` may fail, which the run ignores; `Crash` may come at any point and
  leaves the files alone, because a save only writes the temporary file until
  its rename.
* `Shown` is `DeriveMessagesLimited`, for any limit.
* A step of the run is `Request`, `Answer` (the assistant's message),
  `SaveAnswer`, then for each tool `SaveCall` and `ToolResult`, and `SaveStep`;
  without tools the run ends or goes on (`GoOn`). Injections, changes of mode,
  switches and crashes may come between any two of them.
* One event stands for a turn's start and its user message, and the advice of a
  guard is part of the result it follows; the bounds of steps, the calls of
  tools and the ends of turns are left out.

### `Conversation`

What everyone but the log itself believes a session to be: a sequence of lines
of which only a prompt at its head is ever rewritten, and a file that gives back
the lines that were shown when it was written. `SessionLog` implements it
(`ImplementsConversation`) with `shown` the lines of each surface in memory and
`saved` the lines of what the replay of each file yields, so that the surface
kept while events are appended and the one computed by `Load` are held against
each other in every save and load. Unlike the other properties of the log it
makes no exception for a session that was switched during a run: two objects may
then overwrite each other's file, but each still saves what it shows.

## 4. The runs

| Run | Question | Instance |
|-----|----------|----------|
| `registry_table` | do table, order and pruning survive every sequence of starts, settlements, kills and discards? | 3 jobs, 1 retained record |
| `registry_records` | are records and notices sound, is the lifecycle implemented, do kills, listeners and waiters make progress? | 1 job, 1 caller thread, 2 listeners, both kinds of producer |
| `host_calls` | does the model always learn how a background job ended? | 1 job, 2 concurrent tool calls |
| `host_grace` | are claims, kills and discards safe with everything enabled; who can silence the end of a job? | 1 job, 2 tool calls, grace, interruptions, user kills |
| `notices` | is each notice delivered once, by whatever mixture of turns, injections, failures and keys; has every stream one reader and every run that speaks a reader; does a turn the terminal shows exist; is nothing left behind at rest? | 2 notices, 2 runs of 2 requests, 1 frame in flight, 1 message or interrupt |
| `session` | do surface, file, turn numbers and history limit survive prompts that change, injections, switches, failed saves and crashes, and is a session seen as a plain conversation? | 2 files, logs of 6 events, 2 prompts, 2 steps outside the run |
| `cron_durable` | do acknowledged changes survive runs, failed writes and restarts; do operations look instantaneous? | 2 jobs, 1 run slot |
| `lost_release`, `failed_text`, `read_rings`, `cron_overlap`, `cron_stuck` | the disagreements of section 6 | 1 job |

Why the bounds are enough. One retained record and three jobs give every order
of two ended records and a survivor, which is what pruning can get wrong. The
fields of one job never depend on another job except through pruning and, in the
cron store, through the common file; so one job shows the first, and two cron
jobs show that a write for one of them carries out the failed write of the
other. Two threads are needed for two waiters to share one `Awaited` bit, and
two listeners for one to unregister while the other is called. `MaxReads = 1`
tells "never read" from "read". One run slot in `cron_durable` bounds the
overlap of runs, not their number; the proofs cover any number of slots.
`registry_table` leaves out callers and listeners because neither touches the
table. Two jobs with two callers in the host exceed what TLC can do in minutes;
there, too, the theorems cover the general case.

In `notices`, two runs are one turn and the next (or an interrupted one that
goes on), and identities are used again; two notices are needed for a queue
entry that carries one notice more than the result that was read; two requests
per run for an injection between them; one message or interrupt for each way a
user can disturb a turn (the properties under interrupts speak of any number,
and the handlers do not count them). In `session`, six events hold a turn with
a replaced prompt, its answer, a tool's result or a restart and the turn after
it; the two steps outside the run are a crash and one more disturbance. It starts
with one of the renderings of the prompt: they are only compared with each other.
The proofs cover any number of events, files and steps.

Symmetry is used in the runs without liveness only. Deadlock is not checked in
`registry_table`, `host_grace`, `cron_durable`, `notices` and `session`: when
every id is used up, the scheduler or the terminal is at rest, or a log is full,
the system may stop. In the other passing runs it is
checked.

Fairness. In the registry: `Settle`, `CallListener` and the return from a
blocking call are steps of goroutines that the Go scheduler runs; nothing else
can disable them for ever. A producer is fair only once it was cancelled
(`JobHooks.Cancel` is documented to make it stop), and nothing is assumed of a
producer left alone. In the host: the settle goroutine, the listener and a tool
call that has begun. In `notices`: each run goes on (its requests end, in whatever
way), each stream and each injection comes back, and the event loop handles what
came. Frames in the middle of a step need not come, users and jobs need not do
anything. What the model, the user or a tool decides is never fair.

## 5. What is proved

All theorems hold for any finite number of jobs and any number of threads,
sessions, listeners or run slots; the assumptions are those named in the
modules. Proofs are in the `...Proofs` modules.

**Registry** (`JobRegistryProofs`). `Inductive` is the conjunction of `TypeOK`,
`OrderMatchesTable`, `Records`, `RanksAreDistinct` and `Retention`. Each is
needed by another: notices are sound because a cancelled job is reported before
it settles (`Bookkeeping` in `Records`); pruning keeps the right number because
ranks tell records apart (`RanksAreDistinct`), which is where the youngest ended
record exists by induction over ranks; a settlement adds one ended record and
removes as many as exceed the limit. From it: `TypeCorrect`,
`OrderNeverDangles`, `ReportedOnlyWhenSeen`, `NoticesSound`, `RetentionHolds`,
`OldestFirst`, and `LifecycleImplemented`, the refinement of `JobLifecycle`.

**Host** (`BackgroundJobsProofs`). `HostInvariant` adds where each thread is
relative to the registry operation it blocks in (`ThreadsInPlace`), that live
jobs are in the table (`RecordsInPlace`), that claims have holders, and that
what was told agrees with the record (`ToldInPlace`). From it:
`HostUsesRegistry` (the host's specification implements the registry's, so all
of the above applies to it), `ClaimsAreHeld`, `StoppedJobsAreSilent`,
`RunningJobsStay`. `NoNoticeIsLost` is proved under `Undisturbed`: no grace
period, no interrupted turns, no user kills, and room for every record. None of
these can be dropped without a counterexample (section 6 and below). Its
invariant `QuietInductive` says that a job's end is known, about to be announced,
or about to be returned by a call that waits for it or reads it.
`SilenceIsWitnessed` is its counterpart without any restriction: with everything
on, the end of a job that still ran when the model was given its id is either
told or marked as seen (`Reported`), so the race of `lost_release` is the only
way in which an end is neither. It rests on `GraceHasOneThread` (only one thread
holds the claim of a grace period, and the model has no id until it is gone, so
that a claimed job with an id is one that a `job_output` waits for) and on
`EndIsHeard`.

**Scheduled jobs** (`CronSchedulerProofs`). `CronInductive`: memory and file both
agree with every acknowledged answer (`MemoryAgrees`, `FileAgrees`: a restart
makes memory from the file, a write makes the file from memory, so neither is
inductive alone), the copy that `SetEnabled` holds belongs to a job nobody else
can remove (`CopyIsCurrent`), nothing runs while the scheduler starts
(`StartIsQuiet`). From it: `AnswersLast`, `EntriesFollowAnswers`,
`StaleRunsAreReset`, `CronTypeCorrect`. `SchedulerImplementsLedger` is the
refinement of `CronLedger`, one lemma per kind of step; it needs in addition that
the copy of `SetEnabled` still has the other switch of the table
(`CopySwitches`), since the ledger turns one switch of the present table where
the code saves a whole copy of an earlier one.

**Notices** (`NoticeDeliveryProofs`, `NoticeStreamProofs`,
`NoticePlacesProofs`). For any number of
runs and notices, any limit of requests and frames and any number of messages
and interrupts. `SomethingComes` strengthens `NoStuckTurn`: while a turn is shown
there is a stream about to open, a first frame to handle, or a read whose frame
will not be discarded (or, after an interrupt, the failed call of section 6).

`NoticeStreamProofs` counts the reads of each stream, whatever is interrupted:
`Reads` says that an open stream is counted as being read, so that
`pumpStreamIfOpen` finds nothing to do whoever calls it, and only the handling of
a first frame, or of the error in its place, begins to read a stream. From it `OneConsumer`, for any number of interrupts. `AllHeard` carries
`SpeakersAreRead`: up to one interrupt, a run that was not cancelled is about to
be opened, has a read under way, or has its last frame handled. The bound is
sharp: an interrupt before the first frame cancels nothing, and after a second
one the frames of that run are discarded although it goes on (section 6).

Two properties hold as long as nobody interrupts, and
rest on `OneTurn`, which ties what the terminal believes to where the agent is:
the terminal waits for one run at a time and with one read (`Streams`), a run
that has not emitted its last frame is the one it waits for (`OnStage`), so the
run that a new one cancels has nothing left to do (`Cancels`), and a run that was
not injected into has shown the whole session (`Saw`). Each needs another: that
the terminal is idle when a turn starts says nothing about the agent without
`OnStage`, and `Saw` fails if two runs may record messages at once. From it:
`TurnsEndByThemselves`, `CompletedTurnsSaw`.

`Places` says, with
interrupts too, which one of seven states each notice is in; it needs `Handed`
(a run past its prologue holds nothing, so a reused identity does not overwrite
a message). From it: `NoticeInOnePlace`, `NothingIsLeftBehind` (at rest the
states "in a call" and "in a run" are empty, and a queue with something in it
contradicts `WaitsOnlyAfterInterrupt`) and `DeliveryImplementsLifecycle`, the
refinement of `NoticeLifecycle`. Only `Delivered` is left to TLC.

**Session log** (`SessionLogProofs`, `ConversationProofs`). `SessionInductive` is the conjunction of
ten parts. The surface of every object is the replay of its log (`Replayed`,
which is what makes a load harmless); while a run goes on, the agent's session
is the run's or was switched to (`OneWriter`); a file is well formed and a
prefix of the log that will be saved to it (`FilesWhole`, `ObjectsWhole`); the
counter is not below any turn in the log (`TurnsCounted`);
a run has a prompt and a turn in its log (`PromptThere`, `TurnThere`), and the
prompt of its request is the head (`PromptOfStep`). From it: the first five
properties of the run `session`, for any number of files, objects, prompts and limits and
logs of any length. That a replay is defined for every log, is unique and is
extended by one `Applied` per event needs induction over its length; it is
argued by the least counterexample, from the well-foundedness of < on the
natural numbers (`LeastNatural`). `SessionImplementsConversation`
(`ConversationProofs`) is the refinement of `Conversation`. Of `SessionInductive`
it uses the types, `Replayed` and `RunHolds` only, none of the parts with
exceptions for switched sessions; what it needs besides is that no replay mentions
an event twice, whatever was appended (`RebuiltDistinct`, a least counterexample
again): otherwise the replacement of the first event could rewrite another line.

Only model-checked: liveness (`KilledJobsEnd`, `CopiedListenersAreCalled`,
`WaitersReturn`, `EndIsMadeKnown`, `Delivered`), which needs fairness and is out of the
prover's reach, and the counterexamples.

## 6. Disagreements between code and comments

* `lost_release`: `AwaitBudget` says "not done", the job settles (silently, it
  is awaited), and only then `Release` withdraws the claim. The model is told
  the command still runs and never hears that it ended.
* `failed_text`: a command that prints and exits non-zero within its grace
  period is answered with an empty text, because failed outcomes keep no output.
* `read_rings`: the final output is read between the settlement's snapshot and
  the listener; the notice rings for what has just been read.
* `cron_overlap`: `fire` starts a goroutine and returns, so SkipIfStillRunning
  skips nothing.
* `cron_stuck`: a run that settles between the two halves of `SetEnabled` is
  shown as running until its next run or the next start.

Met in modelling turns and sessions, by reading and by what the models reach;
none is a run of its own:

* `main.go:225`: `emit` sends without looking at the context. After an interrupt
  the server has returned, a run that emits twice more blocks for good, and its
  deferred functions, which close the turn in the log and save it, never run
  (the comment at `main.go:409` says that every turn is closed).
* `tui.go:1062` and `1417`: notices joined to a message typed during a turn are
  lost when that injection fails, although `wakeup.go:21-23` says that nothing
  is dropped silently. A run that fails before its message is recorded loses the
  notices handed to it (`main.go:274`), and `dropNoticeFor` drops what is queued
  in one text with the notice that was read (`wakeup.go:222`). In the model they
  go to `lost`.
* `main.go:746`: an injection after the last test and before `runActive` is
  reset is accepted, and seen by the next turn only; turns that end by a goal or
  by the iteration limit make no test.
* `main.go:256`: the deferred reset of an old run clears `runActive` and
  `cancelFunc` of a new one.
* `tui.go:1148`: a frame of an interrupted turn that arrives after the next
  turn's first frame is taken for the new turn's; and the error of a turn that
  could not be opened is discarded while `streamCancelled` is set, so that the
  terminal stays at work (`NoStuckTurn` names the exception). An interrupt
  before the first frame cancels nothing (`turnCancel` is not set yet); the next
  turn's first frame then replaces `turnCancel`, and a second interrupt throws the
  first run's frames away while it still runs: it blocks on its channel.
* `main.go:1345`: `/session` during a run makes two objects of one file, whose
  saves overwrite each other.
* `main.go:1144`: `commitSystemPrompt` decides and appends in two critical
  sections; with two runs at once the head may change in between.

Behaviours seen in the models and accepted, since no text of the source denies
them: a job that settles between `Start` and `Claim` is both returned inline and
announced; the waiter whose time runs out first withdraws the claim of another
one, which then gets its result and a notice; `Wait` does not watch the call's
context, so an interrupted wait marks the end as seen; a user's kill is not
announced to the model; with little room an awaited record may be pruned before
its result is read; after a failed mark the status stays "running" in memory
although no run started; a job deleted between look and mark runs once more; a
`Remove` whose write fails answers "not found" and leaves an entry behind that
looks, finds nothing and returns.

## 7. Not modelled

Time (every timeout may come at any moment), the wording of answers, output
truncation, cron expressions, the tail probes, the text of errors. `Get`,
`List` and `ListAll` only read. In the terminal: rendering, slash commands,
menus and questions. In the agent: compaction, goals and todos beyond the fact
that they make a turn go on, usage accounting, images. In the session: `Fork`
(no caller outside tests), the folds that only read, export. The components of
section 1 without a module, and the reasons, are in `PROJECT.json`; the first
three worth a module are named at the end of section 2.

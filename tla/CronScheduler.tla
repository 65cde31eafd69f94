--------------------------- MODULE CronScheduler ----------------------------
(***************************************************************************)
(* Scheduled jobs: src/cron/scheduler.go over the store of src/cron/cron.go *)
(* as src/core/cron.go uses them, and of the cron library (src/libs/cron,  *)
(* which go.mod puts in the place of robfig/cron) what the scheduler takes *)
(* from it: the loop that starts what is due and the SkipIfStillRunning    *)
(* wrapper of each entry.                                                  *)
(*                                                                         *)
(* Two locks matter.  Manager.mu and Scheduler.mu are held for the whole   *)
(* of Add, Remove, SetEnabled and SetNotify, so one of them runs at a      *)
(* time; the runs take Store.mu only, for one Update or Get each.  An      *)
(* action is one critical section of Store.mu, so that SetEnabled, which   *)
(* reads a copy in one and saves it in another, is two.                    *)
(*                                                                         *)
(* A write of cron.json goes through a temporary file and a rename: it     *)
(* replaces the whole file or fails and leaves it as it was.  The process  *)
(* may end at any point (Restart): what is in memory is lost, and the next *)
(* process loads the file.  A client that a crash leaves without an answer  *)
(* is in the position of one that was told of an error.                    *)
(***************************************************************************)
EXTENDS Naturals

CONSTANTS Jobs,      \* job ids; newID issues each at most once
          Runs,      \* slots for goroutines that run jobs: bounds the overlap
          NoJob, NoRun,
          WriteFails \* writing cron.json may fail

ASSUME CronAssumption == /\ NoJob \notin Jobs
                         /\ NoRun \notin Runs
                         /\ WriteFails \in BOOLEAN

VARIABLES
  mem,     \* Store.jobs
  disk,    \* cron.json
  phase,   \* Start: resetting what the last process left, or running
  entries, \* Scheduler.entries: the jobs that are scheduled
  token,   \* SkipIfStillRunning: the run that an entry's wrapper waits for
  op,      \* SetEnabled between its Get and its Save: the copy it holds
  stage,   \* what a run does next
  job,     \* the job it is about
  asked,   \* history: the flags a client was last told a job has
  ranHere  \* history: the jobs this process has marked as running

storeVars == <<mem, disk>>
runVars == <<stage, job>>
vars == <<storeVars, phase, entries, token, op, runVars, asked, ranHere>>

\* A job's record: the flags that are set, and its LastStatus, of which only
\* running is told from the rest.  A job that is not there is "absent".
Flags    == SUBSET {"enabled", "notify"}
Absent   == [flags |-> {}, last |-> "absent"]
Records  == {Absent} \cup [flags : Flags, last : {"running", "settled"}]
Present(rec) == rec.last # "absent"
Enabled(rec) == "enabled" \in rec.flags

\* A set of flags with flag f on or off.
Switch(flags, f, b) == IF b THEN flags \cup {f} ELSE flags \ {f}

\* What a client was told: nothing yet, that the job has these flags, that it
\* is gone, or an error that leaves it open.
Told == [that : {"new", "has", "gone", "unknown"}, flags : Flags]
Idle == [job |-> NoJob, copy |-> Absent]

CronTypeOK ==
  /\ mem \in [Jobs -> Records]
  /\ disk \in [Jobs -> Records]
  /\ phase \in {"starting", "up", "stopped"}
  /\ entries \in SUBSET Jobs
  /\ token \in [Jobs -> Runs \cup {NoRun}]
  /\ op \in [job : Jobs \cup {NoJob}, copy : Records]
  /\ stage \in [Runs -> {"idle", "fire", "mark", "run", "hook"}]
  /\ job \in [Runs -> Jobs \cup {NoJob}]
  /\ asked \in [Jobs -> Told]
  /\ ranHere \in SUBSET Jobs

Init ==
  /\ mem = [j \in Jobs |-> Absent]
  /\ disk = [j \in Jobs |-> Absent]
  /\ phase = "starting"
  /\ entries = {}
  /\ token = [j \in Jobs |-> NoRun]
  /\ op = Idle
  /\ stage = [r \in Runs |-> "idle"]
  /\ job = [r \in Runs |-> NoJob]
  /\ asked = [j \in Jobs |-> [that |-> "new", flags |-> {}]]
  /\ ranHere = {}

-----------------------------------------------------------------------------
(* The store.                                                              *)

\* writeLocked writes all that is in memory, or nothing.
Written == disk' = mem'
Failed  == WriteFails /\ disk' = disk

Put(j, rec) == mem' = [mem EXCEPT ![j] = rec]

\* Update: the flags stay as they are in the store.
Mark(j, st) == Put(j, [mem[j] EXCEPT !.last = st])

\* The answers of an operation on job j.
Tell(j, that, flags) ==
  asked' = [asked EXCEPT ![j] = [that |-> that, flags |-> flags]]
Acknowledge(j) == Tell(j, IF Present(mem'[j]) THEN "has" ELSE "gone", mem'[j].flags)
ReportError(j) == Tell(j, "unknown", {})

-----------------------------------------------------------------------------
(* The scheduler's operations.                                             *)

Free == op = Idle

\* A new entry has a wrapper, and so a token, of its own.
Register(j) == /\ entries' = entries \cup {j}
               /\ token' = IF j \in entries THEN token
                           ELSE [token EXCEPT ![j] = NoRun]
\* A bug: the entry is removed from the cron thread's list only.
UnregisterForgets(j) == UNCHANGED <<entries, token>>
Unregister(j) == entries' = entries \ {j} /\ UNCHANGED token

\* A bug: a status that no reader of the record knows.
ResetStaleUnknown(j) ==
  /\ phase = "starting"
  /\ mem[j].last = "running"
  /\ Mark(j, "interrupted")
  /\ Written \/ Failed
  /\ UNCHANGED <<phase, entries, token, op, runVars, asked, ranHere>>

\* Start, first half: a job the last process left running is reset.  The
\* error of Update is ignored.
ResetStale(j) ==
  /\ phase = "starting"
  /\ mem[j].last = "running"
  /\ Mark(j, "settled")
  /\ Written \/ Failed
  /\ UNCHANGED <<phase, entries, token, op, runVars, asked, ranHere>>

\* A bug: the entries are made without waiting for the resets.
LaunchAtOnce ==
  /\ phase = "starting"
  /\ phase' = "up"
  /\ entries' = {j \in Jobs : Enabled(mem[j])}
  /\ UNCHANGED <<storeVars, token, op, runVars, asked, ranHere>>

\* Start, second half: every enabled job gets an entry.
Launch ==
  /\ phase = "starting"
  /\ \A j \in Jobs : mem[j].last # "running"
  /\ phase' = "up"
  /\ entries' = {j \in Jobs : Enabled(mem[j])}
  /\ UNCHANGED <<storeVars, token, op, runVars, asked, ranHere>>

Stop ==
  /\ phase = "up" /\ Free
  /\ phase' = "stopped"
  /\ entries' = {}
  /\ UNCHANGED <<storeVars, token, op, runVars, asked, ranHere>>

Add(j, flags) ==
  /\ phase = "up" /\ Free
  /\ asked[j].that = "new"
  /\ Put(j, [flags |-> flags, last |-> "settled"])
  /\ \/ /\ Written
        /\ Acknowledge(j)
        /\ IF "enabled" \in flags THEN Register(j) ELSE UNCHANGED <<entries, token>>
     \/ /\ Failed
        /\ ReportError(j)
        /\ UNCHANGED <<entries, token>>
  /\ UNCHANGED <<phase, op, runVars, ranHere>>

\* When the write fails the job is gone from memory, the answer is that it
\* was not found, and the entry stays.
Remove(j) ==
  /\ phase = "up" /\ Free
  /\ Present(mem[j])
  /\ Put(j, Absent)
  /\ \/ Written /\ Acknowledge(j) /\ Unregister(j)
     \/ Failed /\ ReportError(j) /\ UNCHANGED <<entries, token>>
  /\ UNCHANGED <<phase, op, runVars, ranHere>>

\* A bug: notify is switched between the two steps of SetEnabled.
SetNotifyUnlocked(j, b) ==
  /\ phase = "up"
  /\ Present(mem[j])
  /\ Put(j, [mem[j] EXCEPT !.flags = Switch(@, "notify", b)])
  /\ \/ /\ Written
        /\ IF asked[j].that = "has" THEN Acknowledge(j) ELSE UNCHANGED asked
     \/ Failed /\ ReportError(j)
  /\ UNCHANGED <<phase, entries, token, op, runVars, ranHere>>

\* Success says nothing of an enabled flag that an error has left open.
SetNotify(j, b) ==
  /\ phase = "up" /\ Free
  /\ Present(mem[j])
  /\ Put(j, [mem[j] EXCEPT !.flags = Switch(@, "notify", b)])
  /\ \/ /\ Written
        /\ IF asked[j].that = "has" THEN Acknowledge(j) ELSE UNCHANGED asked
     \/ Failed /\ ReportError(j)
  /\ UNCHANGED <<phase, entries, token, op, runVars, ranHere>>

SetEnabledGet(j, b) ==
  /\ phase = "up" /\ Free
  /\ Present(mem[j])
  /\ op' = [job |-> j, copy |-> [mem[j] EXCEPT !.flags = Switch(@, "enabled", b)]]
  /\ UNCHANGED <<storeVars, phase, entries, token, runVars, asked, ranHere>>

SetEnabledSave ==
  /\ ~ Free
  /\ Put(op.job, op.copy)
  /\ \/ /\ Written
        /\ Acknowledge(op.job)
        /\ IF Enabled(op.copy) THEN Register(op.job) ELSE Unregister(op.job)
     \/ /\ Failed
        /\ ReportError(op.job)
        /\ UNCHANGED <<entries, token>>
  /\ op' = Idle
  /\ UNCHANGED <<phase, runVars, ranHere>>

-----------------------------------------------------------------------------
(* Runs.                                                                   *)

Go(r, s, s2) == /\ stage[r] = s
                /\ stage' = [stage EXCEPT ![r] = s2]
                /\ UNCHANGED job

End(r, s) == /\ stage[r] = s
             /\ stage' = [stage EXCEPT ![r] = "idle"]
             /\ job' = [job EXCEPT ![r] = NoJob]

\* fire returns, and SkipIfStillRunning puts back the token of its entry: the
\* next tick may come through.
Release(r) == token' = [j \in Jobs |-> IF token[j] = r THEN NoRun ELSE token[j]]

\* The loop of Cron.run starts a goroutine per entry that is due (startJob); in
\* it the wrapper takes the token, or skips the tick as long as the last call of
\* fire has not returned.
Tick(r, j) ==
  /\ phase = "up"
  /\ j \in entries
  /\ token[j] = NoRun
  /\ stage[r] = "idle"
  /\ stage' = [stage EXCEPT ![r] = "fire"]
  /\ job' = [job EXCEPT ![r] = j]
  /\ token' = [token EXCEPT ![j] = r]
  /\ UNCHANGED <<storeVars, phase, entries, op, asked, ranHere>>

\* fire reads the job under Scheduler.mu.
FireLook(r) ==
  /\ Free
  /\ stage[r] = "fire"
  /\ LET rec == mem[job[r]]
     IN  IF Enabled(rec)
         THEN Go(r, "fire", "mark") /\ UNCHANGED token
         ELSE End(r, "fire") /\ Release(r)
  /\ UNCHANGED <<storeVars, phase, entries, op, asked, ranHere>>

\* It marks the job, starts the goroutine and returns.  A job removed in the
\* meantime is not marked and runs all the same; when the mark cannot be
\* written the job does not run.
FireMark(r) ==
  /\ stage[r] = "mark"
  /\ \/ /\ ~ Present(mem[job[r]])
        /\ Go(r, "mark", "run")
        /\ UNCHANGED <<storeVars, ranHere>>
     \/ /\ Present(mem[job[r]])
        /\ Mark(job[r], "running")
        /\ ranHere' = ranHere \cup {job[r]}
        /\ \/ Written /\ Go(r, "mark", "run")
           \/ Failed /\ End(r, "mark")
  /\ Release(r)
  /\ UNCHANGED <<phase, entries, op, asked>>

\* A bug: the outcome is saved with the copy of the job that the run started
\* with, so that a job deleted in the meantime comes back.
SettleSavesCopy(r) ==
  /\ stage[r] = "run"
  /\ Put(job[r], [flags |-> {"enabled"}, last |-> "settled"])
  /\ Written \/ Failed
  /\ Go(r, "run", "hook")
  /\ UNCHANGED <<phase, entries, token, op, asked, ranHere>>

\* The runner has returned: the outcome is recorded unless the job is gone,
\* and the error of Update is ignored.
Settle(r) ==
  /\ stage[r] = "run"
  /\ \/ /\ ~ Present(mem[job[r]])
        /\ End(r, "run")
        /\ UNCHANGED storeVars
     \/ /\ Present(mem[job[r]])
        /\ Mark(job[r], "settled")
        /\ Written \/ Failed
        /\ Go(r, "run", "hook")
  /\ UNCHANGED <<phase, entries, token, op, asked, ranHere>>

\* The job is read again and, if it is still there, handed to the hook.
Hook(r) ==
  /\ End(r, "hook")
  /\ UNCHANGED <<storeVars, phase, entries, token, op, asked, ranHere>>

-----------------------------------------------------------------------------
\* The process ends, at any point, and a new one loads the file.
Restart ==
  /\ mem' = disk
  /\ phase' = "starting"
  /\ entries' = {}
  /\ token' = [j \in Jobs |-> NoRun]
  /\ op' = Idle
  /\ stage' = [r \in Runs |-> "idle"]
  /\ job' = [r \in Runs |-> NoJob]
  /\ ranHere' = {}
  /\ IF Free THEN UNCHANGED asked ELSE ReportError(op.job)
  /\ UNCHANGED disk

Next ==
  \/ \E j \in Jobs :
       \/ ResetStale(j)
       \/ \E flags \in Flags : Add(j, flags)
       \/ Remove(j)
       \/ \E b \in BOOLEAN : SetNotify(j, b) \/ SetEnabledGet(j, b)
       \/ \E r \in Runs : Tick(r, j)
  \/ Launch \/ Stop \/ SetEnabledSave \/ Restart
  \/ \E r \in Runs : FireLook(r) \/ FireMark(r) \/ Settle(r) \/ Hook(r)

Spec == Init /\ [][Next]_vars

-----------------------------------------------------------------------------
(* Safety.                                                                 *)

\* An acknowledged Add, SetEnabled, SetNotify or Remove lasts: whatever runs
\* settle afterwards from the copies they started with, whatever writes fail
\* and whenever the process restarts, the file says what the client was told.
AckedIsDurable ==
  \A j \in Jobs :
    /\ asked[j].that = "has" => Present(disk[j]) /\ disk[j].flags = asked[j].flags
    /\ asked[j].that = "gone" => ~ Present(disk[j])

\* While the scheduler is up a job is scheduled exactly if the client was told
\* that it is enabled.
EntriesAgree ==
  phase = "up" =>
    \A j \in Jobs : asked[j].that \in {"has", "gone"} =>
                      (j \in entries <=> "enabled" \in asked[j].flags)

\* After a restart no job is shown as running that this process never ran.
RunningIsReset ==
  phase = "up" =>
    \A j \in Jobs : mem[j].last = "running" => j \in ranHere

\* The promise of SkipIfStillRunning: no two runs of one job at a time.
OneRunAtATime ==
  \A r, s \in Runs : stage[r] = "run" /\ stage[s] = "run" /\ job[r] = job[s] => r = s

\* A job that is shown as running does run: what is shown is not left over from
\* a run that has settled, to stay until the next run of the job or the next
\* start.
RunningMeansRun ==
  phase = "up" =>
    \A j \in Jobs : mem[j].last = "running" =>
                      \E r \in Runs : job[r] = j /\ stage[r] = "run"

-----------------------------------------------------------------------------
\* A table of jobs as a client sees it.
Shown(recs) ==
  [j \in Jobs |-> IF Present(recs[j]) THEN {"listed"} \cup recs[j].flags ELSE {}]

Ledger == INSTANCE CronLedger WITH wanted <- Shown(mem), table <- Shown(disk)

\* Every operation, SetEnabled too, happens at one instant for its clients, and
\* runs, ticks and restarts change nothing they have been told.
ImplementsLedger == Ledger!Spec
=============================================================================

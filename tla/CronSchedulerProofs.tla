------------------------ MODULE CronSchedulerProofs -------------------------
(* Proofs about CronScheduler, for any number of jobs and runs and whether  *)
(* or not writes may fail.                                                  *)
EXTENDS CronScheduler, TLAPS

\* A record agrees with what a client was last told of its job; an error
\* leaves everything open, and a job nobody was told of is not there.
Agrees(rec, told) ==
  /\ told.that = "has" => Present(rec) /\ rec.flags = told.flags
  /\ told.that \in {"new", "gone"} => rec = Absent /\ told.flags = {}

\* Memory and the file both agree with the answers: each is where the other is
\* restored from, memory from the file by a restart and the file from memory
\* by a write.
MemoryAgrees == \A j \in Jobs : Agrees(mem[j], asked[j])
FileAgrees   == \A j \in Jobs : Agrees(disk[j], asked[j])

\* SetEnabled holds a copy of a job that no other operation can remove, and
\* the copy is running only if this process has run the job.
CopyIsCurrent ==
  op # Idle => /\ op.job \in Jobs
               /\ Present(mem[op.job]) /\ Present(op.copy)
               /\ op.copy.last = "running" => op.job \in ranHere

\* A run beyond "idle" has a job; while the scheduler starts nothing runs and
\* no operation is under way.
RunsHaveJobs == \A r \in Runs : stage[r] # "idle" => job[r] \in Jobs
StartIsQuiet == phase = "starting" => op = Idle /\ \A r \in Runs : stage[r] = "idle"

\* Once the scheduler is up, a job is running only if this process has run it.
Marked == phase # "starting" => \A j \in Jobs : mem[j].last = "running" => j \in ranHere

\* A job that nobody was told of has no entry.
NewIsUnscheduled == \A j \in Jobs : asked[j].that = "new" => j \notin entries

StoreInductive ==
  CronTypeOK /\ MemoryAgrees /\ FileAgrees /\ CopyIsCurrent /\ RunsHaveJobs

CronInductive ==
  StoreInductive /\ StartIsQuiet /\ Marked /\ NewIsUnscheduled /\ EntriesAgree

-----------------------------------------------------------------------------
\* Types of the parts of a record.
LEMMA RecordParts ==
  ASSUME NEW rec \in Records
  PROVE  /\ rec.flags \in Flags
         /\ rec.last \in {"running", "settled", "absent"}
         /\ rec = [flags |-> rec.flags, last |-> rec.last]
         /\ ~ Present(rec) => rec = Absent
  <1>1. CASE rec = Absent
    BY <1>1 DEF Absent, Present, Flags
  <1>2. CASE rec \in [flags : Flags, last : {"running", "settled"}]
    BY <1>2 DEF Present
  <1> QED BY <1>1, <1>2 DEF Records

LEMMA AbsentRecord == Absent \in Records /\ Absent.flags = {} /\ ~ Present(Absent)
  BY DEF Records, Absent, Present

\* Marking a record that is there keeps its flags.
LEMMA MarkedRecord ==
  ASSUME NEW rec \in Records, Present(rec), NEW st \in {"running", "settled"}
  PROVE  /\ [rec EXCEPT !.last = st] \in Records
         /\ [rec EXCEPT !.last = st].flags = rec.flags
         /\ [rec EXCEPT !.last = st].last = st
         /\ Present([rec EXCEPT !.last = st])
  BY RecordParts DEF Records, Absent, Present

\* Switching a flag of a record that is there keeps its status.
LEMMA SwitchedRecord ==
  ASSUME NEW rec \in Records, Present(rec), NEW b \in BOOLEAN,
         NEW f \in {"enabled", "notify"}
  PROVE  LET new == [rec EXCEPT !.flags = Switch(@, f, b)]
         IN  new \in Records /\ new.last = rec.last /\ Present(new)
  <1>1. Switch(rec.flags, f, b) \in Flags
    BY RecordParts DEF Switch, Flags
  <1> QED BY <1>1, RecordParts DEF Records, Absent, Present

-----------------------------------------------------------------------------
\* A write leaves the job's new record in memory, the others as they were, and
\* on the file either all of memory or what was there.
LEMMA Writes ==
  ASSUME CronTypeOK, NEW j \in Jobs, NEW rec \in Records, Put(j, rec),
         Written \/ Failed
  PROVE  /\ mem' \in [Jobs -> Records] /\ disk' \in [Jobs -> Records]
         /\ mem'[j] = rec
         /\ \A k \in Jobs \ {j} : mem'[k] = mem[k]
         /\ disk' = mem' \/ disk' = disk
  BY DEF CronTypeOK, Put, Written, Failed

\* Recording the status of a job that is there disturbs no answer.
LEMMA MarkKeepsAnswers ==
  ASSUME StoreInductive, NEW j \in Jobs, Present(mem[j]),
         NEW st \in {"running", "settled"}, Mark(j, st),
         Written \/ Failed, UNCHANGED asked
  PROVE  /\ mem' \in [Jobs -> Records] /\ disk' \in [Jobs -> Records]
         /\ MemoryAgrees' /\ FileAgrees'
         /\ mem'[j].last = st
         /\ \A k \in Jobs : Present(mem[k]) => Present(mem'[k])
         /\ \A k \in Jobs \ {j} : mem'[k] = mem[k]
  <1> DEFINE rec == [mem[j] EXCEPT !.last = st]
  <1>1. mem[j] \in Records
    BY DEF StoreInductive, CronTypeOK
  <1>2. rec \in Records /\ rec.flags = mem[j].flags /\ rec.last = st /\ Present(rec)
    BY <1>1, MarkedRecord
  <1>3. /\ mem' \in [Jobs -> Records] /\ disk' \in [Jobs -> Records]
        /\ mem'[j] = rec
        /\ \A k \in Jobs \ {j} : mem'[k] = mem[k]
        /\ disk' = mem' \/ disk' = disk
    BY <1>2, Writes DEF Mark, StoreInductive
  <1>4. Agrees(mem[j], asked[j]) => Agrees(rec, asked[j])
    BY <1>2, AbsentRecord DEF Agrees
  <1>5. MemoryAgrees'
    BY <1>3, <1>4 DEF StoreInductive, MemoryAgrees, Agrees
  <1>6. FileAgrees'
    BY <1>3, <1>5 DEF StoreInductive, MemoryAgrees, FileAgrees, Agrees
  <1> HIDE DEF rec
  <1> QED BY <1>2, <1>3, <1>5, <1>6

\* An operation that writes the job's record and answers accordingly, or
\* fails and says so, leaves memory and the file in agreement with the answers.
LEMMA AnswersAgree ==
  ASSUME StoreInductive, NEW j \in Jobs, NEW rec \in Records, Put(j, rec),
         (Written /\ Acknowledge(j)) \/ (Failed /\ ReportError(j))
  PROVE  /\ mem' \in [Jobs -> Records] /\ disk' \in [Jobs -> Records]
         /\ asked' \in [Jobs -> Told]
         /\ MemoryAgrees' /\ FileAgrees'
         /\ mem'[j] = rec
         /\ \A k \in Jobs \ {j} : mem'[k] = mem[k] /\ asked'[k] = asked[k]
         /\ \/ asked'[j] = [that |-> IF Present(rec) THEN "has" ELSE "gone",
                            flags |-> rec.flags]
            \/ Failed /\ asked'[j] = [that |-> "unknown", flags |-> {}]
  <1>1. /\ mem' \in [Jobs -> Records] /\ disk' \in [Jobs -> Records]
        /\ mem'[j] = rec
        /\ \A k \in Jobs \ {j} : mem'[k] = mem[k]
        /\ Written => disk' = mem'
        /\ Failed => disk' = disk
    BY Writes DEF StoreInductive, Written, Failed
  <1>2. rec.flags \in Flags /\ (~ Present(rec) => rec = Absent /\ rec.flags = {})
    BY RecordParts, AbsentRecord
  <1>3. {} \in Flags
    BY DEF Flags
  <1>4. asked \in [Jobs -> Told]
    BY DEF StoreInductive, CronTypeOK
  <1>5. CASE Written /\ Acknowledge(j)
    <2>1. asked' = [asked EXCEPT ![j] =
                      [that |-> IF Present(rec) THEN "has" ELSE "gone",
                       flags |-> rec.flags]]
      BY <1>1, <1>5 DEF Acknowledge, Tell
    <2>2. asked' \in [Jobs -> Told]
      BY <2>1, <1>2, <1>4 DEF Told
    <2>3. Agrees(rec, asked'[j])
      BY <2>1, <1>2, <1>4 DEF Agrees
    <2>4. \A k \in Jobs \ {j} : asked'[k] = asked[k]
      BY <2>1, <1>4
    <2>5. MemoryAgrees'
      BY <2>3, <2>4, <1>1 DEF StoreInductive, MemoryAgrees, Agrees
    <2>6. FileAgrees'
      BY <2>5, <1>1, <1>5 DEF MemoryAgrees, FileAgrees, Agrees
    <2> QED BY <2>1, <2>2, <2>4, <2>5, <2>6, <1>1, <1>4
  <1>6. CASE Failed /\ ReportError(j)
    <2>1. asked' = [asked EXCEPT ![j] = [that |-> "unknown", flags |-> {}]]
      BY <1>6 DEF ReportError, Tell
    <2>2. asked' \in [Jobs -> Told]
      BY <2>1, <1>3, <1>4 DEF Told
    <2>3. asked'[j] = [that |-> "unknown", flags |-> {}]
          /\ \A k \in Jobs \ {j} : asked'[k] = asked[k]
      BY <2>1, <1>4
    <2>4. MemoryAgrees'
      BY <2>3, <1>1 DEF StoreInductive, MemoryAgrees, Agrees
    <2>5. FileAgrees'
      BY <2>3, <1>1, <1>6 DEF StoreInductive, FileAgrees, Agrees
    <2> QED BY <2>2, <2>3, <2>4, <2>5, <1>1, <1>6
  <1> QED BY <1>5, <1>6

-----------------------------------------------------------------------------
(* The steps.  Every lemma below is one action keeping CronInductive.       *)

LEMMA InitKept == Init => CronInductive
  <1> SUFFICES ASSUME Init PROVE CronInductive
    OBVIOUS
  <1>1. CronTypeOK
    BY AbsentRecord DEF Init, CronTypeOK, Idle, Told, Flags
  <1>2. MemoryAgrees /\ FileAgrees
    BY DEF Init, MemoryAgrees, FileAgrees, Agrees
  <1>3. CopyIsCurrent /\ RunsHaveJobs /\ StartIsQuiet
    BY DEF Init, CopyIsCurrent, RunsHaveJobs, StartIsQuiet
  <1>4. Marked /\ NewIsUnscheduled /\ EntriesAgree
    BY DEF Init, Marked, NewIsUnscheduled, EntriesAgree
  <1> QED BY <1>1, <1>2, <1>3, <1>4 DEF CronInductive, StoreInductive

LEMMA ResetStaleKeeps ==
  ASSUME CronInductive, NEW j \in Jobs, ResetStale(j) PROVE CronInductive'
  <1> USE DEF CronInductive, StoreInductive
  <1>1. Present(mem[j])
    BY DEF ResetStale, Present
  <1>2. /\ mem' \in [Jobs -> Records] /\ disk' \in [Jobs -> Records]
        /\ MemoryAgrees' /\ FileAgrees'
    BY <1>1, MarkKeepsAnswers DEF ResetStale
  <1>3. CronTypeOK'
    BY <1>2 DEF ResetStale, CronTypeOK, runVars
  <1>4. CopyIsCurrent' /\ RunsHaveJobs' /\ StartIsQuiet'
    BY DEF ResetStale, StartIsQuiet, CopyIsCurrent, RunsHaveJobs, runVars, Idle
  <1>5. Marked' /\ NewIsUnscheduled' /\ EntriesAgree'
    BY DEF ResetStale, Marked, NewIsUnscheduled, EntriesAgree
  <1> QED BY <1>2, <1>3, <1>4, <1>5

LEMMA LaunchKeeps ==
  ASSUME CronInductive, Launch PROVE CronInductive'
  <1> USE DEF CronInductive, StoreInductive
  <1>1. CronTypeOK'
    BY DEF Launch, CronTypeOK, runVars, storeVars
  <1>2. MemoryAgrees' /\ FileAgrees'
    BY DEF Launch, MemoryAgrees, FileAgrees, Agrees, storeVars, runVars
  <1>3. CopyIsCurrent' /\ RunsHaveJobs' /\ StartIsQuiet'
    BY DEF Launch, CopyIsCurrent, RunsHaveJobs, StartIsQuiet, storeVars, runVars
  <1>4. Marked'
    BY DEF Launch, Marked, storeVars
  <1>5. \A j \in Jobs : /\ asked[j].that = "has" => mem[j].flags = asked[j].flags
                        /\ asked[j].that \in {"new", "gone"} =>
                             mem[j].flags = {} /\ asked[j].flags = {}
    BY AbsentRecord DEF MemoryAgrees, Agrees
  <1>6. NewIsUnscheduled' /\ EntriesAgree'
    BY <1>5 DEF Launch, NewIsUnscheduled, EntriesAgree, Enabled
  <1> QED BY <1>1, <1>2, <1>3, <1>4, <1>6

LEMMA StopKeeps ==
  ASSUME CronInductive, Stop PROVE CronInductive'
  <1> USE DEF CronInductive, StoreInductive
  <1>1. CronTypeOK'
    BY DEF Stop, CronTypeOK, runVars, storeVars
  <1>2. MemoryAgrees' /\ FileAgrees'
    BY DEF Stop, MemoryAgrees, FileAgrees, Agrees, storeVars, runVars
  <1>3. CopyIsCurrent' /\ RunsHaveJobs' /\ StartIsQuiet'
    BY DEF Stop, CopyIsCurrent, RunsHaveJobs, StartIsQuiet, storeVars, runVars
  <1>4. Marked' /\ NewIsUnscheduled' /\ EntriesAgree'
    BY DEF Stop, Marked, NewIsUnscheduled, EntriesAgree, storeVars
  <1> QED BY <1>1, <1>2, <1>3, <1>4

LEMMA AddKeeps ==
  ASSUME CronInductive, NEW j \in Jobs, NEW flags \in Flags, Add(j, flags)
  PROVE  CronInductive'
  <1> USE DEF CronInductive, StoreInductive
  <1> DEFINE rec == [flags |-> flags, last |-> "settled"]
  <1>1. rec \in Records /\ Present(rec) /\ rec.flags = flags /\ rec.last = "settled"
    BY DEF Records, Present
  <1>2. Put(j, rec) /\ ((Written /\ Acknowledge(j)) \/ (Failed /\ ReportError(j)))
    BY DEF Add
  <1>3. /\ mem' \in [Jobs -> Records] /\ disk' \in [Jobs -> Records]
        /\ asked' \in [Jobs -> Told]
        /\ MemoryAgrees' /\ FileAgrees'
        /\ mem'[j] = rec
        /\ \A k \in Jobs \ {j} : mem'[k] = mem[k] /\ asked'[k] = asked[k]
    BY <1>1, <1>2, AnswersAgree
  <1>4. CronTypeOK'
    BY <1>3 DEF Add, CronTypeOK, Register, runVars
  <1>5. CopyIsCurrent' /\ RunsHaveJobs' /\ StartIsQuiet'
    BY DEF Add, Free, CopyIsCurrent, RunsHaveJobs, StartIsQuiet, runVars
  <1>6. Marked'
    BY <1>1, <1>3 DEF Add, Marked
  <1>7. phase = "up" /\ j \notin entries
    BY DEF Add, NewIsUnscheduled
  <1>8. CASE Written /\ Acknowledge(j)
             /\ IF "enabled" \in flags THEN Register(j) ELSE UNCHANGED <<entries, token>>
    <2>1. asked'[j] = [that |-> "has", flags |-> flags]
      BY <1>1, <1>3, <1>8 DEF Acknowledge, Tell, CronTypeOK
    <2>2. j \in entries' <=> "enabled" \in flags
      BY <1>7, <1>8 DEF Register
    <2>3. \A k \in Jobs \ {j} : k \in entries' <=> k \in entries
      BY <1>8 DEF Register
    <2> QED BY <1>3, <1>4, <1>5, <1>6, <1>7, <2>1, <2>2, <2>3
            DEF NewIsUnscheduled, EntriesAgree
  <1>9. CASE Failed /\ ReportError(j) /\ UNCHANGED <<entries, token>>
    <2>1. asked'[j] = [that |-> "unknown", flags |-> {}]
      BY <1>9 DEF ReportError, Tell, CronTypeOK
    <2> QED BY <1>3, <1>4, <1>5, <1>6, <1>7, <1>9, <2>1
            DEF NewIsUnscheduled, EntriesAgree
  <1> QED BY <1>8, <1>9 DEF Add

LEMMA RemoveKeeps ==
  ASSUME CronInductive, NEW j \in Jobs, Remove(j) PROVE CronInductive'
  <1> USE DEF CronInductive, StoreInductive
  <1>1. /\ mem' \in [Jobs -> Records] /\ disk' \in [Jobs -> Records]
        /\ asked' \in [Jobs -> Told]
        /\ MemoryAgrees' /\ FileAgrees'
        /\ mem'[j] = Absent
        /\ \A k \in Jobs \ {j} : mem'[k] = mem[k] /\ asked'[k] = asked[k]
    BY AbsentRecord, AnswersAgree DEF Remove
  <1>2. CronTypeOK'
    BY <1>1 DEF Remove, CronTypeOK, Unregister, runVars
  <1>3. CopyIsCurrent' /\ RunsHaveJobs' /\ StartIsQuiet'
    BY DEF Remove, Free, CopyIsCurrent, RunsHaveJobs, StartIsQuiet, runVars
  <1>4. Marked'
    BY <1>1 DEF Remove, Marked, Absent
  <1>5. CASE Written /\ Acknowledge(j) /\ Unregister(j)
    <2>1. asked'[j] = [that |-> "gone", flags |-> {}]
      BY <1>1, <1>5, AbsentRecord DEF Acknowledge, Tell, CronTypeOK
    <2> QED BY <1>1, <1>2, <1>3, <1>4, <1>5, <2>1
            DEF Remove, Unregister, NewIsUnscheduled, EntriesAgree
  <1>6. CASE Failed /\ ReportError(j) /\ UNCHANGED <<entries, token>>
    <2>1. asked'[j] = [that |-> "unknown", flags |-> {}]
      BY <1>6 DEF ReportError, Tell, CronTypeOK
    <2> QED BY <1>1, <1>2, <1>3, <1>4, <1>6, <2>1
            DEF Remove, NewIsUnscheduled, EntriesAgree
  <1> QED BY <1>5, <1>6 DEF Remove

LEMMA SetNotifyKeeps ==
  ASSUME CronInductive, NEW j \in Jobs, NEW b \in BOOLEAN, SetNotify(j, b)
  PROVE  CronInductive'
  <1> USE DEF CronInductive, StoreInductive
  <1> DEFINE rec == [mem[j] EXCEPT !.flags = Switch(@, "notify", b)]
  <1>1. mem[j] \in Records /\ Present(mem[j])
    BY DEF SetNotify, CronTypeOK
  <1>2. rec \in Records /\ rec.last = mem[j].last /\ Present(rec)
    BY <1>1, SwitchedRecord
  <1>3. "enabled" \in rec.flags <=> "enabled" \in mem[j].flags
    BY <1>1, RecordParts DEF Switch
  <1>4. Put(j, rec) /\ (Written \/ Failed)
    BY DEF SetNotify
  <1> HIDE DEF rec
  <1>5. /\ mem' \in [Jobs -> Records] /\ disk' \in [Jobs -> Records]
        /\ mem'[j] = rec
        /\ \A k \in Jobs \ {j} : mem'[k] = mem[k]
        /\ disk' = mem' \/ disk' = disk
    BY <1>2, <1>4, Writes
  <1>6. asked[j].that \in {"has", "unknown"}
    BY <1>1, AbsentRecord DEF MemoryAgrees, Agrees, CronTypeOK, Told
  <1>7. \/ asked[j].that = "unknown" /\ UNCHANGED asked
        \/ (Written /\ Acknowledge(j)) \/ (Failed /\ ReportError(j))
    BY <1>6 DEF SetNotify
  <1>8. asked' \in [Jobs -> Told] /\ MemoryAgrees' /\ FileAgrees'
    <2>1. CASE asked[j].that = "unknown" /\ UNCHANGED asked
      <3>1. MemoryAgrees' /\ FileAgrees'
        BY <1>5, <2>1 DEF MemoryAgrees, FileAgrees, Agrees
      <3> QED BY <3>1, <2>1 DEF CronTypeOK
    <2>2. CASE (Written /\ Acknowledge(j)) \/ (Failed /\ ReportError(j))
      BY <1>2, <1>4, <2>2, AnswersAgree
    <2> QED BY <1>7, <2>1, <2>2
  <1>9. CronTypeOK'
    BY <1>5, <1>8 DEF SetNotify, CronTypeOK, runVars
  <1>10. CopyIsCurrent' /\ RunsHaveJobs' /\ StartIsQuiet'
    BY DEF SetNotify, Free, CopyIsCurrent, RunsHaveJobs, StartIsQuiet, runVars
  <1>11. Marked'
    BY <1>2, <1>5 DEF SetNotify, Marked
  <1>12. /\ UNCHANGED <<entries, phase>>
         /\ \A k \in Jobs \ {j} : asked'[k] = asked[k]
         /\ \/ asked'[j].that = "unknown"
            \/ /\ asked[j].that = "has" /\ asked'[j].that = "has"
               /\ "enabled" \in asked'[j].flags <=> "enabled" \in asked[j].flags
    <2>1. CASE asked[j].that = "unknown" /\ UNCHANGED asked
      BY <2>1 DEF SetNotify
    <2>2. CASE Failed /\ ReportError(j)
      BY <2>2 DEF SetNotify, ReportError, Tell, CronTypeOK
    <2>3. CASE Written /\ Acknowledge(j) /\ asked[j].that = "has"
      <3>1. asked'[j] = [that |-> "has", flags |-> rec.flags]
            /\ \A k \in Jobs \ {j} : asked'[k] = asked[k]
        BY <2>3, <1>2, <1>5 DEF Acknowledge, Tell, CronTypeOK
      <3>2. mem[j].flags = asked[j].flags
        BY <2>3 DEF MemoryAgrees, Agrees
      <3> QED BY <3>1, <3>2, <2>3, <1>3 DEF SetNotify
    <2> QED BY <2>1, <2>2, <2>3, <1>6 DEF SetNotify
  <1>13. NewIsUnscheduled' /\ EntriesAgree'
    BY <1>6, <1>12 DEF NewIsUnscheduled, EntriesAgree
  <1> QED BY <1>8, <1>9, <1>10, <1>11, <1>13

LEMMA SetEnabledGetKeeps ==
  ASSUME CronInductive, NEW j \in Jobs, NEW b \in BOOLEAN, SetEnabledGet(j, b)
  PROVE  CronInductive'
  <1> USE DEF CronInductive, StoreInductive
  <1> DEFINE copy == [mem[j] EXCEPT !.flags = Switch(@, "enabled", b)]
  <1>1. mem[j] \in Records /\ Present(mem[j])
    BY DEF SetEnabledGet, CronTypeOK
  <1>2. copy \in Records /\ copy.last = mem[j].last /\ Present(copy)
    BY <1>1, SwitchedRecord
  <1>3. op' = [job |-> j, copy |-> copy]
    BY DEF SetEnabledGet
  <1> HIDE DEF copy
  <1>4. CronTypeOK'
    BY <1>2, <1>3 DEF SetEnabledGet, CronTypeOK, runVars, storeVars
  <1>5. MemoryAgrees' /\ FileAgrees'
    BY DEF SetEnabledGet, MemoryAgrees, FileAgrees, Agrees, storeVars, runVars
  <1>6. RunsHaveJobs' /\ StartIsQuiet'
    BY DEF SetEnabledGet, RunsHaveJobs, StartIsQuiet, storeVars, runVars
  <1>7. CopyIsCurrent'
    BY <1>1, <1>2, <1>3 DEF SetEnabledGet, CopyIsCurrent, Marked, storeVars
  <1>8. Marked' /\ NewIsUnscheduled' /\ EntriesAgree'
    BY DEF SetEnabledGet, Marked, NewIsUnscheduled, EntriesAgree, storeVars
  <1> QED BY <1>4, <1>5, <1>6, <1>7, <1>8

LEMMA SetEnabledSaveKeeps ==
  ASSUME CronInductive, SetEnabledSave PROVE CronInductive'
  <1> USE DEF CronInductive, StoreInductive
  <1> DEFINE j == op.job
             rec == op.copy
  <1>1. /\ op # Idle /\ j \in Jobs /\ rec \in Records
        /\ Present(mem[j]) /\ Present(rec)
        /\ rec.last = "running" => j \in ranHere
    BY DEF SetEnabledSave, Free, CopyIsCurrent, CronTypeOK
  <1>2. /\ mem' \in [Jobs -> Records] /\ disk' \in [Jobs -> Records]
        /\ asked' \in [Jobs -> Told]
        /\ MemoryAgrees' /\ FileAgrees'
        /\ mem'[j] = rec
        /\ \A k \in Jobs \ {j} : mem'[k] = mem[k] /\ asked'[k] = asked[k]
    BY <1>1, AnswersAgree DEF SetEnabledSave
  <1>3. CronTypeOK'
    BY <1>1, <1>2, AbsentRecord
    DEF SetEnabledSave, CronTypeOK, Register, Unregister, Idle, runVars
  <1>4. phase # "starting"
    BY <1>1 DEF StartIsQuiet
  <1>5. CopyIsCurrent' /\ RunsHaveJobs' /\ StartIsQuiet'
    BY <1>4 DEF SetEnabledSave, CopyIsCurrent, RunsHaveJobs, StartIsQuiet, Idle, runVars
  <1>6. Marked'
    BY <1>1, <1>2 DEF SetEnabledSave, Marked
  <1>7. asked[j].that # "new"
    BY <1>1, AbsentRecord DEF MemoryAgrees, Agrees
  <1>8. CASE /\ Written /\ Acknowledge(j)
             /\ IF Enabled(rec) THEN Register(j) ELSE Unregister(j)
    <2>1. asked'[j] = [that |-> "has", flags |-> rec.flags]
      BY <1>1, <1>2, <1>8 DEF Acknowledge, Tell, CronTypeOK
    <2>2. j \in entries' <=> "enabled" \in rec.flags
      BY <1>8 DEF Register, Unregister, Enabled
    <2>3. \A k \in Jobs \ {j} : k \in entries' <=> k \in entries
      BY <1>8 DEF Register, Unregister
    <2>4. phase' = phase
      BY DEF SetEnabledSave
    <2> HIDE DEF j, rec
    <2>5. NewIsUnscheduled' /\ EntriesAgree'
      BY <1>2, <2>1, <2>2, <2>3, <2>4 DEF NewIsUnscheduled, EntriesAgree
    <2> QED BY <1>2, <1>3, <1>5, <1>6, <2>5
  <1>9. CASE Failed /\ ReportError(j) /\ UNCHANGED <<entries, token>>
    <2>1. asked'[j] = [that |-> "unknown", flags |-> {}]
      BY <1>1, <1>9 DEF ReportError, Tell, CronTypeOK
    <2>2. phase' = phase
      BY DEF SetEnabledSave
    <2> HIDE DEF j, rec
    <2>3. NewIsUnscheduled' /\ EntriesAgree'
      BY <1>2, <1>9, <2>1, <2>2 DEF NewIsUnscheduled, EntriesAgree
    <2> QED BY <1>2, <1>3, <1>5, <1>6, <2>3
  <1> QED BY <1>8, <1>9 DEF SetEnabledSave

\* What a step of a run does to stage, job and token.
RunsInPlace == /\ token \in [Jobs -> Runs \cup {NoRun}]
               /\ stage \in [Runs -> {"idle", "fire", "mark", "run", "hook"}]
               /\ job \in [Runs -> Jobs \cup {NoJob}]
               /\ RunsHaveJobs

LEMMA GoInPlace ==
  ASSUME CronInductive, NEW r \in Runs, NEW s \in {"fire", "mark", "run"},
         NEW s2 \in {"mark", "run", "hook"}, Go(r, s, s2),
         token' = token \/ Release(r)
  PROVE  RunsInPlace' /\ phase # "starting"
  <1> USE DEF CronInductive, StoreInductive
  <1>1. stage' \in [Runs -> {"idle", "fire", "mark", "run", "hook"}]
    BY DEF Go, CronTypeOK
  <1>2. job' \in [Runs -> Jobs \cup {NoJob}] /\ RunsHaveJobs'
    BY DEF Go, CronTypeOK, RunsHaveJobs
  <1>3. token' \in [Jobs -> Runs \cup {NoRun}]
    BY DEF Release, CronTypeOK
  <1>4. phase # "starting"
    BY DEF Go, StartIsQuiet
  <1> QED BY <1>1, <1>2, <1>3, <1>4 DEF RunsInPlace

LEMMA EndInPlace ==
  ASSUME CronInductive, NEW r \in Runs, NEW s \in {"fire", "mark", "run", "hook"},
         End(r, s), token' = token \/ Release(r)
  PROVE  RunsInPlace' /\ phase # "starting"
  <1> USE DEF CronInductive, StoreInductive
  <1>1. stage' \in [Runs -> {"idle", "fire", "mark", "run", "hook"}]
    BY DEF End, CronTypeOK
  <1>2. job' \in [Runs -> Jobs \cup {NoJob}] /\ RunsHaveJobs'
    BY DEF End, CronTypeOK, RunsHaveJobs
  <1>3. token' \in [Jobs -> Runs \cup {NoRun}]
    BY DEF Release, CronTypeOK
  <1>4. phase # "starting"
    BY DEF End, StartIsQuiet
  <1> QED BY <1>1, <1>2, <1>3, <1>4 DEF RunsInPlace

\* A step of a run that leaves the store alone.
LEMMA RunStepKeeps ==
  ASSUME CronInductive, RunsInPlace', phase # "starting",
         UNCHANGED <<storeVars, phase, entries, op, asked, ranHere>>
  PROVE  CronInductive'
  <1> USE DEF CronInductive, StoreInductive
  <1>1. CronTypeOK' /\ RunsHaveJobs'
    BY DEF CronTypeOK, RunsInPlace, storeVars
  <1>2. MemoryAgrees' /\ FileAgrees'
    BY DEF MemoryAgrees, FileAgrees, Agrees, storeVars
  <1>3. CopyIsCurrent' /\ StartIsQuiet'
    BY DEF CopyIsCurrent, StartIsQuiet, storeVars
  <1>4. Marked' /\ NewIsUnscheduled' /\ EntriesAgree'
    BY DEF Marked, NewIsUnscheduled, EntriesAgree, storeVars
  <1> QED BY <1>1, <1>2, <1>3, <1>4

\* A step of a run that records a status of its job.
LEMMA RunMarkKeeps ==
  ASSUME CronInductive, RunsInPlace', phase # "starting",
         NEW j \in Jobs, Present(mem[j]), NEW st \in {"running", "settled"},
         Mark(j, st), Written \/ Failed,
         UNCHANGED <<phase, entries, op, asked>>,
         ranHere' \in SUBSET Jobs, ranHere \subseteq ranHere',
         st = "running" => j \in ranHere'
  PROVE  CronInductive'
  <1> USE DEF CronInductive, StoreInductive
  <1>1. /\ mem' \in [Jobs -> Records] /\ disk' \in [Jobs -> Records]
        /\ MemoryAgrees' /\ FileAgrees'
        /\ mem'[j].last = st
        /\ \A k \in Jobs : Present(mem[k]) => Present(mem'[k])
        /\ \A k \in Jobs \ {j} : mem'[k] = mem[k]
    BY MarkKeepsAnswers
  <1>2. CronTypeOK' /\ RunsHaveJobs'
    BY <1>1 DEF CronTypeOK, RunsInPlace
  <1>3. CopyIsCurrent' /\ StartIsQuiet'
    BY <1>1 DEF CopyIsCurrent, StartIsQuiet
  <1>4. Marked'
    BY <1>1 DEF Marked
  <1>5. NewIsUnscheduled' /\ EntriesAgree'
    BY DEF NewIsUnscheduled, EntriesAgree
  <1> QED BY <1>1, <1>2, <1>3, <1>4, <1>5

LEMMA TickKeeps ==
  ASSUME CronInductive, NEW r \in Runs, NEW j \in Jobs, Tick(r, j)
  PROVE  CronInductive'
  <1>1. RunsInPlace'
    BY DEF CronInductive, StoreInductive, Tick, CronTypeOK, RunsHaveJobs, RunsInPlace
  <1> QED BY <1>1, RunStepKeeps DEF Tick

LEMMA FireLookKeeps ==
  ASSUME CronInductive, NEW r \in Runs, FireLook(r) PROVE CronInductive'
  <1>1. CASE Go(r, "fire", "mark") /\ UNCHANGED token
    BY <1>1, GoInPlace, RunStepKeeps DEF FireLook
  <1>2. CASE End(r, "fire") /\ Release(r)
    BY <1>2, EndInPlace, RunStepKeeps DEF FireLook
  <1> QED BY <1>1, <1>2 DEF FireLook

LEMMA FireMarkKeeps ==
  ASSUME CronInductive, NEW r \in Runs, FireMark(r) PROVE CronInductive'
  <1>1. CASE Go(r, "mark", "run") /\ UNCHANGED <<storeVars, ranHere>>
    BY <1>1, GoInPlace, RunStepKeeps DEF FireMark
  <1>2. CASE /\ Present(mem[job[r]])
             /\ Mark(job[r], "running")
             /\ ranHere' = ranHere \cup {job[r]}
             /\ \/ Written /\ Go(r, "mark", "run")
                \/ Failed /\ End(r, "mark")
    <2>1. RunsInPlace' /\ phase # "starting"
      BY <1>2, GoInPlace, EndInPlace DEF FireMark
    <2>2. job[r] \in Jobs
      BY DEF FireMark, CronInductive, StoreInductive, RunsHaveJobs
    <2>3. ranHere' \in SUBSET Jobs
      BY <1>2, <2>2 DEF CronInductive, StoreInductive, CronTypeOK
    <2> QED BY <1>2, <2>1, <2>2, <2>3, RunMarkKeeps DEF FireMark
  <1> QED BY <1>1, <1>2 DEF FireMark

LEMMA SettleKeeps ==
  ASSUME CronInductive, NEW r \in Runs, Settle(r) PROVE CronInductive'
  <1>1. CASE End(r, "run") /\ UNCHANGED storeVars
    BY <1>1, EndInPlace, RunStepKeeps DEF Settle
  <1>2. CASE /\ Present(mem[job[r]])
             /\ Mark(job[r], "settled")
             /\ Written \/ Failed
             /\ Go(r, "run", "hook")
    <2>1. RunsInPlace' /\ phase # "starting"
      BY <1>2, GoInPlace DEF Settle
    <2>2. job[r] \in Jobs
      BY DEF Settle, CronInductive, StoreInductive, RunsHaveJobs
    <2>3. ranHere' \in SUBSET Jobs
      BY DEF Settle, CronInductive, StoreInductive, CronTypeOK
    <2> QED BY <1>2, <2>1, <2>2, <2>3, RunMarkKeeps DEF Settle
  <1> QED BY <1>1, <1>2 DEF Settle

LEMMA HookKeeps ==
  ASSUME CronInductive, NEW r \in Runs, Hook(r) PROVE CronInductive'
  BY EndInPlace, RunStepKeeps DEF Hook

LEMMA RestartKeeps ==
  ASSUME CronInductive, Restart PROVE CronInductive'
  <1> USE DEF CronInductive, StoreInductive
  <1>1. asked' \in [Jobs -> Told] /\ MemoryAgrees' /\ FileAgrees'
    <2>1. CASE Free /\ UNCHANGED asked
      BY <2>1 DEF Restart, CronTypeOK, MemoryAgrees, FileAgrees, Agrees
    <2>2. CASE ~ Free /\ ReportError(op.job)
      <3>1. asked' = [asked EXCEPT ![op.job] = [that |-> "unknown", flags |-> {}]]
        BY <2>2 DEF ReportError, Tell
      <3>2. asked' \in [Jobs -> Told]
        BY <3>1 DEF CronTypeOK, Told, Flags
      <3> QED BY <3>1, <3>2 DEF Restart, CronTypeOK, MemoryAgrees, FileAgrees, Agrees
    <2> QED BY <2>1, <2>2 DEF Restart
  <1>2. CronTypeOK'
    BY <1>1, AbsentRecord DEF Restart, CronTypeOK, Idle
  <1>3. CopyIsCurrent' /\ RunsHaveJobs' /\ StartIsQuiet'
    BY DEF Restart, CopyIsCurrent, RunsHaveJobs, StartIsQuiet
  <1>4. Marked' /\ NewIsUnscheduled' /\ EntriesAgree'
    BY DEF Restart, Marked, NewIsUnscheduled, EntriesAgree
  <1> QED BY <1>1, <1>2, <1>3, <1>4

-----------------------------------------------------------------------------
(* The theorems.                                                           *)

\* Every reachable state of the scheduler keeps memory, file, entries and
\* answers in the relation CronInductive states, whatever the interleaving of
\* operations, runs, failed writes and restarts.
THEOREM CronInvariant == Spec => []CronInductive
  <1>1. CronInductive /\ [Next]_vars => CronInductive'
    <2> SUFFICES ASSUME CronInductive, [Next]_vars PROVE CronInductive'
      OBVIOUS
    <2>1. CASE UNCHANGED vars
      <3>1. RunsInPlace' /\ UNCHANGED <<storeVars, phase, entries, op, asked, ranHere>>
        BY <2>1 DEF vars, runVars, RunsInPlace, RunsHaveJobs, CronInductive,
                    StoreInductive, CronTypeOK
      <3>2. CASE phase # "starting"
        BY <3>1, <3>2, RunStepKeeps
      <3>3. CASE phase = "starting"
        BY <2>1 DEF vars, storeVars, runVars, CronInductive, StoreInductive, CronTypeOK,
                    MemoryAgrees, FileAgrees, Agrees, CopyIsCurrent, RunsHaveJobs,
                    StartIsQuiet, Marked, NewIsUnscheduled, EntriesAgree
      <3> QED BY <3>2, <3>3
    <2>2. ASSUME NEW j \in Jobs, ResetStale(j) PROVE CronInductive'
      BY <2>2, ResetStaleKeeps
    <2>3. ASSUME NEW j \in Jobs, NEW flags \in Flags, Add(j, flags) PROVE CronInductive'
      BY <2>3, AddKeeps
    <2>4. ASSUME NEW j \in Jobs, Remove(j) PROVE CronInductive'
      BY <2>4, RemoveKeeps
    <2>5. ASSUME NEW j \in Jobs, NEW b \in BOOLEAN, SetNotify(j, b) PROVE CronInductive'
      BY <2>5, SetNotifyKeeps
    <2>6. ASSUME NEW j \in Jobs, NEW b \in BOOLEAN, SetEnabledGet(j, b)
          PROVE  CronInductive'
      BY <2>6, SetEnabledGetKeeps
    <2>7. ASSUME NEW r \in Runs, NEW j \in Jobs, Tick(r, j) PROVE CronInductive'
      BY <2>7, TickKeeps
    <2>8. ASSUME NEW r \in Runs, FireLook(r) \/ FireMark(r) \/ Settle(r) \/ Hook(r)
          PROVE  CronInductive'
      BY <2>8, FireLookKeeps, FireMarkKeeps, SettleKeeps, HookKeeps
    <2>9. CASE Launch \/ Stop \/ SetEnabledSave \/ Restart
      BY <2>9, LaunchKeeps, StopKeeps, SetEnabledSaveKeeps, RestartKeeps
    <2> QED BY <2>1, <2>2, <2>3, <2>4, <2>5, <2>6, <2>7, <2>8, <2>9 DEF Next
  <1> QED BY <1>1, InitKept, PTL DEF Spec

\* The records, the entries and the runs stay within their types.
THEOREM CronTypeCorrect == Spec => []CronTypeOK
  <1>1. CronInductive => CronTypeOK
    BY DEF CronInductive, StoreInductive
  <1> QED BY <1>1, CronInvariant, PTL

\* An acknowledged operation lasts (Scheduler.Add, Remove, SetEnabled and
\* SetNotify): cron.json says what the client was told, whatever the runs of
\* fire record, whichever later writes fail and however often the host ends.
THEOREM AnswersLast == Spec => []AckedIsDurable
  <1>1. CronInductive => AckedIsDurable
    BY AbsentRecord DEF CronInductive, StoreInductive, FileAgrees, Agrees, AckedIsDurable
  <1> QED BY <1>1, CronInvariant, PTL

\* While the scheduler is up, Scheduler.entries holds exactly the jobs that
\* clients were told are enabled.
THEOREM EntriesFollowAnswers == Spec => []EntriesAgree
  <1>1. CronInductive => EntriesAgree
    BY DEF CronInductive
  <1> QED BY <1>1, CronInvariant, PTL

\* Scheduler.Start leaves no job running that this process has not run.
THEOREM StaleRunsAreReset == Spec => []RunningIsReset
  <1>1. CronInductive => RunningIsReset
    BY DEF CronInductive, Marked, RunningIsReset
  <1> QED BY <1>1, CronInvariant, PTL

-----------------------------------------------------------------------------
(* The scheduler implements the ledger.                                    *)

\* What a client sees of a record.
Line(rec) == IF Present(rec) THEN {"listed"} \cup rec.flags ELSE {}

\* The copy that SetEnabled holds is the job as it is, with the one flag set:
\* nothing else that sets flags comes between its two steps.
CopySwitches ==
  op # Idle => \E b \in BOOLEAN :
                 op.copy.flags = Switch(mem[op.job].flags, "enabled", b)

\* A status that is recorded changes no flag.
LEMMA MarkShows ==
  ASSUME CronTypeOK, NEW j \in Jobs, Present(mem[j]), NEW st \in {"running", "settled"},
         Mark(j, st)
  PROVE  \A k \in Jobs : mem'[k].flags = mem[k].flags /\ (Present(mem'[k]) <=> Present(mem[k]))
  <1>1. mem[j] \in Records
    BY DEF CronTypeOK
  <1> DEFINE rec == [mem[j] EXCEPT !.last = st]
  <1>2. rec.flags = mem[j].flags /\ Present(rec)
    BY <1>1, MarkedRecord
  <1>3. mem' = [mem EXCEPT ![j] = rec]
    BY DEF Mark, Put
  <1> HIDE DEF rec
  <1> QED BY <1>2, <1>3 DEF CronTypeOK

LEMMA NextCopySwitches ==
  ASSUME CronInductive, CopySwitches, [Next]_vars
  PROVE  CopySwitches'
  <1>0. CronTypeOK /\ RunsHaveJobs /\ StartIsQuiet /\ CopyIsCurrent
    BY DEF CronInductive, StoreInductive
  <1>1. CASE op' = Idle
    BY <1>1 DEF CopySwitches
  <1>2. ASSUME op' = op, \A k \in Jobs : mem'[k].flags = mem[k].flags PROVE CopySwitches'
    <2> SUFFICES ASSUME op # Idle
                 PROVE  \E b \in BOOLEAN :
                          op.copy.flags = Switch(mem'[op.job].flags, "enabled", b)
      BY <1>2 DEF CopySwitches
    <2>1. op.job \in Jobs
      BY <1>0 DEF CopyIsCurrent
    <2> QED BY <1>2, <2>1 DEF CopySwitches
  <1>3. ASSUME NEW j \in Jobs, NEW b \in BOOLEAN, SetEnabledGet(j, b) PROVE CopySwitches'
    <2>1. op'.job = j /\ op'.copy = [mem[j] EXCEPT !.flags = Switch(@, "enabled", b)]
          /\ mem' = mem
      BY <1>3 DEF SetEnabledGet, storeVars
    <2>2. mem[j] \in Records
      BY <1>0 DEF CronTypeOK
    <2>3. op'.copy.flags = Switch(mem[j].flags, "enabled", b)
      BY <2>1, <2>2, RecordParts
    <2> QED BY <2>1, <2>3 DEF CopySwitches
  <1>4. ASSUME NEW r \in Runs, FireMark(r) \/ Settle(r) PROVE CopySwitches'
    <2>1. job[r] \in Jobs /\ op' = op
      BY <1>0, <1>4 DEF FireMark, Settle, RunsHaveJobs
    <2>2. CASE UNCHANGED storeVars
      BY <1>2, <2>1, <2>2 DEF storeVars
    <2>3. CASE Present(mem[job[r]]) /\ \E st \in {"running", "settled"} : Mark(job[r], st)
      BY <1>0, <1>2, <2>1, <2>3, MarkShows
    <2> QED BY <1>4, <2>2, <2>3 DEF FireMark, Settle
  <1>5. ASSUME NEW j \in Jobs, ResetStale(j) \/ (\E flags \in Flags : Add(j, flags))
                                 \/ Remove(j) \/ (\E b \in BOOLEAN : SetNotify(j, b))
        PROVE  op' = Idle
    BY <1>0, <1>5 DEF ResetStale, Add, Remove, SetNotify, Free, StartIsQuiet
  <1>6. ASSUME NEW r \in Runs, NEW j \in Jobs, Tick(r, j) PROVE CopySwitches'
    BY <1>2, <1>6 DEF Tick, storeVars
  <1>7. ASSUME NEW r \in Runs, FireLook(r) \/ Hook(r) PROVE CopySwitches'
    BY <1>2, <1>7 DEF FireLook, Hook, storeVars
  <1>8. CASE Launch \/ Stop \/ UNCHANGED vars
    BY <1>2, <1>8 DEF Launch, Stop, vars, storeVars
  <1>9. CASE SetEnabledSave \/ Restart
    BY <1>1, <1>9 DEF SetEnabledSave, Restart
  <1> QED BY <1>1, <1>3, <1>4, <1>5, <1>6, <1>7, <1>8, <1>9 DEF Next

LEMMA LineParts ==
  ASSUME NEW rec \in Records
  PROVE  /\ Line(rec) = {} <=> ~ Present(rec)
         /\ Line(rec) \cap {"enabled", "notify"} = rec.flags
  <1>1. rec.flags \subseteq {"enabled", "notify"} /\ (~ Present(rec) => rec.flags = {})
    BY RecordParts, AbsentRecord DEF Flags
  <1> QED BY <1>1 DEF Line

\* The tables of a client, after one record has changed and after none has.
LEMMA PutShows ==
  ASSUME mem \in [Jobs -> Records], NEW j \in Jobs, NEW rec, Put(j, rec)
  PROVE  Shown(mem)' = [Shown(mem) EXCEPT ![j] = Line(rec)]
  BY DEF Put, Shown, Line

LEMMA KeptShows ==
  ASSUME NEW st \in {"running", "settled"}, NEW j \in Jobs, CronTypeOK, Present(mem[j]),
         Mark(j, st), Written \/ Failed, UNCHANGED asked
  PROVE  Ledger!Flush \/ UNCHANGED Ledger!vars
  <1>1. \A k \in Jobs : mem'[k].flags = mem[k].flags /\ (Present(mem'[k]) <=> Present(mem[k]))
    BY MarkShows
  <1>2. Shown(mem)' = Shown(mem)
    BY <1>1 DEF Shown
  <1>3. CASE Written
    BY <1>2, <1>3 DEF Written, Shown, Ledger!Flush
  <1>4. CASE Failed
    BY <1>2, <1>4 DEF Failed, Shown, Ledger!vars
  <1> QED BY <1>3, <1>4

LEMMA SameShows ==
  ASSUME UNCHANGED storeVars, UNCHANGED asked
  PROVE  UNCHANGED Ledger!vars
  BY DEF storeVars, Shown, Ledger!vars

\* An operation and its answer are one step of the ledger.
LEMMA OperationShows ==
  ASSUME CronTypeOK, NEW j \in Jobs, NEW rec \in Records, Put(j, rec),
         (Written /\ Acknowledge(j)) \/ (Failed /\ ReportError(j))
  PROVE  Ledger!Change(j, Line(rec))
  <1>1. Shown(mem)' = [Shown(mem) EXCEPT ![j] = Line(rec)]
    BY PutShows DEF CronTypeOK
  <1>2. CASE Written /\ Acknowledge(j)
    <2>1. mem'[j] = rec
      BY DEF Put, CronTypeOK
    <2>2. asked' = [asked EXCEPT ![j] = [that |-> IF Present(rec) THEN "has" ELSE "gone",
                                        flags |-> rec.flags]]
      BY <1>2, <2>1 DEF Acknowledge, Tell
    <2>3. asked' = [asked EXCEPT ![j] = Ledger!Answer(Line(rec))]
      BY <2>2, LineParts DEF Ledger!Answer, Ledger!None, Ledger!Switches
    <2>4. Shown(disk)' = Shown(mem)'
      BY <1>2 DEF Written, Shown
    <2> QED BY <1>1, <2>3, <2>4 DEF Ledger!Change
  <1>3. CASE Failed /\ ReportError(j)
    <2>1. asked' = [asked EXCEPT ![j] = Ledger!Open]
      BY <1>3 DEF ReportError, Tell, Ledger!Open
    <2>2. Shown(disk)' = Shown(disk)
      BY <1>3 DEF Failed, Shown
    <2> QED BY <1>1, <2>1, <2>2 DEF Ledger!Change
  <1> QED BY <1>2, <1>3

\* Switching a flag of a record is turning a switch of its entry.
LEMMA SwitchShows ==
  ASSUME NEW rec \in Records, NEW new \in Records, Present(rec), Present(new),
         NEW b \in BOOLEAN, NEW f \in {"enabled", "notify"},
         new.flags = Switch(rec.flags, f, b)
  PROVE  Line(new) = Ledger!Turn(Line(rec), f, b)
  BY DEF Line, Switch, Ledger!Turn

LEMMA NotifyShows ==
  ASSUME CronInductive, NEW j \in Jobs, NEW b \in BOOLEAN, SetNotify(j, b)
  PROVE  Ledger!Notify(j, b)
  <1> DEFINE rec == [mem[j] EXCEPT !.flags = Switch(@, "notify", b)]
  <1>0. CronTypeOK /\ MemoryAgrees
    BY DEF CronInductive, StoreInductive
  <1>1. mem[j] \in Records /\ Present(mem[j]) /\ Put(j, rec)
    BY <1>0 DEF SetNotify, CronTypeOK
  <1>2. rec \in Records /\ Present(rec) /\ rec.flags = Switch(mem[j].flags, "notify", b)
    <2>1. rec \in Records /\ Present(rec)
      BY <1>1, SwitchedRecord
    <2>2. mem[j] = [flags |-> mem[j].flags, last |-> mem[j].last]
      BY <1>1, RecordParts
    <2> QED BY <2>1, <2>2
  <1> HIDE DEF rec
  <1>3. Line(rec) = Ledger!Turn(Shown(mem)[j], "notify", b)
    BY <1>1, <1>2, SwitchShows DEF Shown, Line
  <1>4. Shown(mem)[j] # Ledger!None
    BY <1>1 DEF Shown, Ledger!None
  <1>5. CASE (Written /\ Acknowledge(j)) \/ (Failed /\ ReportError(j))
    BY <1>0, <1>1, <1>2, <1>3, <1>4, <1>5, OperationShows DEF Ledger!Notify
  <1>6. CASE Written /\ asked[j].that # "has" /\ UNCHANGED asked
    <2>1. asked[j] \in Told /\ asked[j].that \notin {"new", "gone"}
      BY <1>0, <1>1, AbsentRecord DEF MemoryAgrees, Agrees, CronTypeOK
    <2>2. asked[j].that = "unknown"
      BY <1>6, <2>1 DEF Told
    <2>3. asked[j].that = Ledger!Open.that
      BY <2>2 DEF Ledger!Open
    <2>4. Shown(mem)' = [Shown(mem) EXCEPT ![j] = Line(rec)]
      BY <1>0, <1>1, PutShows DEF CronTypeOK
    <2>5. Shown(disk)' = Shown(mem)'
      BY <1>6 DEF Written, Shown
    <2> QED BY <1>3, <1>4, <1>6, <2>3, <2>4, <2>5 DEF Ledger!Notify, Ledger!ChangeOpen
  <1> QED BY <1>5, <1>6 DEF SetNotify

LEMMA EnableShows ==
  ASSUME CronInductive, CopySwitches, SetEnabledSave
  PROVE  Ledger!Next
  <1> DEFINE j == op.job
             rec == op.copy
  <1>0. CronTypeOK /\ CopyIsCurrent
    BY DEF CronInductive, StoreInductive
  <1>1. /\ op # Idle /\ j \in Jobs /\ rec \in Records /\ mem[j] \in Records
        /\ Present(mem[j]) /\ Present(rec)
        /\ Put(j, rec) /\ ((Written /\ Acknowledge(j)) \/ (Failed /\ ReportError(j)))
    BY <1>0 DEF SetEnabledSave, Free, CopyIsCurrent, CronTypeOK
  <1>2. PICK b \in BOOLEAN : rec.flags = Switch(mem[j].flags, "enabled", b)
    BY <1>1 DEF CopySwitches
  <1> HIDE DEF j, rec
  <1>3. Ledger!Change(j, Line(rec))
    BY <1>0, <1>1, OperationShows
  <1>4. Line(rec) = Ledger!Turn(Shown(mem)[j], "enabled", b)
    BY <1>1, <1>2, SwitchShows DEF Shown, Line
  <1>5. Shown(mem)[j] # Ledger!None
    BY <1>1 DEF Ledger!None, Shown
  <1>6. Ledger!Enable(j, b)
    BY <1>3, <1>4, <1>5 DEF Ledger!Enable
  <1> QED BY <1>1, <1>6 DEF Ledger!Next

LEMMA RestartShows ==
  ASSUME CronInductive, Restart
  PROVE  Ledger!Next
  <1>0. CronTypeOK /\ CopyIsCurrent
    BY DEF CronInductive, StoreInductive
  <1>1. Shown(mem)' = Shown(disk) /\ Shown(disk)' = Shown(disk)
    BY DEF Restart, Shown
  <1>2. CASE Free /\ UNCHANGED asked
    BY <1>1, <1>2 DEF Ledger!Restart, Ledger!Next
  <1>3. CASE ~ Free /\ ReportError(op.job)
    <2>1. op.job \in Jobs /\ Shown(mem)[op.job] # Ledger!None
      BY <1>0, <1>3 DEF Free, CopyIsCurrent, Shown, Ledger!None
    <2>2. asked' = [asked EXCEPT ![op.job] = Ledger!Open]
      BY <1>3 DEF ReportError, Tell, Ledger!Open
    <2> QED BY <1>1, <2>1, <2>2 DEF Ledger!Restart, Ledger!Next
  <1> QED BY <1>2, <1>3 DEF Restart

\* Every step of the scheduler is a step of the ledger, or none.
LEMMA NextShows ==
  ASSUME CronInductive, CopySwitches, [Next]_vars
  PROVE  [Ledger!Next]_(Ledger!vars)
  <1>0. CronTypeOK /\ RunsHaveJobs
    BY DEF CronInductive, StoreInductive
  <1>1. ASSUME Ledger!Flush \/ UNCHANGED Ledger!vars PROVE [Ledger!Next]_(Ledger!vars)
    BY <1>1 DEF Ledger!Next
  <1>2. ASSUME NEW j \in Jobs, ResetStale(j) PROVE [Ledger!Next]_(Ledger!vars)
    <2>1. Present(mem[j]) /\ Mark(j, "settled") /\ (Written \/ Failed) /\ UNCHANGED asked
      BY <1>2 DEF ResetStale, Present
    <2> QED BY <1>0, <1>1, <2>1, KeptShows
  <1>3. ASSUME NEW j \in Jobs, NEW flags \in Flags, Add(j, flags)
        PROVE  Ledger!Next
    <2> DEFINE rec == [flags |-> flags, last |-> "settled"]
    <2>1. rec \in Records /\ Present(rec) /\ rec.flags = flags
      BY DEF Records, Present
    <2>2. Put(j, rec) /\ ((Written /\ Acknowledge(j)) \/ (Failed /\ ReportError(j)))
      BY <1>3 DEF Add
    <2> HIDE DEF rec
    <2>3. Ledger!Change(j, Line(rec))
      BY <1>0, <2>1, <2>2, OperationShows
    <2>4. Ledger!Create(j, flags)
      BY <1>3, <2>1, <2>3 DEF Add, Line, Ledger!Create, Ledger!Entry, Ledger!New
    <2> QED BY <2>4 DEF Ledger!Next, Ledger!Switches, Flags
  <1>4. ASSUME NEW j \in Jobs, Remove(j) PROVE Ledger!Next
    <2>1. Put(j, Absent) /\ ((Written /\ Acknowledge(j)) \/ (Failed /\ ReportError(j)))
      BY <1>4 DEF Remove
    <2>2. Ledger!Change(j, Line(Absent))
      BY <1>0, <2>1, AbsentRecord, OperationShows
    <2>3. Ledger!Delete(j)
      BY <1>4, <2>2, AbsentRecord DEF Remove, Line, Shown, Ledger!Delete, Ledger!None
    <2> QED BY <2>3 DEF Ledger!Next
  <1>5. ASSUME NEW j \in Jobs, NEW b \in BOOLEAN, SetNotify(j, b) PROVE Ledger!Next
    BY <1>5, NotifyShows DEF Ledger!Next
  <1>6. ASSUME NEW r \in Runs, FireMark(r) \/ Settle(r) PROVE [Ledger!Next]_(Ledger!vars)
    <2>1. job[r] \in Jobs /\ UNCHANGED asked
      BY <1>0, <1>6 DEF FireMark, Settle, RunsHaveJobs
    <2>2. CASE UNCHANGED storeVars
      BY <1>1, <2>1, <2>2, SameShows
    <2>3. CASE /\ Present(mem[job[r]])
               /\ Mark(job[r], "running") \/ Mark(job[r], "settled")
               /\ Written \/ Failed
      BY <1>0, <1>1, <2>1, <2>3, KeptShows
    <2> QED BY <1>6, <2>2, <2>3 DEF FireMark, Settle
  <1>7. CASE \/ UNCHANGED vars \/ Launch \/ Stop
             \/ \E j \in Jobs, b \in BOOLEAN : SetEnabledGet(j, b)
             \/ \E j \in Jobs, r \in Runs : Tick(r, j)
             \/ \E r \in Runs : FireLook(r) \/ Hook(r)
    <2>1. UNCHANGED storeVars /\ UNCHANGED asked
      BY <1>7 DEF vars, Launch, Stop, SetEnabledGet, Tick, FireLook, Hook
    <2> QED BY <1>1, <2>1, SameShows
  <1>8. CASE SetEnabledSave \/ Restart
    BY <1>8, EnableShows, RestartShows
  <1> QED BY <1>2, <1>3, <1>4, <1>5, <1>6, <1>7, <1>8 DEF Next

\* Scheduler.Add, Remove, SetEnabled and SetNotify are atomic for their clients,
\* although runs settle, ticks fire and SetEnabled gives the store's lock up in
\* between; runs and restarts change nothing that was acknowledged.
THEOREM SchedulerImplementsLedger == Spec => ImplementsLedger
  <1>1. Init => Ledger!Init
    BY AbsentRecord DEF Init, Shown, Ledger!Init, Ledger!None, Ledger!New
  <1>2. Init => CopySwitches
    BY DEF Init, CopySwitches
  <1>3. CronInductive /\ CopySwitches /\ [Next]_vars => CopySwitches'
    BY NextCopySwitches
  <1>4. CronInductive /\ CopySwitches /\ [Next]_vars => [Ledger!Next]_(Ledger!vars)
    BY NextShows
  <1> QED BY <1>1, <1>2, <1>3, <1>4, CronInvariant, PTL
          DEF Spec, ImplementsLedger, Ledger!Spec
=============================================================================

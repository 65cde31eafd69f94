------------------------ MODULE BackgroundJobsProofs ------------------------
(***************************************************************************)
(* Proofs about the host's use of the job registry, for any finite set of  *)
(* jobs and any set of threads.  The host touches records through the      *)
(* operations of the registry only, so the invariants of JobRegistryProofs *)
(* hold here too; the rest of the argument is about the threads.           *)
(***************************************************************************)
EXTENDS BackgroundJobs, JobRegistryProofs

\* The host's own variables.
HostTypes ==
  /\ stage \in [Threads -> Stages]
  /\ call \in [Threads -> Jobs \cup {NoJob}]
  /\ gone \in [Threads -> BOOLEAN]
  /\ ran \in [Jobs -> Results]
  /\ moved \in [Jobs -> Moves]
  /\ told \in [Jobs -> SUBSET Facts]

\* Where a tool call is tells where the registry operation is that it blocks
\* in, and a call about to return its result is about an ended job.
ThreadsInPlace ==
  \A t \in Threads :
    /\ stage[t] # "idle" => call[t] \in Jobs
    /\ pc[t] = "wait" <=> stage[t] = "waiting"
    /\ pc[t] = "budget" => stage[t] = "poll"
    /\ pc[t] # "idle" => on[t] = call[t]
    /\ stage[t] = "return" => status[call[t]] \in Terminal

\* A live job is in the table; one that was never started is in no way known.
RecordsInPlace ==
  \A j \in Jobs : /\ status[j] \in Live => j \in table
                  /\ status[j] = "none" => j \notin table /\ ~ awaited[j]

\* What was told agrees with the record.
ToldInPlace ==
  \A j \in Jobs : /\ "kill" \in told[j] => cancelled[j]
                  /\ "notice" \in told[j] => status[j] \in Terminal

HostInductive == /\ Inductive
                 /\ HostTypes
                 /\ ThreadsInPlace
                 /\ RecordsInPlace
                 /\ ClaimHasHolder
                 /\ ToldInPlace
                 /\ KilledIsSilent

-----------------------------------------------------------------------------
(* The host's steps are steps of the registry.                             *)

LEMMA ResultIsOutcome ==
  ASSUME NEW j \in Jobs, NEW r \in Results, NEW o \in Result(j, r)
  PROVE  o \in Outcomes
<1>1. \A s \in Terminal, x \in Texts : [status |-> s, text |-> x] \in Outcomes
  BY DEF Outcomes
<1>2. {"completed", "failed", "killed"} \subseteq Terminal
  BY DEF Terminal
<1>3. {"", "text"} \subseteq Texts
  BY HostAssumption, ProducerAssumption
<1>4. \E s \in {"completed", "failed", "killed"}, x \in Texts :
         o = [status |-> s, text |-> x]
  BY <1>3 DEF Result
<1> QED
  BY <1>1, <1>2, <1>4

\* A tool call that waits for a job, reads or releases it does so through one
\* operation of the registry.
LEMMA ToolStepIsStep ==
  ASSUME TypeOK, NEW t \in Threads, ToolStep(t)
  PROVE  [Next]_vars
<1>1. table \subseteq Jobs /\ Me \in Callers
  BY HostAssumption DEF TypeOK, Callers
<1>2. CASE GraceClaim(t)
  BY <1>1, <1>2 DEF GraceClaim, Next
<1>3. CASE GraceLook(t) \/ GraceDecide(t)
  BY <1>3 DEF GraceLook, GraceDecide
<1>4. CASE GraceBlock(t)
  BY <1>1, <1>4 DEF GraceBlock, Next, BudgetBegin
<1>5. CASE GraceDone(t) \/ GraceTick(t)
  BY <1>5 DEF GraceDone, GraceTick, Next, WaitStep
<1>6. CASE GraceRelease(t)
  BY <1>1, <1>6 DEF GraceRelease, Next
<1>7. CASE GraceReturn(t)
  BY <1>1, <1>7 DEF GraceReturn, Next
<1>8. CASE OutputWaited(t)
  BY <1>8 DEF OutputWaited, Next, WaitStep
<1>9. CASE OutputRead(t)
  BY <1>1, <1>9 DEF OutputRead, Next, Read, Authorized
<1>10. CASE OutputCut(t) \/ OutputNote(t)
  BY <1>1, <1>10 DEF OutputCut, OutputNote, Next, Authorized
<1> QED
  BY <1>2, <1>3, <1>4, <1>5, <1>6, <1>7, <1>8, <1>9, <1>10 DEF ToolStep

LEMMA HostStepIsStep ==
  ASSUME TypeOK, [HostNext]_hostVars
  PROVE  [Next]_vars
<1>1. Me \in Callers /\ FALSE \in Streams /\ Manager \in Listeners
  BY HostAssumption DEF Callers
<1>2. CASE Boot
  BY <1>1, <1>2 DEF Boot, Next
<1>3. ASSUME NEW j \in Jobs, RunInBackground(j)
      PROVE  Next
  BY <1>1, <1>3 DEF RunInBackground, Next
<1>4. ASSUME NEW j \in Jobs, NEW r \in Results, Finish(j, r)
      PROVE  Next
  BY <1>4, ResultIsOutcome DEF Finish, Next
<1>5. ASSUME NEW j \in Jobs, SettleJob(j) \/ Notify(j)
      PROVE  Next
  BY <1>1, <1>5 DEF SettleJob, Notify, Next
<1>6. ASSUME NEW j \in Jobs, JobKill(j) \/ UserRead(j) \/ UserKill(j)
      PROVE  [Next]_vars
  BY <1>1, <1>6 DEF JobKill, UserRead, UserKill, Next
<1>7. ASSUME NEW j \in Jobs, NEW t \in Threads,
             GraceStart(t, j) \/ OutputWait(t, j) \/ OutputNow(t, j)
      PROVE  [Next]_vars
  BY <1>1, <1>7 DEF GraceStart, OutputWait, OutputNow, Next
<1>8. ASSUME NEW t \in Threads, Interrupt(t)
      PROVE  UNCHANGED vars
  BY <1>8 DEF Interrupt
<1>9. CASE UNCHANGED hostVars
  BY <1>9 DEF hostVars
<1> QED
  BY <1>2, <1>3, <1>4, <1>5, <1>6, <1>7, <1>8, <1>9, ToolStepIsStep DEF HostNext

-----------------------------------------------------------------------------
(* The host's variables, the places of the threads and of the records.     *)

LEMMA HostTypesStep ==
  ASSUME TypeOK, HostTypes, ThreadsInPlace, [HostNext]_hostVars
  PROVE  HostTypes'
<1> USE DEF HostTypes, modelVars, toolVars
<1>0. ASSUME NEW j \in Jobs, NEW f \in Facts, Tell(j, f)
      PROVE  told' \in [Jobs -> SUBSET Facts]
  BY <1>0 DEF Tell
<1>f. {"inline", "output", "status", "kill", "notice"} \subseteq Facts
  BY DEF Facts
<1>1. ASSUME NEW j \in Jobs,
             \/ RunInBackground(j) \/ SettleJob(j) \/ Notify(j)
             \/ JobKill(j) \/ UserRead(j) \/ UserKill(j)
             \/ \E r \in Results \ {"none"} : Finish(j, r)
      PROVE  HostTypes'
  <2>1. CASE Notify(j)
    BY <1>0, <1>f, <2>1 DEF Notify
  <2>2. CASE JobKill(j)
    BY <1>0, <1>f, <2>2 DEF JobKill
  <2>3. CASE \/ RunInBackground(j) \/ SettleJob(j) \/ UserRead(j) \/ UserKill(j)
             \/ \E r \in Results \ {"none"} : Finish(j, r)
    BY <2>3 DEF RunInBackground, SettleJob, UserRead, UserKill, Finish, Moves
  <2> QED
    BY <1>1, <2>1, <2>2, <2>3
<1>2. ASSUME NEW j \in Jobs, NEW t \in Threads,
             GraceStart(t, j) \/ OutputWait(t, j) \/ OutputNow(t, j)
      PROVE  HostTypes'
  BY <1>2 DEF GraceStart, OutputWait, OutputNow, Enter, Stages
<1>3. ASSUME NEW t \in Threads,
             \/ GraceClaim(t) \/ GraceLook(t) \/ GraceBlock(t) \/ GraceDone(t)
             \/ GraceTick(t) \/ GraceDecide(t) \/ OutputWaited(t)
             \/ OutputCut(t) \/ OutputNote(t) \/ Interrupt(t)
      PROVE  HostTypes'
  BY <1>3 DEF GraceClaim, GraceLook, GraceBlock, GraceDone, GraceTick,
              GraceDecide, OutputWaited, OutputCut, OutputNote, Interrupt,
              Go, Leave, Stages
<1>4. ASSUME NEW t \in Threads, GraceRelease(t) \/ GraceReturn(t) \/ OutputRead(t)
      PROVE  HostTypes'
  <2>1. call[t] \in Jobs
    BY <1>4 DEF ThreadsInPlace, GraceRelease, GraceReturn, OutputRead, Leave, Go
  <2>2. /\ stage' \in [Threads -> Stages]
        /\ call' \in [Threads -> Jobs \cup {NoJob}]
        /\ gone' \in [Threads -> BOOLEAN]
        /\ ran' = ran
        /\ moved' \in [Jobs -> Moves]
    BY <1>4, <2>1 DEF GraceRelease, GraceReturn, OutputRead, Leave, Go, Stages,
                      Handed, Moves
  <2>3. told' \in [Jobs -> SUBSET Facts]
    BY <1>0, <1>4, <1>f, <2>1 DEF GraceRelease, GraceReturn, OutputRead, Answer
  <2> QED
    BY <2>2, <2>3
<1>5. CASE Boot \/ UNCHANGED hostVars
  BY <1>5 DEF Boot, hostVars
<1> QED
  BY <1>1, <1>2, <1>3, <1>4, <1>5 DEF HostNext, ToolStep

LEMMA ThreadsStep ==
  ASSUME TypeOK, HostTypes, ThreadsInPlace, [HostNext]_hostVars
  PROVE  ThreadsInPlace'
<1> USE DEF TypeOK, HostTypes, ThreadsInPlace, modelVars, toolVars, jobVars,
            regVars, prodVars, callVars, waitVars, Live, Terminal
<1>1. ASSUME NEW j \in Jobs,
             \/ RunInBackground(j) \/ Notify(j)
             \/ JobKill(j) \/ UserRead(j) \/ UserKill(j)
             \/ \E r \in Results \ {"none"} : Finish(j, r)
      PROVE  ThreadsInPlace'
  BY <1>1 DEF RunInBackground, Notify, JobKill, UserRead, UserKill,
              Finish, Start, Deliver, CallListener, Kill, RequestStop, ReadHost,
              ReadFinal, KillHost, vars
<1>2. ASSUME NEW j \in Jobs, SettleJob(j)
      PROVE  ThreadsInPlace'
  <2>1. Settled(outcome[j]) \in Terminal
    BY <1>2, SettledIsTerminal DEF SettleJob, Settle
  <2> QED
    BY <1>2, <2>1 DEF SettleJob, Settle
<1>3. ASSUME NEW j \in Jobs, NEW t \in Threads, GraceStart(t, j)
      PROVE  ThreadsInPlace'
  BY <1>3 DEF GraceStart, Enter, Start
<1>4. ASSUME NEW j \in Jobs, NEW t \in Threads,
             OutputWait(t, j) \/ OutputNow(t, j)
      PROVE  ThreadsInPlace'
  BY <1>4 DEF OutputWait, OutputNow, Enter, WaitBegin, SetAwaited, Block, vars
<1>5. ASSUME NEW t \in Threads,
             GraceClaim(t) \/ GraceLook(t) \/ GraceDecide(t) \/ GraceRelease(t)
      PROVE  ThreadsInPlace'
  BY <1>5 DEF GraceClaim, GraceLook, GraceDecide, GraceRelease, Go, Leave,
              Claim, Release, SetAwaited, vars
<1>6. ASSUME NEW t \in Threads,
             GraceBlock(t) \/ GraceDone(t) \/ GraceTick(t)
      PROVE  ThreadsInPlace'
  BY <1>6 DEF GraceBlock, GraceDone, GraceTick, Go, BudgetBegin, Block,
              BudgetSettled, BudgetTimeout, Return
<1>7. ASSUME NEW t \in Threads,
             GraceReturn(t) \/ OutputRead(t) \/ OutputCut(t) \/ OutputNote(t)
      PROVE  ThreadsInPlace'
  BY <1>7 DEF GraceReturn, OutputRead, OutputCut, OutputNote, Go, Leave,
              Discard, Read, ReadFinal, NoteEmptyRead, vars
<1>8. ASSUME NEW t \in Threads, OutputWaited(t)
      PROVE  ThreadsInPlace'
  BY <1>8 DEF OutputWaited, Go, WaitSettled, WaitTimeout, Return, ReportEnd
<1>9. ASSUME NEW t \in Threads, Interrupt(t)
      PROVE  ThreadsInPlace'
  BY <1>9 DEF Interrupt, vars
<1>10. CASE Boot \/ UNCHANGED hostVars
  BY <1>10 DEF Boot, OnJobDone, hostVars, vars
<1> QED
  BY <1>1, <1>2, <1>3, <1>4, <1>5, <1>6, <1>7, <1>8, <1>9, <1>10
  DEF HostNext, ToolStep

LEMMA RecordsInPlaceStep ==
  ASSUME TypeOK, OrderMatchesTable, HostTypes, ThreadsInPlace, RecordsInPlace,
         [HostNext]_hostVars
  PROVE  RecordsInPlace'
<1> USE DEF TypeOK, HostTypes, RecordsInPlace, modelVars, toolVars, jobVars,
            regVars, prodVars, callVars, waitVars, Live, Terminal
<1>1. ASSUME NEW j \in Jobs,
             \/ RunInBackground(j) \/ Notify(j)
             \/ JobKill(j) \/ UserRead(j) \/ UserKill(j)
             \/ \E r \in Results \ {"none"} : Finish(j, r)
             \/ \E t \in Threads : GraceStart(t, j) \/ OutputNow(t, j)
      PROVE  RecordsInPlace'
  BY <1>1 DEF RunInBackground, Notify, JobKill, UserRead, UserKill, Finish,
              GraceStart, OutputNow, Start, Deliver, CallListener, Kill,
              RequestStop, ReadHost, ReadFinal, KillHost, vars
<1>2. ASSUME NEW j \in Jobs, SettleJob(j)
      PROVE  RecordsInPlace'
  <2>1. Settled(outcome[j]) \in Terminal
    BY <1>2, SettledIsTerminal DEF SettleJob, Settle
  <2>2. \A k \in table \ table' : status'[k] \in Terminal
    BY <1>2 DEF SettleJob, Settle, Evicted
  <2> QED
    BY <1>2, <2>1, <2>2 DEF SettleJob, Settle
<1>3. ASSUME NEW j \in Jobs, NEW t \in Threads, OutputWait(t, j)
      PROVE  RecordsInPlace'
  BY <1>3 DEF OutputWait, WaitBegin, SetAwaited, Authorized
<1>4. ASSUME NEW t \in Threads,
             GraceClaim(t) \/ GraceLook(t) \/ GraceDecide(t) \/ GraceRelease(t)
      PROVE  RecordsInPlace'
  BY <1>4 DEF GraceClaim, GraceLook, GraceDecide, GraceRelease, Claim, Release,
              SetAwaited, vars
<1>5. ASSUME NEW t \in Threads,
             GraceBlock(t) \/ GraceDone(t) \/ GraceTick(t)
      PROVE  RecordsInPlace'
  BY <1>5 DEF GraceBlock, GraceDone, GraceTick, BudgetBegin, BudgetSettled,
              BudgetTimeout
<1>6. ASSUME NEW t \in Threads,
             GraceReturn(t) \/ OutputRead(t) \/ OutputCut(t) \/ OutputNote(t)
      PROVE  RecordsInPlace'
  BY <1>6 DEF ThreadsInPlace, GraceReturn, OutputRead, OutputCut, OutputNote,
              Leave, Discard, Read, ReadFinal, NoteEmptyRead, vars
<1>7. ASSUME NEW t \in Threads, OutputWaited(t)
      PROVE  RecordsInPlace'
  BY <1>7 DEF ThreadsInPlace, OutputWaited, WaitSettled, WaitTimeout, Return,
              ReportEnd
<1>8. ASSUME NEW t \in Threads, Interrupt(t)
      PROVE  RecordsInPlace'
  BY <1>8 DEF Interrupt, vars
<1>9. CASE Boot \/ UNCHANGED hostVars
  BY <1>9 DEF Boot, OnJobDone, hostVars, vars
<1> QED
  BY <1>1, <1>2, <1>3, <1>4, <1>5, <1>6, <1>7, <1>8, <1>9 DEF HostNext, ToolStep

-----------------------------------------------------------------------------
(* Claims.                                                                 *)

Holding == {"poll", "decide", "release", "return", "waiting"}

\* When one thread moves, the claims stay held if each claimed job that lives
\* is now held by that thread or was held by another one.
LEMMA HoldersStay ==
  ASSUME ClaimHasHolder, NEW t \in Threads,
         \A u \in Threads \ {t} : call'[u] = call[u] /\ stage'[u] = stage[u],
         \A k \in Jobs : awaited'[k] /\ status'[k] \in Live =>
           \/ call'[t] = k /\ stage'[t] \in Holding
           \/ /\ awaited[k] /\ status[k] \in Live
              /\ ~ (call[t] = k /\ stage[t] \in Holding)
  PROVE  ClaimHasHolder'
  BY DEF ClaimHasHolder, Holding

LEMMA ClaimsStep ==
  ASSUME TypeOK, HostTypes, ThreadsInPlace, RecordsInPlace, ClaimHasHolder,
         [HostNext]_hostVars
  PROVE  ClaimHasHolder'
<1> USE DEF TypeOK, HostTypes, modelVars, toolVars, jobVars,
            regVars, prodVars, callVars, waitVars, Live, Terminal
<1>1. ASSUME NEW j \in Jobs,
             \/ RunInBackground(j) \/ SettleJob(j) \/ Notify(j)
             \/ JobKill(j) \/ UserRead(j) \/ UserKill(j)
             \/ \E r \in Results \ {"none"} : Finish(j, r)
      PROVE  ClaimHasHolder'
  <2>1. stage' = stage /\ call' = call
    BY <1>1 DEF RunInBackground, SettleJob, Notify, JobKill, UserRead, UserKill,
                Finish
  <2>2. \A k \in Jobs : awaited'[k] /\ status'[k] \in Live
                        => awaited[k] /\ status[k] \in Live
    <3>1. CASE SettleJob(j)
      <4>1. Settled(outcome[j]) \in Terminal
        BY <3>1, SettledIsTerminal DEF SettleJob, Settle
      <4> QED
        BY <3>1, <4>1 DEF SettleJob, Settle
    <3>2. CASE ~ SettleJob(j)
      BY <1>1, <3>2
      DEF RunInBackground, Notify, JobKill, UserRead, UserKill, Finish, Start,
          Deliver, CallListener, Kill, RequestStop, ReadHost, ReadFinal,
          KillHost, RecordsInPlace, vars
    <3> QED
      BY <3>1, <3>2
  <2> QED
    BY <2>1, <2>2 DEF ClaimHasHolder
<1>2. ASSUME NEW j \in Jobs, NEW t \in Threads, GraceStart(t, j) \/ OutputNow(t, j)
      PROVE  ClaimHasHolder'
  <2>2. \A u \in Threads \ {t} : call'[u] = call[u] /\ stage'[u] = stage[u]
    BY <1>2 DEF GraceStart, OutputNow, Enter
  <2>3. \A k \in Jobs : awaited'[k] /\ status'[k] \in Live =>
          \/ call'[t] = k /\ stage'[t] \in Holding
          \/ /\ awaited[k] /\ status[k] \in Live
             /\ ~ (call[t] = k /\ stage[t] \in Holding)
    BY <1>2 DEF GraceStart, OutputNow, Enter, Start, RecordsInPlace, Holding, vars
  <2> QED
    BY <2>2, <2>3, HoldersStay
<1>3. ASSUME NEW j \in Jobs, NEW t \in Threads, OutputWait(t, j)
      PROVE  ClaimHasHolder'
  <2>2. \A u \in Threads \ {t} : call'[u] = call[u] /\ stage'[u] = stage[u]
    BY <1>3 DEF OutputWait, Enter
  <2>3. \A k \in Jobs : awaited'[k] /\ status'[k] \in Live =>
          \/ call'[t] = k /\ stage'[t] \in Holding
          \/ /\ awaited[k] /\ status[k] \in Live
             /\ ~ (call[t] = k /\ stage[t] \in Holding)
    BY <1>3 DEF OutputWait, Enter, WaitBegin, SetAwaited, Holding
  <2> QED
    BY <2>2, <2>3, HoldersStay
<1>4. ASSUME NEW t \in Threads, GraceClaim(t)
      PROVE  ClaimHasHolder'
  <2>2. \A u \in Threads \ {t} : call'[u] = call[u] /\ stage'[u] = stage[u]
    BY <1>4 DEF GraceClaim, Go
  <2>3. \A k \in Jobs : awaited'[k] /\ status'[k] \in Live =>
          \/ call'[t] = k /\ stage'[t] \in Holding
          \/ /\ awaited[k] /\ status[k] \in Live
             /\ ~ (call[t] = k /\ stage[t] \in Holding)
    BY <1>4 DEF GraceClaim, Go, Claim, SetAwaited, Holding, vars
  <2> QED
    BY <2>2, <2>3, HoldersStay
<1>5. ASSUME NEW t \in Threads,
             \/ GraceLook(t) \/ GraceBlock(t) \/ GraceDone(t)
             \/ GraceTick(t) \/ GraceDecide(t)
      PROVE  ClaimHasHolder'
  <2>2. \A u \in Threads \ {t} : call'[u] = call[u] /\ stage'[u] = stage[u]
    BY <1>5 DEF GraceLook, GraceBlock, GraceDone, GraceTick, GraceDecide, Go
  <2>3. \A k \in Jobs : awaited'[k] /\ status'[k] \in Live =>
          \/ call'[t] = k /\ stage'[t] \in Holding
          \/ /\ awaited[k] /\ status[k] \in Live
             /\ ~ (call[t] = k /\ stage[t] \in Holding)
    BY <1>5 DEF GraceLook, GraceBlock, GraceDone, GraceTick, GraceDecide, Go,
                BudgetBegin, BudgetSettled, BudgetTimeout, Holding, vars
  <2> QED
    BY <2>2, <2>3, HoldersStay
<1>6. ASSUME NEW t \in Threads, GraceRelease(t)
      PROVE  ClaimHasHolder'
  <2>1. /\ call[t] \in Jobs
        /\ ~ (awaited'[call[t]] /\ status'[call[t]] \in Live)
    BY <1>6 DEF GraceRelease, Leave, ThreadsInPlace, Release, SetAwaited,
                RecordsInPlace, vars
  <2>2. \A u \in Threads \ {t} : call'[u] = call[u] /\ stage'[u] = stage[u]
    BY <1>6 DEF GraceRelease, Leave
  <2>3. \A k \in Jobs : awaited'[k] /\ status'[k] \in Live =>
          \/ call'[t] = k /\ stage'[t] \in Holding
          \/ /\ awaited[k] /\ status[k] \in Live
             /\ ~ (call[t] = k /\ stage[t] \in Holding)
    BY <1>6, <2>1 DEF GraceRelease, Leave, Release, SetAwaited, Holding, vars
  <2> QED
    BY <2>2, <2>3, HoldersStay
<1>7. ASSUME NEW t \in Threads, GraceReturn(t)
      PROVE  ClaimHasHolder'
  <2>1. call[t] \in Jobs /\ status'[call[t]] \in Terminal
    BY <1>7 DEF GraceReturn, Leave, ThreadsInPlace, Discard, vars
  <2>2. \A u \in Threads \ {t} : call'[u] = call[u] /\ stage'[u] = stage[u]
    BY <1>7 DEF GraceReturn, Leave
  <2>3. \A k \in Jobs : awaited'[k] /\ status'[k] \in Live =>
          \/ call'[t] = k /\ stage'[t] \in Holding
          \/ /\ awaited[k] /\ status[k] \in Live
             /\ ~ (call[t] = k /\ stage[t] \in Holding)
    BY <1>7, <2>1 DEF GraceReturn, Leave, Discard, Holding, vars
  <2> QED
    BY <2>2, <2>3, HoldersStay
<1>8. ASSUME NEW t \in Threads, OutputWaited(t)
      PROVE  ClaimHasHolder'
  <2>1. /\ call[t] \in Jobs /\ on[t] = call[t]
        /\ ~ (awaited'[call[t]] /\ status'[call[t]] \in Live)
    BY <1>8 DEF OutputWaited, Go, ThreadsInPlace, WaitSettled, WaitTimeout,
                Return, ReportEnd
  <2>2. \A u \in Threads \ {t} : call'[u] = call[u] /\ stage'[u] = stage[u]
    BY <1>8 DEF OutputWaited, Go
  <2>3. \A k \in Jobs : awaited'[k] /\ status'[k] \in Live =>
          \/ call'[t] = k /\ stage'[t] \in Holding
          \/ /\ awaited[k] /\ status[k] \in Live
             /\ ~ (call[t] = k /\ stage[t] \in Holding)
    BY <1>8, <2>1 DEF OutputWaited, Go, WaitSettled, WaitTimeout, ReportEnd, Holding
  <2> QED
    BY <2>2, <2>3, HoldersStay
<1>9. ASSUME NEW t \in Threads, OutputRead(t) \/ OutputCut(t) \/ OutputNote(t)
      PROVE  ClaimHasHolder'
  <2>2. \A u \in Threads \ {t} : call'[u] = call[u] /\ stage'[u] = stage[u]
    BY <1>9 DEF OutputRead, OutputCut, OutputNote, Go, Leave
  <2>3. \A k \in Jobs : awaited'[k] /\ status'[k] \in Live =>
          \/ call'[t] = k /\ stage'[t] \in Holding
          \/ /\ awaited[k] /\ status[k] \in Live
             /\ ~ (call[t] = k /\ stage[t] \in Holding)
    BY <1>9 DEF OutputRead, OutputCut, OutputNote, Go, Leave, Read, ReadFinal,
                     NoteEmptyRead, Holding, vars
  <2> QED
    BY <2>2, <2>3, HoldersStay
<1>10. CASE Boot \/ UNCHANGED hostVars \/ \E t \in Threads : Interrupt(t)
  BY <1>10 DEF Boot, OnJobDone, Interrupt, hostVars, vars, ClaimHasHolder
<1> QED
  BY <1>1, <1>2, <1>3, <1>4, <1>5, <1>6, <1>7, <1>8, <1>9, <1>10
  DEF HostNext, ToolStep

-----------------------------------------------------------------------------
(* What the model is told.                                                 *)

\* A terminal status and a cancellation are for ever.
LEMMA RecordsGrow ==
  ASSUME TypeOK, [Next]_vars, NEW j \in Jobs
  PROVE  /\ status[j] \in Terminal => status'[j] \in Terminal
         /\ cancelled[j] => cancelled'[j]
<1> USE DEF TypeOK, Live, Terminal, jobVars, regVars, prodVars, callVars, waitVars
<1>1. ASSUME NEW k \in Jobs,
             \/ \E own \in Callers, str \in Streams : Start(k, own, str)
             \/ Settle(k) \/ RequestStop(k) \/ Discard(k)
      PROVE  status[j] \in Terminal => status'[j] \in Terminal
  BY <1>1 DEF Start, Settle, RequestStop, Discard
<1>2. status[j] \in Terminal => status'[j] \in Terminal
  BY <1>1, TableMoves
<1>3. cancelled[j] => cancelled'[j]
  <2>1. ASSUME NEW k \in Jobs,
               \/ \E own \in Callers, str \in Streams : Start(k, own, str)
               \/ Settle(k) \/ RequestStop(k) \/ Discard(k)
               \/ \E o \in Outcomes : Deliver(k, o)
               \/ \E l \in Listeners : CallListener(k, l)
               \/ ReadFinal(k) \/ Claim(k) \/ Release(k)
               \/ \E c \in Callers : NoteEmptyRead(k, c)
               \/ \E t \in Threads : \/ \E c \in Callers : WaitBegin(t, k, c)
                                     \/ BudgetBegin(t, k)
        PROVE  cancelled[j] => cancelled'[j]
    BY <2>1 DEF Start, Settle, RequestStop, Discard, Deliver, CallListener,
                ReadFinal, Claim, Release, SetAwaited, NoteEmptyRead, WaitBegin,
                BudgetBegin
  <2>2. ASSUME NEW t \in Threads, WaitStep(t)
        PROVE  cancelled' = cancelled
    BY <2>2 DEF WaitStep, WaitSettled, WaitTimeout, BudgetSettled, BudgetTimeout,
                ReportEnd
  <2>3. ASSUME \/ \E l \in Listeners : OnJobDone(l) \/ CancelListener(l)
               \/ UNCHANGED vars
        PROVE  cancelled' = cancelled
    BY <2>3 DEF OnJobDone, CancelListener, vars
  <2> QED
    BY <2>1, <2>2, <2>3 DEF Next, Read, ReadHost, Kill, KillHost
<1> QED
  BY <1>2, <1>3

\* Only Notify tells a notice, and only JobKill a kill.
LEMMA ToldMoves ==
  ASSUME HostTypes, ThreadsInPlace, [HostNext]_hostVars, NEW j \in Jobs
  PROVE  /\ "kill" \in told'[j] /\ "kill" \notin told[j] =>
              JobKill(j) /\ RequestStop(j) /\ told'[j] = told[j] \cup {"kill"}
         /\ "notice" \in told'[j] /\ "notice" \notin told[j] =>
              Notify(j) /\ ~ snapReported[j] /\ told'[j] = told[j] \cup {"notice"}
<1> USE DEF HostTypes, modelVars
<1>1. ASSUME NEW k \in Jobs, Notify(k)
      PROVE  told' = told \/ (~ snapReported[k] /\ Tell(k, "notice"))
  BY <1>1 DEF Notify
<1>2. ASSUME NEW k \in Jobs, JobKill(k)
      PROVE  (RequestStop(k) /\ Tell(k, "kill")) \/ Tell(k, "status")
  BY <1>2 DEF JobKill, Kill
<1>3. ASSUME NEW t \in Threads, ToolStep(t)
      PROVE  \/ told' = told
             \/ \E k \in Jobs : Tell(k, "inline") \/ Tell(k, "output")
  <2>1. CASE GraceReturn(t) \/ OutputRead(t)
    <3>1. call[t] \in Jobs
      BY <2>1 DEF ThreadsInPlace, GraceReturn, OutputRead, Leave, Go
    <3> QED
      BY <2>1, <3>1 DEF GraceReturn, OutputRead, Answer
  <2>2. CASE ~ (GraceReturn(t) \/ OutputRead(t))
    BY <1>3, <2>2
    DEF ToolStep, GraceClaim, GraceLook, GraceBlock, GraceDone, GraceTick,
        GraceDecide, GraceRelease, OutputWaited, OutputCut, OutputNote
  <2> QED
    BY <2>1, <2>2
<1>4. ASSUME \/ Boot \/ UNCHANGED hostVars
             \/ \E k \in Jobs :
                  \/ RunInBackground(k) \/ SettleJob(k) \/ UserRead(k) \/ UserKill(k)
                  \/ \E r \in Results \ {"none"} : Finish(k, r)
                  \/ \E t \in Threads :
                       GraceStart(t, k) \/ OutputWait(t, k) \/ OutputNow(t, k)
             \/ \E t \in Threads : Interrupt(t)
      PROVE  told' = told
  BY <1>4 DEF Boot, hostVars, RunInBackground, SettleJob, UserRead, UserKill,
              Finish, GraceStart, OutputWait, OutputNow, Interrupt
<1>5. ASSUME NEW k \in Jobs, NEW f, Tell(k, f)
      PROVE  /\ told'[k] = told[k] \cup {f}
             /\ \A i \in Jobs \ {k} : told'[i] = told[i]
  BY <1>5 DEF Tell
<1>6. CASE told' = told
  BY <1>6
<1>7. CASE \E k \in Jobs : Tell(k, "inline") \/ Tell(k, "output") \/ Tell(k, "status")
  BY <1>5, <1>7
<1>8. CASE \E k \in Jobs : JobKill(k) /\ RequestStop(k) /\ Tell(k, "kill")
  BY <1>5, <1>8
<1>9. CASE \E k \in Jobs : Notify(k) /\ ~ snapReported[k] /\ Tell(k, "notice")
  BY <1>5, <1>9
<1> QED
  BY <1>1, <1>2, <1>3, <1>4, <1>6, <1>7, <1>8, <1>9 DEF HostNext

LEMMA ToldStep ==
  ASSUME Inductive, HostTypes, ThreadsInPlace, ToldInPlace, KilledIsSilent,
         [HostNext]_hostVars
  PROVE  ToldInPlace' /\ KilledIsSilent'
<1>1. TypeOK /\ NoticesAreSound /\ [Next]_vars
  BY HostStepIsStep DEF Inductive, Records
<1> SUFFICES ASSUME NEW j \in Jobs
             PROVE  /\ "kill" \in told'[j] => cancelled'[j]
                    /\ "notice" \in told'[j] => status'[j] \in Terminal
                    /\ "kill" \in told'[j] => "notice" \notin told'[j]
  BY DEF ToldInPlace, KilledIsSilent
<1>2. /\ status[j] \in Terminal => status'[j] \in Terminal
      /\ cancelled[j] => cancelled'[j]
  BY <1>1, RecordsGrow
<1>3. CASE "kill" \in told'[j] /\ "kill" \notin told[j]
  <2>1. RequestStop(j) /\ told'[j] = told[j] \cup {"kill"}
    BY <1>3, ToldMoves
  <2>2. cancelled'[j] /\ "notice" \notin told[j]
    BY <1>1, <2>1 DEF RequestStop, TypeOK, ToldInPlace, Live, Terminal
  <2> QED
    BY <2>1, <2>2
<1>4. CASE "notice" \in told'[j] /\ "notice" \notin told[j]
  <2>1. Notify(j) /\ ~ snapReported[j] /\ told'[j] = told[j] \cup {"notice"}
    BY <1>4, ToldMoves
  <2>2. calls[j] # {}
    BY <2>1 DEF Notify, CallListener
  <2>3. status[j] \in Terminal /\ ~ cancelled[j]
    BY <1>1, <2>1, <2>2 DEF NoticesAreSound
  <2> QED
    BY <1>2, <2>1, <2>3 DEF ToldInPlace
<1> QED
  BY <1>2, <1>3, <1>4 DEF ToldInPlace, KilledIsSilent

-----------------------------------------------------------------------------
(* The theorems.                                                           *)

LEMMA HostInductiveInit == HostInit => HostInductive
<1> SUFFICES ASSUME HostInit PROVE HostInductive
  OBVIOUS
<1>1. Init
  BY DEF HostInit
<1>2. Inductive
  BY <1>1, InductiveInit
<1>3. HostTypes
  BY DEF HostInit, HostTypes, Stages, Results, Facts, Moves
<1>4. ThreadsInPlace /\ RecordsInPlace /\ ClaimHasHolder
  BY <1>1 DEF HostInit, Init, ThreadsInPlace, RecordsInPlace, ClaimHasHolder, Live
<1>5. ToldInPlace /\ KilledIsSilent
  BY DEF HostInit, ToldInPlace, KilledIsSilent
<1> QED
  BY <1>2, <1>3, <1>4, <1>5 DEF HostInductive

LEMMA HostInductiveStep == HostInductive /\ [HostNext]_hostVars => HostInductive'
<1> SUFFICES ASSUME HostInductive, [HostNext]_hostVars PROVE HostInductive'
  OBVIOUS
<1>1. /\ Inductive /\ TypeOK /\ OrderMatchesTable
      /\ HostTypes /\ ThreadsInPlace /\ RecordsInPlace
      /\ ClaimHasHolder /\ ToldInPlace /\ KilledIsSilent
  BY DEF HostInductive, Inductive
<1>2. Inductive'
  BY <1>1, HostStepIsStep, InductiveStep
<1>3. HostTypes' /\ ThreadsInPlace' /\ RecordsInPlace'
  BY <1>1, HostTypesStep, ThreadsStep, RecordsInPlaceStep
<1>4. ClaimHasHolder' /\ ToldInPlace' /\ KilledIsSilent'
  BY <1>1, ClaimsStep, ToldStep
<1> QED
  BY <1>2, <1>3, <1>4 DEF HostInductive

\* The invariant that carries the theorems below.
THEOREM HostInvariant == HostSpec => []HostInductive
  BY HostInductiveInit, HostInductiveStep, PTL DEF HostSpec

\* The host uses the registry through its operations only, so whatever holds
\* of the registry whoever uses it holds here.
THEOREM HostUsesRegistry == HostSpec => Spec
<1>1. HostInit => Init
  BY DEF HostInit
<1>2. HostInductive /\ [HostNext]_hostVars => [Next]_vars
  BY HostStepIsStep DEF HostInductive, Inductive
<1> QED
  BY <1>1, <1>2, HostInvariant, PTL DEF HostSpec, Spec

\* The records, the threads and what the model was told keep their types.
THEOREM HostTypeCorrect == HostSpec => []HostTypeOK
<1>1. HostInductive => HostTypeOK
  BY DEF HostInductive, Inductive, HostTypes, HostTypeOK
<1> QED
  BY <1>1, HostInvariant, PTL

\* runWithGrace and Wait leave no claim behind on a running job.
THEOREM ClaimsAreHeld == HostSpec => []ClaimHasHolder
<1>1. HostInductive => ClaimHasHolder
  BY DEF HostInductive
<1> QED
  BY <1>1, HostInvariant, PTL

\* No completion event is emitted for a job that job_kill has stopped.
THEOREM StoppedJobsAreSilent == HostSpec => []KilledIsSilent
<1>1. HostInductive => KilledIsSilent
  BY DEF HostInductive
<1> QED
  BY <1>1, HostInvariant, PTL

\* Neither pruning nor the Discard of a finished foreground command makes a
\* running job unreachable.
THEOREM RunningJobsStay == HostSpec => OnlyEndedJobsLeave
<1> DEFINE Step == \A j \in table \ table' : status'[j] \in Terminal
<1>1. ASSUME HostInductive, HostInductive', [HostNext]_hostVars
      PROVE  [Step]_hostVars
  <2>1. \A j \in table : j \in Jobs /\ status[j] # "none"
    BY <1>1 DEF HostInductive, Inductive, TypeOK, RecordsInPlace
  <2>2. \A j \in Jobs : status'[j] = "none" => status[j] = "none"
    <3>1. TypeOK /\ [Next]_vars
      BY <1>1, HostStepIsStep DEF HostInductive, Inductive
    <3>2. ASSUME NEW k \in Jobs,
                 \/ \E own \in Callers, str \in Streams : Start(k, own, str)
                 \/ Settle(k) \/ RequestStop(k) \/ Discard(k)
          PROVE  \A j \in Jobs : status'[j] = "none" => status[j] = "none"
      <4>1. Settle(k) => Settled(outcome[k]) \in Terminal
        BY <3>1, SettledIsTerminal DEF Settle, TypeOK
      <4> QED
        BY <3>1, <3>2, <4>1
        DEF Start, Settle, RequestStop, Discard, jobVars, TypeOK, Terminal
    <3> QED
      BY <3>1, <3>2, TableMoves
  <2>3. \A j \in Jobs : /\ status'[j] \in {"none"} \cup Live \cup Terminal
                        /\ status'[j] \in Live => j \in table'
    BY <1>1 DEF HostInductive, Inductive, TypeOK, RecordsInPlace
  <2> QED
    BY <2>1, <2>2, <2>3
<1> QED
  BY <1>1, HostInvariant, PTL DEF HostSpec, OnlyEndedJobsLeave

-----------------------------------------------------------------------------
(* No completion is lost when the features that race it are off.           *)

\* No grace period, no interrupted turn, no user kill, and a registry that
\* never has to forget a job.
Undisturbed == /\ ~ Grace /\ ~ Interrupts /\ ~ HostKills
               /\ Cardinality(Jobs) <= MaxRetained

\* Only job_output occupies threads, and its answers arrive.
OnlyReaders ==
  \A t \in Threads : stage[t] \in {"idle", "waiting", "read", "await", "note"} /\ ~ gone[t]

\* Every job is the caller's, final-output, listed, and has a listener.
JobsAreOurs ==
  \A j \in Jobs : status[j] # "none" =>
    /\ j \in table
    /\ owner[j] = Me
    /\ ~ stream[j]
    /\ Booted

\* The end of a job that runs on its own is known, or about to be announced,
\* or a call that waits for it or reads it is going to return it.
EndIsComing ==
  \A j \in Jobs :
    /\ status[j] = "stopping" => "kill" \in told[j]
    /\ calls[j] # {} /\ snapReported[j] => told[j] # {}
    /\ moved[j] # "no" /\ status[j] \in Terminal =>
         \/ told[j] # {} \/ calls[j] # {}
         \/ \E t \in Threads : call[t] = j /\ stage[t] \in {"waiting", "read", "await"}

QuietInductive == OnlyReaders /\ JobsAreOurs /\ EndIsComing

\* With room for every job nothing is pruned.
LEMMA NothingIsEvicted ==
  ASSUME Cardinality(Jobs) <= MaxRetained, TypeOK, NEW st
  PROVE  Evicted(st) = {}
<1> SUFFICES ASSUME NEW j \in Evicted(st) PROVE FALSE
  OBVIOUS
<1> DEFINE E == {k \in order : st[k] \in Terminal}
           Y == {k \in E : rank[k] > rank[j]}
<1>1. j \in E /\ Cardinality(Y) >= MaxRetained
  BY DEF Evicted
<1>2. j \in Jobs /\ Y \subseteq Jobs \ {j}
  <2>1. j \in Jobs /\ E \subseteq Jobs /\ rank[j] \in Nat
    BY <1>1 DEF TypeOK
  <2> QED
    BY <2>1
<1> HIDE DEF E, Y
<1>3. /\ IsFiniteSet(Jobs \ {j})
      /\ Cardinality(Jobs \ {j}) = Cardinality(Jobs) - 1
      /\ Cardinality(Jobs) \in Nat
  BY <1>2, JobsAssumption, FS_RemoveElement, FS_CardinalityType
<1>4. IsFiniteSet(Y) /\ Cardinality(Y) <= Cardinality(Jobs) - 1
  BY <1>2, <1>3, FS_Subset
<1>5. Cardinality(Y) \in Nat
  BY <1>4, FS_CardinalityType
<1> QED
  BY <1>1, <1>3, <1>4, <1>5, RetainedAssumption

LEMMA OnlyReadersStep ==
  ASSUME Undisturbed, HostTypes, OnlyReaders, [HostNext]_hostVars
  PROVE  OnlyReaders'
<1> USE DEF Undisturbed, HostTypes, OnlyReaders, toolVars
<1>1. ASSUME NEW j \in Jobs,
             \/ RunInBackground(j) \/ SettleJob(j) \/ Notify(j)
             \/ JobKill(j) \/ UserRead(j) \/ UserKill(j)
             \/ \E r \in Results \ {"none"} : Finish(j, r)
      PROVE  OnlyReaders'
  BY <1>1 DEF RunInBackground, SettleJob, Notify, JobKill, UserRead, UserKill,
              Finish
<1>2. ASSUME NEW j \in Jobs, NEW t \in Threads,
             GraceStart(t, j) \/ OutputWait(t, j) \/ OutputNow(t, j)
      PROVE  OnlyReaders'
  BY <1>2 DEF GraceStart, OutputWait, OutputNow, Enter
<1>3. ASSUME NEW t \in Threads, ToolStep(t) \/ Interrupt(t)
      PROVE  OnlyReaders'
  BY <1>3 DEF ToolStep, GraceClaim, GraceLook, GraceBlock, GraceDone, GraceTick,
              GraceDecide, GraceRelease, GraceReturn, OutputWaited, OutputRead,
              OutputCut, OutputNote, Interrupt, Go, Leave
<1>4. CASE Boot \/ UNCHANGED hostVars
  BY <1>4 DEF Boot, hostVars
<1> QED
  BY <1>1, <1>2, <1>3, <1>4 DEF HostNext

LEMMA JobsAreOursStep ==
  ASSUME Undisturbed, TypeOK, HostTypes, OnlyReaders, JobsAreOurs,
         [HostNext]_hostVars
  PROVE  JobsAreOurs'
<1> USE DEF TypeOK, JobsAreOurs, Booted, jobVars, regVars, prodVars,
            callVars, waitVars, Live, Terminal
<1>1. ASSUME NEW j \in Jobs, RunInBackground(j)
      PROVE  JobsAreOurs'
  BY <1>1 DEF RunInBackground, Start
<1>2. ASSUME NEW j \in Jobs, SettleJob(j)
      PROVE  JobsAreOurs'
  <2>1. table' = table
    BY <1>2, NothingIsEvicted DEF Undisturbed, SettleJob, Settle
  <2> QED
    BY <1>2, <2>1 DEF SettleJob, Settle
<1>3. ASSUME NEW j \in Jobs,
             \/ Notify(j) \/ JobKill(j) \/ UserRead(j) \/ UserKill(j)
             \/ \E r \in Results \ {"none"} : Finish(j, r)
             \/ \E t \in Threads : OutputWait(t, j) \/ OutputNow(t, j)
      PROVE  JobsAreOurs'
  BY <1>3 DEF Notify, JobKill, UserRead, UserKill, Finish, OutputWait,
              OutputNow, Deliver, CallListener, Kill, RequestStop, ReadHost,
              ReadFinal, KillHost, WaitBegin, SetAwaited, vars
<1>4. ASSUME NEW j \in Jobs, NEW t \in Threads, GraceStart(t, j)
      PROVE  FALSE
  BY <1>4 DEF GraceStart, Undisturbed
<1>5. ASSUME NEW t \in Threads,
             OutputWaited(t) \/ OutputRead(t) \/ OutputCut(t) \/ OutputNote(t)
      PROVE  JobsAreOurs'
  BY <1>5 DEF OutputWaited, OutputRead, OutputCut, OutputNote, WaitSettled,
              WaitTimeout, ReportEnd, Read, ReadFinal, NoteEmptyRead, vars
<1>6. ASSUME NEW t \in Threads,
             \/ GraceClaim(t) \/ GraceLook(t) \/ GraceBlock(t) \/ GraceDone(t)
             \/ GraceTick(t) \/ GraceDecide(t) \/ GraceRelease(t) \/ GraceReturn(t)
      PROVE  FALSE
  BY <1>6 DEF OnlyReaders, GraceClaim, GraceLook, GraceBlock, GraceDone,
              GraceTick, GraceDecide, GraceRelease, GraceReturn, Go, Leave
<1>7. CASE Boot \/ UNCHANGED hostVars \/ \E t \in Threads : Interrupt(t)
  BY <1>7 DEF Boot, OnJobDone, Interrupt, hostVars, vars
<1> QED
  BY <1>1, <1>2, <1>3, <1>4, <1>5, <1>6, <1>7 DEF HostNext, ToolStep

\* What was told stays told.
LEMMA ToldGrows ==
  ASSUME HostTypes, ThreadsInPlace, [HostNext]_hostVars, NEW j \in Jobs
  PROVE  told[j] \subseteq told'[j]
<1> USE DEF HostTypes, modelVars
<1>1. ASSUME NEW k \in Jobs, NEW f, Tell(k, f)
      PROVE  told[j] \subseteq told'[j]
  BY <1>1 DEF Tell
<1>2. ASSUME NEW k \in Jobs, Notify(k) \/ JobKill(k)
      PROVE  told[j] \subseteq told'[j]
  BY <1>1, <1>2 DEF Notify, JobKill
<1>3. ASSUME NEW t \in Threads, GraceReturn(t) \/ OutputRead(t)
      PROVE  told[j] \subseteq told'[j]
  <2>1. call[t] \in Jobs
    BY <1>3 DEF ThreadsInPlace, GraceReturn, OutputRead, Leave, Go
  <2> QED
    BY <1>1, <1>3, <2>1 DEF GraceReturn, OutputRead, Answer
<1>4. ASSUME NEW t \in Threads, ToolStep(t), ~ (GraceReturn(t) \/ OutputRead(t))
      PROVE  told' = told
  BY <1>4 DEF ToolStep, GraceClaim, GraceLook, GraceBlock, GraceDone, GraceTick,
              GraceDecide, GraceRelease, OutputWaited, OutputCut, OutputNote
<1>5. ASSUME \/ Boot \/ UNCHANGED hostVars
             \/ \E k \in Jobs :
                  \/ RunInBackground(k) \/ SettleJob(k) \/ UserRead(k) \/ UserKill(k)
                  \/ \E r \in Results \ {"none"} : Finish(k, r)
                  \/ \E t \in Threads :
                       GraceStart(t, k) \/ OutputWait(t, k) \/ OutputNow(t, k)
             \/ \E t \in Threads : Interrupt(t)
      PROVE  told' = told
  BY <1>5 DEF Boot, hostVars, RunInBackground, SettleJob, UserRead, UserKill,
              Finish, GraceStart, OutputWait, OutputNow, Interrupt
<1> QED
  BY <1>2, <1>3, <1>4, <1>5 DEF HostNext

\* The end of a job passes from the settlement to the listener or to the
\* caller that waits, and from there to the model.
LEMMA EndIsComingStep ==
  ASSUME Undisturbed, HostInductive, QuietInductive, [HostNext]_hostVars
  PROVE  EndIsComing'
<1>0. /\ TypeOK /\ Inductive /\ HostTypes /\ ThreadsInPlace /\ ClaimHasHolder
      /\ OnlyReaders /\ JobsAreOurs /\ EndIsComing
      /\ ReportedWasSeen /\ NoticesAreSound
  BY DEF HostInductive, Inductive, Records, QuietInductive
<1> SUFFICES ASSUME NEW j \in Jobs
             PROVE  /\ status'[j] = "stopping" => "kill" \in told'[j]
                    /\ calls'[j] # {} /\ snapReported'[j] => told'[j] # {}
                    /\ moved'[j] # "no" /\ status'[j] \in Terminal =>
                         \/ told'[j] # {} \/ calls'[j] # {}
                         \/ \E t \in Threads : call'[t] = j
                                              /\ stage'[t] \in {"waiting", "read", "await"}
  BY DEF EndIsComing
<1>1. told[j] \subseteq told'[j]
  BY <1>0, ToldGrows
<1>2. /\ status[j] = "stopping" => "kill" \in told[j]
      /\ calls[j] # {} /\ snapReported[j] => told[j] # {}
      /\ moved[j] # "no" /\ status[j] \in Terminal =>
           \/ told[j] # {} \/ calls[j] # {}
           \/ \E t \in Threads : call[t] = j /\ stage[t] \in {"waiting", "read", "await"}
  BY <1>0 DEF EndIsComing
<1> DEFINE Unmoved == /\ status'[j] = status[j] /\ calls'[j] = calls[j]
                      /\ snapReported'[j] = snapReported[j] /\ moved'[j] = moved[j]
           Goal == /\ status'[j] = "stopping" => "kill" \in told'[j]
                   /\ calls'[j] # {} /\ snapReported'[j] => told'[j] # {}
                   /\ moved'[j] # "no" /\ status'[j] \in Terminal =>
                        \/ told'[j] # {} \/ calls'[j] # {}
                        \/ \E t \in Threads : call'[t] = j
                                             /\ stage'[t] \in {"waiting", "read", "await"}
<1> USE DEF TypeOK, HostTypes, jobVars, regVars, prodVars, callVars, waitVars,
            toolVars, modelVars, Live, Terminal
<1>3. ASSUME NEW k \in Jobs, RunInBackground(k)
      PROVE  Goal
  BY <1>0, <1>1, <1>2, <1>3 DEF RunInBackground, Start
<1>4. ASSUME NEW k \in Jobs, NEW r \in Results, Finish(k, r)
      PROVE  Goal
  BY <1>1, <1>2, <1>4 DEF Finish, Deliver
<1>5. ASSUME NEW k \in Jobs, SettleJob(k)
      PROVE  Goal
  <2>1. CASE k # j
    BY <1>0, <1>1, <1>2, <1>5, <2>1 DEF SettleJob, Settle
  <2>2. CASE k = j
    <3>1. /\ status[j] \in Live /\ status'[j] = Settled(outcome[j])
          /\ calls'[j] = (IF awaited[j] THEN {} ELSE listeners)
          /\ snapReported'[j] = reported[j]
          /\ UNCHANGED <<stage, call, told>>
      BY <1>0, <1>5, <2>2 DEF SettleJob, Settle
    <3>2. status'[j] # "stopping"
      BY <1>0, <1>5, <2>2, <3>1, SettledIsTerminal DEF SettleJob, Settle
    <3>3. reported[j] => told'[j] # {}
      BY <1>0, <1>1, <1>2, <3>1 DEF ReportedWasSeen
    <3>4. CASE awaited[j]
      <4>1. PICK t \in Threads : call[t] = j /\ stage[t] = "waiting"
        BY <1>0, <3>1, <3>4 DEF ClaimHasHolder, OnlyReaders
      <4> QED
        BY <3>1, <3>2, <3>4, <4>1
    <3>5. CASE ~ awaited[j]
      <4>1. listeners # {}
        BY <1>0, <3>1 DEF JobsAreOurs, Booted
      <4> QED
        BY <3>1, <3>2, <3>3, <3>5, <4>1
    <3> QED
      BY <3>4, <3>5
  <2> QED
    BY <2>1, <2>2
<1>6. ASSUME NEW k \in Jobs, Notify(k)
      PROVE  Goal
  <2>1. CASE k # j
    BY <1>0, <1>1, <1>2, <1>6, <2>1 DEF Notify, CallListener
  <2>2. CASE k = j
    <3>1. told'[j] # {}
      <4>1. CASE snapReported[j]
        BY <1>1, <1>2, <1>6, <2>2, <4>1 DEF Notify, CallListener
      <4>2. CASE ~ snapReported[j]
        <5>1. Tell(j, "notice")
          BY <1>6, <2>2, <4>2 DEF Notify
        <5>2. "notice" \in told'[j]
          BY <1>0, <5>1 DEF Tell
        <5> QED
          BY <5>2
      <4> QED
        BY <4>1, <4>2
    <3>2. status'[j] = status[j]
      BY <1>6 DEF Notify, CallListener
    <3> QED
      BY <1>1, <1>2, <3>1, <3>2
  <2> QED
    BY <2>1, <2>2
<1>7. ASSUME NEW k \in Jobs, JobKill(k)
      PROVE  Goal
  <2>1. CASE Kill(k, Me) /\ Tell(k, "kill")
    BY <1>0, <1>1, <1>2, <1>7, <2>1 DEF JobKill, Kill, RequestStop, Tell
  <2>2. CASE UNCHANGED <<vars, toolVars, ran, moved>>
    BY <1>1, <1>2, <2>2 DEF vars
  <2> QED
    BY <1>7, <2>1, <2>2 DEF JobKill
<1>8. ASSUME NEW k \in Jobs, UserRead(k) \/ UserKill(k)
      PROVE  Goal
  BY <1>1, <1>2, <1>8 DEF UserRead, UserKill, ReadHost, ReadFinal, Undisturbed
<1>9. ASSUME NEW k \in Jobs, NEW t \in Threads,
             GraceStart(t, k) \/ OutputWait(t, k) \/ OutputNow(t, k)
      PROVE  Goal
  <2>1. /\ status' = status /\ calls' = calls /\ snapReported' = snapReported
        /\ moved' = moved /\ stage[t] = "idle"
        /\ \A u \in Threads \ {t} : stage'[u] = stage[u] /\ call'[u] = call[u]
    <3>1. OutputWait(t, k) \/ OutputNow(t, k)
      BY <1>9 DEF GraceStart, Undisturbed
    <3>2. CASE OutputWait(t, k)
      BY <3>2 DEF OutputWait, Enter, WaitBegin, SetAwaited
    <3>3. CASE OutputNow(t, k)
      BY <1>0, <3>3 DEF OutputNow, Enter, vars
    <3> QED
      BY <3>1, <3>2, <3>3
  <2> QED
    BY <1>1, <1>2, <2>1
<1>10. ASSUME NEW t \in Threads, ToolStep(t)
       PROVE  Goal
  <2>1. OutputWaited(t) \/ OutputRead(t) \/ OutputNote(t)
    BY <1>0, <1>10
    DEF OnlyReaders, ToolStep, GraceClaim, GraceLook, GraceBlock, GraceDone,
        GraceTick, GraceDecide, GraceRelease, GraceReturn, OutputCut, Go,
        Leave
  <2>2. /\ status' = status /\ calls' = calls /\ snapReported' = snapReported
        /\ moved' = moved
        /\ \A u \in Threads \ {t} : stage'[u] = stage[u] /\ call'[u] = call[u]
    <3>1. CASE OutputWaited(t)
      BY <3>1 DEF OutputWaited, Go, WaitSettled, WaitTimeout, ReportEnd
    <3>2. CASE OutputRead(t)
      <4>1. /\ moved' = moved
            /\ \E s \in {"read", "await"} : Leave(t, s) \/ Go(t, s, "note")
            /\ Read(call[t], Me) \/ UNCHANGED vars
        BY <3>2 DEF OutputRead
      <4>2. \A u \in Threads \ {t} : stage'[u] = stage[u] /\ call'[u] = call[u]
        BY <1>0, <4>1 DEF Leave, Go
      <4>3. status' = status /\ calls' = calls /\ snapReported' = snapReported
        BY <4>1 DEF Read, ReadFinal, vars
      <4> QED
        BY <4>1, <4>2, <4>3
    <3>3. CASE OutputNote(t)
      BY <3>3 DEF OutputNote, Leave, NoteEmptyRead, vars
    <3> QED
      BY <2>1, <3>1, <3>2, <3>3
  <2>3. ASSUME moved[j] # "no", status[j] \in Terminal, call[t] = j,
               stage[t] \in {"waiting", "read", "await"}
        PROVE  \/ told'[j] # {}
               \/ call'[t] = j /\ stage'[t] \in {"waiting", "read", "await"}
    <3>1. CASE OutputWaited(t)
      BY <2>3, <3>1 DEF OutputWaited, Go
    <3>2. CASE OutputRead(t)
      <4>1. Authorized(j, Me)
        BY <1>0, <2>3 DEF Authorized, JobsAreOurs
      <4>2. Answer(t, "output")
        BY <2>3, <3>2, <4>1 DEF OutputRead
      <4>3. Tell(j, "output")
        BY <1>0, <2>3, <4>2 DEF Answer, OnlyReaders
      <4>4. "output" \in told'[j]
        BY <1>0, <4>3 DEF Tell
      <4> QED
        BY <4>4
    <3>3. CASE OutputNote(t)
      BY <2>3, <3>3 DEF OutputNote, Leave
    <3> QED
      BY <2>1, <3>1, <3>2, <3>3
  <2> QED
    BY <1>1, <1>2, <2>2, <2>3
<1>11. CASE Boot \/ UNCHANGED hostVars \/ \E t \in Threads : Interrupt(t)
  BY <1>1, <1>2, <1>11 DEF Boot, OnJobDone, Interrupt, hostVars, vars
<1> QED
  BY <1>3, <1>4, <1>5, <1>6, <1>7, <1>8, <1>9, <1>10, <1>11 DEF HostNext

\* With the grace period, interruptions and user kills off, and room for every
\* record, the model learns the end of every job that runs on its own: however
\* waits, time-outs, reads, kills and the settlement interleave.
THEOREM NoNoticeIsLost == Undisturbed => (HostSpec => []NoLostNotice)
<1> SUFFICES ASSUME Undisturbed PROVE HostSpec => []NoLostNotice
  OBVIOUS
<1>1. HostInit => QuietInductive
  <2> SUFFICES ASSUME HostInit PROVE QuietInductive
    OBVIOUS
  <2>1. OnlyReaders
    BY DEF HostInit, OnlyReaders
  <2>2. JobsAreOurs /\ EndIsComing
    BY DEF HostInit, Init, JobsAreOurs, EndIsComing
  <2> QED
    BY <2>1, <2>2 DEF QuietInductive
<1>2. HostInductive /\ QuietInductive /\ [HostNext]_hostVars => QuietInductive'
  <2> SUFFICES ASSUME HostInductive, QuietInductive, [HostNext]_hostVars
               PROVE  QuietInductive'
    OBVIOUS
  <2>1. TypeOK /\ HostTypes /\ OnlyReaders /\ JobsAreOurs
    BY DEF HostInductive, Inductive, QuietInductive
  <2> QED
    BY <2>1, OnlyReadersStep, JobsAreOursStep, EndIsComingStep DEF QuietInductive
<1>3. HostInductive /\ QuietInductive => NoLostNotice
  <2> SUFFICES ASSUME HostInductive, QuietInductive, NEW j \in Jobs,
                      moved[j] # "no", Quiet(j)
               PROVE  told[j] # {}
    BY DEF NoLostNotice
  <2> QED
    BY DEF QuietInductive, EndIsComing, Quiet
<1> QED
  BY <1>1, <1>2, <1>3, HostInvariant, PTL DEF HostSpec

-----------------------------------------------------------------------------
(* Whatever is on: who can silence the end of a job.                       *)

Gracing == {"claim", "poll", "decide", "release", "return"}

\* A job in its grace period has one thread, and the model has not been given
\* its id.
GraceHasOneThread ==
  /\ \A t \in Threads : stage[t] \in Gracing =>
       /\ status[call[t]] # "none" /\ moved[call[t]] = "no"
       /\ \A u \in Threads : stage[u] \in Gracing /\ call[u] = call[t] => u = t
  /\ \A j \in Jobs : status[j] = "none" => moved[j] = "no"

\* Nobody silences a job that runs on its own without having told the model,
\* having marked the end as seen, or being about to.
EndIsHeard ==
  /\ \A j \in Jobs :
       /\ calls[j] # {} /\ snapReported[j] => reported[j]
       /\ moved[j] = "running" /\ status[j] \in Terminal =>
            \/ told[j] # {} \/ reported[j] \/ calls[j] # {}
            \/ \E t \in Threads : call[t] = j /\ stage[t] = "waiting"
       /\ status[j] # "none" => Booted

\* What the record and the thread of a job may do in a step of the host.
LEMMA ReportedGrows ==
  ASSUME TypeOK, HostTypes, ThreadsInPlace, [HostNext]_hostVars,
         NEW j \in Jobs, status[j] # "none"
  PROVE  reported[j] => reported'[j]
<1> USE DEF TypeOK, HostTypes, jobVars, regVars, prodVars, callVars, waitVars,
            toolVars, modelVars, Live, Terminal
<1>1. ASSUME NEW k \in Jobs,
             \/ RunInBackground(k) \/ SettleJob(k) \/ Notify(k)
             \/ JobKill(k) \/ UserRead(k) \/ UserKill(k)
             \/ \E r \in Results \ {"none"} : Finish(k, r)
      PROVE  reported[j] => reported'[j]
  BY <1>1 DEF RunInBackground, SettleJob, Notify, JobKill, UserRead, UserKill,
              Finish, Start, Settle, Deliver, CallListener, Kill, RequestStop,
              ReadHost, ReadFinal, KillHost, vars
<1>2. ASSUME NEW k \in Jobs, NEW t \in Threads,
             GraceStart(t, k) \/ OutputWait(t, k) \/ OutputNow(t, k)
      PROVE  reported[j] => reported'[j]
  BY <1>2 DEF GraceStart, OutputWait, OutputNow, Start, WaitBegin, SetAwaited, vars
<1>3. ASSUME NEW t \in Threads,
             \/ GraceClaim(t) \/ GraceLook(t) \/ GraceBlock(t) \/ GraceDone(t)
             \/ GraceTick(t) \/ GraceDecide(t) \/ GraceRelease(t) \/ GraceReturn(t)
      PROVE  reported[j] => reported'[j]
  BY <1>3 DEF GraceClaim, GraceLook, GraceBlock, GraceDone, GraceTick,
              GraceDecide, GraceRelease, GraceReturn, Claim, Release, SetAwaited,
              BudgetBegin, BudgetSettled, BudgetTimeout, Discard, vars
<1>4. ASSUME NEW t \in Threads,
             OutputWaited(t) \/ OutputRead(t) \/ OutputCut(t) \/ OutputNote(t)
      PROVE  reported[j] => reported'[j]
  BY <1>4 DEF OutputWaited, OutputRead, OutputCut, OutputNote, WaitSettled,
              WaitTimeout, ReportEnd, Read, ReadFinal, NoteEmptyRead, vars
<1>5. CASE Boot \/ UNCHANGED hostVars \/ \E t \in Threads : Interrupt(t)
  BY <1>5 DEF Boot, OnJobDone, Interrupt, hostVars, vars
<1> QED
  BY <1>1, <1>2, <1>3, <1>4, <1>5 DEF HostNext, ToolStep

\* A step that starts no job and hands none over keeps the threads apart.
LEMMA GraceStaysApart ==
  ASSUME TypeOK, HostTypes, GraceHasOneThread, moved' = moved,
         \A j \in Jobs : status'[j] = "none" <=> status[j] = "none",
         \A t \in Threads : stage'[t] \in Gracing =>
           stage[t] \in Gracing /\ call'[t] = call[t],
         \A t \in Threads : stage[t] # "idle" => call[t] \in Jobs
  PROVE  GraceHasOneThread'
<1>1. \A t \in Threads : stage[t] \in Gracing => call[t] \in Jobs
  BY DEF Gracing
<1> QED
  BY <1>1 DEF GraceHasOneThread

LEMMA GraceHasOneThreadStep ==
  ASSUME TypeOK, HostTypes, ThreadsInPlace, GraceHasOneThread,
         [HostNext]_hostVars
  PROVE  GraceHasOneThread'
<1> USE DEF TypeOK, HostTypes, jobVars, regVars, prodVars, callVars, waitVars,
            toolVars, modelVars, Live, Terminal
<1>0. \A t \in Threads : stage[t] # "idle" => call[t] \in Jobs
  BY DEF ThreadsInPlace
<1>1. ASSUME NEW j \in Jobs, RunInBackground(j)
      PROVE  GraceHasOneThread'
  <2>1. /\ status[j] = "none" /\ status' = [status EXCEPT ![j] = "running"]
        /\ moved' = [moved EXCEPT ![j] = "running"]
        /\ UNCHANGED <<stage, call>>
    BY <1>1 DEF RunInBackground, Start
  <2>2. \A t \in Threads : stage[t] \in Gracing => call[t] \in Jobs \ {j}
    BY <1>0, <2>1 DEF GraceHasOneThread, Gracing
  <2> QED
    BY <2>1, <2>2 DEF GraceHasOneThread
<1>2. ASSUME NEW j \in Jobs,
             \/ SettleJob(j) \/ Notify(j) \/ JobKill(j) \/ UserRead(j) \/ UserKill(j)
             \/ \E r \in Results \ {"none"} : Finish(j, r)
      PROVE  GraceHasOneThread'
  <2>1. moved' = moved /\ stage' = stage /\ call' = call
    BY <1>2 DEF SettleJob, Notify, JobKill, UserRead, UserKill, Finish
  <2>2. \A k \in Jobs : status'[k] = "none" <=> status[k] = "none"
    <3>1. CASE SettleJob(j)
      <4>1. Settled(outcome[j]) \in Terminal
        BY <3>1, SettledIsTerminal DEF SettleJob, Settle
      <4> QED
        BY <3>1, <4>1 DEF SettleJob, Settle
    <3>2. CASE ~ SettleJob(j)
      BY <1>2, <3>2 DEF Notify, JobKill, UserRead, UserKill, Finish, Deliver,
                        CallListener, Kill, RequestStop, ReadHost, ReadFinal,
                        KillHost, vars
    <3> QED
      BY <3>1, <3>2
  <2> QED
    BY <1>0, <2>1, <2>2, GraceStaysApart
<1>3. ASSUME NEW j \in Jobs, NEW t \in Threads, GraceStart(t, j)
      PROVE  GraceHasOneThread'
  <2>1. /\ status[j] = "none" /\ status' = [status EXCEPT ![j] = "running"]
        /\ moved' = moved /\ moved[j] = "no"
        /\ stage' = [stage EXCEPT ![t] = "claim"] /\ call' = [call EXCEPT ![t] = j]
    BY <1>3 DEF GraceStart, Start, Enter, GraceHasOneThread
  <2>2. \A u \in Threads : stage[u] \in Gracing => call[u] \in Jobs \ {j}
    BY <1>0, <2>1 DEF GraceHasOneThread, Gracing
  <2> QED
    BY <2>1, <2>2 DEF GraceHasOneThread
<1>4. ASSUME NEW j \in Jobs, NEW t \in Threads, OutputWait(t, j) \/ OutputNow(t, j)
      PROVE  GraceHasOneThread'
  <2>1. /\ moved' = moved /\ status' = status
        /\ \A u \in Threads : stage'[u] \in Gracing =>
             stage[u] \in Gracing /\ call'[u] = call[u]
    BY <1>4 DEF OutputWait, OutputNow, WaitBegin, SetAwaited, Enter, Gracing, vars
  <2> QED
    BY <1>0, <2>1, GraceStaysApart
<1>5. ASSUME NEW t \in Threads, GraceRelease(t)
      PROVE  GraceHasOneThread'
  <2>1. /\ call[t] \in Jobs /\ stage[t] \in Gracing /\ status' = status
        /\ stage' = [stage EXCEPT ![t] = "idle"]
        /\ call' = [call EXCEPT ![t] = NoJob]
        /\ \A j \in Jobs \ {call[t]} : moved'[j] = moved[j]
    BY <1>0, <1>5 DEF GraceRelease, Handed, Leave, Release, SetAwaited, Gracing, vars
  <2>2. \A u \in Threads \ {t} : stage[u] \in Gracing => call[u] \in Jobs \ {call[t]}
    BY <1>0, <2>1 DEF GraceHasOneThread, Gracing
  <2>3. "idle" \notin Gracing /\ status[call[t]] # "none"
    BY <2>1 DEF GraceHasOneThread, Gracing
  <2> QED
    BY <2>1, <2>2, <2>3 DEF GraceHasOneThread
<1>6. ASSUME NEW t \in Threads,
             \/ GraceClaim(t) \/ GraceLook(t) \/ GraceBlock(t) \/ GraceDone(t)
             \/ GraceTick(t) \/ GraceDecide(t) \/ GraceReturn(t)
             \/ OutputWaited(t) \/ OutputRead(t) \/ OutputCut(t) \/ OutputNote(t)
             \/ Interrupt(t)
      PROVE  GraceHasOneThread'
  <2>1. moved' = moved /\ status' = status
    BY <1>6 DEF GraceClaim, GraceLook, GraceBlock, GraceDone, GraceTick,
                GraceDecide, GraceReturn, OutputWaited, OutputRead,
                OutputCut, OutputNote, Interrupt, Claim, SetAwaited,
                BudgetBegin, BudgetSettled, BudgetTimeout, Discard, WaitSettled,
                WaitTimeout, ReportEnd, Read, ReadFinal, NoteEmptyRead, vars
  <2>2. \A u \in Threads : stage'[u] \in Gracing =>
          stage[u] \in Gracing /\ call'[u] = call[u]
    BY <1>6 DEF GraceClaim, GraceLook, GraceBlock, GraceDone, GraceTick,
                GraceDecide, GraceReturn, OutputWaited, OutputRead,
                OutputCut, OutputNote, Interrupt, Go, Leave, Gracing
  <2> QED
    BY <1>0, <2>1, <2>2, GraceStaysApart
<1>7. CASE Boot \/ UNCHANGED hostVars
  BY <1>7 DEF Boot, OnJobDone, hostVars, vars, GraceHasOneThread
<1> QED
  BY <1>1, <1>2, <1>3, <1>4, <1>5, <1>6, <1>7 DEF HostNext, ToolStep

\* The manager listens before a job starts and for ever after.
LEMMA ManagerListens ==
  ASSUME HostTypes, TypeOK, [HostNext]_hostVars, NEW j \in Jobs,
         status[j] # "none" => Booted
  PROVE  status'[j] # "none" => Booted'
<1> USE DEF TypeOK, HostTypes, Booted, jobVars, regVars, prodVars, callVars,
            waitVars, Live
<1>1. ASSUME NEW k \in Jobs,
             \/ RunInBackground(k) \/ SettleJob(k) \/ Notify(k)
             \/ JobKill(k) \/ UserRead(k) \/ UserKill(k)
             \/ \E r \in Results \ {"none"} : Finish(k, r)
      PROVE  status'[j] # "none" => Booted'
  BY <1>1 DEF RunInBackground, SettleJob, Notify, JobKill, UserRead, UserKill,
              Finish, Start, Settle, Deliver, CallListener, Kill, RequestStop,
              ReadHost, ReadFinal, KillHost, vars
<1>2. ASSUME NEW k \in Jobs, NEW t \in Threads,
             GraceStart(t, k) \/ OutputWait(t, k) \/ OutputNow(t, k)
      PROVE  status'[j] # "none" => Booted'
  BY <1>2 DEF GraceStart, OutputWait, OutputNow, Start, WaitBegin, SetAwaited, vars
<1>3. ASSUME NEW t \in Threads,
             \/ GraceClaim(t) \/ GraceLook(t) \/ GraceBlock(t) \/ GraceDone(t)
             \/ GraceTick(t) \/ GraceDecide(t) \/ GraceRelease(t) \/ GraceReturn(t)
             \/ OutputWaited(t) \/ OutputRead(t) \/ OutputCut(t) \/ OutputNote(t)
             \/ Interrupt(t)
      PROVE  status'[j] # "none" => Booted'
  BY <1>3 DEF GraceClaim, GraceLook, GraceBlock, GraceDone, GraceTick,
              GraceDecide, GraceRelease, GraceReturn, OutputWaited, OutputRead,
              OutputCut, OutputNote, Interrupt, Claim, Release, SetAwaited,
              BudgetBegin, BudgetSettled, BudgetTimeout, Discard, WaitSettled,
              WaitTimeout, ReportEnd, Read, ReadFinal, NoteEmptyRead, vars
<1>4. CASE Boot \/ UNCHANGED hostVars
  BY <1>4 DEF Boot, OnJobDone, hostVars, vars
<1> QED
  BY <1>1, <1>2, <1>3, <1>4 DEF HostNext, ToolStep

LEMMA EndIsHeardStep ==
  ASSUME HostInductive, GraceHasOneThread, EndIsHeard, [HostNext]_hostVars
  PROVE  EndIsHeard'
<1>0. /\ TypeOK /\ HostTypes /\ ThreadsInPlace /\ ClaimHasHolder
      /\ NoticesAreSound
  BY DEF HostInductive, Inductive, Records
<1> SUFFICES ASSUME NEW j \in Jobs
             PROVE  /\ calls'[j] # {} /\ snapReported'[j] => reported'[j]
                    /\ moved'[j] = "running" /\ status'[j] \in Terminal =>
                         \/ told'[j] # {} \/ reported'[j] \/ calls'[j] # {}
                         \/ \E t \in Threads : call'[t] = j /\ stage'[t] = "waiting"
  BY <1>0, ManagerListens DEF EndIsHeard
<1>1. /\ told[j] \subseteq told'[j]
      /\ status[j] # "none" => (reported[j] => reported'[j])
  BY <1>0, ToldGrows, ReportedGrows
<1>2. /\ calls[j] # {} /\ snapReported[j] => reported[j]
      /\ moved[j] = "running" /\ status[j] \in Terminal =>
           \/ told[j] # {} \/ reported[j] \/ calls[j] # {}
           \/ \E t \in Threads : call[t] = j /\ stage[t] = "waiting"
      /\ status[j] # "none" => Booted
      /\ calls[j] # {} => status[j] \in Terminal
      /\ status[j] \in Live \cup Terminal => status[j] # "none"
  BY <1>0 DEF EndIsHeard, NoticesAreSound, Live, Terminal
<1> DEFINE Goal == /\ calls'[j] # {} /\ snapReported'[j] => reported'[j]
                   /\ moved'[j] = "running" /\ status'[j] \in Terminal =>
                        \/ told'[j] # {} \/ reported'[j] \/ calls'[j] # {}
                        \/ \E t \in Threads : call'[t] = j /\ stage'[t] = "waiting"
           Calm == calls'[j] = calls[j] /\ snapReported'[j] = snapReported[j]
           WaitersStay == \A t \in Threads : stage[t] = "waiting" =>
                          stage'[t] = stage[t] /\ call'[t] = call[t]
\* What does not end j and leaves the waiting threads alone changes nothing.
<1>3. ASSUME Calm, WaitersStay, moved'[j] = moved[j],
             status'[j] \in Terminal => status'[j] = status[j]
      PROVE  Goal
  BY <1>1, <1>2, <1>3
<1> HIDE DEF Goal
<1> USE DEF TypeOK, HostTypes, jobVars, regVars, prodVars, callVars, waitVars,
            toolVars, modelVars
<1>4. ASSUME NEW k \in Jobs, RunInBackground(k)
      PROVE  Goal
  <2>1. CASE k # j
    BY <1>0, <1>3, <1>4, <2>1 DEF RunInBackground, Start
  <2>2. CASE k = j
    <3>1. calls'[j] = {} /\ status'[j] \notin Terminal
      BY <1>0, <1>2, <1>4, <2>2 DEF RunInBackground, Start, Terminal
    <3> QED
      BY <3>1 DEF Goal
  <2> QED
    BY <2>1, <2>2
<1>5. ASSUME NEW k \in Jobs, NEW t \in Threads, GraceStart(t, k)
      PROVE  Goal
  BY <1>0, <1>3, <1>5 DEF GraceStart, Start, Enter, Terminal
<1>6. ASSUME NEW k \in Jobs,
             \/ JobKill(k) \/ UserRead(k) \/ UserKill(k)
             \/ \E r \in Results \ {"none"} : Finish(k, r)
      PROVE  Goal
  BY <1>0, <1>3, <1>6 DEF JobKill, UserRead, UserKill, Finish, Deliver, Kill,
                          RequestStop, ReadHost, ReadFinal, KillHost, vars, Terminal
<1>7. ASSUME NEW k \in Jobs, SettleJob(k)
      PROVE  Goal
  <2>1. CASE k # j
    BY <1>0, <1>3, <1>7, <2>1 DEF SettleJob, Settle
  <2>2. CASE k = j
    <3>1. /\ status[j] \in Live
          /\ calls'[j] = (IF awaited[j] THEN {} ELSE listeners)
          /\ snapReported'[j] = reported[j] /\ reported'[j] = reported[j]
          /\ UNCHANGED <<stage, call, moved>>
      BY <1>0, <1>7, <2>2 DEF SettleJob, Settle
    <3>2. CASE awaited[j] /\ moved[j] = "running"
      <4>1. PICK t \in Threads :
              /\ call[t] = j
              /\ stage[t] \in {"poll", "decide", "release", "return", "waiting"}
        BY <1>0, <3>1, <3>2 DEF ClaimHasHolder
      <4>2. stage[t] = "waiting"
        BY <3>2, <4>1 DEF GraceHasOneThread, Gracing
      <4> QED
        BY <3>1, <4>1, <4>2 DEF Goal
    <3>3. CASE ~ awaited[j]
      <4>1. calls'[j] # {}
        BY <1>2, <3>1, <3>3 DEF Booted
      <4> QED
        BY <3>1, <4>1 DEF Goal
    <3>4. CASE moved[j] # "running"
      BY <3>1, <3>4 DEF Goal
    <3> QED
      BY <3>2, <3>3, <3>4
  <2> QED
    BY <2>1, <2>2
<1>8. ASSUME NEW k \in Jobs, Notify(k)
      PROVE  Goal
  <2>1. CASE k # j
    BY <1>0, <1>3, <1>8, <2>1 DEF Notify, CallListener
  <2>2. CASE k = j
    <3>1. calls[j] # {} /\ snapReported'[j] = snapReported[j]
      BY <1>8, <2>2 DEF Notify, CallListener
    <3>2. CASE snapReported[j]
      BY <1>1, <1>2, <3>1, <3>2 DEF Goal
    <3>3. CASE ~ snapReported[j]
      <4>1. Tell(j, "notice")
        BY <1>8, <2>2, <3>3 DEF Notify
      <4>2. "notice" \in told'[j]
        BY <1>0, <4>1 DEF Tell
      <4> QED
        BY <3>1, <3>3, <4>2 DEF Goal
    <3> QED
      BY <3>2, <3>3
  <2> QED
    BY <2>1, <2>2
<1>9. ASSUME NEW k \in Jobs, NEW t \in Threads, OutputWait(t, k) \/ OutputNow(t, k)
      PROVE  Goal
  BY <1>0, <1>3, <1>9 DEF OutputWait, OutputNow, Enter, WaitBegin, SetAwaited, vars
<1>10. ASSUME NEW t \in Threads, GraceRelease(t)
       PROVE  Goal
  <2>1. /\ call[t] \in Jobs /\ stage[t] = "release" /\ Calm /\ WaitersStay
        /\ status' = status
    BY <1>0, <1>10 DEF GraceRelease, ThreadsInPlace, Leave, Release, SetAwaited, vars
  <2>2. CASE call[t] # j
    BY <1>0, <1>3, <1>10, <2>1, <2>2 DEF GraceRelease, Handed
  <2>3. CASE call[t] = j
    <3>1. moved'[j] = "running" => moved[j] = "running" \/ status[j] \in Live
      BY <1>0, <1>10, <2>1, <2>3 DEF GraceRelease, Handed
    <3>2. CASE moved'[j] = "running" /\ moved[j] # "running"
      BY <1>1, <1>2, <2>1, <3>1, <3>2 DEF Goal, Live, Terminal
    <3>3. CASE moved'[j] # "running" \/ moved[j] = "running"
      BY <1>1, <1>2, <2>1, <3>3 DEF Goal
    <3> QED
      BY <3>2, <3>3
  <2> QED
    BY <2>2, <2>3
<1>11. ASSUME NEW t \in Threads,
              \/ GraceClaim(t) \/ GraceLook(t) \/ GraceBlock(t) \/ GraceDone(t)
              \/ GraceTick(t) \/ GraceDecide(t) \/ GraceReturn(t)
              \/ OutputRead(t) \/ OutputCut(t) \/ OutputNote(t) \/ Interrupt(t)
       PROVE  Goal
  <2>1. Calm /\ moved' = moved /\ status' = status
    BY <1>11 DEF GraceClaim, GraceLook, GraceBlock, GraceDone, GraceTick,
                 GraceDecide, GraceReturn, OutputRead, OutputCut, OutputNote,
                 Interrupt, Claim, SetAwaited, BudgetBegin, BudgetSettled,
                 BudgetTimeout, Discard, Read, ReadFinal, NoteEmptyRead, vars
  <2>2. WaitersStay
    BY <1>0, <1>11
    DEF GraceClaim, GraceLook, GraceBlock, GraceDone, GraceTick, GraceDecide,
        GraceReturn, OutputRead, OutputCut, OutputNote, Interrupt, Go, Leave
  <2> QED
    BY <1>3, <2>1, <2>2
<1>12. ASSUME NEW t \in Threads, OutputWaited(t)
       PROVE  Goal
  <2>1. /\ Calm /\ moved' = moved /\ status' = status
        /\ \A u \in Threads \ {t} : stage'[u] = stage[u] /\ call'[u] = call[u]
    BY <1>12 DEF OutputWaited, Go, WaitSettled, WaitTimeout, ReportEnd
  <2>2. CASE call[t] # j
    BY <1>1, <1>2, <2>1, <2>2 DEF Goal
  <2>3. CASE call[t] = j
    <3>1. on[t] = j
      BY <1>0, <1>12, <2>3 DEF OutputWaited, WaitSettled, WaitTimeout, Return,
                               ThreadsInPlace
    <3>2. status[j] \in Terminal => reported'[j]
      BY <1>0, <1>12, <3>1 DEF OutputWaited, WaitSettled, WaitTimeout, ReportEnd,
                               Live, Terminal
    <3> QED
      BY <1>1, <1>2, <2>1, <3>2 DEF Goal
  <2> QED
    BY <2>2, <2>3
<1>13. ASSUME Boot \/ UNCHANGED hostVars
       PROVE  Goal
  <2>1. /\ Calm /\ moved' = moved /\ status' = status
        /\ stage' = stage /\ call' = call
    BY <1>13 DEF Boot, OnJobDone, hostVars, vars
  <2> QED
    BY <1>3, <2>1
<1> QED
  BY <1>4, <1>5, <1>6, <1>7, <1>8, <1>9, <1>10, <1>11, <1>12, <1>13
  DEF HostNext, ToolStep, Goal

\* Whatever else happens (grace periods, interrupted turns, kills and reads of
\* the user, pruning, any number of calls about one job): a job that still ran
\* when the model was given its id ends in silence only if its end was marked
\* as seen.
THEOREM SilenceIsWitnessed == HostSpec => []SilentEndsWereSeen
<1>1. HostInit => GraceHasOneThread /\ EndIsHeard
  BY DEF HostInit, Init, GraceHasOneThread, Gracing, EndIsHeard
<1>2. HostInductive /\ GraceHasOneThread /\ EndIsHeard /\ [HostNext]_hostVars
        => (GraceHasOneThread /\ EndIsHeard)'
  BY GraceHasOneThreadStep, EndIsHeardStep DEF HostInductive, Inductive
<1>3. EndIsHeard => SilentEndsWereSeen
  <2> SUFFICES ASSUME EndIsHeard, NEW j \in Jobs, moved[j] = "running", Quiet(j)
               PROVE  told[j] # {} \/ reported[j]
    BY DEF SilentEndsWereSeen
  <2> QED
    BY DEF EndIsHeard, Quiet
<1> QED
  BY <1>1, <1>2, <1>3, HostInvariant, PTL DEF HostSpec

=============================================================================

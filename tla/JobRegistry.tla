---------------------------- MODULE JobRegistry -----------------------------
(***************************************************************************)
(* The background-job registry, src/jobs/jobs.go.                          *)
(*                                                                         *)
(* Every exported operation takes Registry.mu for its whole body, except   *)
(* Wait and AwaitBudget, which block between two critical sections, and    *)
(* the settle goroutine, which calls the listeners after it has unlocked.  *)
(* So an action is one critical section; a thread that blocks keeps its    *)
(* place in pc and on, and a settle goroutine keeps in calls the listeners *)
(* it copied under the lock and has not called yet.                        *)
(*                                                                         *)
(* A client may call any operation at any time: the module states what the *)
(* registry guarantees whoever uses it.  BackgroundJobs adds the protocol  *)
(* the host follows.  A *Job outlives its table entry (waiters and the     *)
(* settle goroutine hold the pointer), so the fields of a job are          *)
(* functions over all ids and the table is a set of ids.                   *)
(***************************************************************************)
EXTENDS Naturals, FiniteSets

CONSTANTS Jobs,        \* job ids; newJobID issues each at most once
          Sessions,    \* sessions that own jobs and call operations
          NoOwner,     \* the empty owner: open to every caller
          NoJob,       \* the place of a thread that is not blocked
          Threads,     \* goroutines that may block in Wait or AwaitBudget
          Listeners,   \* completion listeners
          Streams,     \* which producers are there: {FALSE} final-output
                       \* ones only, TRUE for those with a ReadOutput hook
          Texts,       \* output texts, told apart as empty or not
          MaxRetained, \* maxRetainedJobs
          MaxReads     \* where the two read counters saturate

ASSUME JobsAssumption == IsFiniteSet(Jobs) /\ NoJob \notin Jobs
ASSUME OwnerAssumption == NoOwner \notin Sessions
ASSUME ProducerAssumption == Streams \subseteq BOOLEAN /\ "" \in Texts
ASSUME RetainedAssumption == MaxRetained \in Nat
ASSUME ReadsAssumption == MaxReads \in Nat

VARIABLES
  \* the fields of a *Job
  status, owner, stream, reported, awaited, output, reads, emptyReads,
  \* Registry.jobs, Registry.order (its elements; rank gives their places),
  \* Registry.doneListeners
  table, order, rank, listeners,
  \* the producer: what it has put on Done, whether Cancel was called
  outcome, cancelled,
  \* the settle goroutine after its critical section: the listeners it still
  \* has to call and the Reported flag of the snapshot it hands them
  calls, snapReported,
  \* history: the listeners that have been called for the job
  notified,
  \* the goroutines blocked inside Wait and AwaitBudget
  pc, on

jobVars == <<status, owner, stream, reported, awaited, output, reads, emptyReads>>
regVars == <<table, order, rank, listeners>>
prodVars == <<outcome, cancelled>>
callVars == <<calls, snapReported, notified>>
waitVars == <<pc, on>>
vars == <<jobVars, regVars, prodVars, callVars, waitVars>>

Live     == {"running", "stopping"}
Terminal == {"completed", "killed", "failed"}

\* What a producer may deliver on Done: any status, valid or not.
Outcomes == [status : Terminal \cup {"invalid"}, text : Texts]
Pending  == [status |-> "pending", text |-> ""]

TypeOK ==
  /\ status \in [Jobs -> {"none"} \cup Live \cup Terminal]
  /\ owner \in [Jobs -> Sessions \cup {NoOwner}]
  /\ stream \in [Jobs -> BOOLEAN]
  /\ reported \in [Jobs -> BOOLEAN]
  /\ awaited \in [Jobs -> BOOLEAN]
  /\ output \in [Jobs -> Texts]
  /\ reads \in [Jobs -> 0..MaxReads]
  /\ emptyReads \in [Jobs -> 0..MaxReads]
  /\ table \in SUBSET Jobs
  /\ order \in SUBSET Jobs
  /\ rank \in [Jobs -> Nat]
  /\ listeners \in SUBSET Listeners
  /\ outcome \in [Jobs -> Outcomes \cup {Pending}]
  /\ cancelled \in [Jobs -> BOOLEAN]
  /\ calls \in [Jobs -> SUBSET Listeners]
  /\ snapReported \in [Jobs -> BOOLEAN]
  /\ notified \in [Jobs -> SUBSET Listeners]
  /\ pc \in [Threads -> {"idle", "wait", "budget"}]
  /\ on \in [Threads -> Jobs \cup {NoJob}]

Init ==
  /\ status = [j \in Jobs |-> "none"]
  /\ owner = [j \in Jobs |-> NoOwner]
  /\ stream = [j \in Jobs |-> FALSE]
  /\ reported = [j \in Jobs |-> FALSE]
  /\ awaited = [j \in Jobs |-> FALSE]
  /\ output = [j \in Jobs |-> ""]
  /\ reads = [j \in Jobs |-> 0]
  /\ emptyReads = [j \in Jobs |-> 0]
  /\ table = {} /\ order = {}
  /\ rank = [j \in Jobs |-> 0]
  /\ listeners = {}
  /\ outcome = [j \in Jobs |-> Pending]
  /\ cancelled = [j \in Jobs |-> FALSE]
  /\ calls = [j \in Jobs |-> {}]
  /\ snapReported = [j \in Jobs |-> FALSE]
  /\ notified = [j \in Jobs |-> {}]
  /\ pc = [t \in Threads |-> "idle"]
  /\ on = [t \in Threads |-> NoJob]

-----------------------------------------------------------------------------
(* Starting, settling and notifying.                                       *)

Started == {j \in Jobs : status[j] # "none"}

\* Register a started producer.  What the producer did before registration
\* is seen by nobody before it, so a job is born running.
Start(j, own, str) ==
  /\ status[j] = "none"
  /\ status' = [status EXCEPT ![j] = "running"]
  /\ owner' = [owner EXCEPT ![j] = own]
  /\ stream' = [stream EXCEPT ![j] = str]
  /\ table' = table \cup {j}
  /\ order' = order \cup {j}
  /\ rank' = [rank EXCEPT ![j] = Cardinality(Started)]
  /\ UNCHANGED <<reported, awaited, output, reads, emptyReads, listeners>>
  /\ UNCHANGED <<prodVars, callVars, waitVars>>

\* The producer hands its outcome to the one-place channel Done.
Deliver(j, o) ==
  /\ status[j] \in Live
  /\ outcome[j] = Pending
  /\ outcome' = [outcome EXCEPT ![j] = o]
  /\ UNCHANGED <<jobVars, regVars, cancelled, callVars, waitVars>>

\* Bugs: pruning one job too late, or from the wrong end.
EvictedOneLate(st) ==
  LET ended == {j \in order : st[j] \in Terminal}
  IN  {j \in ended :
         Cardinality({k \in ended : rank[k] > rank[j]}) > MaxRetained}

EvictedYoungest(st) ==
  LET ended == {j \in order : st[j] \in Terminal}
  IN  {j \in ended :
         Cardinality({k \in ended : rank[k] < rank[j]}) >= MaxRetained}

\* pruneLocked: of the terminal jobs in the start order, the oldest beyond
\* the limit, i.e. those that have MaxRetained younger terminal jobs.
Evicted(st) ==
  LET ended == {j \in order : st[j] \in Terminal}
  IN  {j \in ended :
         Cardinality({k \in ended : rank[k] > rank[j]}) >= MaxRetained}

\* A bug: the producer's status is stored as it comes.
SettledAsGiven(o) == o.status

\* The terminal status the registry records; an invalid one is a failure.
Settled(o) == IF o.status \in Terminal THEN o.status ELSE "failed"

\* The output it keeps: a failed job's text is not stored.
Kept(o) == IF Settled(o) = "failed" THEN "" ELSE o.text

\* The settle goroutine receives the outcome and enters its critical section.
\* Nobody is called for a job that a caller awaits.
Settle(j) ==
  LET end  == [status EXCEPT ![j] = Settled(outcome[j])]
      gone == Evicted(end)
  IN  /\ status[j] \in Live
      /\ outcome[j] # Pending
      /\ status' = end
      /\ output' = [output EXCEPT ![j] = Kept(outcome[j])]
      /\ table' = table \ gone
      /\ order' = order \ gone
      /\ calls' = [calls EXCEPT ![j] = IF awaited[j] THEN {} ELSE listeners]
      /\ snapReported' = [snapReported EXCEPT ![j] = reported[j]]
      /\ UNCHANGED <<owner, stream, reported, awaited, reads, emptyReads>>
      /\ outcome' = [outcome EXCEPT ![j] = Pending]
      /\ UNCHANGED <<rank, listeners, notified, cancelled, waitVars>>

\* A bug: a listener that was unregistered meanwhile is skipped.
CallRegisteredListener(j, l) ==
  /\ l \in calls[j] \cap listeners
  /\ calls' = [calls EXCEPT ![j] = @ \ {l}]
  /\ notified' = [notified EXCEPT ![j] = @ \cup {l}]
  /\ UNCHANGED <<jobVars, regVars, prodVars, snapReported, waitVars>>

\* It then calls the copied listeners, in map order and without the lock.
CallListener(j, l) ==
  /\ l \in calls[j]
  /\ calls' = [calls EXCEPT ![j] = @ \ {l}]
  /\ notified' = [notified EXCEPT ![j] = @ \cup {l}]
  /\ UNCHANGED <<jobVars, regVars, prodVars, snapReported, waitVars>>

OnJobDone(l) ==
  /\ l \notin listeners
  /\ listeners' = listeners \cup {l}
  /\ UNCHANGED <<jobVars, table, order, rank, prodVars, callVars, waitVars>>

CancelListener(l) ==
  /\ l \in listeners
  /\ listeners' = listeners \ {l}
  /\ UNCHANGED <<jobVars, table, order, rank, prodVars, callVars, waitVars>>

-----------------------------------------------------------------------------
(* Reading and killing.                                                    *)

\* authorize: the job is in the table and the caller may see it.
Authorized(j, caller) ==
  /\ j \in table
  /\ owner[j] \in {NoOwner, caller}

\* The model counts up to MaxReads only.
Count(n) == IF n < MaxReads THEN n + 1 ELSE n

\* readLocked.  Before the end, and for a stream job ever, a read returns
\* what the producer hands out and leaves the record alone; the read of a
\* final output marks the job reported and counts.
ReadFinal(j) ==
  /\ ~stream[j]
  /\ status[j] \in Terminal
  /\ reported' = [reported EXCEPT ![j] = TRUE]
  /\ reads' = [reads EXCEPT ![j] = Count(@)]
  /\ UNCHANGED <<status, owner, stream, awaited, output, emptyReads>>
  /\ UNCHANGED <<regVars, prodVars, callVars, waitVars>>

Read(j, caller) == Authorized(j, caller) /\ ReadFinal(j)
ReadHost(j)     == j \in table /\ ReadFinal(j)

NoteEmptyRead(j, caller) ==
  /\ Authorized(j, caller)
  /\ emptyReads' = [emptyReads EXCEPT ![j] = Count(@)]
  /\ UNCHANGED <<status, owner, stream, reported, awaited, output, reads>>
  /\ UNCHANGED <<regVars, prodVars, callVars, waitVars>>

\* Bugs: the stop is not marked as reported, does not reach the producer,
\* restarts the life of a finished job, or leaves a status nobody knows.
StopUnreported(j) ==
  /\ status[j] \in Live
  /\ status' = [status EXCEPT ![j] = "stopping"]
  /\ cancelled' = [cancelled EXCEPT ![j] = TRUE]
  /\ UNCHANGED <<owner, stream, reported, awaited, output, reads, emptyReads>>
  /\ UNCHANGED <<regVars, outcome, callVars, waitVars>>

StopWithoutCancel(j) ==
  /\ status[j] \in Live
  /\ status' = [status EXCEPT ![j] = "stopping"]
  /\ reported' = [reported EXCEPT ![j] = TRUE]
  /\ UNCHANGED <<owner, stream, awaited, output, reads, emptyReads>>
  /\ UNCHANGED <<regVars, prodVars, callVars, waitVars>>

StopAnyJob(j) ==
  /\ status' = [status EXCEPT ![j] = "stopping"]
  /\ reported' = [reported EXCEPT ![j] = TRUE]
  /\ cancelled' = [cancelled EXCEPT ![j] = TRUE]
  /\ UNCHANGED <<owner, stream, awaited, output, reads, emptyReads>>
  /\ UNCHANGED <<regVars, outcome, callVars, waitVars>>

StopAsCancelled(j) ==
  /\ status[j] \in Live
  /\ status' = [status EXCEPT ![j] = "cancelled"]
  /\ reported' = [reported EXCEPT ![j] = TRUE]
  /\ cancelled' = [cancelled EXCEPT ![j] = TRUE]
  /\ UNCHANGED <<owner, stream, awaited, output, reads, emptyReads>>
  /\ UNCHANGED <<regVars, outcome, callVars, waitVars>>

\* killLocked.  A finished job is left alone; otherwise the producer's Cancel
\* runs inside the critical section.
RequestStop(j) ==
  /\ status[j] \in Live
  /\ status' = [status EXCEPT ![j] = "stopping"]
  /\ reported' = [reported EXCEPT ![j] = TRUE]
  /\ cancelled' = [cancelled EXCEPT ![j] = TRUE]
  /\ UNCHANGED <<owner, stream, awaited, output, reads, emptyReads>>
  /\ UNCHANGED <<regVars, outcome, callVars, waitVars>>

Kill(j, caller) == Authorized(j, caller) /\ RequestStop(j)
KillHost(j)     == j \in table /\ RequestStop(j)

-----------------------------------------------------------------------------
(* Waiting.                                                                *)

SetAwaited(j, v) ==
  /\ j \in table
  /\ awaited' = [awaited EXCEPT ![j] = v]
  /\ UNCHANGED <<status, owner, stream, reported, output, reads, emptyReads>>
  /\ UNCHANGED <<regVars, prodVars, callVars>>

Claim(j)   == SetAwaited(j, TRUE) /\ UNCHANGED waitVars
Release(j) == SetAwaited(j, FALSE) /\ UNCHANGED waitVars

\* A bug: the record is deleted and its place in the order is not.
DiscardKeepsOrder(j) ==
  /\ j \in table
  /\ table' = table \ {j}
  /\ UNCHANGED <<jobVars, order, rank, listeners, prodVars, callVars, waitVars>>

Discard(j) ==
  /\ j \in table
  /\ table' = table \ {j}
  /\ order' = order \ {j}
  /\ UNCHANGED <<jobVars, rank, listeners, prodVars, callVars, waitVars>>

Block(t, j, how) ==
  /\ pc[t] = "idle"
  /\ pc' = [pc EXCEPT ![t] = how]
  /\ on' = [on EXCEPT ![t] = j]

Return(t, how) ==
  /\ pc[t] = how
  /\ pc' = [pc EXCEPT ![t] = "idle"]
  /\ on' = [on EXCEPT ![t] = NoJob]

\* Wait registers the claim before it unlocks.  On a finished job it returns
\* at once and changes nothing.
WaitBegin(t, j, caller) ==
  /\ Authorized(j, caller)
  /\ status[j] \in Live
  /\ SetAwaited(j, TRUE)
  /\ Block(t, j, "wait")

ReportEnd(j) ==
  /\ reported' = [reported EXCEPT ![j] = TRUE]
  /\ UNCHANGED <<status, owner, stream, awaited, output, reads, emptyReads>>
  /\ UNCHANGED <<regVars, prodVars, callVars>>

WaitSettled(t) ==
  /\ Return(t, "wait")
  /\ status[on[t]] \in Terminal
  /\ ReportEnd(on[t])

\* Bugs: the time-out counts as having seen the end, or leaves the claim.
WaitTimeoutReports(t) ==
  /\ Return(t, "wait")
  /\ ReportEnd(on[t])

WaitTimeoutKeepsClaim(t) ==
  /\ Return(t, "wait")
  /\ \/ status[on[t]] \in Terminal /\ ReportEnd(on[t])
     \/ status[on[t]] \in Live /\ UNCHANGED <<jobVars, regVars, prodVars, callVars>>

\* The timer fires.  A job that settled at that very moment counts as read;
\* otherwise the claim is withdrawn.  The record is reached through the
\* pointer, so it does not matter whether the table still holds it.
WaitTimeout(t) ==
  /\ Return(t, "wait")
  /\ \/ /\ status[on[t]] \in Terminal
        /\ ReportEnd(on[t])
     \/ /\ status[on[t]] \in Live
        /\ awaited' = [awaited EXCEPT ![on[t]] = FALSE]
        /\ UNCHANGED <<status, owner, stream, reported, output, reads, emptyReads>>
        /\ UNCHANGED <<regVars, prodVars, callVars>>

\* AwaitBudget changes no record; it returns at once when the job is unknown
\* or has ended, and otherwise blocks.
BudgetBegin(t, j) ==
  /\ j \in table
  /\ status[j] \in Live
  /\ Block(t, j, "budget")
  /\ UNCHANGED <<jobVars, regVars, prodVars, callVars>>

BudgetSettled(t) ==
  /\ Return(t, "budget")
  /\ status[on[t]] \in Terminal
  /\ UNCHANGED <<jobVars, regVars, prodVars, callVars>>

\* The timer branch of the select may be taken although the job has settled.
BudgetTimeout(t) ==
  /\ Return(t, "budget")
  /\ UNCHANGED <<jobVars, regVars, prodVars, callVars>>

-----------------------------------------------------------------------------
Callers == Sessions \cup {NoOwner}

\* A bug: no timer.
WaitStepUntimed(t) == WaitSettled(t) \/ BudgetSettled(t)

WaitStep(t) == \/ WaitSettled(t) \/ WaitTimeout(t)
               \/ BudgetSettled(t) \/ BudgetTimeout(t)

Next ==
  \/ \E j \in Jobs :
       \/ \E own \in Callers, str \in Streams : Start(j, own, str)
       \/ \E o \in Outcomes : Deliver(j, o)
       \/ Settle(j)
       \/ \E l \in Listeners : CallListener(j, l)
       \/ \E c \in Callers : \/ Read(j, c)
                             \/ NoteEmptyRead(j, c)
                             \/ Kill(j, c)
       \/ ReadHost(j)
       \/ KillHost(j)
       \/ Claim(j)
       \/ Release(j)
       \/ Discard(j)
       \/ \E t \in Threads : \/ \E c \in Callers : WaitBegin(t, j, c)
                             \/ BudgetBegin(t, j)
  \/ \E l \in Listeners : OnJobDone(l) \/ CancelListener(l)
  \/ \E t \in Threads : WaitStep(t)

Spec == Init /\ [][Next]_vars

(***************************************************************************)
(* The scheduler runs every goroutine that can run: settle goroutines      *)
(* finish and timers fire.  A producer owes an outcome only once it has    *)
(* been cancelled (the contract of JobHooks.Cancel); clients owe nothing.  *)
(***************************************************************************)
Fairness ==
  /\ \A j \in Jobs :
       /\ WF_vars(Settle(j))
       /\ \A l \in Listeners : WF_vars(CallListener(j, l))
       /\ WF_vars(cancelled[j] /\ \E o \in Outcomes : Deliver(j, o))
  /\ \A t \in Threads : WF_vars(WaitStep(t))

FairSpec == Spec /\ Fairness

-----------------------------------------------------------------------------
(* Safety.                                                                 *)

\* Registry.order lists exactly the jobs of Registry.jobs: pruneLocked, List
\* and ListAll dereference r.jobs[id] for every listed id without a check,
\* so an id left in the order after its record was deleted is a panic.
OrderMatchesTable == order = table

\* However jobs are started, settled and discarded, the table never holds
\* more ended jobs than maxRetainedJobs when the lock is free.
Retention == Cardinality({j \in table : status[j] \in Terminal}) <= MaxRetained

\* Reported is raised only for a job whose end somebody asked for or saw: a
\* waiter whose time ran out, a Claim or a read of a running job must not
\* raise it, or the completion notice would be suppressed for nothing.  A job
\* whose final output was counted as read is such a job.
ReportedWasSeen ==
  \A j \in Jobs : /\ reported[j] => status[j] \in Terminal \cup {"stopping"}
                  /\ reads[j] > 0 => reported[j] /\ status[j] \in Terminal

\* A listener is handed a snapshot of an ended job, never hears of the same
\* job twice, and the snapshot never claims to be unreported when the job was
\* killed: the manager drops notices by that flag.
NoticesAreSound ==
  \A j \in Jobs :
    /\ calls[j] \cup notified[j] # {} => status[j] \in Terminal
    /\ calls[j] \cap notified[j] = {}
    /\ calls[j] # {} /\ cancelled[j] => snapReported[j]

(* What a step may never do.                                               *)

\* When a settlement makes the registry forget jobs, it forgets ended jobs
\* only, and older ones before younger ones.
OldestEndedGoFirst ==
  [][status' # status =>
       \A j \in table \ table' :
         /\ status'[j] \in Terminal
         /\ \A k \in table' : status'[k] \in Terminal => rank[j] < rank[k]]_vars

\* The registry implements the promise of JobLifecycle.
Lifecycle == INSTANCE JobLifecycle WITH phase <- status, heard <- notified
ImplementsLifecycle == Lifecycle!Spec

(* Liveness.                                                               *)

\* A job that was asked to stop ends: Kill really reaches the producer.
KilledJobsEnd ==
  \A j \in Jobs : status[j] = "stopping" ~> status[j] \in Terminal

\* Every listener copied at the settlement is called, even one that is
\* unregistered in the meantime.
CopiedListenersAreCalled ==
  \A j \in Jobs, l \in Listeners : l \in calls[j] ~> l \in notified[j]

\* Nobody blocks in Wait or AwaitBudget for ever, whatever happens to the
\* job: not when it is discarded or pruned, not when it never ends.
WaitersReturn == \A t \in Threads : pc[t] # "idle" ~> pc[t] = "idle"
=============================================================================

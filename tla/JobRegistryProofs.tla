------------------------- MODULE JobRegistryProofs --------------------------
(***************************************************************************)
(* Proofs about the job registry, for any finite set of job ids and any    *)
(* sets of sessions, threads and listeners.                                *)
(***************************************************************************)
EXTENDS JobRegistry, FiniteSetTheorems, WellFoundedInduction, TLAPS

\* What a blocked thread and a cancelled job imply.
Bookkeeping ==
  /\ \A t \in Threads : pc[t] # "idle" => on[t] \in Jobs
  /\ \A j \in Jobs : cancelled[j] => reported[j]

\* The records are inductive together: a notice is sound because a cancelled
\* job is reported before it settles.
Records == ReportedWasSeen /\ NoticesAreSound /\ Bookkeeping

\* Ranks follow the order of registration, so they tell the jobs apart.
RanksAreDistinct ==
  /\ order \subseteq Started
  /\ \A j \in Started : /\ rank[j] < Cardinality(Started)
                        /\ \A k \in Started : rank[j] = rank[k] => j = k

Inductive == /\ TypeOK
             /\ OrderMatchesTable
             /\ Records
             /\ RanksAreDistinct
             /\ Retention

-----------------------------------------------------------------------------
(* Facts about the operators.                                              *)

LEMMA SettledIsTerminal == \A o \in Outcomes : Settled(o) \in Terminal
  BY DEF Outcomes, Settled, Terminal

LEMMA KeptIsText == \A o \in Outcomes : Kept(o) \in Texts
  BY ProducerAssumption DEF Outcomes, Kept

LEMMA CountInRange == \A n \in 0..MaxReads : Count(n) \in 0..MaxReads
  BY ReadsAssumption DEF Count

LEMMA StartedIsFinite == IsFiniteSet(Started) /\ Cardinality(Started) \in Nat
<1>1. Started \subseteq Jobs
  BY DEF Started
<1>2. IsFiniteSet(Started)
  BY <1>1, JobsAssumption, FS_Subset
<1> QED
  BY <1>2, FS_CardinalityType

-----------------------------------------------------------------------------
(* Type correctness.                                                       *)

\* A step that leaves every variable unchanged preserves whatever is said of
\* the state; so does each operation, for the types.
LEMMA TypeStep == ASSUME TypeOK, Bookkeeping, [Next]_vars
                  PROVE  TypeOK'
<1> USE DEF TypeOK, Live, Terminal, jobVars, regVars, prodVars, callVars, waitVars
<1>1. ASSUME NEW j \in Jobs, NEW own \in Callers, NEW str \in Streams,
             Start(j, own, str)
      PROVE  TypeOK'
  BY <1>1, StartedIsFinite, ProducerAssumption DEF Start, Callers
<1>2. ASSUME NEW j \in Jobs, NEW o \in Outcomes, Deliver(j, o)
      PROVE  TypeOK'
  BY <1>2 DEF Deliver
<1>3. ASSUME NEW j \in Jobs, Settle(j)
      PROVE  TypeOK'
  <2>1. outcome[j] \in Outcomes
    BY <1>3 DEF Settle
  <2>2. /\ Settled(outcome[j]) \in Terminal
        /\ Kept(outcome[j]) \in Texts
    BY <2>1, SettledIsTerminal, KeptIsText
  <2> QED
    BY <1>3, <2>2 DEF Settle
<1>4. ASSUME NEW j \in Jobs, NEW l \in Listeners, CallListener(j, l)
      PROVE  TypeOK'
  BY <1>4 DEF CallListener
<1>5. ASSUME NEW j \in Jobs, ReadFinal(j)
      PROVE  TypeOK'
  BY <1>5, CountInRange DEF ReadFinal
<1>6. ASSUME NEW j \in Jobs, NEW c \in Callers, NoteEmptyRead(j, c)
      PROVE  TypeOK'
  BY <1>6, CountInRange DEF NoteEmptyRead
<1>7. ASSUME NEW j \in Jobs, RequestStop(j)
      PROVE  TypeOK'
  BY <1>7 DEF RequestStop
<1>8. ASSUME NEW j \in Jobs, Claim(j) \/ Release(j)
      PROVE  TypeOK'
  BY <1>8 DEF Claim, Release, SetAwaited
<1>9. ASSUME NEW j \in Jobs, Discard(j)
      PROVE  TypeOK'
  BY <1>9 DEF Discard
<1>10. ASSUME NEW l \in Listeners, OnJobDone(l) \/ CancelListener(l)
       PROVE  TypeOK'
  BY <1>10 DEF OnJobDone, CancelListener
<1>11. ASSUME NEW t \in Threads, NEW j \in Jobs, NEW c \in Callers,
              WaitBegin(t, j, c)
       PROVE  TypeOK'
  BY <1>11 DEF WaitBegin, SetAwaited, Block
<1>12. ASSUME NEW t \in Threads, NEW j \in Jobs, BudgetBegin(t, j)
       PROVE  TypeOK'
  BY <1>12 DEF BudgetBegin, Block
<1>13. ASSUME NEW t \in Threads, WaitSettled(t)
       PROVE  TypeOK'
  BY <1>13 DEF WaitSettled, Return, ReportEnd
<1>14. ASSUME NEW t \in Threads, WaitTimeout(t)
       PROVE  TypeOK'
  BY <1>14 DEF WaitTimeout, Return, ReportEnd
<1>15. ASSUME NEW t \in Threads, BudgetSettled(t) \/ BudgetTimeout(t)
       PROVE  TypeOK'
  BY <1>15 DEF BudgetSettled, BudgetTimeout, Return
<1>16. CASE UNCHANGED vars
  BY <1>16 DEF vars
<1> QED
  BY <1>1, <1>2, <1>3, <1>4, <1>5, <1>6, <1>7, <1>8, <1>9, <1>10, <1>11,
     <1>12, <1>13, <1>14, <1>15, <1>16
  DEF Next, WaitStep, Read, ReadHost, Kill, KillHost

-----------------------------------------------------------------------------
(* The table and its order.                                                *)

\* Four operations change a status or the table; the others leave them alone.
LEMMA TableMoves ==
  ASSUME [Next]_vars
  PROVE  \/ \E j \in Jobs : \/ \E own \in Callers, str \in Streams : Start(j, own, str)
                           \/ Settle(j)
                           \/ RequestStop(j)
                           \/ Discard(j)
         \/ UNCHANGED <<status, table, order, rank>>
<1> USE DEF jobVars, regVars
<1>1. ASSUME NEW j \in Jobs,
             \/ \E o \in Outcomes : Deliver(j, o)
             \/ \E l \in Listeners : CallListener(j, l)
             \/ ReadFinal(j) \/ Claim(j) \/ Release(j)
             \/ \E c \in Callers : NoteEmptyRead(j, c)
      PROVE  UNCHANGED <<status, table, order, rank>>
  BY <1>1 DEF Deliver, CallListener, ReadFinal, NoteEmptyRead, Claim, Release,
              SetAwaited
<1>2. ASSUME NEW t \in Threads,
             \/ WaitStep(t)
             \/ \E j \in Jobs : \/ \E c \in Callers : WaitBegin(t, j, c)
                               \/ BudgetBegin(t, j)
      PROVE  UNCHANGED <<status, table, order, rank>>
  BY <1>2 DEF WaitStep, WaitSettled, WaitTimeout, BudgetSettled, BudgetTimeout,
              ReportEnd, WaitBegin, SetAwaited, BudgetBegin
<1>3. ASSUME NEW l \in Listeners, OnJobDone(l) \/ CancelListener(l)
      PROVE  UNCHANGED <<status, table, order, rank>>
  BY <1>3 DEF OnJobDone, CancelListener
<1>4. ASSUME UNCHANGED vars
      PROVE  UNCHANGED <<status, table, order, rank>>
  BY <1>4 DEF vars
<1> QED
  BY <1>1, <1>2, <1>3, <1>4 DEF Next, Read, ReadHost, Kill, KillHost

\* Every operation that removes ids removes them from both.
LEMMA TableStep == ASSUME OrderMatchesTable, [Next]_vars
                   PROVE  OrderMatchesTable'
<1> USE DEF OrderMatchesTable
<1>1. ASSUME NEW j \in Jobs, Settle(j)
      PROVE  OrderMatchesTable'
  BY <1>1 DEF Settle
<1>2. ASSUME NEW j \in Jobs,
             \/ \E own \in Callers, str \in Streams : Start(j, own, str)
             \/ RequestStop(j)
             \/ Discard(j)
      PROVE  OrderMatchesTable'
  BY <1>2 DEF Start, RequestStop, Discard, regVars
<1> QED
  BY <1>1, <1>2, TableMoves

-----------------------------------------------------------------------------
(* The Reported flag, the notices and the bookkeeping.                     *)

LEMMA RecordsStep == ASSUME TypeOK, Records, [Next]_vars
                     PROVE  Records'
<1> USE DEF Records, TypeOK, ReportedWasSeen, NoticesAreSound, Bookkeeping,
            Live, Terminal, jobVars, regVars, prodVars, callVars, waitVars
<1>1. ASSUME NEW j \in Jobs, NEW own \in Callers, NEW str \in Streams,
             Start(j, own, str)
      PROVE  Records'
  BY <1>1 DEF Start
<1>2. ASSUME NEW j \in Jobs, NEW o \in Outcomes, Deliver(j, o)
      PROVE  Records'
  BY <1>2 DEF Deliver
<1>3. ASSUME NEW j \in Jobs, Settle(j)
      PROVE  Records'
  <2>1. Settled(outcome[j]) \in Terminal
    BY <1>3, SettledIsTerminal DEF Settle
  <2> QED
    BY <1>3, <2>1 DEF Settle
<1>4. ASSUME NEW j \in Jobs, NEW l \in Listeners, CallListener(j, l)
      PROVE  Records'
  BY <1>4 DEF CallListener
<1>5. ASSUME NEW j \in Jobs, ReadFinal(j)
      PROVE  Records'
  BY <1>5 DEF ReadFinal
<1>6. ASSUME NEW j \in Jobs, NEW c \in Callers, NoteEmptyRead(j, c)
      PROVE  Records'
  BY <1>6 DEF NoteEmptyRead
<1>7. ASSUME NEW j \in Jobs, RequestStop(j)
      PROVE  Records'
  BY <1>7 DEF RequestStop
<1>8. ASSUME NEW j \in Jobs, Claim(j) \/ Release(j)
      PROVE  Records'
  BY <1>8 DEF Claim, Release, SetAwaited
<1>9. ASSUME NEW j \in Jobs, Discard(j)
      PROVE  Records'
  BY <1>9 DEF Discard
<1>10. ASSUME NEW l \in Listeners, OnJobDone(l) \/ CancelListener(l)
       PROVE  Records'
  BY <1>10 DEF OnJobDone, CancelListener
<1>11. ASSUME NEW t \in Threads, NEW j \in Jobs, NEW c \in Callers,
              WaitBegin(t, j, c)
       PROVE  Records'
  BY <1>11 DEF WaitBegin, SetAwaited, Block
<1>12. ASSUME NEW t \in Threads, NEW j \in Jobs, BudgetBegin(t, j)
       PROVE  Records'
  BY <1>12 DEF BudgetBegin, Block
<1>13. ASSUME NEW t \in Threads, WaitSettled(t)
       PROVE  Records'
  BY <1>13 DEF WaitSettled, Return, ReportEnd
<1>14. ASSUME NEW t \in Threads, WaitTimeout(t)
       PROVE  Records'
  BY <1>14 DEF WaitTimeout, Return, ReportEnd
<1>15. ASSUME NEW t \in Threads, BudgetSettled(t) \/ BudgetTimeout(t)
       PROVE  Records'
  BY <1>15 DEF BudgetSettled, BudgetTimeout, Return
<1>16. CASE UNCHANGED vars
  BY <1>16 DEF vars
<1> QED
  BY <1>1, <1>2, <1>3, <1>4, <1>5, <1>6, <1>7, <1>8, <1>9, <1>10, <1>11,
     <1>12, <1>13, <1>14, <1>15, <1>16
  DEF Next, WaitStep, Read, ReadHost, Kill, KillHost

-----------------------------------------------------------------------------
(* The retention of ended jobs.                                            *)

\* A nonempty set of jobs has an oldest member.
LEMMA OldestExists ==
  ASSUME NEW f \in [Jobs -> Nat], NEW S \in SUBSET Jobs, S # {}
  PROVE  \E x \in S : \A y \in S : f[x] <= f[y]
<1> DEFINE T == {f[x] : x \in S}
<1>1. T \subseteq Nat /\ T # {}
  OBVIOUS
<1> HIDE DEF T
<1>2. PICK n \in T : \A m \in T : ~ (<<m, n>> \in OpToRel(<, Nat))
  BY <1>1, NatLessThanWellFounded, WFMin
<1>3. \A m \in T : ~ (m < n)
  BY <1>1, <1>2 DEF OpToRel
<1>4. PICK x \in S : f[x] = n
  BY DEF T
<1>5. \A y \in S : ~ (f[y] < f[x])
  BY <1>3, <1>4 DEF T
<1> QED
  BY <1>4, <1>5

\* The core of pruneLocked, for any set of ended jobs with distinct ranks:
\* those with fewer than limit younger ones are at most limit many.
LEMMA YoungestAreFew ==
  ASSUME NEW f \in [Jobs -> Nat], NEW E \in SUBSET Jobs, NEW limit \in Nat,
         \A j, k \in E : f[j] = f[k] => j = k
  PROVE  Cardinality({j \in E : ~ (Cardinality({k \in E : f[k] > f[j]}) >= limit)})
           <= limit
<1> DEFINE Younger(j) == {k \in E : f[k] > f[j]}
           R == {j \in E : ~ (Cardinality(Younger(j)) >= limit)}
<1>1. IsFiniteSet(E) /\ \A S \in SUBSET E : IsFiniteSet(S) /\ Cardinality(S) \in Nat
  <2>1. IsFiniteSet(E)
    BY JobsAssumption, FS_Subset
  <2>2. ASSUME NEW S \in SUBSET E PROVE IsFiniteSet(S)
    BY <2>1, <2>2, FS_Subset
  <2> QED
    BY <2>1, <2>2, FS_CardinalityType
<1>2. CASE R = {}
  <2> HIDE DEF R
  <2>1. Cardinality(R) = 0
    BY <1>2, FS_EmptySet
  <2>2. Cardinality(R) <= limit
    BY <2>1
  <2> QED
    BY <2>2 DEF R
<1>3. CASE R # {}
  <2>1. PICK x \in R : \A y \in R : f[x] <= f[y]
    BY <1>3, OldestExists
  <2>2. R \subseteq Younger(x) \cup {x}
    BY <2>1
  <2>3. /\ IsFiniteSet(Younger(x))
        /\ Cardinality(Younger(x)) \in Nat
        /\ Cardinality(Younger(x)) < limit
        /\ x \notin Younger(x)
    BY <1>1, <2>1
  <2> HIDE DEF R, Younger
  <2>4. /\ IsFiniteSet(Younger(x) \cup {x})
        /\ Cardinality(Younger(x) \cup {x}) = Cardinality(Younger(x)) + 1
    BY <2>3, FS_AddElement
  <2>5. Cardinality(R) <= Cardinality(Younger(x)) + 1
    BY <2>2, <2>4, FS_Subset
  <2>6. R \subseteq E
    BY DEF R
  <2>7. Cardinality(R) \in Nat
    BY <1>1, <2>6
  <2>8. Cardinality(R) <= limit
    BY <2>3, <2>5, <2>7
  <2> QED
    BY <2>8 DEF R, Younger
<1> QED
  BY <1>2, <1>3

\* Registration gives the new job the highest rank; no other operation starts
\* a job or changes a rank, and the order only shrinks.
LEMMA RanksStep == ASSUME TypeOK, Bookkeeping, RanksAreDistinct, [Next]_vars
                   PROVE  RanksAreDistinct'
<1> USE DEF TypeOK, Bookkeeping, jobVars, regVars
<1>1. ASSUME NEW j \in Jobs, NEW own \in Callers, NEW str \in Streams,
             Start(j, own, str)
      PROVE  RanksAreDistinct'
  <2> DEFINE n == Cardinality(Started)
  <2>1. /\ Started' = Started \cup {j} /\ j \notin Started
        /\ order' = order \cup {j}
        /\ rank' = [rank EXCEPT ![j] = n]
        /\ Started \subseteq Jobs
    BY <1>1 DEF Start, Started
  <2>2. n \in Nat /\ Cardinality(Started') = n + 1
    BY <2>1, StartedIsFinite, FS_AddElement
  <2>3. /\ rank'[j] = n
        /\ \A k \in Started : rank'[k] = rank[k] /\ rank[k] < n /\ rank[k] \in Nat
    BY <2>1 DEF RanksAreDistinct
  <2>4. order' \subseteq Started'
    BY <2>1 DEF RanksAreDistinct
  <2> HIDE DEF n
  <2>5. \A k \in Started' : rank'[k] < Cardinality(Started')
    BY <2>1, <2>2, <2>3
  <2>6. \A k, m \in Started' : rank'[k] = rank'[m] => k = m
    BY <2>1, <2>2, <2>3 DEF RanksAreDistinct
  <2> QED
    BY <2>4, <2>5, <2>6 DEF RanksAreDistinct
<1>2. ASSUME Started' = Started, rank' = rank, order' \subseteq order
      PROVE  RanksAreDistinct'
  BY <1>2 DEF RanksAreDistinct
<1>3. ASSUME NEW j \in Jobs, Settle(j)
      PROVE  Started' = Started /\ rank' = rank /\ order' \subseteq order
  <2>1. Settled(outcome[j]) \in Terminal
    BY <1>3, SettledIsTerminal DEF Settle
  <2> QED
    BY <1>3, <2>1 DEF Settle, Started, Live, Terminal
<1>4. ASSUME NEW j \in Jobs, RequestStop(j)
      PROVE  Started' = Started /\ rank' = rank /\ order' \subseteq order
  BY <1>4 DEF RequestStop, Started, Live
<1>5. ASSUME NEW j \in Jobs, Discard(j)
      PROVE  Started' = Started /\ rank' = rank /\ order' \subseteq order
  BY <1>5 DEF Discard, Started
<1>6. ASSUME UNCHANGED <<status, rank, order>>
      PROVE  Started' = Started /\ rank' = rank /\ order' \subseteq order
  BY <1>6 DEF Started
<1> QED
  BY <1>1, <1>2, <1>3, <1>4, <1>5, <1>6, TableMoves

\* The ended jobs of the table.
Ended == {j \in table : status[j] \in Terminal}

\* Only a settlement adds an ended job, and it prunes in the same step.
LEMMA RetentionStep ==
  ASSUME TypeOK, OrderMatchesTable, Bookkeeping, RanksAreDistinct, Retention,
         [Next]_vars
  PROVE  Retention'
<1> USE DEF TypeOK, jobVars, regVars
<1>1. ASSUME Ended' \subseteq Ended
      PROVE  Retention'
  <2>1. IsFiniteSet(Ended) /\ Ended \subseteq Jobs
    BY JobsAssumption, FS_Subset DEF Ended
  <2>2. IsFiniteSet(Ended') /\ Cardinality(Ended') <= Cardinality(Ended)
    BY <1>1, <2>1, FS_Subset
  <2>3. Cardinality(Ended) \in Nat /\ Cardinality(Ended') \in Nat
    BY <2>1, <2>2, FS_CardinalityType
  <2>4. Cardinality(Ended) <= MaxRetained
    BY DEF Retention, Ended
  <2>5. Cardinality(Ended') <= MaxRetained
    BY <2>2, <2>3, <2>4, RetainedAssumption
  <2> QED
    BY <2>5 DEF Retention, Ended
<1>2. ASSUME NEW j \in Jobs, Settle(j)
      PROVE  Retention'
  <2> DEFINE E == {k \in order : status'[k] \in Terminal}
             R == {k \in E : ~ (Cardinality({m \in E : rank[m] > rank[k]})
                                  >= MaxRetained)}
  <2>1. E \subseteq Jobs /\ \A k, m \in E : rank[k] = rank[m] => k = m
    BY DEF RanksAreDistinct
  <2>2. Cardinality(R) <= MaxRetained
    <3> HIDE DEF E
    <3> QED
      BY <2>1, YoungestAreFew, RetainedAssumption
  <2>3. Ended' = R
    BY <1>2 DEF Ended, Settle, Evicted, OrderMatchesTable
  <2> QED
    BY <2>2, <2>3 DEF Retention, Ended
<1>3. ASSUME NEW j \in Jobs, NEW own \in Callers, NEW str \in Streams,
             Start(j, own, str)
      PROVE  Ended' \subseteq Ended
  BY <1>3 DEF Start, Ended, Terminal
<1>4. ASSUME NEW j \in Jobs, RequestStop(j)
      PROVE  Ended' \subseteq Ended
  BY <1>4 DEF RequestStop, Ended, Terminal
<1>5. ASSUME NEW j \in Jobs, Discard(j)
      PROVE  Ended' \subseteq Ended
  BY <1>5 DEF Discard, Ended
<1>6. ASSUME UNCHANGED <<status, table>>
      PROVE  Ended' \subseteq Ended
  BY <1>6 DEF Ended
<1> QED
  BY <1>1, <1>2, <1>3, <1>4, <1>5, <1>6, TableMoves

-----------------------------------------------------------------------------
(* The theorems.                                                           *)

LEMMA InductiveInit == Init => Inductive
<1> SUFFICES ASSUME Init PROVE Inductive
  OBVIOUS
<1>1. Started = {} /\ table = {} /\ order = {}
  BY DEF Init, Started
<1>2. TypeOK
  <2>1. "" \in Texts
    BY ProducerAssumption
  <2>2. 0 \in 0..MaxReads
    BY ReadsAssumption
  <2> QED
    BY <2>1, <2>2 DEF Init, TypeOK
<1>3. Records
  <2>1. ReportedWasSeen
    <3>1. \A j \in Jobs : ~ reported[j] /\ reads[j] = 0
      BY DEF Init
    <3> QED
      BY <3>1 DEF ReportedWasSeen
  <2>2. NoticesAreSound
    BY DEF Init, NoticesAreSound
  <2>3. Bookkeeping
    BY DEF Init, Bookkeeping
  <2> QED
    BY <2>1, <2>2, <2>3 DEF Records
<1>4. OrderMatchesTable /\ RanksAreDistinct
  BY <1>1 DEF OrderMatchesTable, RanksAreDistinct
<1>5. Retention
  <2>1. {j \in table : status[j] \in Terminal} = {}
    BY <1>1
  <2>2. Cardinality({j \in table : status[j] \in Terminal}) = 0
    BY <2>1, FS_EmptySet
  <2> QED
    BY <2>2, RetainedAssumption DEF Retention
<1> QED
  BY <1>2, <1>3, <1>4, <1>5 DEF Inductive

LEMMA InductiveStep == Inductive /\ [Next]_vars => Inductive'
<1> SUFFICES ASSUME Inductive, [Next]_vars PROVE Inductive'
  OBVIOUS
<1>1. TypeOK /\ OrderMatchesTable /\ Records /\ Bookkeeping
        /\ RanksAreDistinct /\ Retention
  BY DEF Inductive, Records
<1>2. TypeOK' /\ OrderMatchesTable' /\ Records' /\ RanksAreDistinct' /\ Retention'
  BY <1>1, TypeStep, TableStep, RecordsStep, RanksStep, RetentionStep
<1> QED
  BY <1>2 DEF Inductive

\* The invariant that carries the theorems below.
THEOREM InductiveInvariant == Spec => []Inductive
  BY InductiveInit, InductiveStep, PTL DEF Spec

\* Every operation keeps the record of a job well-formed: whatever a producer
\* puts on Done, the registry records a terminal status and a text.
THEOREM TypeCorrect == Spec => []TypeOK
<1>1. Inductive => TypeOK
  BY DEF Inductive
<1> QED
  BY <1>1, InductiveInvariant, PTL

\* List, ListAll and pruneLocked never meet an id without a record.
THEOREM OrderNeverDangles == Spec => []OrderMatchesTable
<1>1. Inductive => OrderMatchesTable
  BY DEF Inductive
<1> QED
  BY <1>1, InductiveInvariant, PTL

\* Reported is raised only for a job whose end was asked for or seen.
THEOREM ReportedOnlyWhenSeen == Spec => []ReportedWasSeen
<1>1. Inductive => ReportedWasSeen
  BY DEF Inductive, Records
<1> QED
  BY <1>1, InductiveInvariant, PTL

\* Listeners hear of ended jobs only, once each, and of a killed job with the
\* flag that lets the manager drop the notice.
THEOREM NoticesSound == Spec => []NoticesAreSound
<1>1. Inductive => NoticesAreSound
  BY DEF Inductive, Records
<1> QED
  BY <1>1, InductiveInvariant, PTL

\* The table never holds more ended jobs than maxRetainedJobs: pruning at
\* every settlement is enough, whatever Discard does in between.
THEOREM RetentionHolds == Spec => []Retention
<1>1. Inductive => Retention
  BY DEF Inductive
<1> QED
  BY <1>1, InductiveInvariant, PTL

\* Pruning forgets ended jobs only, and older ones before younger ones.
THEOREM OldestFirst == Spec => OldestEndedGoFirst
<1> DEFINE Step == status' # status =>
                     \A j \in table \ table' :
                       /\ status'[j] \in Terminal
                       /\ \A k \in table' : status'[k] \in Terminal
                                            => rank[j] < rank[k]
<1>1. ASSUME Inductive, [Next]_vars
      PROVE  [Step]_vars
  <2>1. TypeOK /\ order = table
    BY <1>1 DEF Inductive, OrderMatchesTable
  <2>2. ASSUME NEW i \in Jobs, Settle(i)
        PROVE  Step
    <3> SUFFICES ASSUME NEW j \in table \ table'
                 PROVE  /\ status'[j] \in Terminal
                        /\ \A k \in table' : status'[k] \in Terminal
                                             => rank[j] < rank[k]
      OBVIOUS
    <3> DEFINE E == {k \in order : status'[k] \in Terminal}
               Younger(k) == {m \in E : rank[m] > rank[k]}
    <3>1. E \subseteq Jobs /\ j \in E /\ Cardinality(Younger(j)) >= MaxRetained
      BY <2>1, <2>2 DEF Settle, Evicted, TypeOK
    <3>2. ASSUME NEW k \in table', status'[k] \in Terminal, ~ (rank[j] < rank[k])
          PROVE  FALSE
      <4>1. k \in E /\ ~ (Cardinality(Younger(k)) >= MaxRetained)
        BY <2>1, <2>2, <3>2 DEF Settle, Evicted
      <4>2. /\ rank[j] \in Nat /\ rank[k] \in Nat
            /\ \A m \in E : rank[m] \in Nat
        BY <2>1, <3>1, <4>1 DEF TypeOK
      <4>3. Younger(j) \subseteq Younger(k)
        BY <3>2, <4>2
      <4>4. IsFiniteSet(E) /\ Younger(j) \subseteq E /\ Younger(k) \subseteq E
        BY <3>1, JobsAssumption, FS_Subset
      <4> HIDE DEF E, Younger
      <4>5. IsFiniteSet(Younger(j)) /\ IsFiniteSet(Younger(k))
        BY <4>4, FS_Subset
      <4>6. /\ Cardinality(Younger(j)) <= Cardinality(Younger(k))
            /\ Cardinality(Younger(j)) \in Nat
            /\ Cardinality(Younger(k)) \in Nat
        BY <4>3, <4>5, FS_Subset, FS_CardinalityType
      <4> QED
        BY <3>1, <4>1, <4>6, RetainedAssumption
    <3> QED
      BY <3>1, <3>2
  <2>3. ASSUME NEW i \in Jobs, NEW own \in Callers, NEW str \in Streams,
               Start(i, own, str)
        PROVE  Step
    BY <2>3 DEF Start
  <2>4. ASSUME NEW i \in Jobs, RequestStop(i) \/ Discard(i)
        PROVE  Step
    BY <2>4 DEF RequestStop, Discard, regVars, jobVars
  <2> QED
    BY <1>1, <2>2, <2>3, <2>4, TableMoves
<1> QED
  BY <1>1, InductiveInvariant, PTL DEF Spec, OldestEndedGoFirst

\* The registry implements JobLifecycle: a job settles once, a stopped job
\* never runs again, and each listener hears of a job at most once.
THEOREM LifecycleImplemented == Spec => ImplementsLifecycle
<1> USE DEF Lifecycle!Live, Lifecycle!Terminal, Live, Terminal
<1>1. Init => Lifecycle!Init
  BY DEF Init, Lifecycle!Init
<1>2. ASSUME Inductive, [Next]_vars
      PROVE  [Lifecycle!Next]_(Lifecycle!vars)
  <2> USE DEF Lifecycle!Next, Lifecycle!vars
  <2>1. ASSUME NEW j \in Jobs, NEW own \in Callers, NEW str \in Streams,
               Start(j, own, str)
        PROVE  Lifecycle!Begin(j)
    BY <2>1 DEF Start, callVars, Lifecycle!Begin
  <2>2. ASSUME NEW j \in Jobs, RequestStop(j)
        PROVE  Lifecycle!Stop(j) \/ UNCHANGED Lifecycle!vars
    <3>1. status[j] = "running" => Lifecycle!Stop(j)
      BY <2>2 DEF RequestStop, callVars, Lifecycle!Stop
    <3>2. status[j] = "stopping" => UNCHANGED Lifecycle!vars
      BY <1>2, <2>2 DEF RequestStop, callVars, Inductive, TypeOK
    <3> QED
      BY <2>2, <3>1, <3>2 DEF RequestStop
  <2>3. ASSUME NEW j \in Jobs, Settle(j)
        PROVE  \E s \in Terminal : Lifecycle!End(j, s)
    <3>1. Settled(outcome[j]) \in Terminal
      BY <1>2, <2>3, SettledIsTerminal DEF Settle, Inductive, TypeOK
    <3> QED
      BY <2>3, <3>1 DEF Settle, Lifecycle!End
  <2>4. ASSUME NEW j \in Jobs, NEW l \in Listeners, CallListener(j, l)
        PROVE  Lifecycle!Announce(j, l)
    BY <1>2, <2>4 DEF CallListener, jobVars, Lifecycle!Announce, Inductive, TypeOK,
                      Records, NoticesAreSound
  <2>5. ASSUME NEW j \in Jobs,
               \/ \E o \in Outcomes : Deliver(j, o)
               \/ ReadFinal(j) \/ Claim(j) \/ Release(j) \/ Discard(j)
               \/ \E c \in Callers : NoteEmptyRead(j, c)
        PROVE  UNCHANGED Lifecycle!vars
    BY <2>5 DEF Deliver, ReadFinal, NoteEmptyRead, Claim, Release, SetAwaited,
                Discard, jobVars, callVars
  <2>6. ASSUME NEW t \in Threads,
               \/ WaitStep(t)
               \/ \E j \in Jobs : \/ \E c \in Callers : WaitBegin(t, j, c)
                                 \/ BudgetBegin(t, j)
        PROVE  UNCHANGED Lifecycle!vars
    BY <2>6 DEF WaitStep, WaitSettled, WaitTimeout, BudgetSettled, BudgetTimeout,
                ReportEnd, WaitBegin, SetAwaited, BudgetBegin, jobVars, callVars
  <2>7. ASSUME \/ \E l \in Listeners : OnJobDone(l) \/ CancelListener(l)
               \/ UNCHANGED vars
        PROVE  UNCHANGED Lifecycle!vars
    BY <2>7 DEF OnJobDone, CancelListener, jobVars, callVars, vars
  <2> QED
    BY <1>2, <2>1, <2>2, <2>3, <2>4, <2>5, <2>6, <2>7
    DEF Next, Read, ReadHost, Kill, KillHost
<1> QED
  BY <1>1, <1>2, InductiveInvariant, PTL
  DEF Spec, ImplementsLifecycle, Lifecycle!Spec
=============================================================================

-------------------------- MODULE ConversationProofs --------------------------
(* SessionLog implements Conversation, for any number of files, objects and *)
(* prompts and for logs of any length.  What has to be shown is that the    *)
(* replay of a log mentions no event twice, whatever the log, so that the   *)
(* renewal of a prompt rewrites one line, and that the surface in memory is *)
(* the replay of its log, so that what is read back is what was shown.      *)
EXTENDS SessionLogProofs

-----------------------------------------------------------------------------
\* How one event changes a surface.

\* t is s and the event k after it.
Followed(t, s, k) == /\ Len(t) = Len(s) + 1 /\ t[Len(s) + 1] = k
                     /\ \A i \in 1..Len(s) : t[i] = s[i]

\* t is s with the event k in the places of over.
Substituted(t, s, k, over) ==
  /\ Len(t) = Len(s)
  /\ \A i \in 1..Len(s) : t[i] = IF s[i] = over THEN k ELSE s[i]

\* t is s after the event k, which is ev.
JoinedBy(t, s, k, ev) ==
  /\ ev.op = "none" => t = s
  /\ ev.op = "append" => Followed(t, s, k)
  /\ ev.op = "replace" =>
       IF \E j \in 1..Len(s) : s[j] = ev.over THEN Substituted(t, s, k, ev.over)
       ELSE Followed(t, s, k)

LEMMA AppliedParts ==
  ASSUME NEW n \in Nat, NEW s \in Seq(1..n), NEW ev \in Event
  PROVE  JoinedBy(Applied(s, n + 1, ev), s, n + 1, ev)
  <1> DEFINE t == Applied(s, n + 1, ev)
  <1>1. Followed(Append(s, n + 1), s, n + 1)
    BY DEF Followed
  <1>2. Substituted([j \in DOMAIN s |-> IF s[j] = ev.over THEN n + 1 ELSE s[j]],
                    s, n + 1, ev.over)
    <2>1. PICK u : IsReplaced(u, s, n + 1, ev.over)
      BY DEF IsReplaced
    <2>2. Len(u) = Len(s)
      BY <2>1, ReplacedPlaces
    <2>3. \A i \in 1..Len(s) : u[i] = IF s[i] = ev.over THEN n + 1 ELSE s[i]
      BY <2>1 DEF IsReplaced
    <2> QED BY <2>1, <2>2, <2>3 DEF Substituted, IsReplaced
  <1>3. ev.op = "none" => t = s
    BY DEF Applied
  <1>4. ev.op = "append" => t = Append(s, n + 1)
    BY DEF Applied
  <1>5. CASE \E j \in 1..Len(s) : s[j] = ev.over
    <2>1. ev.op = "replace"
            => t = [j \in DOMAIN s |-> IF s[j] = ev.over THEN n + 1 ELSE s[j]]
      <3>1. \E j \in DOMAIN s : s[j] = ev.over
        BY <1>5
      <3> QED BY <3>1 DEF Applied
    <2>2. ev.op = "replace" => Substituted(t, s, n + 1, ev.over)
      BY <1>2, <2>1
    <2> HIDE DEF t
    <2>3. JoinedBy(t, s, n + 1, ev)
      BY <1>1, <1>3, <1>4, <1>5, <2>2 DEF JoinedBy
    <2> QED BY <2>3 DEF t
  <1>6. CASE ~ \E j \in 1..Len(s) : s[j] = ev.over
    <2>1. ev.op = "replace" => t = Append(s, n + 1)
      <3>1. \A j \in DOMAIN s : s[j] # ev.over
        BY <1>6
      <3> QED BY <3>1 DEF Applied
    <2> HIDE DEF t
    <2>2. JoinedBy(t, s, n + 1, ev)
      BY <1>1, <1>3, <1>4, <1>6, <2>1 DEF JoinedBy
    <2> QED BY <2>2 DEF t
  <1> QED BY <1>5, <1>6

\* No event is twice on a surface.
Distinct(s) == \A i, j \in 1..Len(s) : s[i] = s[j] => i = j

LEMMA AppliedDistinct ==
  ASSUME NEW n \in Nat, NEW s \in Seq(1..n), NEW ev \in Event, Distinct(s)
  PROVE  Distinct(Applied(s, n + 1, ev))
  <1> DEFINE t == Applied(s, n + 1, ev)
  <1>1. Len(s) \in Nat /\ \A i \in 1..Len(s) : s[i] \in 1..n /\ s[i] # n + 1
    <2>1. \A i \in 1..Len(s) : s[i] \in 1..n
      OBVIOUS
    <2> QED BY <2>1
  <1>2. t = s \/ Followed(t, s, n + 1) \/ Substituted(t, s, n + 1, ev.over)
    <2>1. ev.op \in {"none", "append", "replace"}
      BY DEF Event
    <2> QED BY <2>1, AppliedParts DEF JoinedBy
  <1> HIDE DEF t
  <1>3. ASSUME Followed(t, s, n + 1) PROVE Distinct(t)
    <2>1. \A i \in 1..Len(t) : i \in 1..Len(s) \/ i = Len(s) + 1
      BY <1>1, <1>3 DEF Followed
    <2>2. \A i \in 1..Len(s) : t[i] = s[i] /\ t[i] # n + 1
      BY <1>1, <1>3 DEF Followed
    <2>3. t[Len(s) + 1] = n + 1
      BY <1>3 DEF Followed
    <2> QED BY <2>1, <2>2, <2>3 DEF Distinct
  <1>4. ASSUME Substituted(t, s, n + 1, ev.over) PROVE Distinct(t)
    <2>1. ASSUME NEW i \in 1..Len(s), NEW j \in 1..Len(s), t[i] = t[j] PROVE s[i] = s[j]
      <3>1. /\ t[i] = IF s[i] = ev.over THEN n + 1 ELSE s[i]
            /\ t[j] = IF s[j] = ev.over THEN n + 1 ELSE s[j]
        BY <1>4 DEF Substituted
      <3>2. s[i] # n + 1 /\ s[j] # n + 1
        BY <1>1
      <3> QED BY <2>1, <3>1, <3>2
    <2>2. Len(t) = Len(s)
      BY <1>4 DEF Substituted
    <2> QED BY <2>1, <2>2 DEF Distinct
  <1> QED BY <1>2, <1>3, <1>4 DEF t

\* However a log came about, its replay holds no event twice.
LEMMA RebuiltDistinct ==
  ASSUME NEW es \in Seq(Event)
  PROVE  Distinct(Rebuilt(es))
  <1>1. Len(es) \in Nat
    OBVIOUS
  <1>2. PICK f : IsReplay(f, es, Len(es)) /\ Rebuilt(es) = f[Len(es)]
    BY <1>1, RebuiltIsReplay
  <1> DEFINE Good(k) == f[k] \in Seq(1..k) /\ Distinct(f[k])
             Bad == {k \in 0..Len(es) : ~ Good(k)}
  <1>3. SUFFICES ASSUME Bad # {} PROVE FALSE
    <2>1. Len(es) \in 0..Len(es)
      BY <1>1
    <2> QED BY <2>1, <1>2
  <1> HIDE DEF Bad, Good
  <1>4. PICK k \in Bad : \A j \in Bad : k <= j
    <2>1. Bad \subseteq Nat
      BY DEF Bad
    <2> QED BY <1>3, <2>1, LeastNatural
  <1>5. k \in 0..Len(es) /\ ~ Good(k)
    BY <1>4 DEF Bad
  <1>6. k # 0
    <2>1. f[0] = <<>> /\ <<>> \in Seq(1..0) /\ Len(<<>>) = 0
      BY <1>2 DEF IsReplay
    <2>2. Distinct(<<>>)
      BY <2>1 DEF Distinct
    <2> QED BY <2>1, <2>2, <1>5 DEF Good
  <1>7. k - 1 \in Nat /\ k - 1 \in 0..Len(es) /\ k - 1 \notin Bad /\ (k - 1) + 1 = k
        /\ k \in 1..Len(es)
    BY <1>1, <1>4, <1>5, <1>6
  <1>8. f[k - 1] \in Seq(1..(k - 1)) /\ Distinct(f[k - 1])
    BY <1>7 DEF Bad, Good
  <1>9. es[k] \in Event
    BY <1>7
  <1>10. LET t == Applied(f[k - 1], (k - 1) + 1, es[k]) IN
         t \in Seq(1..((k - 1) + 1)) /\ Distinct(t)
    BY <1>7, <1>8, <1>9, AppliedType, AppliedDistinct
  <1>11. f[k] = Applied(f[k - 1], k, es[k])
    BY <1>2, <1>7 DEF IsReplay
  <1>12. Good(k)
    BY <1>7, <1>10, <1>11 DEF Good
  <1> QED BY <1>5, <1>12

-----------------------------------------------------------------------------
\* What is shown.

\* The conversation in a log.
Told(es) == View(es)[Rebuilt(es)]

LEMMA ToldParts ==
  ASSUME NEW es \in Seq(Event)
  PROVE  LET s == Rebuilt(es) IN
         /\ s \in Seq(1..Len(es)) /\ Len(s) \in Nat /\ Len(es) \in Nat
         /\ Told(es) = [i \in 1..Len(s) |-> Line(es[s[i]])]
         /\ Len(Told(es)) = Len(s) /\ (Told(es) = <<>> <=> s = <<>>)
         /\ \A i \in 1..Len(s) : /\ Told(es)[i] = Line(es[s[i]])
                                 /\ Told(es)[i].type = es[s[i]].type
  <1> DEFINE s == Rebuilt(es)
  <1>1. s \in Seq(1..Len(es)) /\ Len(s) \in Nat /\ Len(es) \in Nat
    BY RebuiltType
  <1> HIDE DEF s
  <1>2. DOMAIN es = 1..Len(es) /\ DOMAIN s = 1..Len(s)
    BY <1>1
  <1>3. View(es)[s] = [i \in DOMAIN s |-> Line(es[s[i]])]
    BY <1>1, <1>2 DEF View
  <1>4. Told(es) = [i \in 1..Len(s) |-> Line(es[s[i]])]
    BY <1>2, <1>3 DEF Told, s
  <1>5. Len(Told(es)) = Len(s)
    BY <1>1, <1>4
  <1>6. \A i \in 1..Len(s) : Told(es)[i] = Line(es[s[i]])
    BY <1>4
  <1>7. \A ev : Line(ev).type = ev.type
    BY DEF Line
  <1>8. Told(es) = <<>> <=> s = <<>>
    <2>1. PICK c : c = Told(es)
      OBVIOUS
    <2>2. c \in Seq({c[i] : i \in 1..Len(s)})
      BY <1>1, <1>4, <2>1
    <2>3. Len(c) = Len(s)
      BY <1>5, <2>1
    <2>4. c = <<>> <=> Len(c) = 0
      BY <2>2
    <2>5. s = <<>> <=> Len(s) = 0
      BY <1>1
    <2> QED BY <2>1, <2>3, <2>4, <2>5
  <1> QED BY <1>1, <1>4, <1>5, <1>6, <1>7, <1>8 DEF s

\* An event that is not shown changes nothing.
LEMMA ToldKept ==
  ASSUME NEW es \in Seq(Event), NEW ev \in Event, ev.op = "none"
  PROVE  Told(Append(es, ev)) = Told(es)
  <1> DEFINE fs == Append(es, ev)
             s == Rebuilt(es)
  <1>1. fs \in Seq(Event) /\ \A i \in 1..Len(es) : fs[i] = es[i]
    OBVIOUS
  <1>2. s \in Seq(1..Len(es)) /\ Len(s) \in Nat /\ Len(es) \in Nat
    BY ToldParts
  <1>3. Rebuilt(fs) = s
    <2>1. JoinedBy(Applied(s, Len(es) + 1, ev), s, Len(es) + 1, ev)
      BY <1>2, AppliedParts
    <2> QED BY <2>1, RebuiltAppend DEF JoinedBy
  <1> HIDE DEF fs, s
  <1>4. \A i \in 1..Len(s) : s[i] \in 1..Len(es) /\ fs[s[i]] = es[s[i]]
    BY <1>1, <1>2
  <1>5. Told(es) = [i \in 1..Len(s) |-> Line(es[s[i]])]
    BY ToldParts DEF s
  <1>6. Told(fs) = [i \in 1..Len(s) |-> Line(fs[s[i]])]
    BY <1>1, <1>3, ToldParts
  <1>7. Told(fs) = Told(es)
    BY <1>4, <1>5, <1>6
  <1> QED BY <1>7 DEF fs

\* A message is one line more.
LEMMA ToldLonger ==
  ASSUME NEW es \in Seq(Event), NEW ev \in Event, ev.op = "append"
  PROVE  LET d == Told(Append(es, ev)) IN
         Talk!Longer(Told(es), d) /\ d[Len(d)].type = ev.type
  <1> DEFINE fs == Append(es, ev)
             s == Rebuilt(es)
             t == Rebuilt(fs)
  <1>1. fs \in Seq(Event) /\ fs[Len(es) + 1] = ev /\ \A i \in 1..Len(es) : fs[i] = es[i]
    OBVIOUS
  <1>2. s \in Seq(1..Len(es)) /\ Len(s) \in Nat /\ Len(es) \in Nat
    BY ToldParts
  <1>3. Followed(t, s, Len(es) + 1)
    <2>1. JoinedBy(Applied(s, Len(es) + 1, ev), s, Len(es) + 1, ev)
      BY <1>2, AppliedParts
    <2> QED BY <2>1, RebuiltAppend DEF JoinedBy
  <1> HIDE DEF fs, s
  <1>4. \A i \in 1..Len(s) : s[i] \in 1..Len(es) /\ fs[s[i]] = es[s[i]]
    BY <1>1, <1>2
  <1>5. Len(Told(es)) = Len(s) /\ \A i \in 1..Len(s) : Told(es)[i] = Line(es[s[i]])
    BY ToldParts DEF s
  <1>6. Len(Told(fs)) = Len(t) /\ \A i \in 1..Len(t) : Told(fs)[i] = Line(fs[t[i]])
    BY <1>1, ToldParts
  <1> HIDE DEF t
  <1>7. Len(t) = Len(s) + 1 /\ t[Len(t)] = Len(es) + 1
        /\ \A i \in 1..Len(s) : t[i] = s[i] /\ i \in 1..Len(t)
        /\ Len(t) \in 1..Len(t)
    BY <1>2, <1>3 DEF Followed
  <1>8. Told(fs)[Len(t)] = Line(ev)
    BY <1>1, <1>6, <1>7
  <1>9. \A i \in 1..Len(s) : Told(fs)[i] = Told(es)[i]
    BY <1>4, <1>5, <1>6, <1>7
  <1>10. Talk!Longer(Told(es), Told(fs))
    BY <1>5, <1>6, <1>7, <1>9 DEF Talk!Longer
  <1>11. Told(fs)[Len(Told(fs))].type = ev.type
    BY <1>6, <1>8 DEF Line
  <1> QED BY <1>10, <1>11 DEF fs

\* The replacement of the first event rewrites the first line and no other.
LEMMA ToldRewritten ==
  ASSUME NEW es \in Seq(Event), NEW ev \in Event, ev.op = "replace",
         Rebuilt(es) # <<>>, ev.over = Rebuilt(es)[1]
  PROVE  LET d == Told(Append(es, ev)) IN
         Talk!HeadRewritten(Told(es), d) /\ d # <<>> /\ d[1].type = ev.type
  <1> DEFINE fs == Append(es, ev)
             s == Rebuilt(es)
             t == Rebuilt(fs)
  <1>1. fs \in Seq(Event) /\ fs[Len(es) + 1] = ev /\ \A i \in 1..Len(es) : fs[i] = es[i]
    OBVIOUS
  <1>2. s \in Seq(1..Len(es)) /\ Len(s) \in Nat /\ Len(es) \in Nat
    BY ToldParts
  <1>3. 1 \in 1..Len(s)
    BY <1>2
  <1>4. Substituted(t, s, Len(es) + 1, s[1])
    <2>1. JoinedBy(Applied(s, Len(es) + 1, ev), s, Len(es) + 1, ev)
      BY <1>2, AppliedParts
    <2> QED BY <1>3, <2>1, RebuiltAppend DEF JoinedBy
  <1>5. Distinct(s)
    BY RebuiltDistinct
  <1> HIDE DEF fs, s
  <1>6. \A i \in 1..Len(s) : s[i] \in 1..Len(es) /\ fs[s[i]] = es[s[i]]
    BY <1>1, <1>2
  <1>7. Len(Told(es)) = Len(s) /\ \A i \in 1..Len(s) : Told(es)[i] = Line(es[s[i]])
    BY ToldParts DEF s
  <1>8. Len(Told(fs)) = Len(t) /\ \A i \in 1..Len(t) : Told(fs)[i] = Line(fs[t[i]])
    BY <1>1, ToldParts
  <1> HIDE DEF t
  <1>9. \A i \in 2..Len(s) : i \in 1..Len(s) /\ s[i] # s[1]
    BY <1>2, <1>3, <1>5 DEF Distinct
  <1>10. Len(t) = Len(s) /\ t[1] = Len(es) + 1 /\ \A i \in 2..Len(s) : t[i] = s[i]
    BY <1>3, <1>4, <1>9 DEF Substituted
  <1>11. \A i \in 2..Len(s) : Told(fs)[i] = Told(es)[i]
    <2> TAKE i \in 2..Len(s)
    <2>1. t[i] = s[i] /\ i \in 1..Len(s) /\ i \in 1..Len(t)
      BY <1>9, <1>10
    <2>2. Told(fs)[i] = Line(fs[t[i]]) /\ Told(es)[i] = Line(es[s[i]])
      BY <1>7, <1>8, <2>1
    <2>3. fs[s[i]] = es[s[i]]
      BY <1>6, <2>1
    <2> QED BY <2>1, <2>2, <2>3
  <1>12. Told(fs)[1].type = ev.type
    <2>1. 1 \in 1..Len(t) /\ fs[t[1]] = ev
      BY <1>1, <1>3, <1>10
    <2>2. Told(fs)[1] = Line(ev)
      BY <1>8, <2>1
    <2> QED BY <2>2 DEF Line
  <1>13. Talk!HeadRewritten(Told(es), Told(fs))
    BY <1>7, <1>8, <1>10, <1>11 DEF Talk!HeadRewritten
  <1>14. Told(fs) # <<>>
    <2>1. Len(<<>>) = 0
      OBVIOUS
    <2> QED BY <2>1, <1>2, <1>3, <1>8, <1>10
  <1> QED BY <1>12, <1>13, <1>14 DEF fs

\* A conversation has a prompt if the first event of the surface is one.
LEMMA ToldPrompt ==
  ASSUME NEW es \in Seq(Event)
  PROVE  LET s == Rebuilt(es) IN
         Talk!HasPrompt(Told(es)) <=> s # <<>> /\ es[s[1]].type = "system"
  <1> DEFINE s == Rebuilt(es)
  <1>1. Len(s) \in Nat /\ s \in Seq(1..Len(es))
        /\ (Told(es) = <<>> <=> s = <<>>)
        /\ \A i \in 1..Len(s) : Told(es)[i].type = es[s[i]].type
    BY ToldParts
  <1> HIDE DEF s
  <1>2. s # <<>> => 1 \in 1..Len(s)
    BY <1>1
  <1>3. Talk!HasPrompt(Told(es)) <=> s # <<>> /\ es[s[1]].type = "system"
    BY <1>1, <1>2 DEF Talk!HasPrompt
  <1> QED BY <1>3 DEF s

-----------------------------------------------------------------------------
\* The steps of a conversation, in terms of logs and files.

LEMMA ShownIsTold ==
  ASSUME Replayed, Replayed'
  PROVE  \A o \in Objects : /\ View(log[o])[surface[o]] = Told(log[o])
                            /\ View(log'[o])[surface'[o]] = Told(log'[o])
  BY DEF Replayed, Told

\* The other objects keep their logs.
OthersKept(o) == \A q \in Objects \ {o} : log'[q] = log[q]

LEMMA OthersStep ==
  ASSUME Replayed, Replayed', NEW o \in Objects, OthersKept(o)
  PROVE  Talk!Others(o)
  BY ShownIsTold DEF OthersKept, Talk!Others

LEMMA SayStep ==
  ASSUME Replayed, Replayed', NEW o \in Objects, OthersKept(o), UNCHANGED <<file, disk>>,
         Talk!Answered(Told(log[o]), Told(log'[o]))
  PROVE  Talk!Say(o)
  <1>1. Talk!Others(o)
    BY OthersStep
  <1>2. View(log[o])[surface[o]] = Told(log[o]) /\ View(log'[o])[surface'[o]] = Told(log'[o])
    BY ShownIsTold
  <1> QED BY <1>1, <1>2 DEF Talk!Say

LEMMA PromptStep ==
  ASSUME Replayed, Replayed', NEW o \in Objects, OthersKept(o), UNCHANGED <<file, disk>>,
         Talk!Prompted(Told(log[o]), Told(log'[o]))
  PROVE  Talk!Prompt(o)
  <1>1. Talk!Others(o)
    BY OthersStep
  <1>2. View(log[o])[surface[o]] = Told(log[o]) /\ View(log'[o])[surface'[o]] = Told(log'[o])
    BY ShownIsTold
  <1> QED BY <1>1, <1>2 DEF Talk!Prompt

LEMMA OpenStep ==
  ASSUME Replayed, Replayed', NEW o \in Objects, NEW f \in Files, OthersKept(o),
         file' = [file EXCEPT ![o] = f], disk' = disk,
         Told(log'[o]) = Told(disk[f]) \/ Talk!Prompted(Told(disk[f]), Told(log'[o]))
  PROVE  Talk!Open(o, f)
  <1>1. Talk!Others(o)
    BY OthersStep
  <1>2. View(log'[o])[surface'[o]] = Told(log'[o])
    BY ShownIsTold
  <1>3. View(disk[f])[Rebuilt(disk[f])] = Told(disk[f])
    BY DEF Told
  <1> QED BY <1>1, <1>2, <1>3 DEF Talk!Open

\* Nothing is said, and a file may be written with what is in memory.
LEMMA SaveStepShows ==
  ASSUME Replayed, Replayed', \A o \in Objects : Told(log'[o]) = Told(log[o]),
         file' = file, file \in [Objects -> Files], disk \in [Files -> Seq(Event)],
         NEW o \in Objects, disk' = [disk EXCEPT ![file[o]] = log'[o]]
  PROVE  Talk!Save(o)
  <1>1. \A q \in Objects : View(log'[q])[surface'[q]] = View(log[q])[surface[q]]
    BY ShownIsTold
  <1>2. View(log[o])[surface[o]] = Told(log'[o])
    BY ShownIsTold
  <1>3. \A f \in Files : disk'[f] = IF f = file[o] THEN log'[o] ELSE disk[f]
    OBVIOUS
  <1>4. \A f \in Files : View(disk'[f])[Rebuilt(disk'[f])]
                         = IF f = file[o] THEN Told(log'[o])
                           ELSE View(disk[f])[Rebuilt(disk[f])]
    BY <1>3 DEF Told
  <1>5. [f \in Files |-> View(disk'[f])[Rebuilt(disk'[f])]]
          = [[f \in Files |-> View(disk[f])[Rebuilt(disk[f])]]
               EXCEPT ![file[o]] = View(log[o])[surface[o]]]
    BY <1>2, <1>4
  <1>6. [q \in Objects |-> View(log'[q])[surface'[q]]]
          = [q \in Objects |-> View(log[q])[surface[q]]]
    BY <1>1
  <1>7. [q \in Objects |-> View(log[q])[surface[q]]][o] = View(log[o])[surface[o]]
    OBVIOUS
  <1> QED BY <1>5, <1>6, <1>7 DEF Talk!Save

LEMMA NothingShown ==
  ASSUME Replayed, Replayed', \A o \in Objects : Told(log'[o]) = Told(log[o]),
         UNCHANGED <<file, disk>>
  PROVE  UNCHANGED Talk!vars
  <1>1. \A q \in Objects : View(log'[q])[surface'[q]] = View(log[q])[surface[q]]
    BY ShownIsTold
  <1> QED BY <1>1 DEF Talk!vars

-----------------------------------------------------------------------------
\* The steps of a session.

\* A message is appended.
LEMMA AppendSays ==
  ASSUME LogTypes, Replayed, Replayed', NEW o \in Objects, NEW type \in Messages, NEW val \in Nat,
         AppendEvent(o, Message(type, val)), UNCHANGED <<file, disk>>
  PROVE  Talk!Say(o)
  <1> DEFINE ev == Message(type, val)
  <1>1. ev \in Event /\ ev.op = "append" /\ ev.type = type /\ type # "system"
    <2>1. type \in Types /\ type # "system"
      BY DEF Messages, Types
    <2> QED BY <2>1, EventParts
  <1> HIDE DEF ev
  <1>2. log[o] \in Seq(Event) /\ surface[o] = Rebuilt(log[o])
    BY DEF LogTypes, Replayed
  <1>3. Put(o, log[o], Rebuilt(log[o]), ev)
    BY <1>2 DEF AppendEvent, ev
  <1>4. log'[o] = Append(log[o], ev) /\ OthersKept(o)
    BY <1>1, <1>2, <1>3, Putting DEF OthersKept
  <1>5. Talk!Answered(Told(log[o]), Told(log'[o]))
    BY <1>1, <1>2, <1>4, ToldLonger DEF Talk!Answered
  <1> QED BY <1>4, <1>5, SayStep

\* The prompt is given or renewed, or is what it was.
LEMMA CommitPrompts ==
  ASSUME LogTypes, Replayed, NEW o \in Objects, NEW es \in Seq(Event),
         CommitPrompt(o, es, Rebuilt(es))
  PROVE  /\ OthersKept(o)
         /\ Told(log'[o]) = Told(es) \/ Talk!Prompted(Told(es), Told(log'[o]))
  <1> DEFINE s == Rebuilt(es)
             head == IF s = <<>> THEN 0 ELSE s[1]
             isPrompt == head # 0 /\ es[head].type = "system"
             ev == [type |-> "system", val |-> rendering, over |-> head,
                    op |-> IF isPrompt THEN "replace" ELSE "append"]
  <1> USE SessionAssumption
  <1>1. OthersKept(o)
    BY Committing DEF OthersKept
  <1>2. s \in Seq(1..Len(es)) /\ Len(es) \in Nat
    BY RebuiltType
  <1>3. s # <<>> => s[1] \in Nat /\ s[1] # 0
    <2>1. s # <<>> => 1 \in 1..Len(s)
      BY <1>2
    <2>2. s # <<>> => s[1] \in 1..Len(es)
      BY <1>2, <2>1
    <2> QED BY <1>2, <2>2
  <1>4. isPrompt <=> Talk!HasPrompt(Told(es))
    BY <1>3, ToldPrompt
  <1>5. log \in [Objects -> Seq(Event)]
    BY DEF LogTypes
  <1>6. CASE isPrompt /\ es[head].val = rendering
    <2>1. log' = [log EXCEPT ![o] = es]
      BY <1>6 DEF CommitPrompt
    <2>2. log'[o] = es
      BY <1>5, <2>1
    <2> QED BY <1>1, <2>2
  <1>7. CASE ~ (isPrompt /\ es[head].val = rendering)
    <2>1. Put(o, es, s, ev)
      BY <1>7 DEF CommitPrompt
    <2>2. ev \in Event
      <3>1. head \in Nat /\ rendering \in Nat
        BY <1>2, <1>3 DEF LogTypes
      <3> QED BY <3>1 DEF Event, Types
    <2>3. ev.type = "system" /\ ev.op = (IF isPrompt THEN "replace" ELSE "append")
          /\ ev.over = head
      OBVIOUS
    <2> HIDE DEF ev
    <2>4. log'[o] = Append(es, ev)
      BY <2>1, <2>2, Putting
    <2>5. CASE isPrompt
      <3>1. s # <<>> /\ ev.op = "replace" /\ ev.over = s[1]
        BY <2>3, <2>5
      <3>2. Talk!HeadRewritten(Told(es), Told(log'[o]))
            /\ Told(log'[o]) # <<>> /\ Told(log'[o])[1].type = "system"
        BY <2>2, <2>3, <2>4, <3>1, ToldRewritten
      <3> QED BY <1>1, <1>4, <2>5, <3>2 DEF Talk!Prompted, Talk!HasPrompt
    <2>6. CASE ~ isPrompt
      <3>1. Talk!Longer(Told(es), Told(log'[o]))
            /\ Told(log'[o])[Len(Told(log'[o]))].type = "system"
        BY <2>2, <2>3, <2>4, <2>6, ToldLonger
      <3> QED BY <1>1, <1>4, <2>6, <3>1 DEF Talk!Prompted
    <2> QED BY <2>5, <2>6
  <1> QED BY <1>6, <1>7

\* A commit to a session in memory renews its prompt, or is not seen.
LEMMA CommitSteps ==
  ASSUME LogTypes, Replayed, Replayed', NEW o \in Objects,
         CommitPrompt(o, log[o], surface[o]), UNCHANGED <<file, disk>>
  PROVE  Talk!Prompt(o) \/ UNCHANGED Talk!vars
  <1>1. log[o] \in Seq(Event) /\ CommitPrompt(o, log[o], Rebuilt(log[o]))
    BY DEF LogTypes, Replayed
  <1>2. OthersKept(o) /\ (\/ Told(log'[o]) = Told(log[o])
                          \/ Talk!Prompted(Told(log[o]), Told(log'[o])))
    BY <1>1, CommitPrompts
  <1>3. CASE Talk!Prompted(Told(log[o]), Told(log'[o]))
    BY <1>2, <1>3, PromptStep
  <1>4. CASE Told(log'[o]) = Told(log[o])
    <2>1. \A q \in Objects : Told(log'[q]) = Told(log[q])
      BY <1>2, <1>4 DEF OthersKept
    <2> QED BY <2>1, NothingShown
  <1> QED BY <1>2, <1>3, <1>4

LEMMA SwitchShows ==
  ASSUME LogTypes, Replayed, Replayed', NEW f \in Files, Switch(f)
  PROVE  \E o \in Objects : Talk!Open(o, f)
  <1>1. PICK o \in Objects : /\ Ensure(o, f) /\ UNCHANGED disk
                             /\ log' = [log EXCEPT ![o] = disk[f]]
    BY DEF Switch
  <1>2. log'[o] = disk[f] /\ OthersKept(o)
    BY <1>1 DEF LogTypes, OthersKept
  <1>3. file' = [file EXCEPT ![o] = f]
    BY <1>1 DEF Ensure
  <1> QED BY <1>1, <1>2, <1>3, OpenStep

LEMMA BeginRestoredShows ==
  ASSUME LogTypes, Replayed, Replayed', BeginRestored
  PROVE  \E o \in Objects : Talk!Open(o, Project)
  <1>1. PICK o \in Objects : /\ Ensure(o, Project) /\ UNCHANGED disk
                             /\ CommitPrompt(o, disk[Project], Rebuilt(disk[Project]))
    BY DEF BeginRestored
  <1>2. Project \in Files /\ disk[Project] \in Seq(Event)
    BY SessionAssumption DEF LogTypes
  <1>3. /\ OthersKept(o)
        /\ \/ Told(log'[o]) = Told(disk[Project])
           \/ Talk!Prompted(Told(disk[Project]), Told(log'[o]))
    BY <1>1, <1>2, CommitPrompts
  <1>4. file' = [file EXCEPT ![o] = Project]
    BY <1>1 DEF Ensure
  <1> QED BY <1>1, <1>2, <1>3, <1>4, OpenStep

\* A record of a mode is not shown, whether it reaches the file or not.
LEMMA SetModeShows ==
  ASSUME LogTypes, Replayed, Replayed', SetMode
  PROVE  Talk!Save(current) \/ UNCHANGED Talk!vars
  <1> DEFINE ev == LogOnly("note", 0)
  <1>1. current \in Objects /\ file' = file
    BY DEF SetMode, LogTypes
  <1>2. ev \in Event /\ ev.op = "none"
    <2>1. "note" \in Types /\ 0 \in Nat
      BY DEF Types
    <2> QED BY <2>1, EventParts
  <1>3. log[current] \in Seq(Event) /\ surface[current] = Rebuilt(log[current])
    BY <1>1 DEF LogTypes, Replayed
  <1>4. Put(current, log[current], Rebuilt(log[current]), ev)
    BY <1>3 DEF SetMode, AppendEvent
  <1> HIDE DEF ev
  <1>5. log'[current] = Append(log[current], ev)
        /\ \A q \in Objects : q # current => log'[q] = log[q]
    BY <1>1, <1>2, <1>3, <1>4, Putting
  <1>6. \A q \in Objects : Told(log'[q]) = Told(log[q])
    BY <1>2, <1>3, <1>5, ToldKept
  <1>7. disk' = disk \/ disk' = [disk EXCEPT ![file[current]] = log'[current]]
    <2>1. disk' \in {disk, [disk EXCEPT ![file[current]] = log'[current]]}
      BY DEF SetMode
    <2> QED BY <2>1, Zenon
  <1>8. file \in [Objects -> Files] /\ disk \in [Files -> Seq(Event)]
    BY DEF LogTypes
  <1>9. CASE disk' = disk
    BY <1>1, <1>6, <1>9, NothingShown
  <1>10. CASE disk' = [disk EXCEPT ![file[current]] = log'[current]]
    BY <1>1, <1>6, <1>8, <1>10, SaveStepShows
  <1> QED BY <1>7, <1>9, <1>10

LEMMA SaveShows ==
  ASSUME LogTypes, Replayed, Replayed', RunHolds, NEW from, NEW to, from # "idle", Save(from, to)
  PROVE  Talk!Save(held) \/ UNCHANGED Talk!vars
  <1>1. held \in Objects
    BY DEF Save, RunHolds, LogTypes
  <1>2. file' = file /\ log' = log
    BY DEF Save, heap
  <1>3. \A q \in Objects : Told(log'[q]) = Told(log[q])
    BY <1>2
  <1>4. file \in [Objects -> Files] /\ disk \in [Files -> Seq(Event)]
    BY DEF LogTypes
  <1>5. CASE disk' = disk
    BY <1>2, <1>3, <1>5, NothingShown
  <1>6. CASE disk' = [disk EXCEPT ![file[held]] = log'[held]]
    BY <1>1, <1>2, <1>3, <1>4, <1>6, SaveStepShows
  <1> QED BY <1>2, <1>5, <1>6 DEF Save

LEMMA CrashShows ==
  ASSUME Replayed, Replayed', Crash
  PROVE  Talk!Crash
  <1>1. log' = [o \in Objects |-> <<>>] /\ UNCHANGED <<file, disk>>
    BY DEF Crash
  <1>2. Told(<<>>) = <<>>
    <2>1. <<>> \in Seq(Event)
      OBVIOUS
    <2> QED BY <2>1, RebuiltEmpty, ToldParts
  <1>3. \A o \in Objects : View(log'[o])[surface'[o]] = <<>>
    BY <1>1, <1>2, ShownIsTold
  <1> QED BY <1>1, <1>3 DEF Talk!Crash

LEMMA NextTalks ==
  ASSUME SessionInductive, [Next]_vars
  PROVE  [Talk!Next]_(Talk!vars)
  <1>1. LogTypes /\ Replayed /\ RunHolds /\ Replayed'
    BY NextKeeps DEF SessionInductive
  <1>2. at # "idle" => held \in Objects /\ current \in Objects
    BY <1>1 DEF RunHolds, LogTypes
  <1>3. CASE \E f \in Files : Switch(f)
    <2>1. \E f \in Files : \E o \in Objects : Talk!Open(o, f)
      BY <1>1, <1>3, SwitchShows
    <2> QED BY <2>1 DEF Talk!Next
  <1>4. CASE SetMode
    <2>1. current \in Objects
      BY <1>1, <1>4 DEF SetMode, LogTypes
    <2> QED BY <1>1, <1>4, <2>1, SetModeShows DEF Talk!Next
  <1>5. CASE InjectMessage
    <2>1. PICK o \in Objects : o = current
      BY <1>2, <1>5 DEF InjectMessage
    <2>2. AppendEvent(o, Message("user", 0)) /\ UNCHANGED <<file, disk>>
      BY <2>1, <1>5 DEF InjectMessage
    <2>3. "user" \in Messages /\ 0 \in Nat
      BY DEF Messages
    <2>4. Talk!Say(o)
      BY <1>1, <2>2, <2>3, AppendSays
    <2> QED BY <2>4 DEF Talk!Next
  <1>6. CASE Rerender
    <2>1. UNCHANGED <<file, log, disk>>
      BY <1>6 DEF Rerender, heap
    <2>2. \A q \in Objects : Told(log'[q]) = Told(log[q])
      BY <2>1
    <2> QED BY <1>1, <2>1, <2>2, NothingShown
  <1>7. CASE BeginRestored
    <2>1. \E o \in Objects : Talk!Open(o, Project)
      BY <1>1, <1>7, BeginRestoredShows
    <2>2. Project \in Files
      BY SessionAssumption
    <2> QED BY <2>1, <2>2 DEF Talk!Next
  <1>8. CASE Begin
    <2>1. current \in Objects /\ UNCHANGED <<file, disk>>
      BY <1>1, <1>8 DEF Begin, LogTypes
    <2>2. CASE CommitPrompt(current, log[current], surface[current])
      BY <1>1, <2>1, <2>2, CommitSteps DEF Talk!Next
    <2>3. CASE log' = log
      <3>1. \A q \in Objects : Told(log'[q]) = Told(log[q])
        BY <2>3
      <3> QED BY <1>1, <2>1, <3>1, NothingShown
    <2> QED BY <1>8, <2>2, <2>3 DEF Begin
  <1>9. CASE OpenTurn
    <2>1. PICK o \in Objects : o = held
      BY <1>2, <1>9 DEF OpenTurn, RunAppends
    <2>2. AppendEvent(o, Message("turn", turnNo)) /\ UNCHANGED <<file, disk>>
      BY <2>1, <1>9 DEF OpenTurn, RunAppends
    <2>3. "turn" \in Messages /\ turnNo \in Nat
      BY <1>1 DEF Messages, LogTypes
    <2>4. Talk!Say(o)
      BY <1>1, <2>2, <2>3, AppendSays
    <2> QED BY <2>4 DEF Talk!Next
  <1>10. CASE Request
    <2>1. /\ current \in Objects /\ UNCHANGED <<file, disk>>
          /\ CommitPrompt(current, log[current], surface[current])
      BY <1>2, <1>10 DEF Request
    <2> QED BY <1>1, <2>1, CommitSteps DEF Talk!Next
  <1>11. CASE Answer \/ GoOn \/ ToolResult
    <2>1. PICK o \in Objects : o = held
      BY <1>2, <1>11 DEF Answer, GoOn, ToolResult, RunAppends
    <2>2. CASE \E type \in {"answer", "user"} : AppendEvent(o, Message(type, 0))
               /\ UNCHANGED <<file, disk>>
      <3>1. PICK type \in {"answer", "user"} : AppendEvent(o, Message(type, 0))
                                              /\ UNCHANGED <<file, disk>>
        BY <2>2
      <3>2. type \in Messages /\ 0 \in Nat
        BY DEF Messages
      <3>3. Talk!Say(o)
        BY <1>1, <3>1, <3>2, AppendSays
      <3> QED BY <3>3 DEF Talk!Next
    <2>3. CASE UNCHANGED <<heap, disk>>
      <3>1. UNCHANGED <<file, log, disk>>
        BY <2>3 DEF heap
      <3>2. \A q \in Objects : Told(log'[q]) = Told(log[q])
        BY <3>1
      <3> QED BY <1>1, <3>1, <3>2, NothingShown
    <2> QED BY <1>11, <2>1, <2>2, <2>3 DEF Answer, GoOn, ToolResult, RunAppends
  <1>12. CASE SaveAnswer \/ SaveCall \/ SaveStep \/ SaveRun
    <2>1. PICK from, to : from # "idle" /\ Save(from, to)
      <3>1. PICK from \in {"loop", "asking", "answered", "decided", "returned"} :
              \E to : Save(from, to)
        BY <1>12, RunSaves
      <3> QED BY <3>1
    <2>2. held \in Objects
      BY <1>2, <2>1 DEF Save
    <2> QED BY <1>1, <2>1, <2>2, SaveShows DEF Talk!Next
  <1>13. CASE Crash
    BY <1>1, <1>13, CrashShows DEF Talk!Next
  <1>14. CASE UNCHANGED vars
    <2>1. UNCHANGED <<file, log, disk>>
      BY <1>14 DEF vars, heap
    <2>2. \A q \in Objects : Told(log'[q]) = Told(log[q])
      BY <2>1
    <2> QED BY <1>1, <2>1, <2>2, NothingShown
  <1> QED BY <1>3, <1>4, <1>5, <1>6, <1>7, <1>8, <1>9, <1>10, <1>11, <1>12, <1>13, <1>14
          DEF Next

LEMMA InitTalks == ASSUME Init PROVE Talk!Init
  <1>1. file \in [Objects -> Files]
    BY SessionAssumption DEF Init
  <1>2. Told(<<>>) = <<>> /\ Rebuilt(<<>>) = <<>>
    <2>1. <<>> \in Seq(Event)
      OBVIOUS
    <2> QED BY <2>1, RebuiltEmpty, ToldParts
  <1>3. \A o \in Objects : View(log[o])[surface[o]] = <<>>
    BY <1>2 DEF Init, Told
  <1>4. \A f \in Files : View(disk[f])[Rebuilt(disk[f])] = <<>>
    BY <1>2 DEF Init, Told
  <1> QED BY <1>1, <1>3, <1>4 DEF Talk!Init

\* ImplementsConversation: whatever is replaced, reloaded, switched or lost, a
\* session is seen as a conversation of which only the prompt is rewritten, and
\* a file gives back what was shown when it was written.
THEOREM SessionImplementsConversation == Spec => ImplementsConversation
  <1>1. Init => Talk!Init
    BY InitTalks
  <1>2. SessionInductive /\ [Next]_vars => [Talk!Next]_(Talk!vars)
    BY NextTalks
  <1> QED BY <1>1, <1>2, SessionInvariant, PTL
          DEF Spec, ImplementsConversation, Talk!Spec
=============================================================================

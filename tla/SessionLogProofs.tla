-------------------------- MODULE SessionLogProofs --------------------------
(* Proofs about SessionLog, for any number of files, objects and prompts   *)
(* and for logs of any length.  What a log is rebuilt into is defined by   *)
(* recursion; the inductions over it are carried out as arguments about a  *)
(* least counterexample.                                                   *)
EXTENDS SessionLog, WellFoundedInduction, TLAPS

-----------------------------------------------------------------------------
\* Natural numbers and finite sequences.

\* Every non-empty set of natural numbers has a least member.
LEMMA LeastNatural ==
  ASSUME NEW T, T \subseteq Nat, T # {}
  PROVE  \E x \in T : \A y \in T : x <= y
  <1> DEFINE R == {ss \in Nat \X Nat : ss[1] < ss[2]}
  <1>1. IsWellFoundedOn(R, Nat)
    BY NatLessThanWellFounded DEF OpToRel
  <1> HIDE DEF R
  <1>2. PICK x \in T : \A y \in T : ~ (<<y, x>> \in R)
    BY <1>1, WFMin, Zenon
  <1>3. \A y \in T : ~ (y < x)
    BY <1>2 DEF R
  <1> QED BY <1>3

\* A non-empty set of numbers up to n has a greatest member.
LEMMA GreatestBelow ==
  ASSUME NEW n \in Nat, NEW T, T \subseteq 0..n, T # {}
  PROVE  \E x \in T : \A y \in T : y <= x
  <1> DEFINE D == {d \in 0..n : n - d \in T}
  <1>1. D \subseteq Nat
    OBVIOUS
  <1>2. D # {}
    <2>1. PICK t \in T : TRUE
      OBVIOUS
    <2>2. n - t \in D
      BY <2>1
    <2> QED BY <2>2
  <1> HIDE DEF D
  <1>3. PICK d \in D : \A e \in D : d <= e
    BY <1>1, <1>2, LeastNatural
  <1>4. d \in 0..n /\ n - d \in T
    BY <1>3 DEF D
  <1>5. ASSUME NEW y \in T PROVE y <= n - d
    <2>1. y \in 0..n /\ n - (n - y) = y
      OBVIOUS
    <2>2. n - y \in D
      BY <2>1 DEF D
    <2>3. d <= n - y
      BY <2>2, <1>3
    <2> QED BY <2>1, <2>3, <1>4
  <1> QED BY <1>4, <1>5

LEMMA ValuesAreNumbers ==
  ASSUME NEW es \in Seq(Event)
  PROVE  \A i \in 1..Len(es) : es[i] \in Event /\ es[i].val \in Nat
  <1>1. \A i \in 1..Len(es) : es[i] \in Event
    OBVIOUS
  <1>2. \A ev \in Event : ev.val \in Nat
    BY DEF Event
  <1> QED BY <1>1, <1>2

\* The values in a log are bounded.
BoundedUpTo(es, n) == \E b \in Nat : \A i \in 1..Len(es) : i <= n => es[i].val <= b

LEMMA ValuesBounded ==
  ASSUME NEW es \in Seq(Event)
  PROVE  \E b \in Nat : \A i \in 1..Len(es) : es[i].val <= b
  <1> DEFINE Bad == {n \in Nat : ~ BoundedUpTo(es, n)}
  <1>1. SUFFICES ASSUME Bad # {} PROVE FALSE
    <2>1. Len(es) \in Nat /\ \A i \in 1..Len(es) : i <= Len(es)
      OBVIOUS
    <2>2. Len(es) \notin Bad => BoundedUpTo(es, Len(es))
      BY <2>1
    <2> QED BY <2>1, <2>2 DEF BoundedUpTo
  <1> HIDE DEF Bad
  <1>2. PICK m \in Bad : \A k \in Bad : m <= k
    <2>1. Bad \subseteq Nat
      BY DEF Bad
    <2> QED BY <1>1, <2>1, LeastNatural
  <1>3. BoundedUpTo(es, 0)
    <2>1. \A i \in 1..Len(es) : ~ (i <= 0)
      OBVIOUS
    <2>2. 0 \in Nat
      OBVIOUS
    <2> QED BY <2>1, <2>2 DEF BoundedUpTo
  <1>4. m \in Nat /\ m # 0 /\ ~ BoundedUpTo(es, m)
    BY <1>2, <1>3 DEF Bad
  <1>5. m - 1 \in Nat /\ m - 1 \notin Bad
    BY <1>2, <1>4
  <1>6. PICK b \in Nat : \A i \in 1..Len(es) : i <= m - 1 => es[i].val <= b
    BY <1>5 DEF Bad, BoundedUpTo
  <1>7. \A i \in 1..Len(es) : es[i].val \in Nat
    BY ValuesAreNumbers
  <1>8. CASE m \in 1..Len(es)
    <2>1. PICK c \in Nat : b <= c /\ es[m].val <= c
      <3>1. es[m].val \in Nat
        BY <1>7, <1>8
      <3>2. b + es[m].val \in Nat /\ b <= b + es[m].val /\ es[m].val <= b + es[m].val
        BY <3>1
      <3> QED BY <3>2
    <2>2. ASSUME NEW i \in 1..Len(es), i <= m PROVE es[i].val <= c
      <3>1. CASE i = m
        BY <3>1, <2>1
      <3>2. CASE i # m
        <4>1. i <= m - 1
          BY <2>2, <3>2, <1>4
        <4>2. es[i].val <= b /\ es[i].val \in Nat
          BY <4>1, <1>6, <1>7
        <4> QED BY <4>2, <2>1
      <3> QED BY <3>1, <3>2
    <2> QED BY <2>2, <1>4 DEF BoundedUpTo
  <1>9. CASE m \notin 1..Len(es)
    <2>1. \A i \in 1..Len(es) : i <= m => i <= m - 1
      BY <1>9, <1>4
    <2>2. \A i \in 1..Len(es) : i <= m => es[i].val <= b
      BY <2>1, <1>6
    <2> QED BY <2>2, <1>4 DEF BoundedUpTo
  <1> QED BY <1>8, <1>9

\* LastTurn gives a bound of the numbers of the turns in a log.
LEMMA LastTurnBounds ==
  ASSUME NEW es \in Seq(Event)
  PROVE  /\ LastTurn(es) \in Nat
         /\ \A i \in DOMAIN es : es[i].type = "turn" => es[i].val <= LastTurn(es)
  <1> DEFINE turns == {es[i].val : i \in {j \in DOMAIN es : es[j].type = "turn"}}
             T == turns \cup {0}
  <1>1. \A i \in DOMAIN es : es[i].type = "turn" => es[i].val \in turns
    OBVIOUS
  <1>2. LastTurn(es) = CHOOSE m \in T : \A t \in turns : t <= m
    BY DEF LastTurn
  <1>3. PICK b \in Nat : \A i \in 1..Len(es) : es[i].val <= b
    BY ValuesBounded
  <1>4. T \subseteq 0..b
    <2>1. DOMAIN es = 1..Len(es)
      OBVIOUS
    <2>2. \A i \in DOMAIN es : es[i].val \in Nat
      BY <2>1, ValuesAreNumbers
    <2>3. \A i \in DOMAIN es : es[i].val \in 0..b
      BY <1>3, <2>1, <2>2
    <2> QED BY <2>3
  <1>5. T # {} /\ turns \subseteq T
    OBVIOUS
  <1> HIDE DEF turns, T
  <1>6. \E m \in T : \A t \in T : t <= m
    BY <1>4, <1>5, GreatestBelow
  <1>7. LastTurn(es) \in T /\ \A t \in turns : t <= LastTurn(es)
    BY <1>2, <1>5, <1>6
  <1>8. LastTurn(es) \in Nat
    <2>1. LastTurn(es) \in 0..b
      BY <1>4, <1>7, Zenon
    <2> QED BY <2>1
  <1>9. \A i \in DOMAIN es : es[i].type = "turn" => es[i].val <= LastTurn(es)
    BY <1>1, <1>7, Zenon
  <1> QED BY <1>8, <1>9

-----------------------------------------------------------------------------
\* Rebuilding a surface.

\* f is the course of the surface while the first n events are read.
IsReplay(f, es, n) ==
  /\ f = [k \in 0..n |-> f[k]]
  /\ f[0] = <<>>
  /\ \A k \in 1..n : f[k] = Applied(f[k - 1], k, es[k])

LEMMA ReplayExists ==
  ASSUME NEW es, NEW n \in Nat
  PROVE  \E f : IsReplay(f, es, n)
  <1> DEFINE Bad == {m \in Nat : ~ \E f : IsReplay(f, es, m)}
  <1>1. SUFFICES ASSUME Bad # {} PROVE FALSE
    OBVIOUS
  <1> HIDE DEF Bad
  <1>2. PICK m \in Bad : \A k \in Bad : m <= k
    <2>1. Bad \subseteq Nat
      BY DEF Bad
    <2> QED BY <1>1, <2>1, LeastNatural
  <1>3. IsReplay([k \in 0..0 |-> <<>>], es, 0)
    BY DEF IsReplay
  <1>4. m \in Nat /\ m # 0
    BY <1>2, <1>3 DEF Bad
  <1>5. m - 1 \in Nat /\ m - 1 \notin Bad
    BY <1>2, <1>4
  <1>6. PICK g : IsReplay(g, es, m - 1)
    BY <1>5 DEF Bad
  <1> DEFINE h == [k \in 0..m |-> IF k = m THEN Applied(g[m - 1], m, es[m]) ELSE g[k]]
  <1>7. IsReplay(h, es, m)
    <2>1. h = [k \in 0..m |-> h[k]]
      OBVIOUS
    <2>2. h[0] = <<>>
      BY <1>4, <1>6 DEF IsReplay
    <2>3. ASSUME NEW k \in 1..m PROVE h[k] = Applied(h[k - 1], k, es[k])
      <3>1. CASE k = m
        <4>1. h[k] = Applied(g[m - 1], m, es[m]) /\ h[k - 1] = g[m - 1]
          BY <3>1, <1>4
        <4> QED BY <4>1, <3>1
      <3>2. CASE k # m
        <4>1. k \in 1..(m - 1) /\ k - 1 \in 0..m /\ k - 1 # m /\ k \in 0..m
          BY <3>2, <1>4
        <4>2. h[k] = g[k] /\ h[k - 1] = g[k - 1]
          BY <3>2, <4>1
        <4>3. g[k] = Applied(g[k - 1], k, es[k])
          BY <4>1, <1>6 DEF IsReplay
        <4> QED BY <4>2, <4>3
      <3> QED BY <3>1, <3>2
    <2> HIDE DEF h
    <2> QED BY <2>1, <2>2, <2>3 DEF IsReplay
  <1> QED BY <1>7, <1>2 DEF Bad

\* Two replays of logs that agree up to m agree up to m.
LEMMA ReplayUnique ==
  ASSUME NEW es, NEW fs, NEW m \in Nat, NEW n \in Nat, m <= n,
         \A k \in 1..m : es[k] = fs[k],
         NEW f, NEW g, IsReplay(f, es, m), IsReplay(g, fs, n)
  PROVE  \A k \in 0..m : f[k] = g[k]
  <1> DEFINE Bad == {k \in 0..m : f[k] # g[k]}
  <1>1. SUFFICES ASSUME Bad # {} PROVE FALSE
    OBVIOUS
  <1> HIDE DEF Bad
  <1>2. PICK k \in Bad : \A j \in Bad : k <= j
    <2>1. Bad \subseteq Nat
      BY DEF Bad
    <2> QED BY <1>1, <2>1, LeastNatural
  <1>3. k \in 0..m /\ k # 0
    BY <1>2 DEF IsReplay, Bad
  <1>4. k - 1 \in 0..m /\ k - 1 \notin Bad
    BY <1>2, <1>3
  <1>5. f[k - 1] = g[k - 1]
    BY <1>4 DEF Bad
  <1>6. k \in 1..m /\ k \in 1..n
    BY <1>3
  <1>7. f[k] = Applied(f[k - 1], k, es[k]) /\ g[k] = Applied(g[k - 1], k, fs[k])
    BY <1>6 DEF IsReplay
  <1> QED BY <1>2, <1>5, <1>6, <1>7 DEF Bad

LEMMA RebuiltIsReplay ==
  ASSUME NEW es, Len(es) \in Nat
  PROVE  \E f : IsReplay(f, es, Len(es)) /\ Rebuilt(es) = f[Len(es)]
  <1> DEFINE N == Len(es)
             D(f) == [n \in 0..N |-> IF n = 0 THEN <<>>
                                     ELSE Applied(f[n - 1], n, es[n])]
  <1>1. N \in Nat
    OBVIOUS
  <1> HIDE DEF N
  <1>2. PICK g : IsReplay(g, es, N)
    BY <1>1, ReplayExists
  <1>3. g = D(g)
    <2>1. g = [n \in 0..N |-> g[n]]
      BY <1>2 DEF IsReplay
    <2>2. ASSUME NEW n \in 0..N
          PROVE  g[n] = IF n = 0 THEN <<>> ELSE Applied(g[n - 1], n, es[n])
      <3>1. CASE n = 0
        BY <3>1, <1>2 DEF IsReplay
      <3>2. CASE n # 0
        <4>1. n \in 1..N
          BY <3>2, <1>1
        <4> QED BY <4>1, <3>2, <1>2 DEF IsReplay
      <3> QED BY <3>1, <3>2
    <2> QED BY <2>1, <2>2
  <1> DEFINE F == CHOOSE f : f = D(f)
  <1>4. F = D(F)
    BY <1>3
  <1>5. Rebuilt(es) = F[N]
    BY DEF Rebuilt, N
  <1> HIDE DEF F
  <1>6. IsReplay(F, es, N)
    <2>1. \A n \in 0..N : F[n] = IF n = 0 THEN <<>> ELSE Applied(F[n - 1], n, es[n])
      BY <1>4
    <2>2. F = [n \in 0..N |-> F[n]]
      BY <1>4
    <2>3. F[0] = <<>>
      BY <2>1, <1>1
    <2>4. \A k \in 1..N : F[k] = Applied(F[k - 1], k, es[k])
      BY <2>1, <1>1
    <2> QED BY <2>2, <2>3, <2>4 DEF IsReplay
  <1> QED BY <1>5, <1>6 DEF N

\* A log without events is rebuilt into an empty surface.
LEMMA RebuiltEmpty == Rebuilt(<<>>) = <<>>
  <1>1. Len(<<>>) = 0
    OBVIOUS
  <1>2. PICK f : IsReplay(f, <<>>, 0) /\ Rebuilt(<<>>) = f[0]
    BY <1>1, RebuiltIsReplay
  <1> QED BY <1>2 DEF IsReplay

\* Reading one event more applies it to the surface there was.
LEMMA RebuiltAppend ==
  ASSUME NEW es \in Seq(Event), NEW ev \in Event
  PROVE  Rebuilt(Append(es, ev)) = Applied(Rebuilt(es), Len(es) + 1, ev)
  <1> DEFINE n == Len(es)
             fs == Append(es, ev)
  <1>1. n \in Nat /\ Len(fs) = n + 1 /\ fs[n + 1] = ev
        /\ \A k \in 1..n : es[k] = fs[k]
    OBVIOUS
  <1> HIDE DEF n, fs
  <1>2. PICK f : IsReplay(f, es, n) /\ Rebuilt(es) = f[n]
    BY <1>1, RebuiltIsReplay DEF n
  <1>3. PICK g : IsReplay(g, fs, n + 1) /\ Rebuilt(fs) = g[n + 1]
    BY <1>1, RebuiltIsReplay
  <1>4. f[n] = g[n]
    <2>1. n \in 0..n /\ n + 1 \in Nat /\ n <= n + 1
      BY <1>1
    <2> QED BY <2>1, <1>1, <1>2, <1>3, ReplayUnique
  <1>5. g[n + 1] = Applied(g[n], n + 1, fs[n + 1])
    <2>1. n + 1 \in 1..(n + 1) /\ (n + 1) - 1 = n
      BY <1>1
    <2> QED BY <2>1, <1>3 DEF IsReplay
  <1> QED BY <1>1, <1>2, <1>3, <1>4, <1>5 DEF n, fs

-----------------------------------------------------------------------------
\* What one event does to a surface.

\* t is s with event i in the place of over.
IsReplaced(t, s, i, over) == t = [j \in DOMAIN s |-> IF s[j] = over THEN i ELSE s[j]]

\* A replacement keeps the length of the surface.
LEMMA ReplacedPlaces ==
  ASSUME NEW n \in Nat, NEW s \in Seq(1..n), NEW over, NEW t,
         IsReplaced(t, s, n + 1, over)
  PROVE  t \in Seq(1..(n + 1)) /\ Len(t) = Len(s) /\ DOMAIN t = 1..Len(s)
  <1>1. Len(s) \in Nat /\ DOMAIN s = 1..Len(s)
    OBVIOUS
  <1>2. \A j \in 1..Len(s) : t[j] \in 1..(n + 1)
    <2> TAKE j \in 1..Len(s)
    <2>1. s[j] \in 1..n
      OBVIOUS
    <2>2. n + 1 \in 1..(n + 1) /\ s[j] \in 1..(n + 1)
      BY <2>1
    <2> QED BY <1>1, <2>2 DEF IsReplaced
  <1>3. t = [j \in 1..Len(s) |-> t[j]]
    BY <1>1 DEF IsReplaced
  <1> QED BY <1>1, <1>2, <1>3

LEMMA AppliedType ==
  ASSUME NEW n \in Nat, NEW s \in Seq(1..n), NEW ev \in Event
  PROVE  Applied(s, n + 1, ev) \in Seq(1..(n + 1))
  <1>1. s \in Seq(1..(n + 1))
    <2>1. 1..n \subseteq 1..(n + 1)
      OBVIOUS
    <2> QED BY <2>1
  <1>2. Append(s, n + 1) \in Seq(1..(n + 1))
    BY <1>1
  <1>3. [j \in DOMAIN s |-> IF s[j] = ev.over THEN n + 1 ELSE s[j]] \in Seq(1..(n + 1))
    <2>1. PICK t : IsReplaced(t, s, n + 1, ev.over)
      BY DEF IsReplaced
    <2>2. t \in Seq(1..(n + 1))
      BY <2>1, ReplacedPlaces
    <2> QED BY <2>1, <2>2 DEF IsReplaced
  <1> QED BY <1>1, <1>2, <1>3 DEF Applied

\* A surface refers to events of its log.
LEMMA RebuiltType ==
  ASSUME NEW es \in Seq(Event)
  PROVE  Rebuilt(es) \in Seq(1..Len(es))
  <1>1. Len(es) \in Nat
    OBVIOUS
  <1>2. PICK f : IsReplay(f, es, Len(es)) /\ Rebuilt(es) = f[Len(es)]
    BY <1>1, RebuiltIsReplay
  <1> DEFINE Bad == {k \in 0..Len(es) : f[k] \notin Seq(1..k)}
  <1>3. SUFFICES ASSUME Bad # {} PROVE FALSE
    <2>1. Len(es) \in 0..Len(es)
      BY <1>1
    <2> QED BY <2>1, <1>2
  <1> HIDE DEF Bad
  <1>4. PICK k \in Bad : \A j \in Bad : k <= j
    <2>1. Bad \subseteq Nat
      BY DEF Bad
    <2> QED BY <1>3, <2>1, LeastNatural
  <1>5. k \in 0..Len(es) /\ f[k] \notin Seq(1..k)
    BY <1>4 DEF Bad
  <1>6. k # 0
    <2>1. f[0] = <<>> /\ <<>> \in Seq(1..0)
      BY <1>2 DEF IsReplay
    <2> QED BY <2>1, <1>5
  <1>7. k - 1 \in Nat /\ k - 1 \in 0..Len(es) /\ k - 1 \notin Bad /\ (k - 1) + 1 = k
        /\ k \in 1..Len(es)
    BY <1>1, <1>4, <1>5, <1>6
  <1>8. f[k - 1] \in Seq(1..(k - 1))
    BY <1>7 DEF Bad
  <1>9. es[k] \in Event
    BY <1>7
  <1>10. Applied(f[k - 1], (k - 1) + 1, es[k]) \in Seq(1..((k - 1) + 1))
    BY <1>7, <1>8, <1>9, AppliedType
  <1>11. f[k] = Applied(f[k - 1], k, es[k])
    BY <1>2, <1>7 DEF IsReplay
  <1> QED BY <1>5, <1>7, <1>10, <1>11

\* What the model is shown besides the prompt.
Messages == {"turn", "user", "answer"}

\* s is a surface as HeadIsPrompt wants it for the log es.
IsSurface(es, s) ==
  /\ \A i \in DOMAIN s : (i = 1) <=> (es[s[i]].type = "system")
  /\ s # <<>> => \A i \in DOMAIN es : es[i].type = "system" => i <= s[1]
  /\ \A i \in 2..Len(s) - 1 : s[i] < s[i + 1]
  /\ {s[i] : i \in 2..Len(s)} = {i \in DOMAIN es : es[i].type \in {"turn", "user", "answer"}}

\* The events the code appends: a message only after the prompt, and a prompt
\* in the place of the one before.
Fits(s, ev) ==
  \/ ev.type = "note" /\ ev.op = "none"
  \/ ev.type \in {"turn", "user", "answer"} /\ ev.op = "append" /\ s # <<>>
  \/ ev.type = "system" /\ ev.op = "append" /\ s = <<>>
  \/ ev.type = "system" /\ ev.op = "replace" /\ s # <<>> /\ ev.over = s[1]

\* The same in terms of places.
LEMMA SurfaceParts ==
  ASSUME NEW es \in Seq(Event), NEW s \in Seq(1..Len(es))
  PROVE  IsSurface(es, s) <=>
           /\ \A i \in 1..Len(s) : (i = 1) <=> (es[s[i]].type = "system")
           /\ s # <<>> => \A i \in 1..Len(es) : es[i].type = "system" => i <= s[1]
           /\ \A i \in 2..Len(s) - 1 : s[i] < s[i + 1]
           /\ \A i \in 2..Len(s) : es[s[i]].type \in Messages
           /\ \A k \in 1..Len(es) : es[k].type \in Messages => \E i \in 2..Len(s) : s[i] = k
  <1>1. DOMAIN es = 1..Len(es) /\ DOMAIN s = 1..Len(s)
    OBVIOUS
  <1>2. \A i \in 2..Len(s) : s[i] \in 1..Len(es)
    OBVIOUS
  <1>3. {s[i] : i \in 2..Len(s)} = {i \in DOMAIN es : es[i].type \in Messages} <=>
           /\ \A i \in 2..Len(s) : es[s[i]].type \in Messages
           /\ \A k \in 1..Len(es) : es[k].type \in Messages => \E i \in 2..Len(s) : s[i] = k
    <2>1. ASSUME {s[i] : i \in 2..Len(s)} = {i \in DOMAIN es : es[i].type \in Messages}
          PROVE  /\ \A i \in 2..Len(s) : es[s[i]].type \in Messages
                 /\ \A k \in 1..Len(es) : es[k].type \in Messages => \E i \in 2..Len(s) : s[i] = k
      <3>1. ASSUME NEW i \in 2..Len(s) PROVE es[s[i]].type \in Messages
        <4>1. s[i] \in {j \in DOMAIN es : es[j].type \in Messages}
          BY <2>1
        <4> QED BY <4>1
      <3>2. ASSUME NEW k \in 1..Len(es), es[k].type \in Messages
            PROVE  \E i \in 2..Len(s) : s[i] = k
        <4>1. k \in {s[i] : i \in 2..Len(s)}
          BY <1>1, <2>1, <3>2
        <4> QED BY <4>1
      <3> QED BY <3>1, <3>2
    <2>2. ASSUME \A i \in 2..Len(s) : es[s[i]].type \in Messages,
                 \A k \in 1..Len(es) : es[k].type \in Messages => \E i \in 2..Len(s) : s[i] = k
          PROVE  {s[i] : i \in 2..Len(s)} = {i \in DOMAIN es : es[i].type \in Messages}
      <3>1. \A x \in {s[i] : i \in 2..Len(s)} : x \in {i \in DOMAIN es : es[i].type \in Messages}
        BY <1>1, <1>2, <2>2
      <3>2. \A x \in {i \in DOMAIN es : es[i].type \in Messages} : x \in {s[i] : i \in 2..Len(s)}
        BY <1>1, <2>2
      <3> QED BY <3>1, <3>2
    <2> QED BY <2>1, <2>2
  <1> QED BY <1>1, <1>3 DEF IsSurface, Messages

LEMMA SurfaceKept ==
  ASSUME NEW es \in Seq(Event), NEW s \in Seq(1..Len(es)), NEW ev \in Event,
         IsSurface(es, s), Fits(s, ev)
  PROVE  IsSurface(Append(es, ev), Applied(s, Len(es) + 1, ev))
  <1>0. PICK n \in Nat, fs \in Seq(Event) : n = Len(es) /\ fs = Append(es, ev)
    <2>1. Len(es) \in Nat /\ Append(es, ev) \in Seq(Event)
      OBVIOUS
    <2> QED BY <2>1
  <1>b. Len(s) \in Nat
    OBVIOUS
  <1>1. Len(fs) = n + 1 /\ fs[n + 1] = ev /\ \A k \in 1..n : fs[k] = es[k]
    BY <1>0
  <1>2. Len(s) \in Nat /\ DOMAIN s = 1..Len(s) /\ \A i \in 1..Len(s) : s[i] \in 1..n
    BY <1>0
  <1>3. s # <<>> => 1 \in 1..Len(s)
    BY <1>2
  <1>4. /\ \A i \in 1..Len(s) : (i = 1) <=> (es[s[i]].type = "system")
        /\ s # <<>> => \A i \in 1..n : es[i].type = "system" => i <= s[1]
        /\ \A i \in 2..Len(s) - 1 : s[i] < s[i + 1]
        /\ \A i \in 2..Len(s) : es[s[i]].type \in Messages
        /\ \A k \in 1..n : es[k].type \in Messages => \E i \in 2..Len(s) : s[i] = k
    BY <1>0, SurfaceParts
  <1>5. PICK t \in Seq(1..(n + 1)) : t = Applied(s, n + 1, ev)
    BY <1>0, AppliedType
  <1>a. SUFFICES /\ \A i \in 1..Len(t) : (i = 1) <=> (fs[t[i]].type = "system")
                 /\ t # <<>> => \A i \in 1..(n + 1) : fs[i].type = "system" => i <= t[1]
                 /\ \A i \in 2..Len(t) - 1 : t[i] < t[i + 1]
                 /\ \A i \in 2..Len(t) : fs[t[i]].type \in Messages
                 /\ \A k \in 1..(n + 1) : fs[k].type \in Messages => \E i \in 2..Len(t) : t[i] = k
    <2>1. t \in Seq(1..Len(fs))
      BY <1>1
    <2>2. IsSurface(fs, t)
      BY <2>1, <1>0, <1>1, <1>a, SurfaceParts
    <2> QED BY <2>2, <1>0, <1>5
  <1>6. CASE ev.type = "note" /\ ev.op = "none"
    <2>1. t = s
      BY <1>5, <1>6 DEF Applied
    <2>2. ev.type # "system" /\ ev.type \notin Messages
      BY <1>6 DEF Messages
    <2>3. \A k \in 1..(n + 1) : fs[k].type = "system" \/ fs[k].type \in Messages
                                 => k \in 1..n /\ fs[k] = es[k]
      <3> TAKE k \in 1..(n + 1)
      <3>1. CASE k = n + 1
        BY <3>1, <1>1, <2>2
      <3>2. CASE k # n + 1
        BY <3>2, <1>1
      <3> QED BY <3>1, <3>2
    <2>4. \A i \in 1..Len(s) : fs[s[i]] = es[s[i]]
      BY <1>1, <1>2
    <2>5. \A i \in 2..Len(s) : i \in 1..Len(s)
      BY <1>b
    <2> QED BY <1>4, <2>1, <2>3, <2>4, <2>5
  <1>7. CASE ev.type \in Messages /\ ev.op = "append" /\ s # <<>>
    <2>1. t = Append(s, n + 1)
      BY <1>5, <1>7 DEF Applied
    <2>2. /\ Len(t) = Len(s) + 1 /\ t[Len(s) + 1] = n + 1
          /\ \A i \in 1..Len(s) : t[i] = s[i]
      BY <2>1, <1>2
    <2>0. Len(t) = Len(s) + 1
      BY <2>2
    <2>3. Len(s) >= 1
      BY <1>2, <1>7
    <2>4. \A i \in 1..Len(t) : (i = 1) <=> (fs[t[i]].type = "system")
      <3> SUFFICES ASSUME NEW i \in 1..Len(t)
                   PROVE  (i = 1) <=> (fs[t[i]].type = "system")
        OBVIOUS
      <3>1. CASE i = Len(s) + 1
        <4>1. ev.type # "system"
          BY <1>7 DEF Messages
        <4> QED BY <4>1, <3>1, <1>b, <1>1, <2>2, <2>3
      <3>2. CASE i # Len(s) + 1
        <4>1. i \in 1..Len(s)
          BY <3>2, <1>b, <2>0
        <4> QED BY <4>1, <1>1, <1>2, <1>4, <2>2
      <3> QED BY <3>1, <3>2
    <2>5. \A i \in 1..(n + 1) : fs[i].type = "system" => i <= t[1]
      BY <1>1, <1>2, <1>4, <1>7, <2>2, <2>3
    <2>6. \A i \in 2..Len(t) - 1 : t[i] < t[i + 1]
      <3> SUFFICES ASSUME NEW i \in 2..Len(t) - 1 PROVE t[i] < t[i + 1]
        OBVIOUS
      <3>1. CASE i = Len(s)
        <4>1. i \in 1..Len(s)
          BY <3>1, <1>b, <2>3
        <4>2. t[i] = s[i] /\ s[i] \in 1..n
          BY <4>1, <1>2, <2>2
        <4>3. t[i + 1] = n + 1
          BY <3>1, <2>2
        <4>4. n \in Nat
          OBVIOUS
        <4> QED BY <4>2, <4>3, <4>4
      <3>2. CASE i # Len(s)
        <4>1. i \in 2..Len(s) - 1 /\ i \in 1..Len(s) /\ i + 1 \in 1..Len(s)
          BY <3>2, <1>b, <2>0
        <4> QED BY <4>1, <1>4, <2>2
      <3> QED BY <3>1, <3>2
    <2>7. \A i \in 2..Len(t) : fs[t[i]].type \in Messages
      <3> SUFFICES ASSUME NEW i \in 2..Len(t) PROVE fs[t[i]].type \in Messages
        OBVIOUS
      <3>1. CASE i = Len(s) + 1
        BY <3>1, <1>1, <1>7, <2>2
      <3>2. CASE i # Len(s) + 1
        <4>1. i \in 2..Len(s) /\ i \in 1..Len(s)
          BY <3>2, <1>2, <2>2
        <4> QED BY <4>1, <1>1, <1>2, <1>4, <2>2
      <3> QED BY <3>1, <3>2
    <2>8. \A k \in 1..(n + 1) : fs[k].type \in Messages => \E i \in 2..Len(t) : t[i] = k
      <3> SUFFICES ASSUME NEW k \in 1..(n + 1), fs[k].type \in Messages
                   PROVE  \E i \in 2..Len(t) : t[i] = k
        OBVIOUS
      <3>1. CASE k = n + 1
        <4>1. Len(s) + 1 \in 2..Len(t)
          BY <1>2, <2>2, <2>3
        <4> QED BY <4>1, <3>1, <2>2
      <3>2. CASE k # n + 1
        <4>1. k \in 1..n
          BY <3>2, <1>1
        <4>2. PICK i \in 2..Len(s) : s[i] = k
          BY <4>1, <1>1, <1>4
        <4>3. i \in 2..Len(t) /\ t[i] = k
          BY <4>2, <1>2, <2>2
        <4> QED BY <4>3
      <3> QED BY <3>1, <3>2
    <2> QED BY <2>4, <2>5, <2>6, <2>7, <2>8
  <1>8. CASE ev.type = "system" /\ ev.op = "append" /\ s = <<>>
    <2>1. t = <<n + 1>>
      BY <1>5, <1>8 DEF Applied
    <2>2. Len(t) = 1 /\ t[1] = n + 1 /\ Len(s) = 0
      BY <2>1, <1>8
    <2>3. ev.type \notin Messages
      BY <1>8 DEF Messages
    <2> QED BY <1>1, <1>4, <1>8, <2>2, <2>3
  <1>9. CASE ev.type = "system" /\ ev.op = "replace" /\ s # <<>> /\ ev.over = s[1]
    <2>1. t = [j \in DOMAIN s |-> IF s[j] = s[1] THEN n + 1 ELSE s[j]]
      <3>1. 1 \in DOMAIN s
        BY <1>2, <1>3, <1>9
      <3> QED BY <3>1, <1>5, <1>9 DEF Applied
    <2>2. Len(t) = Len(s) /\ DOMAIN t = 1..Len(s)
      <3>1. s \in Seq(1..n)
        BY <1>0
      <3>2. IsReplaced(t, s, n + 1, s[1])
        BY <2>1 DEF IsReplaced
      <3> QED BY <3>1, <3>2, ReplacedPlaces
    <2>3. Len(s) >= 1 /\ t[1] = n + 1
      BY <1>2, <1>3, <1>9, <2>1
    <2>4. \A i \in 2..Len(s) : t[i] = s[i]
      <3> SUFFICES ASSUME NEW i \in 2..Len(s) PROVE t[i] = s[i]
        OBVIOUS
      <3>1. i \in 1..Len(s) /\ i # 1 /\ 1 \in 1..Len(s)
        BY <1>2, <2>3
      <3>2. s[i] # s[1]
        BY <3>1, <1>4
      <3> QED BY <3>1, <3>2, <2>1, <1>2
    <2>5. \A i \in 1..Len(t) : (i = 1) <=> (fs[t[i]].type = "system")
      <3> SUFFICES ASSUME NEW i \in 1..Len(s)
                   PROVE  (i = 1) <=> (fs[t[i]].type = "system")
        BY <2>2
      <3>1. CASE i = 1
        BY <3>1, <1>1, <1>9, <2>3
      <3>2. CASE i # 1
        <4>1. i \in 2..Len(s)
          BY <3>2, <1>2
        <4> QED BY <4>1, <3>2, <1>1, <1>2, <1>4, <2>4
      <3> QED BY <3>1, <3>2
    <2>6. \A i \in 1..(n + 1) : i <= t[1]
      BY <1>1, <2>3
    <2>7. \A i \in 2..Len(t) - 1 : t[i] < t[i + 1]
      <3> SUFFICES ASSUME NEW i \in 2..Len(s) - 1 PROVE t[i] < t[i + 1]
        BY <2>2
      <3>1. i \in 2..Len(s) /\ i + 1 \in 2..Len(s)
        BY <1>2
      <3> QED BY <3>1, <1>4, <2>4
    <2>8. \A i \in 2..Len(t) : fs[t[i]].type \in Messages
      <3> SUFFICES ASSUME NEW i \in 2..Len(s) PROVE fs[t[i]].type \in Messages
        BY <2>2
      <3>1. s[i] \in 1..n
        BY <1>2
      <3> QED BY <3>1, <1>1, <1>4, <2>4
    <2>9. \A k \in 1..(n + 1) : fs[k].type \in Messages => \E i \in 2..Len(t) : t[i] = k
      <3> SUFFICES ASSUME NEW k \in 1..(n + 1), fs[k].type \in Messages
                   PROVE  \E i \in 2..Len(s) : t[i] = k
        BY <2>2
      <3>1. k \in 1..n
        BY <1>1, <1>9 DEF Messages
      <3>2. PICK i \in 2..Len(s) : s[i] = k
        BY <3>1, <1>1, <1>4
      <3> QED BY <3>2, <2>4
    <2> QED BY <2>5, <2>6, <2>7, <2>8, <2>9
  <1> QED BY <1>6, <1>7, <1>8, <1>9 DEF Fits, Messages

-----------------------------------------------------------------------------
\* What appending does to a log as a whole.

Keeps(es, fs) == /\ Len(es) <= Len(fs)
                 /\ \A i \in 1..Len(es) : fs[i] = es[i]

LEMMA KeepsAgain ==
  ASSUME NEW es \in Seq(Event), NEW fs \in Seq(Event), NEW gs \in Seq(Event),
         Keeps(es, fs), Keeps(fs, gs)
  PROVE  Keeps(es, gs)
  <1>1. Len(es) \in Nat /\ Len(fs) \in Nat /\ Len(gs) \in Nat
    OBVIOUS
  <1>2. \A i \in 1..Len(es) : i \in 1..Len(fs)
    BY <1>1 DEF Keeps
  <1> QED BY <1>1, <1>2 DEF Keeps

LEMMA KeepsItself ==
  ASSUME NEW es \in Seq(Event)
  PROVE  Keeps(es, es)
  <1>1. Len(es) \in Nat
    OBVIOUS
  <1> QED BY <1>1 DEF Keeps

TurnsUp(es) ==
  \A i, j \in 1..Len(es) : i < j /\ es[i].type = "turn" /\ es[j].type = "turn"
                             => es[i].val < es[j].val

\* Beyond r, an answer belongs to a turn that was opened beyond r.
Opened(es, r) ==
  \A i \in 1..Len(es) : r < i /\ es[i].type = "answer"
    => \E j \in 1..Len(es) : r < j /\ j < i /\ es[j].type = "turn"

Whole(es) == IsSurface(es, Rebuilt(es)) /\ TurnsUp(es) /\ Opened(es, 0)

LEMMA EmptyIsWhole == Whole(<<>>) /\ \A r \in Nat : Opened(<<>>, r)
  <1>1. <<>> \in Seq(Event) /\ <<>> \in Seq(1..Len(<<>>)) /\ Len(<<>>) = 0
    OBVIOUS
  <1>2. IsSurface(<<>>, <<>>)
    <2>1. \A i \in 2..Len(<<>>) : FALSE
      BY <1>1
    <2>2. \A i \in 1..Len(<<>>) : FALSE
      BY <1>1
    <2>3. \A i \in 2..Len(<<>>) - 1 : FALSE
      BY <1>1
    <2> QED BY <1>1, <2>1, <2>2, <2>3, SurfaceParts
  <1> QED BY <1>1, <1>2, RebuiltEmpty DEF Whole, TurnsUp, Opened

\* An event that is no message leaves turns and answers alone.
LEMMA WholeWithoutMessage ==
  ASSUME NEW es \in Seq(Event), NEW fs \in Seq(Event), Keeps(es, fs),
         \A i \in 1..Len(fs) : fs[i].type \in Messages => i \in 1..Len(es)
  PROVE  /\ TurnsUp(es) => TurnsUp(fs)
         /\ \A r \in Nat : Opened(es, r) => Opened(fs, r)
  <1>1. Len(es) \in Nat /\ Len(fs) \in Nat
    OBVIOUS
  <1>2. \A i \in 1..Len(fs) : fs[i].type \in {"turn", "answer"}
          => i \in 1..Len(es) /\ es[i] = fs[i]
    BY DEF Keeps, Messages
  <1>3. TurnsUp(es) => TurnsUp(fs)
    BY <1>2 DEF TurnsUp
  <1>4. \A r \in Nat : Opened(es, r) => Opened(fs, r)
    <2> TAKE r \in Nat
    <2> HAVE Opened(es, r)
    <2> SUFFICES ASSUME NEW i \in 1..Len(fs), r < i, fs[i].type = "answer"
                 PROVE  \E j \in 1..Len(fs) : r < j /\ j < i /\ fs[j].type = "turn"
      BY DEF Opened
    <2>1. i \in 1..Len(es) /\ es[i].type = "answer"
      BY <1>2
    <2>2. PICK j \in 1..Len(es) : r < j /\ j < i /\ es[j].type = "turn"
      BY <2>1 DEF Opened
    <2>3. j \in 1..Len(fs) /\ fs[j] = es[j]
      BY <1>1 DEF Keeps
    <2> QED BY <2>2, <2>3
  <1> QED BY <1>3, <1>4

LEMMA AppendKeeps ==
  ASSUME NEW es \in Seq(Event), NEW ev \in Event
  PROVE  /\ Append(es, ev) \in Seq(Event)
         /\ Len(Append(es, ev)) = Len(es) + 1
         /\ Append(es, ev)[Len(es) + 1] = ev
         /\ Keeps(es, Append(es, ev))
         /\ \A i \in 1..Len(Append(es, ev)) :
              i = Len(es) + 1 \/ (i \in 1..Len(es) /\ Append(es, ev)[i] = es[i])
  <1>1. Len(es) \in Nat
    OBVIOUS
  <1>2. Append(es, ev) \in Seq(Event) /\ Len(Append(es, ev)) = Len(es) + 1
    OBVIOUS
  <1>3. Append(es, ev)[Len(es) + 1] = ev
    OBVIOUS
  <1>4. \A i \in 1..Len(es) : Append(es, ev)[i] = es[i]
    OBVIOUS
  <1>5. \A i \in 1..(Len(es) + 1) : i = Len(es) + 1 \/ i \in 1..Len(es)
    BY <1>1
  <1>6. Keeps(es, Append(es, ev))
    BY <1>1, <1>2, <1>4 DEF Keeps
  <1> QED BY <1>2, <1>3, <1>4, <1>5, <1>6

LEMMA WholeAppend ==
  ASSUME NEW es \in Seq(Event), NEW ev \in Event, NEW r \in Nat,
         Whole(es), Opened(es, r), Fits(Rebuilt(es), ev),
         ev.type = "turn" => \A i \in 1..Len(es) : es[i].type = "turn" => es[i].val < ev.val,
         ev.type = "answer" => \E j \in 1..Len(es) : r < j /\ es[j].type = "turn"
  PROVE  Whole(Append(es, ev)) /\ Opened(Append(es, ev), r)
  <1>1. PICK n \in Nat, fs \in Seq(Event) : n = Len(es) /\ fs = Append(es, ev)
    <2>1. Len(es) \in Nat /\ Append(es, ev) \in Seq(Event)
      OBVIOUS
    <2> QED BY <2>1
  <1>2. /\ Len(fs) = n + 1 /\ fs[n + 1] = ev
        /\ \A i \in 1..(n + 1) : i = n + 1 \/ (i \in 1..n /\ fs[i] = es[i])
    BY <1>1, AppendKeeps
  <1>3. IsSurface(fs, Rebuilt(fs))
    BY <1>1, RebuiltAppend, RebuiltType, SurfaceKept DEF Whole
  <1>4. TurnsUp(fs)
    <2> SUFFICES ASSUME NEW i \in 1..(n + 1), NEW j \in 1..(n + 1), i < j,
                        fs[i].type = "turn", fs[j].type = "turn"
                 PROVE  fs[i].val < fs[j].val
      BY <1>2 DEF TurnsUp
    <2>1. i \in 1..n /\ fs[i] = es[i]
      BY <1>2
    <2>2. CASE j = n + 1
      BY <2>1, <2>2, <1>1, <1>2
    <2>3. CASE j # n + 1
      <3>1. j \in 1..n /\ fs[j] = es[j]
        BY <2>3, <1>2
      <3> QED BY <2>1, <3>1, <1>1 DEF Whole, TurnsUp
    <2> QED BY <2>2, <2>3
  <1>5. ASSUME NEW q \in Nat, Opened(es, q), q <= r
        PROVE  Opened(fs, q)
    <2> SUFFICES ASSUME NEW i \in 1..(n + 1), q < i, fs[i].type = "answer"
                 PROVE  \E j \in 1..(n + 1) : q < j /\ j < i /\ fs[j].type = "turn"
      BY <1>2 DEF Opened
    <2>1. CASE i = n + 1
      <3>1. PICK j \in 1..n : r < j /\ es[j].type = "turn"
        BY <2>1, <1>1, <1>2
      <3>2. j \in 1..(n + 1) /\ j < i /\ q < j /\ fs[j] = es[j]
        BY <3>1, <2>1, <1>2, <1>5
      <3> QED BY <3>1, <3>2
    <2>2. CASE i # n + 1
      <3>1. i \in 1..n /\ es[i].type = "answer"
        BY <2>2, <1>2
      <3>2. PICK j \in 1..n : q < j /\ j < i /\ es[j].type = "turn"
        BY <3>1, <1>1, <1>5 DEF Opened
      <3>3. j \in 1..(n + 1) /\ fs[j] = es[j]
        BY <1>2
      <3> QED BY <3>2, <3>3
    <2> QED BY <2>1, <2>2
  <1>6. Opened(fs, r) /\ Opened(fs, 0)
    BY <1>5 DEF Whole
  <1> QED BY <1>1, <1>3, <1>4, <1>6 DEF Whole

-----------------------------------------------------------------------------
\* The inductive invariant.

LogTypes ==
  /\ file \in [Objects -> Files]
  /\ log \in [Objects -> Seq(Event)]
  /\ restored \in [Objects -> Nat] /\ \A o \in Objects : restored[o] <= Len(log[o])
  /\ current \in Objects \cup {None}
  /\ held \in Objects \cup {None}
  /\ at \in {"idle", "opening", "loop", "asking", "answered", "decided",
            "calling", "returned"}
  /\ turnNo \in Nat /\ turnCounter \in Nat
  /\ sysPrompt \in Prompts \cup {0}
  /\ rendering \in Prompts
  /\ needsUpdate \in BOOLEAN
  /\ disk \in [Files -> Seq(Event)]
  /\ strayed \in SUBSET Files
  /\ outside \in 0..MaxOutside

\* A surface in memory is what a load of its log would give.
Replayed == surface = [o \in Objects |-> Rebuilt(log[o])]

\* A run holds a session, and none without the agent's having one.
RunHolds == /\ (at = "idle") <=> (held = None)
            /\ current = None => held = None

\* While a run goes on, the agent's session is the run's or was switched to.
OneWriter == held # None /\ held # current => file[current] \in strayed

FilesWhole == \A f \in Files \ strayed : Whole(disk[f])

\* A live object has all that its file has, and may have more.
ObjectsWhole ==
  \A o \in Objects : Live(o) => /\ Whole(log[o])
                                /\ Opened(log[o], restored[o])
                                /\ Keeps(disk[file[o]], log[o])

TurnsBelow(o, m) == \A i \in 1..Len(log[o]) : log[o][i].type = "turn" => log[o][i].val < m

TurnsCounted ==
  /\ Live(current) => TurnsBelow(current, turnCounter + 1)
  /\ at = "opening" /\ Live(held) =>
       /\ TurnsBelow(held, turnNo)
       /\ held = current => turnNo <= turnCounter

\* A run's session begins with a prompt, and so does the agent's when no update
\* is due.
PromptThere ==
  /\ at # "idle" /\ Live(held) => surface[held] # <<>>
  /\ ~ needsUpdate /\ Live(current) => surface[current] # <<>>

TurnThere ==
  at \notin {"idle", "opening"} /\ Live(held) =>
    \E i \in 1..Len(log[held]) : restored[held] < i /\ log[held][i].type = "turn"

PromptOfStep ==
  at = "asking" /\ held = current /\ Live(held) =>
    log[held][surface[held][1]].val = sysPrompt

SessionInductive ==
  /\ LogTypes /\ Replayed /\ RunHolds /\ OneWriter /\ FilesWhole /\ ObjectsWhole
  /\ TurnsCounted /\ PromptThere /\ TurnThere /\ PromptOfStep

-----------------------------------------------------------------------------
\* The initial states.

LEMMA InitSessionInductive == Init => SessionInductive
  <1> SUFFICES ASSUME Init PROVE SessionInductive
    OBVIOUS
  <1> USE SessionAssumption
  <1>1. <<>> \in Seq(Event) /\ Len(<<>>) = 0
    OBVIOUS
  <1>2. LogTypes
    <2>1. 0 \in 0..MaxOutside
      OBVIOUS
    <2>2. /\ file \in [Objects -> Files] /\ log \in [Objects -> Seq(Event)]
          /\ restored \in [Objects -> Nat] /\ disk \in [Files -> Seq(Event)]
      BY <1>1 DEF Init
    <2>3. \A o \in Objects : restored[o] <= Len(log[o])
      BY <1>1 DEF Init
    <2> QED BY <2>1, <2>2, <2>3 DEF Init, LogTypes
  <1>3. Replayed
    BY RebuiltEmpty DEF Init, Replayed
  <1>4. \A o \in Objects : ~ Live(o)
    BY DEF Init, Live
  <1>5. current = None /\ held = None /\ at = "idle"
    BY DEF Init
  <1>6. ~ Live(None)
    BY DEF Live
  <1>7. FilesWhole
    BY EmptyIsWhole DEF Init, FilesWhole
  <1>8. ObjectsWhole
    BY <1>4 DEF ObjectsWhole
  <1>9. TurnsCounted /\ PromptThere /\ TurnThere /\ PromptOfStep
    BY <1>5, <1>6 DEF TurnsCounted, PromptThere, TurnThere, PromptOfStep
  <1>10. RunHolds /\ OneWriter
    BY <1>5 DEF RunHolds, OneWriter
  <1> QED BY <1>2, <1>3, <1>7, <1>8, <1>9, <1>10 DEF SessionInductive

-----------------------------------------------------------------------------
\* What the helpers of the actions do.

LEMMA EventParts ==
  ASSUME NEW val \in Nat
  PROVE  /\ \A type \in Types : Message(type, val) \in Event /\ LogOnly(type, val) \in Event
         /\ \A type : /\ Message(type, val).type = type /\ Message(type, val).val = val
                      /\ Message(type, val).op = "append"
                      /\ LogOnly(type, val).type = type /\ LogOnly(type, val).op = "none"
  BY DEF Message, LogOnly, Event, Types

\* Put, for an object whose log and surface in the step are es and its replay.
LEMMA Putting ==
  ASSUME LogTypes, Replayed, NEW o \in Objects, NEW es \in Seq(Event), NEW ev \in Event,
         Put(o, es, Rebuilt(es), ev)
  PROVE  /\ log' = [log EXCEPT ![o] = Append(es, ev)]
         /\ log' \in [Objects -> Seq(Event)]
         /\ log'[o] = Append(es, ev)
         /\ \A q \in Objects : q # o => log'[q] = log[q] /\ surface'[q] = surface[q]
         /\ surface'[o] = Applied(Rebuilt(es), Len(es) + 1, ev)
         /\ Replayed'
  <1>1. log' = [log EXCEPT ![o] = Append(es, ev)]
        /\ surface' = [surface EXCEPT ![o] = Applied(Rebuilt(es), Len(es) + 1, ev)]
    BY DEF Put
  <1>2. log \in [Objects -> Seq(Event)] /\ surface = [q \in Objects |-> Rebuilt(log[q])]
    BY DEF LogTypes, Replayed
  <1>3. Append(es, ev) \in Seq(Event)
    OBVIOUS
  <1>4. log' \in [Objects -> Seq(Event)] /\ log'[o] = Append(es, ev)
        /\ surface'[o] = Applied(Rebuilt(es), Len(es) + 1, ev)
        /\ \A q \in Objects : q # o => log'[q] = log[q] /\ surface'[q] = surface[q]
    BY <1>1, <1>2, <1>3
  <1>5. surface' = [q \in Objects |-> Rebuilt(log'[q])]
    <2>1. \A q \in Objects : surface'[q] = Rebuilt(log'[q])
      BY <1>2, <1>4, RebuiltAppend
    <2>2. surface' = [q \in Objects |-> surface'[q]]
      BY <1>1, <1>2
    <2> QED BY <2>1, <2>2
  <1> QED BY <1>1, <1>4, <1>5 DEF Replayed

\* CommitPrompt: afterwards the log begins with the prompt of now.
LEMMA Committing ==
  ASSUME LogTypes, Replayed, NEW o \in Objects, NEW es \in Seq(Event),
         CommitPrompt(o, es, Rebuilt(es))
  PROVE  /\ log' \in [Objects -> Seq(Event)]
         /\ \A q \in Objects : q # o => log'[q] = log[q] /\ surface'[q] = surface[q]
         /\ Replayed'
         /\ Keeps(es, log'[o])
         /\ \A i \in 1..Len(log'[o]) : log'[o][i].type \in Messages => i \in 1..Len(es)
         /\ IsSurface(es, Rebuilt(es)) =>
              /\ IsSurface(log'[o], Rebuilt(log'[o]))
              /\ surface'[o] # <<>>
              /\ log'[o][surface'[o][1]].val = rendering
  <1> DEFINE s == Rebuilt(es)
             head == IF s = <<>> THEN 0 ELSE s[1]
             isPrompt == head # 0 /\ es[head].type = "system"
             ev == [type |-> "system", val |-> rendering, over |-> head,
                    op |-> IF isPrompt THEN "replace" ELSE "append"]
  <1> USE SessionAssumption
  <1>1. s \in Seq(1..Len(es)) /\ Len(es) \in Nat
    BY RebuiltType
  <1>2. s # <<>> => s[1] \in 1..Len(es) /\ 1 \in DOMAIN s
    <2>1. s # <<>> => 1 \in 1..Len(s)
      BY <1>1
    <2> QED BY <1>1, <2>1
  <1>3. log \in [Objects -> Seq(Event)] /\ surface = [q \in Objects |-> Rebuilt(log[q])]
    BY DEF LogTypes, Replayed
  <1>4. CASE isPrompt /\ es[head].val = rendering
    <2>1. log' = [log EXCEPT ![o] = es] /\ surface' = [surface EXCEPT ![o] = s]
      BY <1>4 DEF CommitPrompt
    <2>2. log' \in [Objects -> Seq(Event)] /\ log'[o] = es /\ surface'[o] = s
          /\ \A q \in Objects : q # o => log'[q] = log[q] /\ surface'[q] = surface[q]
      BY <2>1, <1>3
    <2>3. Replayed'
      <3>1. \A q \in Objects : surface'[q] = Rebuilt(log'[q])
        BY <1>3, <2>2
      <3>2. surface' = [q \in Objects |-> surface'[q]]
        BY <2>1, <1>3
      <3> QED BY <3>1, <3>2 DEF Replayed
    <2>4. Keeps(es, es)
      BY <1>1 DEF Keeps
    <2>5. s # <<>> /\ es[s[1]].val = rendering
      BY <1>4
    <2> QED BY <2>2, <2>3, <2>4, <2>5
  <1>5. CASE ~ (isPrompt /\ es[head].val = rendering)
    <2>1. Put(o, es, s, ev)
      BY <1>5 DEF CommitPrompt
    <2>2. ev \in Event
      <3>1. head \in Nat /\ rendering \in Nat
        BY <1>1, <1>2 DEF LogTypes
      <3> QED BY <3>1 DEF Event, Types
    <2> HIDE DEF ev
    <2>3. /\ log' \in [Objects -> Seq(Event)] /\ log'[o] = Append(es, ev)
          /\ \A q \in Objects : q # o => log'[q] = log[q] /\ surface'[q] = surface[q]
          /\ surface'[o] = Applied(s, Len(es) + 1, ev)
          /\ Replayed'
      BY <2>1, <2>2, Putting
    <2>4. Keeps(es, log'[o])
      BY <2>2, <2>3, AppendKeeps
    <2>5. \A i \in 1..Len(log'[o]) : log'[o][i].type \in Messages => i \in 1..Len(es)
      <3>1. ev.type \notin Messages
        BY DEF ev, Messages
      <3> QED BY <3>1, <2>2, <2>3, AppendKeeps
    <2>6. ASSUME IsSurface(es, s)
          PROVE  /\ IsSurface(log'[o], Rebuilt(log'[o]))
                 /\ surface'[o] # <<>>
                 /\ log'[o][surface'[o][1]].val = rendering
      <3>1. s # <<>> => es[s[1]].type = "system"
        BY <1>2, <2>6 DEF IsSurface
      <3>2. s # <<>> => s[1] # 0
        BY <1>1, <1>2
      <3>3. isPrompt <=> s # <<>>
        BY <3>1, <3>2
      <3>4. ev.type = "system" /\ ev.val = rendering
            /\ ev.op = (IF isPrompt THEN "replace" ELSE "append") /\ ev.over = head
        BY DEF ev
      <3>5. Fits(s, ev)
        BY <3>3, <3>4 DEF Fits
      <3>6. Rebuilt(log'[o]) = Applied(s, Len(es) + 1, ev)
        BY <2>2, <2>3, RebuiltAppend
      <3>7. IsSurface(log'[o], Rebuilt(log'[o]))
        BY <1>1, <2>2, <2>3, <2>6, <3>5, <3>6, SurfaceKept
      <3>8. surface'[o] # <<>> /\ surface'[o][1] = Len(es) + 1
        <4>1. CASE s = <<>>
          <5>1. Applied(s, Len(es) + 1, ev) = <<Len(es) + 1>>
            BY <4>1, <3>3, <3>4 DEF Applied
          <5> QED BY <5>1, <2>3
        <4>2. CASE s # <<>>
          <5>1. ev.op = "replace" /\ ev.over = s[1] /\ 1 \in DOMAIN s
            BY <4>2, <3>3, <3>4, <1>2
          <5>2. Applied(s, Len(es) + 1, ev)
                  = [j \in DOMAIN s |-> IF s[j] = s[1] THEN Len(es) + 1 ELSE s[j]]
            BY <5>1 DEF Applied
          <5>3. Applied(s, Len(es) + 1, ev)[1] = Len(es) + 1
            BY <5>1, <5>2
          <5>4. Applied(s, Len(es) + 1, ev) # <<>>
            <6>1. DOMAIN Applied(s, Len(es) + 1, ev) = DOMAIN s
              BY <5>2
            <6>2. DOMAIN <<>> = {}
              OBVIOUS
            <6> QED BY <5>1, <6>1, <6>2
          <5> QED BY <5>3, <5>4, <2>3
        <4> QED BY <4>1, <4>2
      <3>9. log'[o][Len(es) + 1] = ev
        BY <2>2, <2>3, AppendKeeps
      <3> QED BY <3>4, <3>7, <3>8, <3>9
    <2> QED BY <2>3, <2>4, <2>5, <2>6
  <1> QED BY <1>4, <1>5

\* While a run goes on, a live session of the agent is the run's.
LEMMA LiveIsRun ==
  ASSUME RunHolds, OneWriter, at # "idle", Live(current)
  PROVE  held = current
  BY DEF RunHolds, OneWriter, Live

LEMMA FirstKept ==
  ASSUME NEW n \in Nat, NEW s \in Seq(1..n), s # <<>>
  PROVE  /\ s[1] \in 1..n
         /\ Append(s, n + 1) # <<>> /\ Append(s, n + 1)[1] = s[1]
  <1>1. Len(s) \in Nat /\ 1 \in 1..Len(s)
    OBVIOUS
  <1>2. Append(s, n + 1)[1] = s[1]
    BY <1>1
  <1>3. Append(s, n + 1) # <<>>
    OBVIOUS
  <1> QED BY <1>1, <1>2, <1>3

\* An event other than a prompt, appended to a session in use, perhaps saved.
LEMMA Growing ==
  ASSUME SessionInductive, NEW o \in Objects, NEW ev \in Event, AppendEvent(o, ev),
         o \in {current, held}, ev.type # "system",
         UNCHANGED <<file, restored, current, held, strayed>>,
         Live(o) => /\ Fits(surface[o], ev)
                    /\ ev.type = "turn" => TurnsBelow(o, ev.val)
                    /\ ev.type = "answer" => \E j \in 1..Len(log[o]) :
                                               restored[o] < j /\ log[o][j].type = "turn",
         disk' = disk \/ disk' = [disk EXCEPT ![file[o]] = log'[o]]
  PROVE  /\ log' \in [Objects -> Seq(Event)] /\ disk' \in [Files -> Seq(Event)]
         /\ log'[o] = Append(log[o], ev)
         /\ \A q \in Objects : q # o => log'[q] = log[q] /\ surface'[q] = surface[q]
         /\ \A q : Live(q)' <=> Live(q)
         /\ Replayed' /\ FilesWhole' /\ ObjectsWhole'
         /\ Live(o) /\ surface[o] # <<>> =>
              surface'[o] # <<>> /\ log'[o][surface'[o][1]] = log[o][surface[o][1]]
  <1> USE DEF SessionInductive
  <1>1. log \in [Objects -> Seq(Event)] /\ disk \in [Files -> Seq(Event)]
        /\ file \in [Objects -> Files] /\ surface[o] = Rebuilt(log[o])
        /\ log[o] \in Seq(Event) /\ restored[o] \in Nat
    BY DEF LogTypes, Replayed
  <1>2. Put(o, log[o], Rebuilt(log[o]), ev)
    BY <1>1 DEF AppendEvent
  <1>3. /\ log' \in [Objects -> Seq(Event)] /\ log'[o] = Append(log[o], ev)
        /\ \A q \in Objects : q # o => log'[q] = log[q] /\ surface'[q] = surface[q]
        /\ surface'[o] = Applied(surface[o], Len(log[o]) + 1, ev)
        /\ Replayed'
    BY <1>1, <1>2, Putting
  <1>4. disk' \in [Files -> Seq(Event)]
    BY <1>1, <1>3
  <1>5. \A q : Live(q)' <=> Live(q)
    BY DEF Live
  <1>6. ASSUME Live(o)
        PROVE  Whole(log'[o]) /\ Opened(log'[o], restored[o]) /\ Keeps(log[o], log'[o])
    <2>1. Whole(log[o]) /\ Opened(log[o], restored[o])
      BY <1>6 DEF ObjectsWhole
    <2>2. ev.type = "turn" => \A i \in 1..Len(log[o]) : log[o][i].type = "turn"
                                                        => log[o][i].val < ev.val
      BY <1>6 DEF TurnsBelow
    <2>3. Fits(Rebuilt(log[o]), ev)
      BY <1>1, <1>6
    <2> QED BY <1>1, <1>3, <1>6, <2>1, <2>2, <2>3, WholeAppend, AppendKeeps
  <1>7. FilesWhole'
    <2> SUFFICES ASSUME NEW f \in Files, f \notin strayed PROVE Whole(disk'[f])
      BY DEF FilesWhole
    <2>1. CASE disk' = disk \/ f # file[o]
      BY <2>1, <1>1 DEF FilesWhole
    <2>2. CASE disk' # disk /\ f = file[o]
      <3>1. disk'[f] = log'[o]
        BY <2>2, <1>1
      <3>2. o # None
        BY SessionAssumption
      <3>3. Live(o)
        BY <2>2, <3>2 DEF Live
      <3> QED BY <3>1, <3>3, <1>6
    <2> QED BY <2>1, <2>2
  <1>8. ObjectsWhole'
    <2> SUFFICES ASSUME NEW q \in Objects, Live(q)
                 PROVE  /\ Whole(log'[q]) /\ Opened(log'[q], restored[q])
                        /\ Keeps(disk'[file[q]], log'[q])
      BY <1>5 DEF ObjectsWhole
    <2>1. Whole(log[q]) /\ Opened(log[q], restored[q]) /\ Keeps(disk[file[q]], log[q])
      BY DEF ObjectsWhole
    <2>2. CASE q = o
      <3>1. Keeps(log[o], log'[o])
        BY <2>2, <1>6
      <3>2. disk'[file[o]] = disk[file[o]] \/ disk'[file[o]] = log'[o]
        BY <1>1
      <3>3. Keeps(log'[o], log'[o])
        <4>1. Len(log'[o]) \in Nat
          BY <1>3
        <4> QED BY <4>1 DEF Keeps
      <3>4. Keeps(disk[file[o]], log'[o])
        <4>1. disk[file[o]] \in Seq(Event) /\ log[o] \in Seq(Event) /\ log'[o] \in Seq(Event)
          BY <1>1, <1>3
        <4> QED BY <2>1, <2>2, <3>1, <4>1, KeepsAgain
      <3> QED BY <2>2, <1>6, <3>2, <3>3, <3>4
    <2>3. CASE q # o
      <3>1. log'[q] = log[q]
        BY <2>3, <1>3
      <3>2. q \in {current, held} /\ q # None /\ o # None /\ file[q] \notin strayed
        BY SessionAssumption DEF Live
      <3>3. held # None /\ held # current /\ {q, o} = {current, held}
        BY <2>3, <3>2, SessionAssumption
      <3>4. file[current] \in strayed
        BY <3>3 DEF OneWriter
      <3>5. file[q] # file[o]
        BY <3>2, <3>3, <3>4
      <3>6. disk'[file[q]] = disk[file[q]]
        BY <3>5, <1>1
      <3> QED BY <2>1, <3>1, <3>6
    <2> QED BY <2>2, <2>3
  <1>9. ASSUME Live(o), surface[o] # <<>>
        PROVE  surface'[o] # <<>> /\ log'[o][surface'[o][1]] = log[o][surface[o][1]]
    <2> DEFINE s == surface[o]
    <2>1. s \in Seq(1..Len(log[o])) /\ Len(log[o]) \in Nat
      BY <1>1, RebuiltType
    <2>2. Applied(s, Len(log[o]) + 1, ev) \in {s, Append(s, Len(log[o]) + 1)}
      <3>1. ev.op \in {"none", "append"}
        BY <1>9 DEF Fits
      <3> QED BY <3>1 DEF Applied
    <2>3. surface'[o] # <<>> /\ surface'[o][1] = s[1] /\ s[1] \in 1..Len(log[o])
      <3>1. surface'[o] = s \/ surface'[o] = Append(s, Len(log[o]) + 1)
        BY <1>3, <2>2
      <3>2. s # <<>>
        BY <1>9
      <3> HIDE DEF s
      <3> QED BY <2>1, <3>1, <3>2, FirstKept
    <2> QED BY <2>3, <1>1, <1>3, AppendKeeps DEF Keeps
  <1> QED BY <1>3, <1>4, <1>5, <1>7, <1>8, <1>9

-----------------------------------------------------------------------------
\* The actions that append one event.

\* Logs that keep what they had keep a turn, and those that get no other turn
\* keep the bound of their turns.
LEMMA TurnsKept ==
  ASSUME NEW o, NEW p, log[o] \in Seq(Event), (log[o])' \in Seq(Event),
         Keeps(log[o], (log[o])')
  PROVE  /\ (\E i \in 1..Len(log[o]) : p < i /\ log[o][i].type = "turn")
              => \E i \in 1..Len((log[o])') : p < i /\ (log[o])'[i].type = "turn"
         /\ \A m : TurnsBelow(o, m)
                   /\ (\A i \in 1..Len((log[o])') : (log[o])'[i].type = "turn"
                                                    => i \in 1..Len(log[o]))
                   => \A i \in 1..Len((log[o])') : (log[o])'[i].type = "turn"
                                                   => (log[o])'[i].val < m
  <1>1. Len(log[o]) \in Nat /\ Len((log[o])') \in Nat
    OBVIOUS
  <1>2. \A i \in 1..Len(log[o]) : i \in 1..Len((log[o])') /\ (log[o])'[i] = log[o][i]
    BY <1>1 DEF Keeps
  <1> QED BY <1>2 DEF TurnsBelow

\* An event other than a prompt and a turn leaves the bookkeeping of runs as it is.
LEMMA QuietGrowth ==
  ASSUME SessionInductive, NEW o \in Objects, NEW ev \in Event, AppendEvent(o, ev),
         o \in {current, held}, ev.type \notin {"system", "turn"},
         UNCHANGED <<file, restored, current, held, strayed>>,
         Live(o) => /\ Fits(surface[o], ev)
                    /\ ev.type = "answer" => \E j \in 1..Len(log[o]) :
                                               restored[o] < j /\ log[o][j].type = "turn",
         disk' = disk \/ disk' = [disk EXCEPT ![file[o]] = log'[o]],
         UNCHANGED <<turnNo, turnCounter, sysPrompt>>,
         ~ needsUpdate' => ~ needsUpdate,
         \/ at' = at
         \/ at \notin {"idle", "opening"} /\ at' \notin {"idle", "opening", "asking"}
  PROVE  /\ log' \in [Objects -> Seq(Event)] /\ disk' \in [Files -> Seq(Event)]
         /\ \A q \in Objects : Len(log[q]) <= Len(log'[q])
         /\ Replayed' /\ FilesWhole' /\ ObjectsWhole'
         /\ TurnsCounted' /\ PromptThere' /\ TurnThere' /\ PromptOfStep'
  <1>1. /\ log' \in [Objects -> Seq(Event)] /\ disk' \in [Files -> Seq(Event)]
        /\ log'[o] = Append(log[o], ev)
        /\ \A q \in Objects : q # o => log'[q] = log[q] /\ surface'[q] = surface[q]
        /\ \A q : Live(q)' <=> Live(q)
        /\ Replayed' /\ FilesWhole' /\ ObjectsWhole'
        /\ Live(o) /\ surface[o] # <<>> =>
             surface'[o] # <<>> /\ log'[o][surface'[o][1]] = log[o][surface[o][1]]
    BY Growing
  <1>2. log \in [Objects -> Seq(Event)]
    BY DEF SessionInductive, LogTypes
  <1>3. ASSUME NEW q \in Objects
        PROVE  /\ log[q] \in Seq(Event) /\ log'[q] \in Seq(Event)
               /\ Keeps(log[q], log'[q])
               /\ \A i \in 1..Len(log'[q]) : log'[q][i].type = "turn" => i \in 1..Len(log[q])
    <2>1. log[q] \in Seq(Event) /\ log'[q] \in Seq(Event)
      BY <1>1, <1>2
    <2>2. CASE q = o
      BY <2>1, <2>2, <1>1, AppendKeeps
    <2>3. CASE q # o
      <3>1. Keeps(log[q], log[q])
        <4>1. Len(log[q]) \in Nat
          BY <2>1
        <4> QED BY <4>1 DEF Keeps
      <3> QED BY <2>1, <2>3, <3>1, <1>1
    <2> QED BY <2>2, <2>3
  <1>4. \A q : Live(q) => q \in Objects
    BY SessionAssumption DEF Live, SessionInductive, LogTypes
  <1>5. \A q \in Objects : \A m : TurnsBelow(q, m) => TurnsBelow(q, m)'
    <2> TAKE q \in Objects
    <2> TAKE m
    <2> HAVE TurnsBelow(q, m)
    <2>1. \A i \in 1..Len(log'[q]) : log'[q][i].type = "turn" => log'[q][i].val < m
      BY <1>3, TurnsKept
    <2> QED BY <2>1 DEF TurnsBelow
  <1>6. TurnsCounted'
    <2>1. Live(current) => TurnsBelow(current, turnCounter + 1)'
      BY <1>4, <1>5 DEF SessionInductive, TurnsCounted
    <2>2. at = "opening" /\ Live(held) => /\ TurnsBelow(held, turnNo)'
                                          /\ held = current => turnNo <= turnCounter
      BY <1>4, <1>5 DEF SessionInductive, TurnsCounted
    <2>3. at' = "opening" => at = "opening"
      OBVIOUS
    <2> QED BY <1>1, <2>1, <2>2, <2>3 DEF TurnsCounted, TurnsBelow
  <1>7. PromptThere'
    <2>1. \A q \in Objects : Live(q) /\ surface[q] # <<>> => surface'[q] # <<>>
      BY <1>1
    <2>2. at' # "idle" => at # "idle"
      OBVIOUS
    <2> QED BY <1>1, <1>4, <2>1, <2>2 DEF SessionInductive, PromptThere
  <1>8. TurnThere'
    <2> SUFFICES ASSUME at' \notin {"idle", "opening"}, Live(held)
                 PROVE  \E i \in 1..Len(log'[held]) : restored[held] < i /\ log'[held][i].type = "turn"
      BY <1>1 DEF TurnThere
    <2>1. at \notin {"idle", "opening"} /\ held \in Objects
      BY <1>4
    <2>2. \E i \in 1..Len(log[held]) : restored[held] < i /\ log[held][i].type = "turn"
      BY <2>1 DEF SessionInductive, TurnThere
    <2> QED BY <2>1, <2>2, <1>3, TurnsKept
  <1>9. PromptOfStep'
    <2> SUFFICES ASSUME at' = "asking", held = current, Live(held)
                 PROVE  log'[held][surface'[held][1]].val = sysPrompt
      BY <1>1 DEF PromptOfStep
    <2>1. at = "asking" /\ o = held
      OBVIOUS
    <2>2. surface[o] # <<>> /\ log[o][surface[o][1]].val = sysPrompt
      BY <2>1 DEF SessionInductive, PromptThere, PromptOfStep
    <2> QED BY <2>1, <2>2, <1>1
  <1>10. \A q \in Objects : Len(log[q]) <= Len(log'[q])
    BY <1>3 DEF Keeps
  <1> QED BY <1>1, <1>6, <1>7, <1>8, <1>9, <1>10

LEMMA SetModeKeeps == ASSUME SessionInductive, SetMode PROVE SessionInductive'
  <1> DEFINE ev == LogOnly("note", 0)
  <1>1. current \in Objects /\ 0 \in Nat /\ "note" \in Types
    BY DEF SetMode, SessionInductive, LogTypes, Types
  <1>2. ev \in Event /\ ev.type = "note" /\ ev.op = "none"
    BY <1>1, EventParts
  <1> HIDE DEF ev
  <1>3. AppendEvent(current, ev)
    BY DEF SetMode, ev
  <1>4. UNCHANGED <<file, restored, current, held, strayed, turnNo, turnCounter, sysPrompt,
                    at, rendering>>
        /\ (~ needsUpdate' => ~ needsUpdate)
        /\ (disk' = disk \/ disk' = [disk EXCEPT ![file[current]] = log'[current]])
    <2>1. UNCHANGED <<file, restored, current, held, strayed, turnNo, turnCounter, sysPrompt,
                      at, rendering>>
      BY DEF SetMode, run
    <2>2. ~ needsUpdate' => ~ needsUpdate
      <3>1. needsUpdate' \in {needsUpdate, TRUE}
        BY DEF SetMode
      <3> QED BY <3>1, Zenon
    <2>3. disk' = disk \/ disk' = [disk EXCEPT ![file[current]] = log'[current]]
      <3>1. disk' \in {disk, [disk EXCEPT ![file[current]] = log'[current]]}
        BY DEF SetMode
      <3> QED BY <3>1, Zenon
    <2> QED BY <2>1, <2>2, <2>3
  <1>5. Fits(surface[current], ev)
    BY <1>2 DEF Fits
  <1>6. /\ log' \in [Objects -> Seq(Event)] /\ disk' \in [Files -> Seq(Event)]
        /\ \A q \in Objects : Len(log[q]) <= Len(log'[q])
        /\ Replayed' /\ FilesWhole' /\ ObjectsWhole'
        /\ TurnsCounted' /\ PromptThere' /\ TurnThere' /\ PromptOfStep'
    BY <1>1, <1>2, <1>3, <1>4, <1>5, QuietGrowth
  <1>7. LogTypes'
    <2>1. outside' \in 0..MaxOutside
      BY SessionAssumption DEF SetMode, Outside, SessionInductive, LogTypes
    <2>2. needsUpdate' \in BOOLEAN
      BY DEF SetMode, SessionInductive, LogTypes
    <2>3. \A q \in Objects : restored[q] <= Len(log'[q])
      <3> TAKE q \in Objects
      <3>1. restored[q] <= Len(log[q]) /\ restored[q] \in Nat
            /\ Len(log[q]) \in Nat /\ Len(log'[q]) \in Nat
        BY <1>6 DEF SessionInductive, LogTypes
      <3> QED BY <3>1, <1>6
    <2> QED BY <1>4, <1>6, <2>1, <2>2, <2>3 DEF SessionInductive, LogTypes
  <1>8. RunHolds' /\ OneWriter'
    BY <1>4 DEF SessionInductive, RunHolds, OneWriter
  <1> QED BY <1>6, <1>7, <1>8 DEF SessionInductive

LEMMA InjectMessageKeeps == ASSUME SessionInductive, InjectMessage PROVE SessionInductive'
  <1> DEFINE ev == Message("user", 0)
  <1>1. current \in Objects /\ 0 \in Nat /\ "user" \in Types
    BY DEF InjectMessage, SessionInductive, LogTypes, Types
  <1>2. ev \in Event /\ ev.type = "user" /\ ev.op = "append"
    BY <1>1, EventParts
  <1> HIDE DEF ev
  <1>3. AppendEvent(current, ev)
    BY DEF InjectMessage, ev
  <1>4. UNCHANGED <<file, restored, current, held, strayed, turnNo, turnCounter, sysPrompt,
                    at, rendering, needsUpdate, disk>>
    BY DEF InjectMessage, agent, run
  <1>5. Live(current) => Fits(surface[current], ev)
    <2>1. Live(current) => surface[current] # <<>>
      BY LiveIsRun DEF InjectMessage, SessionInductive, PromptThere
    <2> QED BY <2>1, <1>2 DEF Fits
  <1>6. /\ log' \in [Objects -> Seq(Event)] /\ disk' \in [Files -> Seq(Event)]
        /\ \A q \in Objects : Len(log[q]) <= Len(log'[q])
        /\ Replayed' /\ FilesWhole' /\ ObjectsWhole'
        /\ TurnsCounted' /\ PromptThere' /\ TurnThere' /\ PromptOfStep'
    BY <1>1, <1>2, <1>3, <1>4, <1>5, QuietGrowth
  <1>7. LogTypes'
    <2>1. outside' \in 0..MaxOutside
      BY SessionAssumption DEF InjectMessage, Outside, SessionInductive, LogTypes
    <2>2. \A q \in Objects : restored[q] <= Len(log'[q])
      <3> TAKE q \in Objects
      <3>1. restored[q] <= Len(log[q]) /\ restored[q] \in Nat
            /\ Len(log[q]) \in Nat /\ Len(log'[q]) \in Nat
        BY <1>6 DEF SessionInductive, LogTypes
      <3> QED BY <3>1, <1>6
    <2> QED BY <1>4, <1>6, <2>1, <2>2 DEF SessionInductive, LogTypes
  <1>8. RunHolds' /\ OneWriter'
    BY <1>4 DEF SessionInductive, RunHolds, OneWriter
  <1> QED BY <1>6, <1>7, <1>8 DEF SessionInductive

\* A message of the run, in the middle of its turn.
LEMMA RunSpeaks ==
  ASSUME SessionInductive, NEW type \in {"answer", "user"},
         NEW from \in {"asking", "decided", "calling"},
         NEW to \in {"answered", "loop", "returned"},
         RunAppends(from, to, Message(type, 0))
  PROVE  SessionInductive'
  <1> DEFINE ev == Message(type, 0)
  <1>0. at = from /\ at' = to
    BY DEF RunAppends
  <1>1. held \in Objects /\ 0 \in Nat /\ type \in Types
    BY <1>0 DEF SessionInductive, LogTypes, RunHolds, Types
  <1>2. ev \in Event /\ ev.type = type /\ ev.op = "append"
    BY <1>1, EventParts
  <1> HIDE DEF ev
  <1>3. AppendEvent(held, ev)
    BY DEF RunAppends, ev
  <1>4. UNCHANGED <<file, restored, current, held, strayed, turnNo, turnCounter, sysPrompt,
                    rendering, needsUpdate, disk, outside>>
    BY DEF RunAppends, agent
  <1>5. Live(held) => /\ Fits(surface[held], ev)
                      /\ \E j \in 1..Len(log[held]) : restored[held] < j /\ log[held][j].type = "turn"
    <2>1. Live(held) => surface[held] # <<>>
      BY <1>0 DEF SessionInductive, PromptThere
    <2> QED BY <2>1, <1>0, <1>2 DEF Fits, SessionInductive, TurnThere
  <1>6. /\ log' \in [Objects -> Seq(Event)] /\ disk' \in [Files -> Seq(Event)]
        /\ \A q \in Objects : Len(log[q]) <= Len(log'[q])
        /\ Replayed' /\ FilesWhole' /\ ObjectsWhole'
        /\ TurnsCounted' /\ PromptThere' /\ TurnThere' /\ PromptOfStep'
    BY <1>0, <1>1, <1>2, <1>3, <1>4, <1>5, QuietGrowth
  <1>7. LogTypes'
    <2>1. \A q \in Objects : restored[q] <= Len(log'[q])
      <3> TAKE q \in Objects
      <3>1. restored[q] <= Len(log[q]) /\ restored[q] \in Nat
            /\ Len(log[q]) \in Nat /\ Len(log'[q]) \in Nat
        BY <1>6 DEF SessionInductive, LogTypes
      <3> QED BY <3>1, <1>6
    <2> QED BY <1>0, <1>4, <1>6, <2>1 DEF SessionInductive, LogTypes
  <1>8. RunHolds' /\ OneWriter'
    BY <1>0, <1>4 DEF SessionInductive, RunHolds, OneWriter
  <1> QED BY <1>6, <1>7, <1>8 DEF SessionInductive

LEMMA AnswerKeeps == ASSUME SessionInductive, Answer PROVE SessionInductive'
  BY RunSpeaks DEF Answer

LEMMA ToolResultKeeps == ASSUME SessionInductive, ToolResult PROVE SessionInductive'
  BY RunSpeaks DEF ToolResult

LEMMA GoOnKeeps == ASSUME SessionInductive, GoOn PROVE SessionInductive'
  <1>1. CASE RunAppends("decided", "loop", Message("user", 0))
    BY <1>1, RunSpeaks
  <1>2. CASE /\ at = "decided" /\ at' = "loop"
             /\ UNCHANGED <<heap, held, turnNo, agent, rendering, disk, strayed, outside>>
    <2>1. UNCHANGED <<file, log, surface, restored, current, turnCounter, sysPrompt,
                      needsUpdate, held, turnNo, rendering, disk, strayed, outside>>
      BY <1>2 DEF heap, agent
    <2>2. \A q : Live(q)' <=> Live(q)
      BY <2>1 DEF Live
    <2>3. LogTypes'
      BY <1>2, <2>1 DEF SessionInductive, LogTypes
    <2>4. Replayed' /\ RunHolds' /\ OneWriter' /\ FilesWhole'
      BY <1>2, <2>1 DEF SessionInductive, Replayed, RunHolds, OneWriter, FilesWhole
    <2>5. ObjectsWhole'
      BY <2>1, <2>2 DEF SessionInductive, ObjectsWhole
    <2>6. TurnsCounted'
      BY <1>2, <2>1, <2>2 DEF SessionInductive, TurnsCounted, TurnsBelow
    <2>7. PromptThere' /\ TurnThere' /\ PromptOfStep'
      BY <1>2, <2>1, <2>2 DEF SessionInductive, PromptThere, TurnThere, PromptOfStep
    <2> QED BY <2>3, <2>4, <2>5, <2>6, <2>7 DEF SessionInductive
  <1> QED BY <1>1, <1>2 DEF GoOn

LEMMA OpenTurnKeeps == ASSUME SessionInductive, OpenTurn PROVE SessionInductive'
  <1> DEFINE ev == Message("turn", turnNo)
  <1>0. at = "opening" /\ at' = "loop"
    BY DEF OpenTurn, RunAppends
  <1>1. held \in Objects /\ turnNo \in Nat /\ "turn" \in Types
    BY <1>0 DEF SessionInductive, LogTypes, RunHolds, Types
  <1>2. ev \in Event /\ ev.type = "turn" /\ ev.op = "append" /\ ev.val = turnNo
    BY <1>1, EventParts
  <1> HIDE DEF ev
  <1>3. AppendEvent(held, ev)
    BY DEF OpenTurn, RunAppends, ev
  <1>4. UNCHANGED <<file, restored, current, held, strayed, turnNo, turnCounter, sysPrompt,
                    rendering, needsUpdate, disk, outside>>
    BY DEF OpenTurn, RunAppends, agent
  <1>5. Live(held) => Fits(surface[held], ev) /\ TurnsBelow(held, ev.val)
    <2>1. Live(held) => surface[held] # <<>> /\ TurnsBelow(held, turnNo)
      BY <1>0 DEF SessionInductive, PromptThere, TurnsCounted
    <2> QED BY <2>1, <1>2 DEF Fits
  <1>6. /\ log' \in [Objects -> Seq(Event)]
        /\ log'[held] = Append(log[held], ev)
        /\ \A q \in Objects : q # held => log'[q] = log[q] /\ surface'[q] = surface[q]
        /\ \A q : Live(q)' <=> Live(q)
        /\ Replayed' /\ FilesWhole' /\ ObjectsWhole'
        /\ Live(held) /\ surface[held] # <<>> => surface'[held] # <<>>
    BY <1>1, <1>2, <1>3, <1>4, <1>5, Growing
  <1>7. /\ log[held] \in Seq(Event) /\ log'[held] \in Seq(Event) /\ Len(log[held]) \in Nat
        /\ Len(log'[held]) = Len(log[held]) + 1 /\ log'[held][Len(log[held]) + 1] = ev
        /\ \A i \in 1..Len(log'[held]) :
             i = Len(log[held]) + 1 \/ (i \in 1..Len(log[held]) /\ log'[held][i] = log[held][i])
    <2>1. log[held] \in Seq(Event)
      BY <1>1 DEF SessionInductive, LogTypes
    <2> QED BY <1>1, <1>2, <1>6, <2>1, AppendKeeps
  <1>8. \A q \in Objects : restored[q] \in Nat /\ restored[q] <= Len(log[q])
                           /\ restored[q] <= Len(log'[q])
    <2> TAKE q \in Objects
    <2>1. restored[q] \in Nat /\ restored[q] <= Len(log[q]) /\ Len(log[q]) \in Nat
      BY DEF SessionInductive, LogTypes
    <2>2. CASE q = held
      BY <2>1, <2>2, <1>7
    <2>3. CASE q # held
      BY <2>1, <2>3, <1>6
    <2> QED BY <2>2, <2>3
  <1>9. LogTypes'
    BY <1>0, <1>4, <1>6, <1>8 DEF SessionInductive, LogTypes
  <1>10. RunHolds' /\ OneWriter'
    BY <1>0, <1>4 DEF SessionInductive, RunHolds, OneWriter
  <1>11. TurnsCounted'
    <2> SUFFICES ASSUME Live(current)
                 PROVE  \A i \in 1..Len(log'[current]) :
                          log'[current][i].type = "turn" => log'[current][i].val < turnCounter + 1
      BY <1>0, <1>4, <1>6 DEF TurnsCounted, TurnsBelow
    <2>1. held = current
      BY <1>0, LiveIsRun DEF SessionInductive
    <2>2. turnNo <= turnCounter /\ TurnsBelow(current, turnCounter + 1)
          /\ turnNo \in Nat /\ turnCounter \in Nat
      BY <1>0, <2>1 DEF SessionInductive, TurnsCounted, LogTypes
    <2>3. turnNo < turnCounter + 1
      BY <2>2
    <2> QED BY <1>2, <1>7, <2>1, <2>2, <2>3 DEF TurnsBelow
  <1>12. PromptThere'
    <2>1. Live(held) => surface'[held] # <<>>
      BY <1>0, <1>6 DEF SessionInductive, PromptThere
    <2>2. Live(current) => held = current
      BY <1>0, LiveIsRun DEF SessionInductive
    <2> QED BY <1>4, <1>6, <2>1, <2>2 DEF PromptThere
  <1>13. TurnThere'
    <2>1. restored[held] < Len(log[held]) + 1 /\ Len(log[held]) + 1 \in 1..Len(log'[held])
      BY <1>1, <1>7, <1>8
    <2> QED BY <1>2, <1>4, <1>7, <2>1 DEF TurnThere
  <1>14. PromptOfStep'
    BY <1>0 DEF PromptOfStep
  <1> QED BY <1>6, <1>9, <1>10, <1>11, <1>12, <1>13, <1>14 DEF SessionInductive

-----------------------------------------------------------------------------
\* The actions that commit the prompt.

\* A commit to a session in memory keeps what there is.
LEMMA PromptCommitted ==
  ASSUME SessionInductive, NEW o \in Objects, CommitPrompt(o, log[o], surface[o]),
         UNCHANGED <<file, restored, disk, strayed>>
  PROVE  /\ log' \in [Objects -> Seq(Event)] /\ Replayed' /\ FilesWhole'
         /\ \A q \in Objects : q # o => log'[q] = log[q] /\ surface'[q] = surface[q]
         /\ \A q \in Objects : Keeps(log[q], log'[q]) /\ restored[q] <= Len(log'[q])
         /\ \A q \in Objects :
              Whole(log[q]) /\ Opened(log[q], restored[q]) /\ Keeps(disk[file[q]], log[q])
                => /\ Whole(log'[q]) /\ Opened(log'[q], restored[q])
                   /\ Keeps(disk[file[q]], log'[q])
         /\ Whole(log[o]) => surface'[o] # <<>> /\ log'[o][surface'[o][1]].val = rendering
         /\ \A q \in Objects : \A m : TurnsBelow(q, m) =>
             \A i \in 1..Len(log'[q]) : log'[q][i].type = "turn" => log'[q][i].val < m
  <1>1. /\ log \in [Objects -> Seq(Event)] /\ surface[o] = Rebuilt(log[o])
        /\ file \in [Objects -> Files] /\ disk \in [Files -> Seq(Event)]
        /\ restored \in [Objects -> Nat]
    BY DEF SessionInductive, LogTypes, Replayed
  <1>2. /\ log' \in [Objects -> Seq(Event)]
        /\ \A q \in Objects : q # o => log'[q] = log[q] /\ surface'[q] = surface[q]
        /\ Replayed'
        /\ Keeps(log[o], log'[o])
        /\ \A i \in 1..Len(log'[o]) : log'[o][i].type \in Messages => i \in 1..Len(log[o])
        /\ IsSurface(log[o], Rebuilt(log[o])) =>
             /\ IsSurface(log'[o], Rebuilt(log'[o]))
             /\ surface'[o] # <<>>
             /\ log'[o][surface'[o][1]].val = rendering
    BY <1>1, Committing DEF SessionInductive
  <1>3. ASSUME NEW q \in Objects
        PROVE  /\ log[q] \in Seq(Event) /\ log'[q] \in Seq(Event)
               /\ Len(log[q]) \in Nat /\ Len(log'[q]) \in Nat
               /\ Keeps(log[q], log'[q])
               /\ \A i \in 1..Len(log'[q]) : log'[q][i].type \in Messages => i \in 1..Len(log[q])
    <2>1. log[q] \in Seq(Event) /\ log'[q] \in Seq(Event)
      BY <1>1, <1>2
    <2>2. Len(log[q]) \in Nat /\ Len(log'[q]) \in Nat
      BY <2>1
    <2>3. CASE q = o
      BY <2>1, <2>2, <2>3, <1>2
    <2>4. CASE q # o
      BY <2>1, <2>2, <2>4, <1>2 DEF Keeps
    <2> QED BY <2>3, <2>4
  <1>4. FilesWhole'
    BY DEF SessionInductive, FilesWhole
  <1>5. \A q \in Objects : restored[q] <= Len(log'[q])
    <2> TAKE q \in Objects
    <2>1. restored[q] <= Len(log[q]) /\ restored[q] \in Nat
      BY <1>1 DEF SessionInductive, LogTypes
    <2> QED BY <2>1, <1>3 DEF Keeps
  <1>6. ASSUME NEW q \in Objects, Whole(log[q]), Opened(log[q], restored[q]),
               Keeps(disk[file[q]], log[q])
        PROVE  Whole(log'[q]) /\ Opened(log'[q], restored[q]) /\ Keeps(disk[file[q]], log'[q])
    <2>1. IsSurface(log'[q], Rebuilt(log'[q]))
      <3>1. CASE q = o
        BY <3>1, <1>2, <1>6 DEF Whole
      <3>2. CASE q # o
        BY <3>2, <1>2, <1>6 DEF Whole
      <3> QED BY <3>1, <3>2
    <2>2. restored[q] \in Nat /\ 0 \in Nat
      BY <1>1
    <2>3. TurnsUp(log'[q]) /\ Opened(log'[q], restored[q]) /\ Opened(log'[q], 0)
      BY <1>3, <1>6, <2>2, WholeWithoutMessage DEF Whole
    <2>4. disk[file[q]] \in Seq(Event)
      BY <1>1
    <2>5. Keeps(disk[file[q]], log'[q])
      BY <1>3, <1>6, <2>4, KeepsAgain
    <2> QED BY <2>1, <2>3, <2>5 DEF Whole
  <1>7. \A q \in Objects : \A m : TurnsBelow(q, m) =>
         \A i \in 1..Len(log'[q]) : log'[q][i].type = "turn" => log'[q][i].val < m
    <2> TAKE q \in Objects
    <2> TAKE m
    <2> HAVE TurnsBelow(q, m)
    <2>1. \A i \in 1..Len(log'[q]) : log'[q][i].type = "turn" => i \in 1..Len(log[q])
      BY <1>3 DEF Messages
    <2> QED BY <1>3, <2>1, TurnsKept
  <1> QED BY <1>2, <1>3, <1>4, <1>5, <1>6, <1>7 DEF Whole

LEMMA RequestKeeps == ASSUME SessionInductive, Request PROVE SessionInductive'
  <1>1. /\ at = "loop" /\ at' = "asking" /\ sysPrompt' = rendering
        /\ CommitPrompt(current, log[current], surface[current])
        /\ UNCHANGED <<file, restored, current, held, strayed, turnNo, turnCounter,
                       rendering, needsUpdate, disk, outside>>
    BY DEF Request
  <1>2. held \in Objects /\ current \in Objects
    BY <1>1 DEF SessionInductive, LogTypes, RunHolds
  <1>3. /\ log' \in [Objects -> Seq(Event)] /\ Replayed' /\ FilesWhole'
        /\ \A q \in Objects : q # current => log'[q] = log[q] /\ surface'[q] = surface[q]
        /\ \A q \in Objects : Keeps(log[q], log'[q]) /\ restored[q] <= Len(log'[q])
        /\ \A q \in Objects :
             Whole(log[q]) /\ Opened(log[q], restored[q]) /\ Keeps(disk[file[q]], log[q])
               => /\ Whole(log'[q]) /\ Opened(log'[q], restored[q])
                  /\ Keeps(disk[file[q]], log'[q])
        /\ Whole(log[current]) =>
             surface'[current] # <<>> /\ log'[current][surface'[current][1]].val = rendering
        /\ \A q \in Objects : \A m : TurnsBelow(q, m) =>
            \A i \in 1..Len(log'[q]) : log'[q][i].type = "turn" => log'[q][i].val < m
    BY <1>1, <1>2, PromptCommitted
  <1>4. \A q : (Live(q)' <=> Live(q)) /\ (Live(q) => q \in Objects)
    BY <1>1, <1>2 DEF Live
  <1>5. LogTypes'
    BY <1>1, <1>3 DEF SessionInductive, LogTypes
  <1>6. RunHolds' /\ OneWriter'
    BY <1>1 DEF SessionInductive, RunHolds, OneWriter
  <1>7. ObjectsWhole'
    <2> SUFFICES ASSUME NEW q \in Objects, Live(q)
                 PROVE  /\ Whole(log'[q]) /\ Opened(log'[q], restored[q])
                        /\ Keeps(disk[file[q]], log'[q])
      BY <1>1, <1>4 DEF ObjectsWhole
    <2>1. /\ Whole(log[q]) /\ Opened(log[q], restored[q])
          /\ Keeps(disk[file[q]], log[q])
      BY DEF SessionInductive, ObjectsWhole
    <2> QED BY <1>3, <2>1
  <1>8. TurnsCounted'
    <2>1. Live(current) => \A i \in 1..Len(log'[current]) : log'[current][i].type = "turn"
                             => log'[current][i].val < turnCounter + 1
      BY <1>2, <1>3 DEF SessionInductive, TurnsCounted
    <2> QED BY <1>1, <1>4, <2>1 DEF TurnsCounted, TurnsBelow
  <1>9. PromptThere' /\ PromptOfStep'
    <2>1. Live(current) => Whole(log[current])
      BY <1>2 DEF SessionInductive, ObjectsWhole
    <2>2. Live(held) /\ held # current => surface'[held] # <<>>
      BY <1>1, <1>2, <1>3 DEF SessionInductive, PromptThere
    <2> QED BY <1>1, <1>3, <1>4, <2>1, <2>2 DEF PromptThere, PromptOfStep
  <1>10. TurnThere'
    <2> SUFFICES ASSUME Live(held)
                 PROVE  \E i \in 1..Len(log'[held]) : restored[held] < i
                                                     /\ log'[held][i].type = "turn"
      BY <1>1, <1>4 DEF TurnThere
    <2>1. \E i \in 1..Len(log[held]) : restored[held] < i /\ log[held][i].type = "turn"
      BY <1>1 DEF SessionInductive, TurnThere
    <2>2. log[held] \in Seq(Event) /\ log'[held] \in Seq(Event) /\ Keeps(log[held], log'[held])
      BY <1>2, <1>3 DEF SessionInductive, LogTypes
    <2> QED BY <2>1, <2>2, TurnsKept
  <1> QED BY <1>3, <1>5, <1>6, <1>7, <1>8, <1>9, <1>10 DEF SessionInductive

LEMMA BeginKeeps == ASSUME SessionInductive, Begin PROVE SessionInductive'
  <1>1. /\ at = "idle" /\ at' = "opening" /\ held = None /\ held' = current
        /\ turnCounter' = turnCounter + 1 /\ turnNo' = turnCounter + 1
        /\ UNCHANGED <<file, restored, current, strayed, rendering, disk, outside>>
    BY DEF Begin, SessionInductive, RunHolds
  <1>2. current \in Objects /\ current # None
    BY DEF Begin, SessionInductive, LogTypes
  <1>3. turnCounter \in Nat /\ rendering \in Prompts /\ log \in [Objects -> Seq(Event)]
    BY DEF SessionInductive, LogTypes
  <1>4. /\ log' \in [Objects -> Seq(Event)] /\ Replayed' /\ FilesWhole'
        /\ \A q \in Objects : restored[q] <= Len(log'[q])
        /\ Live(current) =>
             /\ Whole(log'[current]) /\ Opened(log'[current], restored[current])
             /\ Keeps(disk[file[current]], log'[current])
             /\ surface'[current] # <<>>
             /\ \A i \in 1..Len(log'[current]) :
                  log'[current][i].type = "turn" => log'[current][i].val < turnCounter + 1
        /\ sysPrompt' \in Prompts \cup {0} /\ needsUpdate' \in BOOLEAN
    <2>1. Live(current) => /\ Whole(log[current]) /\ Opened(log[current], restored[current])
                           /\ Keeps(disk[file[current]], log[current])
                           /\ TurnsBelow(current, turnCounter + 1)
      BY <1>2 DEF SessionInductive, ObjectsWhole, TurnsCounted
    <2>2. CASE /\ CommitPrompt(current, log[current], surface[current])
               /\ sysPrompt' = rendering
               /\ needsUpdate' = FALSE
      <3>1. /\ log' \in [Objects -> Seq(Event)] /\ Replayed' /\ FilesWhole'
            /\ \A q \in Objects : restored[q] <= Len(log'[q])
            /\ Live(current) =>
                 /\ Whole(log'[current]) /\ Opened(log'[current], restored[current])
                 /\ Keeps(disk[file[current]], log'[current])
                 /\ surface'[current] # <<>>
                 /\ \A i \in 1..Len(log'[current]) :
                      log'[current][i].type = "turn" => log'[current][i].val < turnCounter + 1
        BY <1>1, <1>2, <2>1, <2>2, PromptCommitted
      <3> QED BY <1>3, <2>2, <3>1
    <2>3. CASE ~ needsUpdate /\ UNCHANGED <<log, surface, sysPrompt, needsUpdate>>
      <3>1. Live(current) => surface[current] # <<>>
        BY <2>3 DEF SessionInductive, PromptThere
      <3>2. Replayed' /\ FilesWhole'
        BY <1>1, <2>3 DEF SessionInductive, Replayed, FilesWhole
      <3>3. \A q \in Objects : restored[q] <= Len(log[q])
        BY DEF SessionInductive, LogTypes
      <3>4. sysPrompt \in Prompts \cup {0}
        BY DEF SessionInductive, LogTypes
      <3>5. log' = log /\ surface' = surface /\ sysPrompt' = sysPrompt
            /\ needsUpdate' \in BOOLEAN
        BY <2>3 DEF SessionInductive, LogTypes
      <3> QED BY <1>3, <2>1, <3>1, <3>2, <3>3, <3>4, <3>5 DEF TurnsBelow
    <2> QED BY <2>2, <2>3 DEF Begin
  <1>5. \A q : (Live(q)' => q = current /\ Live(q))
    BY <1>1 DEF Live
  <1>6. LogTypes'
    <2>1. turnCounter + 1 \in Nat
      BY <1>3
    <2> QED BY <1>1, <1>2, <1>4, <2>1 DEF SessionInductive, LogTypes
  <1>7. RunHolds' /\ OneWriter'
    BY <1>1, <1>2 DEF RunHolds, OneWriter
  <1>8. ObjectsWhole'
    BY <1>1, <1>4, <1>5 DEF ObjectsWhole
  <1>9. TurnsCounted'
    <2> SUFFICES ASSUME Live(current)
                 PROVE  /\ \A i \in 1..Len(log'[current]) : log'[current][i].type = "turn"
                             => log'[current][i].val < turnCounter + 1
                        /\ \A i \in 1..Len(log'[current]) : log'[current][i].type = "turn"
                             => log'[current][i].val < turnCounter + 2
      <3>1. (turnCounter + 1) + 1 = turnCounter + 2 /\ turnCounter + 1 <= turnCounter + 1
        BY <1>3
      <3> QED BY <1>1, <1>5, <3>1 DEF TurnsCounted, TurnsBelow
    <2>1. \A i \in 1..Len(log'[current]) : log'[current][i].val \in Nat
      BY <1>2, <1>4, ValuesAreNumbers
    <2>2. \A v \in Nat : v < turnCounter + 1 => v < turnCounter + 2
      BY <1>3
    <2>3. \A i \in 1..Len(log'[current]) : log'[current][i].type = "turn"
            => log'[current][i].val < turnCounter + 1
      BY <1>4
    <2> QED BY <2>1, <2>2, <2>3
  <1>10. PromptThere'
    BY <1>1, <1>4, <1>5 DEF PromptThere
  <1>11. TurnThere' /\ PromptOfStep'
    BY <1>1 DEF TurnThere, PromptOfStep
  <1> QED BY <1>4, <1>6, <1>7, <1>8, <1>9, <1>10, <1>11 DEF SessionInductive

-----------------------------------------------------------------------------
\* The actions that load a session.

\* A log that was just loaded has no answer of this process.
LEMMA NothingNew ==
  ASSUME NEW es \in Seq(Event)
  PROVE  Opened(es, Len(es))
  <1>1. Len(es) \in Nat
    OBVIOUS
  <1>2. \A i \in 1..Len(es) : ~ (Len(es) < i)
    BY <1>1
  <1> QED BY <1>2 DEF Opened

LEMMA TurnsBelowLast ==
  ASSUME NEW es \in Seq(Event)
  PROVE  /\ LastTurn(es) \in Nat
         /\ \A i \in 1..Len(es) : es[i].type = "turn" => es[i].val < LastTurn(es) + 1
  <1>1. LastTurn(es) \in Nat
        /\ \A i \in DOMAIN es : es[i].type = "turn" => es[i].val <= LastTurn(es)
    BY LastTurnBounds
  <1>2. \A i \in 1..Len(es) : i \in DOMAIN es /\ es[i].val \in Nat
    BY ValuesAreNumbers
  <1>3. \A v \in Nat : v <= LastTurn(es) => v < LastTurn(es) + 1
    BY <1>1
  <1> QED BY <1>1, <1>2, <1>3

LEMMA SwitchKeeps ==
  ASSUME SessionInductive, NEW f \in Files, Switch(f)
  PROVE  SessionInductive'
  <1>1. PICK o \in Objects : o # held /\ Ensure(o, f)
                             /\ log' = [log EXCEPT ![o] = disk[f]]
                             /\ surface' = [surface EXCEPT ![o] = Rebuilt(disk[f])]
    <2>1. \E q \in Objects : Free(q)
      BY DEF Switch
    <2> DEFINE o == CHOOSE q \in Objects : Free(q)
    <2>2. o \in Objects /\ o # held
      BY <2>1 DEF Free
    <2>3. Ensure(o, f) /\ log' = [log EXCEPT ![o] = disk[f]]
          /\ surface' = [surface EXCEPT ![o] = Rebuilt(disk[f])]
      BY DEF Switch
    <2> QED BY <2>2, <2>3
  <1>2. /\ file' = [file EXCEPT ![o] = f] /\ restored' = [restored EXCEPT ![o] = Len(disk[f])]
        /\ current' = o /\ turnCounter' = LastTurn(disk[f]) /\ needsUpdate' = TRUE
        /\ strayed' = (IF at = "idle" THEN strayed ELSE strayed \cup {f})
        /\ UNCHANGED <<sysPrompt, held, at, turnNo, rendering, disk>>
    BY <1>1 DEF Switch, Ensure, run
  <1> DEFINE es == disk[f]
  <1>3. es \in Seq(Event) /\ Len(es) \in Nat
    BY DEF SessionInductive, LogTypes
  <1>4. /\ file' \in [Objects -> Files] /\ log' \in [Objects -> Seq(Event)]
        /\ restored' \in [Objects -> Nat]
        /\ file'[o] = f /\ log'[o] = es /\ restored'[o] = Len(es)
        /\ \A q \in Objects : q # o => /\ file'[q] = file[q] /\ log'[q] = log[q]
                                       /\ restored'[q] = restored[q]
                                       /\ surface'[q] = surface[q]
    BY <1>1, <1>2, <1>3 DEF SessionInductive, LogTypes, Replayed
  <1>5. Replayed'
    <2>1. surface = [q \in Objects |-> Rebuilt(log[q])]
      BY DEF SessionInductive, Replayed
    <2>2. \A q \in Objects : surface'[q] = Rebuilt(log'[q])
      BY <1>1, <1>4, <2>1
    <2>3. surface' = [q \in Objects |-> surface'[q]]
      BY <1>1, <2>1
    <2> QED BY <2>2, <2>3 DEF Replayed
  <1> HIDE DEF es
  <1>6. strayed \subseteq strayed' /\ strayed' \in SUBSET Files
        /\ (f \notin strayed' => f \notin strayed /\ at = "idle")
        /\ (at # "idle" => f \in strayed')
    BY <1>2 DEF SessionInductive, LogTypes
  <1>7. \A q : Live(q)' => \/ q = o /\ f \notin strayed' /\ held = None
                           \/ q = held /\ q \in Objects /\ q # o /\ Live(q)
    <2> SUFFICES ASSUME NEW q, Live(q)'
                 PROVE  \/ q = o /\ f \notin strayed' /\ held = None
                        \/ q = held /\ q \in Objects /\ q # o /\ Live(q)
      OBVIOUS
    <2>1. q \in {o, held} \ {None} /\ file'[q] \notin strayed'
      BY <1>2 DEF Live
    <2>2. CASE q = o
      BY <1>4, <1>6, <2>1, <2>2 DEF SessionInductive, RunHolds
    <2>3. CASE q # o
      <3>1. q = held /\ q \in Objects
        BY <2>1, <2>3 DEF SessionInductive, LogTypes
      <3> QED BY <1>4, <1>6, <2>1, <2>3, <3>1 DEF Live
    <2> QED BY <2>2, <2>3
  <1>8. LogTypes'
    <2>1. outside' \in 0..MaxOutside
      BY SessionAssumption DEF Switch, Outside, SessionInductive, LogTypes
    <2>2. \A q \in Objects : restored'[q] <= Len(log'[q])
      <3> TAKE q \in Objects
      <3>1. CASE q = o
        BY <1>3, <1>4, <3>1
      <3>2. CASE q # o
        BY <1>4, <3>2 DEF SessionInductive, LogTypes
      <3> QED BY <3>1, <3>2
    <2>3. LastTurn(disk[f]) \in Nat
      BY <1>3, LastTurnBounds DEF es
    <2>4. /\ held \in Objects \cup {None} /\ turnNo \in Nat /\ sysPrompt \in Prompts \cup {0}
          /\ at \in {"idle", "opening", "loop", "asking", "answered", "decided",
                    "calling", "returned"}
          /\ rendering \in Prompts /\ disk \in [Files -> Seq(Event)]
      BY DEF SessionInductive, LogTypes
    <2> QED BY <1>1, <1>2, <1>4, <1>6, <2>1, <2>2, <2>3, <2>4 DEF LogTypes
  <1>9. RunHolds' /\ OneWriter'
    <2>1. o # None
      BY SessionAssumption
    <2> QED BY <1>2, <1>4, <1>6, <2>1 DEF SessionInductive, RunHolds, OneWriter
  <1>10. FilesWhole'
    BY <1>2, <1>6 DEF SessionInductive, FilesWhole
  <1>11. ObjectsWhole'
    <2> SUFFICES ASSUME NEW q \in Objects, Live(q)'
                 PROVE  /\ Whole(log'[q]) /\ Opened(log'[q], restored'[q])
                        /\ Keeps(disk[file'[q]], log'[q])
      BY <1>2 DEF ObjectsWhole
    <2>1. CASE q = o /\ f \notin strayed'
      <3>1. Whole(es)
        BY <2>1, <1>6 DEF SessionInductive, FilesWhole, es
      <3>2. Opened(es, Len(es)) /\ Keeps(es, es)
        BY <1>3, NothingNew, KeepsItself
      <3> QED BY <2>1, <1>4, <3>1, <3>2 DEF es
    <2>2. CASE q # o /\ Live(q)
      BY <2>2, <1>4 DEF SessionInductive, ObjectsWhole
    <2> QED BY <1>7, <2>1, <2>2
  <1>12. TurnsCounted'
    <2>1. \A i \in 1..Len(log'[o]) : log'[o][i].type = "turn"
                                     => log'[o][i].val < LastTurn(disk[f]) + 1
      BY <1>3, <1>4, TurnsBelowLast DEF es
    <2>2. at = "opening" /\ Live(held)' =>
            held # o /\ \A i \in 1..Len(log'[held]) : log'[held][i].type = "turn"
                                                      => log'[held][i].val < turnNo
      <3> SUFFICES ASSUME at = "opening", Live(held)'
                   PROVE  held # o /\ \A i \in 1..Len(log'[held]) :
                                        log'[held][i].type = "turn" => log'[held][i].val < turnNo
        OBVIOUS
      <3>1. held # None
        BY DEF SessionInductive, RunHolds
      <3>2. held \in Objects /\ held # o /\ Live(held)
        BY <1>7, <3>1
      <3> QED BY <1>4, <3>2 DEF SessionInductive, TurnsCounted, TurnsBelow
    <2> QED BY <1>2, <2>1, <2>2 DEF TurnsCounted, TurnsBelow
  <1>13. PromptThere'
    <2>1. at # "idle" /\ Live(held)' => surface'[held] # <<>>
      <3> SUFFICES ASSUME at # "idle", Live(held)' PROVE surface'[held] # <<>>
        OBVIOUS
      <3>1. held # None
        BY DEF SessionInductive, RunHolds
      <3>2. held \in Objects /\ held # o /\ Live(held)
        BY <1>7, <3>1
      <3> QED BY <1>4, <3>2 DEF SessionInductive, PromptThere
    <2> QED BY <1>2, <2>1 DEF PromptThere
  <1>14. TurnThere'
    <2> SUFFICES ASSUME at \notin {"idle", "opening"}, Live(held)'
                 PROVE  \E i \in 1..Len(log'[held]) : restored'[held] < i
                                                     /\ log'[held][i].type = "turn"
      BY <1>2 DEF TurnThere
    <2>1. held # None
      BY DEF SessionInductive, RunHolds
    <2>2. held \in Objects /\ held # o /\ Live(held)
      BY <1>7, <2>1
    <2> QED BY <1>4, <2>2 DEF SessionInductive, TurnThere
  <1>15. PromptOfStep'
    BY <1>1, <1>2 DEF PromptOfStep
  <1> QED BY <1>5, <1>8, <1>9, <1>10, <1>11, <1>12, <1>13, <1>14, <1>15 DEF SessionInductive

LEMMA BeginRestoredKeeps == ASSUME SessionInductive, BeginRestored PROVE SessionInductive'
  <1> DEFINE es == disk[Project]
  <1>1. PICK o \in Objects : /\ Ensure(o, Project)
                             /\ CommitPrompt(o, es, Rebuilt(es))
                             /\ held' = o
    <2>1. \E q \in Objects : Free(q)
      BY DEF BeginRestored
    <2> DEFINE o == CHOOSE q \in Objects : Free(q)
    <2>2. o \in Objects
      BY <2>1
    <2>3. Ensure(o, Project) /\ CommitPrompt(o, es, Rebuilt(es)) /\ held' = o
      BY DEF BeginRestored
    <2> QED BY <2>2, <2>3
  <1>2. /\ file' = [file EXCEPT ![o] = Project]
        /\ restored' = [restored EXCEPT ![o] = Len(es)]
        /\ current' = o /\ held' = o /\ at' = "opening" /\ sysPrompt' = rendering
        /\ turnCounter' = LastTurn(es) + 1 /\ turnNo' = LastTurn(es) + 1
        /\ UNCHANGED <<needsUpdate, rendering, disk, strayed, outside>>
    BY <1>1 DEF BeginRestored, Ensure
  <1>3. es \in Seq(Event) /\ Len(es) \in Nat
    BY SessionAssumption DEF SessionInductive, LogTypes
  <1>4. /\ log' \in [Objects -> Seq(Event)] /\ Replayed'
        /\ \A q \in Objects : q # o => log'[q] = log[q]
        /\ Keeps(es, log'[o])
        /\ \A i \in 1..Len(log'[o]) : log'[o][i].type \in Messages => i \in 1..Len(es)
        /\ IsSurface(es, Rebuilt(es)) =>
             /\ IsSurface(log'[o], Rebuilt(log'[o]))
             /\ surface'[o] # <<>>
    BY <1>1, <1>3, Committing DEF SessionInductive
  <1>5. /\ file' \in [Objects -> Files] /\ restored' \in [Objects -> Nat]
        /\ file'[o] = Project /\ restored'[o] = Len(es)
        /\ \A q \in Objects : q # o => restored'[q] = restored[q]
    BY <1>2, <1>3, SessionAssumption DEF SessionInductive, LogTypes
  <1>6. FilesWhole'
    BY <1>2 DEF SessionInductive, FilesWhole
  <1>7. Project \notin strayed => Whole(es)
    BY SessionAssumption DEF SessionInductive, FilesWhole
  <1> HIDE DEF es
  <1>8. log'[o] \in Seq(Event) /\ Len(log'[o]) \in Nat /\ Len(es) <= Len(log'[o])
    BY <1>4 DEF Keeps
  <1>9. \A q : Live(q)' => q = o /\ Project \notin strayed
    BY <1>2, <1>5 DEF Live
  <1>10. LastTurn(es) \in Nat
         /\ \A i \in 1..Len(log'[o]) : log'[o][i].type = "turn" => log'[o][i].val < LastTurn(es) + 1
    <2>1. LastTurn(es) \in Nat
          /\ \A i \in 1..Len(es) : es[i].type = "turn" => es[i].val < LastTurn(es) + 1
      BY <1>3, TurnsBelowLast
    <2>2. \A i \in 1..Len(log'[o]) : log'[o][i].type = "turn"
                                     => i \in 1..Len(es) /\ log'[o][i] = es[i]
      BY <1>4 DEF Messages, Keeps
    <2> QED BY <2>1, <2>2
  <1>11. LogTypes'
    <2>1. \A q \in Objects : restored'[q] <= Len(log'[q])
      <3> TAKE q \in Objects
      <3>1. CASE q = o
        BY <1>5, <1>8, <3>1
      <3>2. CASE q # o
        BY <1>4, <1>5, <3>2 DEF SessionInductive, LogTypes
      <3> QED BY <3>1, <3>2
    <2>2. LastTurn(es) + 1 \in Nat
      BY <1>10
    <2>3. /\ rendering \in Prompts /\ needsUpdate \in BOOLEAN /\ strayed \in SUBSET Files
          /\ disk \in [Files -> Seq(Event)] /\ outside \in 0..MaxOutside
      BY DEF SessionInductive, LogTypes
    <2> QED BY <1>1, <1>2, <1>4, <1>5, <2>1, <2>2, <2>3 DEF LogTypes
  <1>12. RunHolds' /\ OneWriter'
    <2>1. o # None
      BY SessionAssumption
    <2> QED BY <1>2, <2>1 DEF RunHolds, OneWriter
  <1>13. ObjectsWhole'
    <2> SUFFICES ASSUME Project \notin strayed
                 PROVE  /\ Whole(log'[o]) /\ Opened(log'[o], Len(es))
                        /\ Keeps(es, log'[o])
      BY <1>2, <1>5, <1>9 DEF ObjectsWhole, es
    <2>1. Opened(es, Len(es)) /\ Len(es) \in Nat /\ 0 \in Nat
      BY <1>3, NothingNew
    <2>2. TurnsUp(log'[o]) /\ Opened(log'[o], Len(es)) /\ Opened(log'[o], 0)
      BY <1>3, <1>4, <1>7, <1>8, <2>1, WholeWithoutMessage DEF Whole
    <2> QED BY <1>4, <1>7, <2>2 DEF Whole
  <1>14. TurnsCounted'
    <2>1. \A i \in 1..Len(log'[o]) : log'[o][i].type = "turn"
                                     => log'[o][i].val < (LastTurn(es) + 1) + 1
      <3>1. \A i \in 1..Len(log'[o]) : log'[o][i].val \in Nat
        BY <1>8, ValuesAreNumbers
      <3>2. \A v \in Nat : v < LastTurn(es) + 1 => v < (LastTurn(es) + 1) + 1
        BY <1>10
      <3> QED BY <1>10, <3>1, <3>2
    <2>2. LastTurn(es) + 1 <= LastTurn(es) + 1
      BY <1>10
    <2> QED BY <1>2, <1>10, <2>1, <2>2 DEF TurnsCounted, TurnsBelow
  <1>15. PromptThere'
    BY <1>2, <1>4, <1>7, <1>9 DEF PromptThere, Whole
  <1>16. TurnThere' /\ PromptOfStep'
    BY <1>2 DEF TurnThere, PromptOfStep
  <1> QED BY <1>4, <1>6, <1>11, <1>12, <1>13, <1>14, <1>15, <1>16 DEF SessionInductive

-----------------------------------------------------------------------------
\* Saves, crashes and steps that leave sessions alone.

\* The saves of a run, and from where to where each goes.
LEMMA RunSaves ==
  ASSUME SaveAnswer \/ SaveCall \/ SaveStep \/ SaveRun
  PROVE  \E from \in {"loop", "asking", "answered", "decided", "returned"} :
           \E to \in {"loop", "decided", "calling", "idle"} : Save(from, to)
  <1>1. CASE SaveAnswer
    BY <1>1 DEF SaveAnswer
  <1>2. CASE SaveCall
    <2>1. PICK p \in {"decided", "returned"} : Save(p, "calling")
      BY <1>2 DEF SaveCall
    <2> QED BY <2>1
  <1>3. CASE SaveStep
    BY <1>3 DEF SaveStep
  <1>4. CASE SaveRun
    <2>1. PICK p \in {"loop", "asking", "decided", "returned"} : Save(p, "idle")
      BY <1>4 DEF SaveRun
    <2> QED BY <2>1
  <1> QED BY <1>1, <1>2, <1>3, <1>4

LEMMA SaveKeeps ==
  ASSUME SessionInductive,
         NEW from \in {"loop", "asking", "answered", "decided", "returned"},
         NEW to \in {"loop", "decided", "calling", "idle"}, Save(from, to)
  PROVE  SessionInductive'
  <1>1. /\ at = from /\ at' = to /\ at # "idle"
        /\ disk' = [disk EXCEPT ![file[held]] = log[held]] \/ disk' = disk
        /\ held' = (IF to = "idle" THEN None ELSE held)
        /\ turnNo' = (IF to = "idle" THEN 0 ELSE turnNo)
        /\ UNCHANGED <<file, log, surface, restored, current, turnCounter, sysPrompt,
                       needsUpdate, rendering, strayed>>
    BY DEF Save, heap, agent
  <1>2. held \in Objects /\ current \in Objects /\ held # None
    BY <1>1 DEF SessionInductive, LogTypes, RunHolds
  <1>3. /\ log[held] \in Seq(Event) /\ file \in [Objects -> Files]
        /\ disk \in [Files -> Seq(Event)]
    BY <1>2 DEF SessionInductive, LogTypes
  <1>4. \A q : Live(q)' => Live(q) /\ q = held
    <2>1. \A q : Live(q)' => Live(q)
      BY <1>1 DEF Live
    <2>2. Live(current) => held = current
      BY <1>1, LiveIsRun DEF SessionInductive
    <2>3. \A q : Live(q) => q = held \/ q = current
      BY DEF Live
    <2> QED BY <2>1, <2>2, <2>3
  <1>5. outside' \in 0..MaxOutside
    BY SessionAssumption DEF Save, Outside, SessionInductive, LogTypes
  <1>6. LogTypes'
    <2>1. disk' \in [Files -> Seq(Event)]
      BY <1>1, <1>2, <1>3
    <2>2. held' \in Objects \cup {None} /\ turnNo' \in Nat
      BY <1>1 DEF SessionInductive, LogTypes
    <2> QED BY <1>1, <1>5, <2>1, <2>2 DEF SessionInductive, LogTypes
  <1>7. Replayed'
    BY <1>1 DEF SessionInductive, Replayed
  <1>8. RunHolds' /\ OneWriter'
    BY <1>1, <1>2 DEF SessionInductive, RunHolds, OneWriter
  <1>9. FilesWhole'
    <2> SUFFICES ASSUME NEW f \in Files, f \notin strayed PROVE Whole(disk'[f])
      BY <1>1 DEF FilesWhole
    <2>1. CASE disk'[f] = disk[f]
      BY <2>1 DEF SessionInductive, FilesWhole
    <2>2. CASE f = file[held] /\ disk'[f] = log[held]
      <3>1. Live(held)
        BY <1>2, <2>2 DEF Live
      <3> QED BY <1>2, <2>2, <3>1 DEF SessionInductive, ObjectsWhole
    <2> QED BY <1>1, <1>2, <1>3, <2>1, <2>2
  <1>10. ObjectsWhole'
    <2> SUFFICES ASSUME Live(held)
                 PROVE  /\ Whole(log[held]) /\ Opened(log[held], restored[held])
                        /\ Keeps(disk'[file[held]], log[held])
      BY <1>1, <1>4 DEF ObjectsWhole
    <2>1. /\ Whole(log[held]) /\ Opened(log[held], restored[held])
          /\ Keeps(disk[file[held]], log[held])
      BY <1>2 DEF SessionInductive, ObjectsWhole
    <2>2. disk'[file[held]] = disk[file[held]] \/ disk'[file[held]] = log[held]
      BY <1>1, <1>2, <1>3
    <2> QED BY <1>3, <2>1, <2>2, KeepsItself
  <1>11. TurnsCounted'
    BY <1>1, <1>4 DEF SessionInductive, TurnsCounted, TurnsBelow
  <1>12. PromptThere'
    <2>1. at' # "idle" => held' = held
      BY <1>1
    <2> QED BY <1>1, <1>4, <2>1 DEF SessionInductive, PromptThere
  <1>13. TurnThere'
    <2> SUFFICES ASSUME at' # "idle", Live(held)
                 PROVE  \E i \in 1..Len(log[held]) : restored[held] < i
                                                    /\ log[held][i].type = "turn"
      BY <1>1, <1>4 DEF TurnThere
    <2> QED BY <1>1 DEF SessionInductive, TurnThere
  <1>14. PromptOfStep'
    BY <1>1 DEF PromptOfStep
  <1> QED BY <1>6, <1>7, <1>8, <1>9, <1>10, <1>11, <1>12, <1>13, <1>14 DEF SessionInductive

LEMMA CrashKeeps == ASSUME SessionInductive, Crash PROVE SessionInductive'
  <1> USE SessionAssumption
  <1>1. /\ current' = None /\ held' = None /\ at' = "idle" /\ turnNo' = 0
        /\ turnCounter' = 0 /\ sysPrompt' = 0 /\ needsUpdate' = FALSE
        /\ log' = [o \in Objects |-> <<>>] /\ surface' = [o \in Objects |-> <<>>]
        /\ restored' = [o \in Objects |-> 0]
        /\ UNCHANGED <<file, rendering, disk, strayed>>
    BY DEF Crash
  <1>2. <<>> \in Seq(Event) /\ Len(<<>>) = 0
    OBVIOUS
  <1>3. LogTypes'
    <2>1. outside' \in 0..MaxOutside
      BY DEF Crash, Outside, SessionInductive, LogTypes
    <2>2. log' \in [Objects -> Seq(Event)] /\ restored' \in [Objects -> Nat]
          /\ \A o \in Objects : restored'[o] <= Len(log'[o])
      BY <1>1, <1>2
    <2> QED BY <1>1, <2>1, <2>2 DEF SessionInductive, LogTypes
  <1>4. Replayed'
    BY <1>1, RebuiltEmpty DEF Replayed
  <1>5. \A q : ~ Live(q)'
    BY <1>1 DEF Live
  <1>6. FilesWhole'
    BY <1>1 DEF SessionInductive, FilesWhole
  <1>7. RunHolds' /\ OneWriter'
    BY <1>1 DEF RunHolds, OneWriter
  <1>8. ObjectsWhole'
    BY <1>5 DEF ObjectsWhole
  <1>9. TurnsCounted' /\ PromptThere' /\ TurnThere' /\ PromptOfStep'
    BY <1>1, <1>5 DEF TurnsCounted, PromptThere, TurnThere, PromptOfStep
  <1> QED BY <1>3, <1>4, <1>6, <1>7, <1>8, <1>9 DEF SessionInductive

\* A step that leaves sessions, the agent, the run and the files alone.
LEMMA QuietKeeps ==
  ASSUME SessionInductive, UNCHANGED <<heap, agent, run, disk, strayed>>,
         rendering' \in Prompts, outside' \in 0..MaxOutside
  PROVE  SessionInductive'
  <1>1. UNCHANGED <<file, log, surface, restored, current, turnCounter, sysPrompt,
                    needsUpdate, held, at, turnNo, disk, strayed>>
    BY DEF heap, agent, run
  <1>2. LogTypes'
    BY <1>1 DEF SessionInductive, LogTypes
  <1>3. \A q : Live(q)' <=> Live(q)
    BY <1>1 DEF Live
  <1>4. Replayed' /\ RunHolds' /\ OneWriter' /\ FilesWhole'
    BY <1>1 DEF SessionInductive, Replayed, RunHolds, OneWriter, FilesWhole
  <1>5. ObjectsWhole'
    BY <1>1, <1>3 DEF SessionInductive, ObjectsWhole
  <1>6. TurnsCounted'
    BY <1>1, <1>3 DEF SessionInductive, TurnsCounted, TurnsBelow
  <1>7. PromptThere' /\ TurnThere' /\ PromptOfStep'
    BY <1>1, <1>3 DEF SessionInductive, PromptThere, TurnThere, PromptOfStep
  <1> QED BY <1>2, <1>4, <1>5, <1>6, <1>7 DEF SessionInductive

LEMMA RerenderKeeps == ASSUME SessionInductive, Rerender PROVE SessionInductive'
  <1>1. outside' \in 0..MaxOutside
    BY SessionAssumption DEF Rerender, Outside, SessionInductive, LogTypes
  <1>2. rendering' \in Prompts /\ UNCHANGED <<heap, agent, run, disk, strayed>>
    BY DEF Rerender
  <1> QED BY <1>1, <1>2, QuietKeeps

LEMMA NextKeeps ==
  ASSUME SessionInductive, [Next]_vars PROVE SessionInductive'
  <1>1. CASE \E f \in Files : Switch(f)
    BY <1>1, SwitchKeeps
  <1>2. CASE SetMode
    BY <1>2, SetModeKeeps
  <1>3. CASE InjectMessage
    BY <1>3, InjectMessageKeeps
  <1>4. CASE Rerender
    BY <1>4, RerenderKeeps
  <1>5. CASE BeginRestored
    BY <1>5, BeginRestoredKeeps
  <1>6. CASE Begin
    BY <1>6, BeginKeeps
  <1>7. CASE OpenTurn
    BY <1>7, OpenTurnKeeps
  <1>8. CASE Request
    BY <1>8, RequestKeeps
  <1>9. CASE Answer
    BY <1>9, AnswerKeeps
  <1>10. CASE GoOn \/ ToolResult
    BY <1>10, GoOnKeeps, ToolResultKeeps
  <1>11. CASE SaveAnswer \/ SaveCall \/ SaveStep \/ SaveRun
    <2>1. PICK from \in {"loop", "asking", "answered", "decided", "returned"},
               to \in {"loop", "decided", "calling", "idle"} : Save(from, to)
      BY <1>11, RunSaves
    <2> QED BY <2>1, SaveKeeps
  <1>12. CASE Crash
    BY <1>12, CrashKeeps
  <1>13. CASE UNCHANGED vars
    <2>1. UNCHANGED <<heap, agent, run, disk, strayed>> /\ UNCHANGED <<rendering, outside>>
      BY <1>13 DEF vars
    <2>2. rendering' \in Prompts /\ outside' \in 0..MaxOutside
      BY <2>1 DEF SessionInductive, LogTypes
    <2> QED BY <2>1, <2>2, QuietKeeps
  <1> QED BY <1>1, <1>2, <1>3, <1>4, <1>5, <1>6, <1>7, <1>8, <1>9, <1>10, <1>11, <1>12, <1>13
          DEF Next

\* The invariant behind the theorems below: surfaces are what a load would
\* give, the agent and its run do not write to two objects of one file, files
\* and logs are whole and a file is a beginning of the log in memory.
THEOREM SessionInvariant == Spec => []SessionInductive
  <1>1. SessionInductive /\ [Next]_vars => SessionInductive'
    BY NextKeeps
  <1> QED BY InitSessionInductive, <1>1, PTL DEF Spec

-----------------------------------------------------------------------------
\* The properties.

LEMMA InductiveGivesTypes == ASSUME SessionInductive PROVE SessionTypeOK
  <1>1. LogTypes /\ Replayed
    BY DEF SessionInductive
  <1>2. \A o \in Objects : \A i \in DOMAIN surface[o] : surface[o][i] \in DOMAIN log[o]
    <2> TAKE o \in Objects
    <2>1. log[o] \in Seq(Event) /\ surface[o] = Rebuilt(log[o])
      BY <1>1 DEF LogTypes, Replayed
    <2>2. surface[o] \in Seq(1..Len(log[o])) /\ DOMAIN log[o] = 1..Len(log[o])
      BY <2>1, RebuiltType
    <2> QED BY <2>2
  <1>3. \A o \in Objects : restored[o] \in 0..Len(log[o])
    <2> TAKE o \in Objects
    <2>1. restored[o] \in Nat /\ restored[o] <= Len(log[o]) /\ Len(log[o]) \in Nat
      BY <1>1 DEF LogTypes
    <2> QED BY <2>1
  <1> QED BY <1>1, <1>2, <1>3 DEF LogTypes, SessionTypeOK

\* Type correctness: a surface refers to events of its log, and the part of a
\* log that was loaded is a part of it.
THEOREM SessionTypesHold == Spec => []SessionTypeOK
  BY SessionInvariant, InductiveGivesTypes, PTL

\* HeadIsPrompt: whatever the order of prompts, messages, loads and crashes,
\* the surface is the latest prompt and then every message once, in order.
THEOREM HeadIsAlwaysPrompt == Spec => []HeadIsPrompt
  <1>1. ASSUME SessionInductive PROVE HeadIsPrompt
    <2> SUFFICES ASSUME NEW o \in Objects, Live(o)
                 PROVE  LET s == surface[o]
                            kinds(T) == {i \in DOMAIN log[o] : log[o][i].type \in T} IN
                        /\ \A i \in DOMAIN s : (i = 1) <=> (log[o][s[i]].type = "system")
                        /\ s # <<>> => \A i \in kinds({"system"}) : i <= s[1]
                        /\ \A i \in 2..Len(s) - 1 : s[i] < s[i + 1]
                        /\ {s[i] : i \in 2..Len(s)} = kinds({"turn", "user", "answer"})
                        /\ at = "asking" /\ o = held /\ o = current
                             => log[o][s[1]].val = sysPrompt
      BY Zenon DEF HeadIsPrompt
    <2>1. IsSurface(log[o], surface[o])
      BY <1>1 DEF SessionInductive, ObjectsWhole, Replayed, Whole
    <2>2. at = "asking" /\ o = held /\ o = current
            => log[o][surface[o][1]].val = sysPrompt
      BY <1>1 DEF SessionInductive, PromptOfStep
    <2> QED BY <2>1, <2>2 DEF IsSurface
  <1> QED BY <1>1, SessionInvariant, PTL

\* TurnNumbersIncrease: a turn never gets the number of an earlier one.
THEOREM TurnNumbersAlwaysIncrease == Spec => []TurnNumbersIncrease
  <1>1. ASSUME SessionInductive PROVE TurnNumbersIncrease
    <2> SUFFICES ASSUME NEW o \in Objects, Live(o)
                 PROVE  \A i, j \in DOMAIN log[o] :
                          i < j /\ log[o][i].type = "turn" /\ log[o][j].type = "turn"
                            => log[o][i].val < log[o][j].val
      BY DEF TurnNumbersIncrease
    <2>1. TurnsUp(log[o]) /\ log[o] \in Seq(Event)
      BY <1>1 DEF SessionInductive, ObjectsWhole, Whole, LogTypes
    <2>2. DOMAIN log[o] = 1..Len(log[o])
      BY <2>1
    <2> QED BY <2>1, <2>2 DEF TurnsUp
  <1> QED BY <1>1, SessionInvariant, PTL

LEMMA KeepsIsPrefix ==
  ASSUME NEW es \in Seq(Event), NEW fs \in Seq(Event), Keeps(es, fs)
  PROVE  Len(es) <= Len(fs) /\ SubSeq(fs, 1, Len(es)) = es
  <1>1. Len(es) \in Nat /\ Len(fs) \in Nat /\ Len(es) <= Len(fs)
        /\ \A i \in 1..Len(es) : fs[i] = es[i]
    BY DEF Keeps
  <1>2. SubSeq(fs, 1, Len(es)) \in Seq(Event) /\ Len(SubSeq(fs, 1, Len(es))) = Len(es)
        /\ \A i \in 1..Len(es) : SubSeq(fs, 1, Len(es))[i] = fs[i]
    BY <1>1
  <1> QED BY <1>1, <1>2

\* FileOnlyGrows: no save, whoever makes it, and no load or crash takes an
\* event out of a file.
THEOREM FileAlwaysGrows == Spec => FileOnlyGrows
  <1>1. ASSUME SessionInductive, [Next]_vars, NEW f \in Files, f \notin strayed'
        PROVE  /\ Len(disk[f]) <= Len(disk'[f])
               /\ SubSeq(disk'[f], 1, Len(disk[f])) = disk[f]
    <2>1. SessionInductive'
      BY <1>1, NextKeeps
    <2>2. disk \in [Files -> Seq(Event)] /\ disk' \in [Files -> Seq(Event)]
      BY <1>1, <2>1 DEF SessionInductive, LogTypes
    <2>3. Keeps(disk[f], disk'[f])
      <3>1. CASE disk' = disk
        BY <3>1, <2>2, KeepsItself
      <3>2. CASE SetMode
        <4>1. disk' = disk \/ disk' = [disk EXCEPT ![file[current]] = log'[current]]
          <5>1. disk' \in {disk, [disk EXCEPT ![file[current]] = log'[current]]}
            BY <3>2 DEF SetMode
          <5> QED BY <5>1, Zenon
        <4>2. current \in Objects /\ current # None
              /\ UNCHANGED <<file, current, held, strayed>>
          BY <3>2, <1>1 DEF SetMode, run, SessionInductive, LogTypes
        <4>3. CASE f = file[current] /\ disk'[f] = log'[current]
          <5>1. Live(current) /\ log[current] \in Seq(Event) /\ log'[current] \in Seq(Event)
            BY <4>2, <4>3, <1>1, <2>1 DEF Live, SessionInductive, LogTypes
          <5>2. Keeps(disk[f], log[current])
            BY <4>2, <4>3, <5>1, <1>1 DEF SessionInductive, ObjectsWhole
          <5>3. Keeps(log[current], log'[current])
            <6>1. log' = [log EXCEPT ![current] = Append(log[current], LogOnly("note", 0))]
              BY <3>2 DEF SetMode, AppendEvent, Put
            <6>2. LogOnly("note", 0) \in Event
              <7>1. 0 \in Nat /\ "note" \in Types
                BY DEF Types
              <7> QED BY <7>1, EventParts
            <6>3. log \in [Objects -> Seq(Event)]
              BY <1>1 DEF SessionInductive, LogTypes
            <6>4. log'[current] = Append(log[current], LogOnly("note", 0))
              BY <6>1, <6>3, <4>2
            <6> QED BY <5>1, <6>2, <6>4, AppendKeeps
          <5>4. disk[f] \in Seq(Event)
            BY <2>2
          <5> QED BY <4>3, <5>1, <5>2, <5>3, <5>4, KeepsAgain
        <4>4. CASE disk'[f] = disk[f]
          BY <4>4, <2>2, KeepsItself
        <4> QED BY <2>2, <4>1, <4>3, <4>4
      <3>3. CASE \E from, to : Save(from, to) /\ from # "idle"
        <4>1. /\ disk' = disk \/ disk' = [disk EXCEPT ![file[held]] = log[held]]
              /\ at # "idle" /\ UNCHANGED strayed
          BY <3>3 DEF Save
        <4>2. held \in Objects /\ held # None
          BY <4>1, <1>1 DEF SessionInductive, LogTypes, RunHolds
        <4>3. CASE f = file[held] /\ disk'[f] = log[held]
          <5>1. Live(held)
            BY <4>1, <4>2, <4>3, <1>1 DEF Live
          <5> QED BY <4>2, <4>3, <5>1, <1>1 DEF SessionInductive, ObjectsWhole
        <4>4. CASE disk'[f] = disk[f]
          BY <4>4, <2>2, KeepsItself
        <4> QED BY <2>2, <4>1, <4>3, <4>4
      <3>4. SaveAnswer \/ SaveCall \/ SaveStep \/ SaveRun
              => \E from, to : Save(from, to) /\ from # "idle"
        <4> SUFFICES ASSUME SaveAnswer \/ SaveCall \/ SaveStep \/ SaveRun
                     PROVE  \E from, to : Save(from, to) /\ from # "idle"
          OBVIOUS
        <4>1. PICK from \in {"loop", "asking", "answered", "decided", "returned"} :
                \E to : Save(from, to)
          BY RunSaves
        <4> QED BY <4>1
      <3>5. disk' = disk \/ SetMode \/ SaveAnswer \/ SaveCall \/ SaveStep \/ SaveRun
        <4>1. CASE Next
          BY <4>1 DEF Next, Switch, InjectMessage, Rerender, BeginRestored, Begin, OpenTurn,
                      RunAppends, Request, Answer, GoOn, ToolResult, Crash
        <4>2. CASE UNCHANGED vars
          BY <4>2 DEF vars
        <4> QED BY <1>1, <4>1, <4>2
      <3> QED BY <3>1, <3>2, <3>3, <3>4, <3>5
    <2> QED BY <2>2, <2>3, KeepsIsPrefix
  <1>2. SessionInductive /\ [Next]_vars =>
          [\A f \in Files \ strayed' :
             /\ Len(disk[f]) <= Len(disk'[f])
             /\ SubSeq(disk'[f], 1, Len(disk[f])) = disk[f]]_vars
    BY <1>1
  <1> QED BY <1>2, SessionInvariant, PTL DEF Spec, FileOnlyGrows

-----------------------------------------------------------------------------
\* What a request shows.

\* After the prompt, a surface goes through the log from its beginning on.
LEMMA SurfaceRises ==
  ASSUME NEW n \in Nat, NEW s \in Seq(1..n), \A i \in 2..Len(s) - 1 : s[i] < s[i + 1]
  PROVE  \A i \in 2..Len(s) : \A j \in i..Len(s) : s[i] <= s[j]
  <1> SUFFICES ASSUME NEW i \in 2..Len(s)
               PROVE  \A j \in i..Len(s) : s[i] <= s[j]
    OBVIOUS
  <1> DEFINE Bad == {j \in i..Len(s) : ~ (s[i] <= s[j])}
  <1>1. SUFFICES ASSUME Bad # {} PROVE FALSE
    OBVIOUS
  <1>2. i \in Nat /\ 2 <= i /\ Len(s) \in Nat
    OBVIOUS
  <1>3. \A k \in 2..Len(s) : s[k] \in Nat
    <2>1. \A k \in 2..Len(s) : s[k] \in 1..n
      OBVIOUS
    <2> QED BY <2>1
  <1> HIDE DEF Bad
  <1>4. PICK j \in Bad : \A k \in Bad : j <= k
    <2>1. Bad \subseteq Nat
      BY <1>2 DEF Bad
    <2> QED BY <1>1, <2>1, LeastNatural
  <1>5. j \in i..Len(s) /\ ~ (s[i] <= s[j])
    BY <1>4 DEF Bad
  <1>6. j # i
    BY <1>3, <1>5
  <1>7. /\ j - 1 \in i..Len(s) /\ j - 1 \notin Bad /\ j - 1 \in 2..Len(s) - 1
        /\ (j - 1) + 1 = j /\ j \in 2..Len(s) /\ j - 1 \in 2..Len(s)
    BY <1>2, <1>4, <1>5, <1>6
  <1>8. s[i] <= s[j - 1]
    BY <1>7 DEF Bad
  <1>9. s[j - 1] < s[j]
    BY <1>7
  <1> QED BY <1>3, <1>5, <1>7, <1>8, <1>9

LEMMA BoundaryParts ==
  ASSUME NEW o, Len(surface[o]) \in Nat, DOMAIN surface[o] = 1..Len(surface[o])
  PROVE  /\ RestoredBoundary(o) \in 0..Len(surface[o])
         /\ RestoredBoundary(o) # 0 => surface[o][RestoredBoundary(o)] <= restored[o]
         /\ \A i \in 1..Len(surface[o]) : surface[o][i] <= restored[o]
                                          => i <= RestoredBoundary(o)
  <1> DEFINE old == {i \in DOMAIN surface[o] : surface[o][i] <= restored[o]}
             T == old \cup {0}
  <1>1. RestoredBoundary(o) = CHOOSE b \in T : \A i \in old : i <= b
    BY DEF RestoredBoundary
  <1>2. T \subseteq 0..Len(surface[o]) /\ T # {} /\ old \subseteq T
    OBVIOUS
  <1>3. \A i : i \in old <=> i \in 1..Len(surface[o]) /\ surface[o][i] <= restored[o]
    OBVIOUS
  <1>4. \A i \in T : i # 0 => i \in old
    OBVIOUS
  <1> HIDE DEF old, T
  <1>5. \E b \in T : \A i \in T : i <= b
    BY <1>2, GreatestBelow
  <1>6. RestoredBoundary(o) \in T /\ \A i \in old : i <= RestoredBoundary(o)
    BY <1>1, <1>2, <1>5
  <1> QED BY <1>2, <1>3, <1>4, <1>6

\* A request may begin after position j.
MayStart(o, j) == \/ j = 0
                  \/ j = Len(surface[o])
                  \/ log[o][surface[o][j + 1]].type \in {"turn", "user"}

LEMMA FromUserParts ==
  ASSUME NEW o, NEW start \in Nat
  PROVE  /\ FromUser(o, start) \in 0..start
         /\ MayStart(o, FromUser(o, start))
         /\ \A j \in 0..start : MayStart(o, j) => j <= FromUser(o, start)
  <1> DEFINE ok == {j \in 0..start : MayStart(o, j)}
  <1>1. FromUser(o, start) = CHOOSE j \in ok : \A i \in ok : i <= j
    BY DEF FromUser, MayStart
  <1>2. ok \subseteq 0..start /\ 0 \in ok
    BY DEF MayStart
  <1>3. \A j \in ok : MayStart(o, j)
    OBVIOUS
  <1>4. \A j \in 0..start : MayStart(o, j) => j \in ok
    OBVIOUS
  <1> HIDE DEF ok
  <1>5. \E j \in ok : \A i \in ok : i <= j
    BY <1>2, GreatestBelow
  <1>6. FromUser(o, start) \in ok /\ \A i \in ok : i <= FromUser(o, start)
    BY <1>1, <1>5
  <1> QED BY <1>2, <1>3, <1>4, <1>6

\* An answer is preceded by the message that opened its turn, in the log beyond
\* r and so in the surface.
LEMMA AnswerAfterTurn ==
  ASSUME NEW es \in Seq(Event), NEW s \in Seq(1..Len(es)), NEW r \in Nat,
         IsSurface(es, s), Opened(es, r),
         NEW i \in 2..Len(s), r < s[i], es[s[i]].type \notin {"turn", "user"}
  PROVE  \E j \in 2..Len(s) : j < i /\ r < s[j]
  <1>1. Len(es) \in Nat /\ Len(s) \in Nat /\ s[i] \in 1..Len(es)
    OBVIOUS
  <1>2. /\ \A k \in 2..Len(s) - 1 : s[k] < s[k + 1]
        /\ \A k \in 2..Len(s) : es[s[k]].type \in Messages
        /\ \A k \in 1..Len(es) : es[k].type \in Messages => \E j \in 2..Len(s) : s[j] = k
    BY SurfaceParts
  <1>3. es[s[i]].type = "answer"
    BY <1>2 DEF Messages
  <1>4. PICK k \in 1..Len(es) : r < k /\ k < s[i] /\ es[k].type = "turn"
    BY <1>1, <1>3 DEF Opened
  <1>5. PICK j \in 2..Len(s) : s[j] = k
    BY <1>2, <1>4 DEF Messages
  <1>6. ASSUME ~ (j < i) PROVE FALSE
    <2>1. j \in i..Len(s)
      BY <1>1, <1>6
    <2>2. s[i] <= s[j]
      BY <1>1, <1>2, <2>1, SurfaceRises
    <2> QED BY <1>1, <1>4, <1>5, <2>2
  <1> QED BY <1>4, <1>5, <1>6

\* LimitHolds: whatever was restored and however often the prompt was replaced,
\* a request shows all messages of this process, from a message of the user on.
THEOREM LimitAlwaysHolds == Spec => []LimitHolds
  <1>1. ASSUME SessionInductive, at = "asking", Live(held), NEW limit \in Limits
        PROVE  LET s == surface[held]
                   shown == Shown(held, limit) \ {1}
                   new == {i \in 2..Len(s) : s[i] > restored[held]} IN
               /\ new \subseteq shown
               /\ \E i \in shown : /\ \A j \in shown : i <= j
                                   /\ log[held][s[i]].type \in {"turn", "user"}
               /\ limit < 0 => shown = new
    <2> DEFINE es == log[held]
               s == surface[held]
               r == restored[held]
               b == RestoredBoundary(held)
               start == IF limit < 0 THEN b
                        ELSE IF limit > 0 /\ b > limit THEN b - limit ELSE 0
               F == FromUser(held, start)
               shown == {i \in 2..Len(s) : i > F}
               new == {i \in 2..Len(s) : s[i] > r}
    <2>1. held \in Objects
      BY <1>1 DEF SessionInductive, LogTypes, Live
    <2>2. es \in Seq(Event) /\ r \in Nat /\ s = Rebuilt(es)
      BY <1>1, <2>1 DEF SessionInductive, LogTypes, Replayed
    <2>3. s \in Seq(1..Len(es)) /\ Len(es) \in Nat /\ Len(s) \in Nat /\ DOMAIN s = 1..Len(s)
      BY <2>2, RebuiltType
    <2>4. IsSurface(es, s) /\ Opened(es, 0) /\ Opened(es, r)
      BY <1>1, <2>1, <2>2 DEF SessionInductive, ObjectsWhole, Whole
    <2>5. PICK k \in 1..Len(es) : r < k /\ es[k].type = "turn"
      BY <1>1 DEF SessionInductive, TurnThere
    <2>6. limit \in Int
      BY SessionAssumption
    <2>7. /\ b \in 0..Len(s)
          /\ b # 0 => s[b] <= r
          /\ \A i \in 1..Len(s) : s[i] <= r => i <= b
      BY <2>3, BoundaryParts
    <2> HIDE DEF b
    <2>8. start \in 0..b /\ (limit < 0 => start = b)
      BY <2>3, <2>6, <2>7
    <2> HIDE DEF start
    <2>9. /\ F \in 0..start
          /\ MayStart(held, F)
          /\ \A j \in 0..start : MayStart(held, j) => j <= F
      <3>1. start \in Nat
        BY <2>3, <2>7, <2>8
      <3> QED BY <3>1, FromUserParts
    <2>10. Shown(held, limit) \ {1} = shown
      <3>1. Shown(held, limit) = {i \in DOMAIN s : i > F \/ (i = 1 /\ es[s[1]].type = "system")}
        BY DEF Shown, F, start, b, es, s
      <3>2. \A i : i \in 2..Len(s) <=> i \in 1..Len(s) /\ i # 1
        BY <2>3
      <3> HIDE DEF F, s, es
      <3> QED BY <2>3, <3>1, <3>2
    <2> HIDE DEF F
    <2>11. \A j : MayStart(held, j) <=> \/ j = 0
                                        \/ j = Len(s)
                                        \/ es[s[j + 1]].type \in {"turn", "user"}
      BY DEF MayStart, s, es
    <2> HIDE DEF s, es, r
    <2>12. \A i \in 2..Len(s) : s[i] \in Nat /\ i \in 1..Len(s) /\ i \in Nat
      <3>1. \A i \in 2..Len(s) : s[i] \in 1..Len(es)
        BY <2>3
      <3> QED BY <2>3, <3>1
    <2>13. \A i \in 2..Len(s) : \A j \in i..Len(s) : s[i] <= s[j]
      BY <2>2, <2>3, <2>4, SurfaceParts, SurfaceRises
    <2>14. \A i \in 2..Len(s) : (i > b) <=> (s[i] > r)
      <3> SUFFICES ASSUME NEW i \in 2..Len(s) PROVE (i > b) <=> (s[i] > r)
        OBVIOUS
      <3>1. ASSUME i > b PROVE s[i] > r
        <4>1. ~ (s[i] <= r)
          BY <2>3, <2>7, <2>12, <3>1
        <4> QED BY <2>2, <2>12, <4>1
      <3>2. ASSUME ~ (i > b) PROVE ~ (s[i] > r)
        <4>1. b \in i..Len(s) /\ b # 0 /\ b \in 2..Len(s)
          BY <2>3, <2>7, <3>2
        <4>2. s[i] <= s[b] /\ s[b] <= r
          BY <2>7, <2>13, <4>1
        <4> QED BY <2>2, <2>12, <4>1, <4>2
      <3> QED BY <3>1, <3>2
    <2>15. PICK p \in 2..Len(s) : s[p] > r
      <3>1. PICK p \in 2..Len(s) : s[p] = k
        BY <2>2, <2>3, <2>4, <2>5, SurfaceParts DEF Messages
      <3>2. k \in Nat /\ k > r
        BY <2>2, <2>3, <2>5
      <3> QED BY <3>1, <3>2
    <2>16. b < Len(s) /\ F <= b /\ F \in Nat /\ F < Len(s)
      <3>1. p > b
        BY <2>14, <2>15
      <3> QED BY <2>3, <2>7, <2>8, <2>9, <3>1
    <2>17. new \subseteq shown
      <3>1. \A i \in 2..Len(s) : s[i] > r => i > F
        <4> SUFFICES ASSUME NEW i \in 2..Len(s), s[i] > r PROVE i > F
          OBVIOUS
        <4>1. i > b
          BY <2>14
        <4> QED BY <2>7, <2>12, <2>16, <4>1
      <3> QED BY <3>1
    <2>18. \E i \in shown : /\ \A j \in shown : i <= j
                            /\ es[s[i]].type \in {"turn", "user"}
      <3>1. CASE F = 0
        <4>1. 2 \in 2..Len(s)
          BY <2>3, <2>15
        <4>2. 2 \in shown /\ \A j \in shown : 2 <= j
          BY <2>12, <3>1, <4>1
        <4>3. es[s[2]].type \in {"turn", "user"}
          <5>1. 0 < s[2] /\ 0 \in Nat
            <6>1. s[2] \in 1..Len(es)
              BY <2>3, <4>1
            <6> QED BY <6>1
          <5>2. ~ \E j \in 2..Len(s) : j < 2
            BY <2>3
          <5> QED BY <2>2, <2>3, <2>4, <4>1, <5>1, <5>2, AnswerAfterTurn
        <4> QED BY <4>2, <4>3
      <3>2. CASE F # 0
        <4>1. es[s[F + 1]].type \in {"turn", "user"}
          BY <2>9, <2>11, <2>16, <3>2
        <4>2. F + 1 \in 2..Len(s) /\ F + 1 > F
          BY <2>3, <2>16, <3>2
        <4>3. \A j \in shown : F + 1 <= j
          BY <2>12, <2>16
        <4> QED BY <4>1, <4>2, <4>3
      <3> QED BY <3>1, <3>2
    <2>19. ASSUME limit < 0 PROVE shown = new
      <3>1. MayStart(held, b)
        <4> SUFFICES ASSUME b # 0, es[s[b + 1]].type \notin {"turn", "user"} PROVE FALSE
          BY <2>11
        <4>1. b + 1 \in 2..Len(s) /\ b + 1 > b /\ b \in Nat
          BY <2>3, <2>7, <2>16
        <4>2. s[b + 1] > r
          BY <2>14, <4>1
        <4>3. r < s[b + 1]
          BY <4>2
        <4>4. PICK j \in 2..Len(s) : j < b + 1 /\ r < s[j]
          BY <2>2, <2>3, <2>4, <4>1, <4>3, AnswerAfterTurn
        <4>5. s[j] > r
          BY <4>4
        <4>6. j > b
          BY <2>14, <4>5
        <4> QED BY <2>12, <4>1, <4>4, <4>6
      <3>2. b \in 0..start
        BY <2>3, <2>7, <2>8, <2>19
      <3>3. F = b
        <4>1. b <= F
          BY <2>9, <3>1, <3>2
        <4> QED BY <2>7, <2>16, <4>1
      <3> QED BY <2>14, <3>3
    <2> QED BY <2>10, <2>17, <2>18, <2>19 DEF s, es, r
  <1>2. SessionInductive => LimitHolds
    BY <1>1 DEF LimitHolds
  <1> QED BY <1>2, SessionInvariant, PTL
=============================================================================

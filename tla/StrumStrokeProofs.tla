------------------------- MODULE StrumStrokeProofs -------------------------
(***************************************************************************)
(* The theorems of StrumStroke: one stroke crosses the strings one way,    *)
(* and the strokes the listener hears alternate.                           *)
(*                                                                         *)
(* The inductive invariant, StrokeInv, is about the engine's picking state *)
(* as a whole, the record that is passed from call to call: it is carried  *)
(* through each call in turn (a stroke begun, its edge moved, a direction  *)
(* reserved, a voice started, a pick landed or called off), and through    *)
(* the calls that go over all strings.                                     *)
(***************************************************************************)
EXTENDS StrumStroke, NaturalsInduction, FiniteSetTheorems, SequenceTheorems, TLAPS

-----------------------------------------------------------------------------
(***************************************************************************)
(* Numbers, and folds over the strings.                                    *)
(***************************************************************************)

\* A set of numbers has a least one.
LEMMA LeastIsThere ==
    ASSUME NEW S \in SUBSET Nat, S # {}
    PROVE  \E m \in S : \A y \in S : m <= y
<1>1. \E m \in S : \A y \in S : <<y, m>> \notin OpToRel(<, Nat)
  BY NatLessThanWellFounded, WFMin, Zenon
<1>2. PICK m \in S : \A y \in S : <<y, m>> \notin OpToRel(<, Nat)
  BY <1>1
<1>3. \A y \in S : m <= y
  <2> SUFFICES ASSUME NEW y \in S
               PROVE  m <= y
    OBVIOUS
  <2>1. <<y, m>> \notin OpToRel(<, Nat)
    BY <1>2
  <2>2. ~(y < m)
    BY <2>1 DEF OpToRel
  <2> QED
    BY <2>2
<1> QED
  BY <1>3

\* And a last one, if some number bounds it.
LEMMA LastIsThere ==
    ASSUME NEW N \in Nat, NEW S \in SUBSET (0 .. N), S # {}
    PROVE  Max(S) \in S /\ \A y \in S : Max(S) >= y
<1> DEFINE T == {N - x : x \in S}
<1>1. T \in SUBSET Nat /\ T # {}
  <2>1. \A x \in S : x \in 0 .. N /\ N - x \in Nat
    OBVIOUS
  <2> QED
    BY <2>1
<1>2. PICK m \in T : \A y \in T : m <= y
  BY <1>1, LeastIsThere
<1>3. PICK x \in S : m = N - x
  OBVIOUS
<1>4. \A y \in S : x >= y
  <2> SUFFICES ASSUME NEW y \in S
               PROVE  x >= y
    OBVIOUS
  <2>1. N - y \in T
    OBVIOUS
  <2>2. N - x <= N - y
    BY <1>2, <1>3, <2>1
  <2> QED
    BY <2>2
<1> QED
  BY <1>4 DEF Max

LEMMA MinIsIn ==
    ASSUME NEW S \in SUBSET Nat, S # {}
    PROVE  Min(S) \in S
BY LeastIsThere, Zenon DEF Min

\* What holds at the start of a walk and is carried over each of its steps
\* holds all along it.
LEMMA WalkUp ==
    ASSUME NEW N \in Nat, NEW G \in SUBSET (0 .. N), 0 \in G,
           \A n \in G : n < N => n + 1 \in G
    PROVE  N \in G
<1> DEFINE B == {n \in 0 .. N : n \notin G}
<1> SUFFICES ASSUME B # {} PROVE FALSE
  BY DEF B
<1>1. B \in SUBSET Nat
  OBVIOUS
<1>2. \E m \in B : \A y \in B : <<y, m>> \notin OpToRel(<, Nat)
  <2> HIDE DEF B
  <2> QED
    BY <1>1, NatLessThanWellFounded, WFMin, Zenon
<1>3. PICK m \in B : \A y \in B : <<y, m>> \notin OpToRel(<, Nat)
  BY <1>2
<1>4. m \in 0 .. N /\ m \notin G /\ m # 0
  OBVIOUS
<1>5. m - 1 \in 0 .. N /\ m - 1 < N /\ (m - 1) + 1 = m
  BY <1>4
<1>6. m - 1 \notin G
  BY <1>4, <1>5
<1>7. <<m - 1, m>> \in OpToRel(<, Nat)
  BY <1>4, <1>5 DEF OpToRel
<1> QED
  BY <1>3, <1>5, <1>6, <1>7

\* A finite set of numbers is bounded by its largest.
LEMMA MaxIsIn ==
    ASSUME NEW S \in SUBSET Nat, S # {}, IsFiniteSet(S)
    PROVE  Max(S) \in S /\ \A y \in S : Max(S) >= y
<1>1. PICK Q \in Seq(S) : \A s \in S : \E n \in 1 .. Len(Q) : Q[n] = s
  BY DEF IsFiniteSet
<1> DEFINE N == Len(Q)
           G == {n \in 0 .. N : \E b \in Nat : \A i \in 1 .. n : Q[i] <= b}
<1>2. N \in Nat /\ \A i \in 1 .. N : Q[i] \in Nat
  <2>1. Q \in Seq(Nat)
    BY SeqMonotonic
  <2> QED
    BY <2>1
<1>3. N \in G
  <2> HIDE DEF N
  <2>1. 0 \in G
    BY <1>2
  <2>2. ASSUME NEW n \in G, n < N
        PROVE  n + 1 \in G
    <3>1. PICK b \in Nat : \A i \in 1 .. n : Q[i] <= b
      BY <2>2
    <3>2. n \in Nat /\ n + 1 \in 1 .. N
      BY <1>2, <2>2
    <3>3. b + Q[n + 1] \in Nat /\ \A i \in 1 .. n + 1 : Q[i] <= b + Q[n + 1]
      <4>1. Q[n + 1] \in Nat
        BY <1>2, <3>2
      <4>2. \A i \in 1 .. n + 1 : Q[i] \in Nat /\ (i = n + 1 \/ i \in 1 .. n)
        BY <1>2, <3>2
      <4> QED
        BY <3>1, <4>1, <4>2
    <3>4. n + 1 \in 0 .. N
      BY <1>2, <3>2
    <3> QED
      BY <3>3, <3>4
  <2>3. G \in SUBSET (0 .. N)
    OBVIOUS
  <2> HIDE DEF G
  <2> QED
    BY <1>2, <2>1, <2>2, <2>3, WalkUp
<1>4. PICK b \in Nat : \A i \in 1 .. N : Q[i] <= b
  BY <1>3
<1>5. S \subseteq 0 .. b
  BY <1>1, <1>2, <1>4
<1> QED
  BY <1>5, LastIsThere

\* The folds over the first N strings that start at base, where F[n] is the step
\* for string n.
FoldsOf(N, E, base, F) ==
    {it \in [SUBSET (1 .. N) -> E] :
        /\ it[{}] = base
        /\ \A s \in SUBSET (1 .. N) : s # {} => it[s] = F[Max(s)][it[s \ {Max(s)}]]}

\* A fold exists, and keeps to what each of its steps keeps to.
LEMMA FoldExists ==
    ASSUME NEW N \in Nat, NEW E, NEW base \in E, NEW F \in [1 .. N -> [E -> E]]
    PROVE  FoldsOf(N, E, base, F) # {}
<1> DEFINE Walk(g, n) == g = [s \in SUBSET (1 .. n) |->
                               IF s = {} THEN base ELSE F[Max(s)][g[s \ {Max(s)}]]]
           G == {n \in 0 .. N : \E g : Walk(g, n)}
<1>1. 0 \in G
  <2>1. Walk([s \in SUBSET (1 .. 0) |-> base], 0)
    OBVIOUS
  <2> HIDE DEF Walk
  <2> QED
    BY <2>1
<1>2. ASSUME NEW n \in G, n < N
      PROVE  n + 1 \in G
  <2>1. PICK g : Walk(g, n)
    BY <1>2
  <2> DEFINE h == [s \in SUBSET (1 .. n + 1) |->
                     IF n + 1 \in s THEN F[n + 1][g[s \ {n + 1}]] ELSE g[s]]
  <2>2. ASSUME NEW s \in SUBSET (1 .. n + 1)
        PROVE  h[s] = IF s = {} THEN base ELSE F[Max(s)][h[s \ {Max(s)}]]
    <3>1. CASE n + 1 \in s
      <4>1. Max(s) = n + 1
        <5>1. n + 1 \in Nat /\ s \in SUBSET (0 .. n + 1)
          OBVIOUS
        <5>2. Max(s) \in s /\ Max(s) >= n + 1
          BY <3>1, <5>1, LastIsThere
        <5>3. Max(s) \in 1 .. n + 1
          BY <5>2
        <5> QED
          BY <5>1, <5>2, <5>3
      <4>2. s \ {n + 1} \in SUBSET (1 .. n + 1) /\ n + 1 \notin s \ {n + 1}
        OBVIOUS
      <4>3. h[s \ {n + 1}] = g[s \ {n + 1}]
        BY <4>2
      <4> QED
        BY <3>1, <4>1, <4>3
    <3>2. CASE n + 1 \notin s /\ s # {}
      <4>1. s \in SUBSET (1 .. n) /\ s \in SUBSET (0 .. n)
        BY <3>2
      <4>2. Max(s) \in s
        <5>1. n \in Nat
          OBVIOUS
        <5> QED
          BY <3>2, <4>1, <5>1, LastIsThere
      <4>3. s \ {Max(s)} \in SUBSET (1 .. n + 1) /\ n + 1 \notin s \ {Max(s)}
        BY <3>2
      <4>4. h[s] = g[s] /\ h[s \ {Max(s)}] = g[s \ {Max(s)}]
        BY <3>2, <4>3
      <4>5. g[s] = F[Max(s)][g[s \ {Max(s)}]]
        BY <2>1, <3>2, <4>1
      <4> QED
        BY <3>2, <4>4, <4>5
    <3>3. CASE s = {}
      <4>1. g[s] = base
        BY <2>1, <3>3
      <4> QED
        BY <3>3, <4>1
    <3> QED
      BY <3>1, <3>2, <3>3
  <2>3. Walk(h, n + 1)
    <3> HIDE DEF h
    <3>1. h = [s \in SUBSET (1 .. n + 1) |-> h[s]]
      BY DEF h
    <3> QED
      BY <2>2, <3>1
  <2> HIDE DEF Walk, h
  <2> QED
    BY <1>2, <2>3
<1>3. N \in G
  <2>1. G \in SUBSET (0 .. N)
    OBVIOUS
  <2> HIDE DEF G
  <2> QED
    BY <1>1, <1>2, <2>1, WalkUp
<1>4. PICK it : Walk(it, N)
  BY <1>3
<1>5. \A s \in SUBSET (1 .. N) :
         it[s] = IF s = {} THEN base ELSE F[Max(s)][it[s \ {Max(s)}]]
  BY <1>4
<1> DEFINE H == {n \in 0 .. N : \A s \in SUBSET (1 .. n) : it[s] \in E}
<1>6. 0 \in H
  <2>1. \A s \in SUBSET (1 .. 0) : s = {}
    OBVIOUS
  <2>2. it[{}] = base
    BY <1>5
  <2>3. \A s \in SUBSET (1 .. 0) : it[s] \in E
    BY <2>1, <2>2, Zenon
  <2> QED
    BY <2>3
<1>7. ASSUME NEW n \in H, n < N
      PROVE  n + 1 \in H
  <2>1. ASSUME NEW s \in SUBSET (1 .. n + 1), s # {}
        PROVE  it[s] \in E
    <3> DEFINE m == Max(s)
    <3>1. n + 1 \in Nat /\ s \in SUBSET (0 .. n + 1)
      OBVIOUS
    <3>2. m \in s /\ \A y \in s : m >= y
      BY <2>1, <3>1, LastIsThere
    <3> HIDE DEF m
    <3>3. m \in 1 .. n + 1 /\ m \in 1 .. N
      BY <1>7, <3>2
    <3>4. s \ {m} \in SUBSET (1 .. n)
      BY <3>2, <3>3
    <3>5. it[s \ {m}] \in E
      BY <1>7, <3>4
    <3>6. s \in SUBSET (1 .. N) /\ it[s] = F[m][it[s \ {m}]]
      <4>1. s \in SUBSET (1 .. N)
        BY <1>7
      <4> QED
        BY <1>5, <2>1, <4>1 DEF m
    <3> QED
      BY <3>3, <3>5, <3>6
  <2>2. it[{}] = base
    BY <1>5
  <2> QED
    BY <1>7, <2>1, <2>2
<1>8. N \in H
  <2>1. H \in SUBSET (0 .. N)
    OBVIOUS
  <2> HIDE DEF H
  <2> QED
    BY <1>6, <1>7, <2>1, WalkUp
<1>9. it \in [SUBSET (1 .. N) -> E]
  <2>1. \A s \in SUBSET (1 .. N) : it[s] \in E
    BY <1>8
  <2> QED
    BY <1>4, <2>1
<1>10. it[{}] = base
  BY <1>5
<1>11. \A s \in SUBSET (1 .. N) : s # {} => it[s] = F[Max(s)][it[s \ {Max(s)}]]
  BY <1>5
<1> QED
  BY <1>9, <1>10, <1>11, Zenon DEF FoldsOf

LEMMA MaxOfTwo ==
    ASSUME NEW a \in Int, NEW b \in Int
    PROVE  Max({a, b}) = IF a >= b THEN a ELSE b
<1> DEFINE m == IF a >= b THEN a ELSE b
<1>1. m \in {a, b} /\ \A y \in {a, b} : m >= y
  OBVIOUS
<1>2. ASSUME NEW x \in {a, b}, \A y \in {a, b} : x >= y
      PROVE  x = m
  BY <1>2
<1> HIDE DEF m
<1>3. Max({a, b}) = m
  BY <1>1, <1>2 DEF Max
<1> QED
  BY <1>3 DEF m

LEMMA MinOfTwo ==
    ASSUME NEW a \in Int, NEW b \in Int
    PROVE  Min({a, b}) = IF a <= b THEN a ELSE b
<1> DEFINE m == IF a <= b THEN a ELSE b
<1>1. m \in {a, b} /\ \A y \in {a, b} : m <= y
  OBVIOUS
<1>2. ASSUME NEW x \in {a, b}, \A y \in {a, b} : x <= y
      PROVE  x = m
  BY <1>2
<1> HIDE DEF m
<1>3. Min({a, b}) = m
  BY <1>1, <1>2 DEF Min
<1> QED
  BY <1>3 DEF m

LEMMA MaxOfThree ==
    ASSUME NEW a \in Int, NEW b \in Int, NEW c \in Int
    PROVE  Max({a, b, c}) = IF a >= b /\ a >= c THEN a
                            ELSE IF b >= c THEN b ELSE c
<1> DEFINE m == IF a >= b /\ a >= c THEN a ELSE IF b >= c THEN b ELSE c
<1>1. m \in {a, b, c} /\ \A y \in {a, b, c} : m >= y
  OBVIOUS
<1>2. ASSUME NEW x \in {a, b, c}, \A y \in {a, b, c} : x >= y
      PROVE  x = m
  BY <1>2
<1> HIDE DEF m
<1>3. Max({a, b, c}) = m
  BY <1>1, <1>2 DEF Max
<1> QED
  BY <1>3 DEF m

LEMMA ProductGrows ==
    ASSUME NEW a \in Nat, NEW b \in Nat, NEW c \in Nat, NEW d \in Nat, a <= c, b <= d
    PROVE  a * b \in Nat /\ c * d \in Nat /\ a * b <= c * d
<1>1. a * b \in Nat /\ c * d \in Nat /\ c * b \in Nat
  OBVIOUS
<1>2. PICK x \in Nat : c = a + x
  <2>1. c - a \in Nat /\ c = a + (c - a)
    OBVIOUS
  <2> QED
    BY <2>1
<1>3. PICK y \in Nat : d = b + y
  <2>1. d - b \in Nat /\ d = b + (d - b)
    OBVIOUS
  <2> QED
    BY <2>1
<1>4. c * b = a * b + x * b /\ x * b \in Nat
  BY <1>2
<1>5. c * d = c * b + c * y /\ c * y \in Nat
  BY <1>3
<1> QED
  BY <1>1, <1>4, <1>5

-----------------------------------------------------------------------------
(***************************************************************************)
(* What the state is made of, and when the pick comes.                     *)
(***************************************************************************)

Pitches == Nat \cup {None}
Voices == [held : Pitches, note : Pitches, wait : Nat, ring : BOOLEAN, queued : Nat,
           mine : BOOLEAN, detained : BOOLEAN]
Hands == [pick : {"Down", "Up", "Alternate"}, play : {"Sustain", "Hammer", "Slide"},
          nextUp : BOOLEAN, pedal : BOOLEAN, tremolo : BOOLEAN]
Accounts == [last : BOOLEAN \cup {None}, dropped : BOOLEAN, same : BOOLEAN,
             fresh : BOOLEAN]
Strokes(h) == [anchor : Strings \cup {1}, up : BOOLEAN, consumed : BOOLEAN,
               contact : BOOLEAN, age : Nat, delay : h.delays \cup {0},
               spread : h.spreads \cup {0}, preRoll : {0, PreRoll}]
Engines(h) == [hand : Hands, stroke : Strokes(h), string : [Strings -> Voices],
               struck : BOOLEAN, heard : Accounts]
\* How a note is struck.
Hits(h) == [on : Strings, note : Nat, key : BOOLEAN, whole : BOOLEAN, edge : Strings,
            late : h.delays, boundary : Nat]

LEMMA HostIsSound ==
    ASSUME NEW h \in Hosts
    PROVE  /\ h.delays \in SUBSET Nat /\ h.spreads \in SUBSET Nat
           /\ h.boundaries \in SUBSET Nat /\ h.notes \in SUBSET Nat
           /\ h.strings \in SUBSET Strings
           /\ h.picks \in SUBSET {"Down", "Up", "Alternate"}
           /\ h.plays \in SUBSET {"Sustain", "Hammer", "Slide"}
           /\ Max(h.delays) \in Nat /\ \A d \in h.delays : d <= Max(h.delays)
           /\ Max(h.spreads) \in Nat /\ \A d \in h.spreads : d <= Max(h.spreads)
<1>1. h \in Host /\ \A times \in {h.spreads, h.delays} : times # {} /\ IsFiniteSet(times)
  BY StrokeAssumption
<1>2. /\ h.delays \in SUBSET Nat /\ h.spreads \in SUBSET Nat
      /\ h.boundaries \in SUBSET Nat /\ h.notes \in SUBSET Nat
      /\ h.strings \in SUBSET Strings
      /\ h.picks \in SUBSET {"Down", "Up", "Alternate"}
      /\ h.plays \in SUBSET {"Sustain", "Hammer", "Slide"}
  BY <1>1 DEF Host
<1>3. Max(h.delays) \in h.delays /\ \A d \in h.delays : Max(h.delays) >= d
  BY <1>1, <1>2, MaxIsIn
<1>4. Max(h.spreads) \in h.spreads /\ \A d \in h.spreads : Max(h.spreads) >= d
  BY <1>1, <1>2, MaxIsIn
<1>5. \A d \in h.delays : d <= Max(h.delays)
  <2> SUFFICES ASSUME NEW d \in h.delays
               PROVE  d <= Max(h.delays)
    OBVIOUS
  <2>1. d \in Nat /\ Max(h.delays) \in Nat /\ Max(h.delays) >= d
    BY <1>2, <1>3
  <2> QED
    BY <2>1
<1>6. \A d \in h.spreads : d <= Max(h.spreads)
  <2> SUFFICES ASSUME NEW d \in h.spreads
               PROVE  d <= Max(h.spreads)
    OBVIOUS
  <2>1. d \in Nat /\ Max(h.spreads) \in Nat /\ Max(h.spreads) >= d
    BY <1>2, <1>4
  <2> QED
    BY <2>1
<1> QED
  BY <1>2, <1>3, <1>4, <1>5, <1>6

LEMMA StringsAreNumbers ==
    ASSUME NEW h \in Hosts, NEW st \in Strokes(h), NEW s \in Strings
    PROVE  /\ StringCount \in Nat /\ StringCount >= 1 /\ s \in 1 .. StringCount
           /\ st.anchor \in 1 .. StringCount
           /\ Crossings(st, s) \in Int /\ Crossings(st, s) <= StringCount - 1
           /\ st.spread \in Nat /\ st.spread <= Max(h.spreads)
           /\ st.delay \in Nat /\ st.delay <= Max(h.delays)
           /\ st.preRoll \in Nat /\ st.preRoll <= PreRoll /\ PreRoll \in Nat
           /\ Window \in Nat /\ st.age \in Nat
<1>1. StringCount \in Nat /\ PreRoll \in Nat /\ Window \in Nat
  BY StrokeAssumption
<1>2. s \in 1 .. StringCount /\ StringCount >= 1
  BY <1>1 DEF Strings
<1>3. st.anchor \in 1 .. StringCount
  BY <1>1, <1>2 DEF Strokes, Strings
<1>4. st.spread \in Nat /\ st.spread <= Max(h.spreads)
  <2>1. st.spread \in h.spreads \/ st.spread = 0
    BY DEF Strokes
  <2> QED
    BY <2>1, HostIsSound
<1>5. st.delay \in Nat /\ st.delay <= Max(h.delays)
  <2>1. st.delay \in h.delays \/ st.delay = 0
    BY DEF Strokes
  <2> QED
    BY <2>1, HostIsSound
<1>6. st.preRoll \in Nat /\ st.preRoll <= PreRoll /\ st.age \in Nat
  BY <1>1 DEF Strokes
<1>7. Crossings(st, s) \in Int /\ Crossings(st, s) <= StringCount - 1
  BY <1>1, <1>2, <1>3 DEF Crossings
<1> QED
  BY <1>1, <1>2, <1>3, <1>4, <1>5, <1>6, <1>7

\* The pick meets a string at some time after the pre-roll, and before the clock
\* stops counting.
LEMMA OnsetIsBounded ==
    ASSUME NEW h \in Hosts, NEW st \in Strokes(h), NEW s \in Strings
    PROVE  /\ Onset(st, s) \in Nat /\ st.preRoll <= Onset(st, s)
           /\ Remaining(st, s) \in Nat
           /\ Onset(st, s) <= PreRoll + (Max(h.spreads) * (StringCount - 1)) + Max(h.delays)
           /\ PreRoll + (Max(h.spreads) * (StringCount - 1)) + Max(h.delays) \in Nat
<1> DEFINE c == Crossings(st, s)
           m == Max(h.spreads)
           d == Max(h.delays)
<1>1. /\ c \in Int /\ c <= StringCount - 1 /\ StringCount - 1 \in Nat
      /\ st.spread \in Nat /\ st.spread <= m
      /\ st.delay \in Nat /\ st.delay <= d /\ st.preRoll \in Nat
      /\ st.preRoll <= PreRoll /\ PreRoll \in Nat /\ st.age \in Nat
  BY StringsAreNumbers
<1>2. m \in Nat /\ d \in Nat
  BY HostIsSound
<1>3. m * (StringCount - 1) \in Nat
  <2> HIDE DEF m
  <2> QED
    BY <1>1, <1>2, ProductGrows
<1>4. Travel(st, s) \in Nat /\ Travel(st, s) <= m * (StringCount - 1)
  <2>1. CASE c < 0
    BY <1>3, <2>1 DEF Travel
  <2>2. CASE ~(c < 0)
    <3>1. c \in Nat
      BY <1>1, <2>2
    <3>2. c * st.spread \in Nat /\ c * st.spread <= (StringCount - 1) * m
      <4> HIDE DEF c, m
      <4> QED
        BY <1>1, <1>2, <3>1, ProductGrows
    <3>3. (StringCount - 1) * m = m * (StringCount - 1)
      <4> HIDE DEF m
      <4> QED
        BY <1>1, <1>2
    <3>4. Travel(st, s) = c * st.spread
      BY <2>2 DEF Travel
    <3> QED
      BY <3>2, <3>3, <3>4
  <2> QED
    BY <2>1, <2>2
<1> DEFINE far == m * (StringCount - 1)
           way == Travel(st, s)
<1>5. /\ far \in Nat /\ way \in Nat /\ way <= far
      /\ Onset(st, s) = st.preRoll + way + st.delay
  BY <1>3, <1>4 DEF Onset
<1>6. Onset(st, s) \in Nat /\ st.preRoll <= Onset(st, s)
  <2> HIDE DEF far, way
  <2> QED
    BY <1>1, <1>5
<1>7. Onset(st, s) <= PreRoll + far + d /\ PreRoll + far + d \in Nat
  <2> HIDE DEF far, way, d
  <2> QED
    BY <1>1, <1>2, <1>5
<1>8. Remaining(st, s) \in Nat
  BY <1>1, <1>6 DEF Remaining
<1> QED
  BY <1>6, <1>7, <1>8

\* The time left depends on where, when and which way the stroke goes, and on
\* nothing else of it.
LEMMA SameTiming ==
    ASSUME NEW st, NEW u, NEW s,
           st.anchor = u.anchor, st.up = u.up, st.age = u.age, st.delay = u.delay,
           st.spread = u.spread, st.preRoll = u.preRoll
    PROVE  Remaining(st, s) = Remaining(u, s)
BY DEF Remaining, Onset, Travel, Crossings

LEMMA AgedIsNat ==
    ASSUME host \in Hosts
    PROVE  Aged \in Nat
<1> DEFINE far == Max(host.spreads) * (StringCount - 1)
           late == PreRoll + far + Max(host.delays)
<1>1. /\ Max(host.spreads) \in Nat /\ Max(host.delays) \in Nat
      /\ StringCount \in Nat /\ PreRoll \in Nat /\ Window \in Nat
  BY HostIsSound, StrokeAssumption
<1>2. far \in Int
  BY <1>1
<1>3. late \in Int
  <2> HIDE DEF far
  <2> QED
    BY <1>1, <1>2
<1>4. Aged = Max({Window, late}) + 1
  BY DEF Aged
<1> HIDE DEF late
<1> QED
  BY <1>1, <1>3, <1>4, MaxOfTwo

\* One tick later there is one tick less to wait, also where the age stops.
LEMMA OneTickLess ==
    ASSUME host \in Hosts, NEW st \in Strokes(host), NEW s \in Strings,
           NEW u, u = [st EXCEPT !.age = Min({@ + 1, Aged})]
    PROVE  Remaining(u, s) = Sooner(Remaining(st, s))
<1> DEFINE late == PreRoll + (Max(host.spreads) * (StringCount - 1)) + Max(host.delays)
<1>1. /\ Onset(st, s) \in Nat /\ Onset(st, s) <= late /\ late \in Nat
      /\ Window \in Nat /\ st.age \in Nat
  BY OnsetIsBounded, StringsAreNumbers
<1>2. Aged \in Nat /\ Onset(st, s) < Aged
  <2>1. Aged = Max({Window, late}) + 1
    BY DEF Aged
  <2> HIDE DEF late
  <2> QED
    BY <1>1, <2>1, MaxOfTwo
<1>3. u.age = IF st.age + 1 <= Aged THEN st.age + 1 ELSE Aged
  <2>1. u.age = Min({st.age + 1, Aged})
    BY DEF Strokes
  <2> QED
    BY <1>1, <1>2, <2>1, MinOfTwo
<1>4. Onset(u, s) = Onset(st, s)
  BY DEF Onset, Travel, Crossings, Strokes
<1> QED
  BY <1>1, <1>2, <1>3, <1>4 DEF Remaining, Sooner

-----------------------------------------------------------------------------
(***************************************************************************)
(* What one stroke of the wrist keeps.  Each call of the engine takes a    *)
(* picking state and returns the next; these are carried through it.       *)
(***************************************************************************)

\* A string the stroke still has to meet waits as long as its pick has to travel,
\* and longer only where a fret boundary detains it.
OnItsWay(e) ==
    \A s \in Strings :
        e.string[s].mine =>
            /\ e.string[s].wait >= Remaining(e.stroke, s)
            /\ ~e.string[s].detained => e.string[s].wait = Remaining(e.stroke, s)

\* A stroke has met a string that does not wait for it.
Begun(e) ==
    \A s \in Strings : e.string[s].mine /\ e.string[s].wait = 0 => e.stroke.contact

\* Alternate's next direction, and the last one heard, against the stroke's own.
Told(e) ==
    LET st == e.stroke
        other == e.heard.last # st.up \/ e.heard.dropped
    IN /\ ~e.heard.same
       /\ e.heard.fresh => e.heard.last = None
       /\ ~e.heard.fresh => e.hand.pick = "Alternate"
       /\ ~e.heard.fresh /\ st.consumed =>
             /\ e.hand.nextUp = ~st.up
             /\ IF st.contact THEN e.heard.last \in {st.up, None} ELSE other
       /\ ~e.heard.fresh /\ ~st.consumed =>
             /\ e.hand.nextUp = st.up /\ ~st.contact /\ other
             /\ \A s \in Strings : ~e.string[s].mine

\* A direction is reserved for a stroke whose pick is on its way.
OnTheMove(e) ==
    ~e.heard.fresh /\ e.stroke.consumed /\ ~e.stroke.contact =>
        Waits(e) \/ e.heard.dropped

Sound(h, e) == e \in Engines(h) /\ OnItsWay(e) /\ Begun(e) /\ Told(e)
Fine(h, e) == Sound(h, e) /\ OnTheMove(e)

\* Of two strings the stroke has met or will meet, the one it passes first waits
\* no longer.
LEMMA FirstPassedFirstMet ==
    ASSUME NEW h \in Hosts, NEW e, Sound(h, e), NEW s \in Strings, NEW t \in Strings,
           e.string[s].mine, e.string[t].mine, ~e.string[s].detained,
           IF e.stroke.up THEN s > t ELSE s < t
    PROVE  e.string[s].wait <= e.string[t].wait
<1> DEFINE st == e.stroke
<1>1. st \in Strokes(h) /\ e.string \in [Strings -> Voices]
  BY DEF Sound, Engines
<1> HIDE DEF st
<1>2. /\ s \in 1 .. StringCount /\ t \in 1 .. StringCount /\ StringCount \in Nat
      /\ st.anchor \in 1 .. StringCount /\ st.spread \in Nat /\ st.delay \in Nat
      /\ st.preRoll \in Nat /\ st.age \in Nat
      /\ Crossings(st, s) \in Int /\ Crossings(st, t) \in Int
  BY <1>1, StringsAreNumbers
<1>3. Crossings(st, s) <= Crossings(st, t)
  BY <1>2 DEF Crossings, st
<1>4. Travel(st, s) \in Nat /\ Travel(st, t) \in Nat /\ Travel(st, s) <= Travel(st, t)
  <2>1. CASE Crossings(st, t) < 0
    BY <1>2, <1>3, <2>1 DEF Travel
  <2>2. CASE Crossings(st, s) < 0 /\ ~(Crossings(st, t) < 0)
    <3>1. Crossings(st, t) \in Nat
      BY <1>2, <2>2
    <3>2. Crossings(st, t) * st.spread \in Nat
      BY <1>2, <3>1, ProductGrows
    <3> QED
      BY <2>2, <3>2 DEF Travel
  <2>3. CASE ~(Crossings(st, s) < 0)
    <3>1. Crossings(st, s) \in Nat /\ Crossings(st, t) \in Nat
      BY <1>2, <1>3, <2>3
    <3>2. /\ Crossings(st, s) * st.spread \in Nat /\ Crossings(st, t) * st.spread \in Nat
          /\ Crossings(st, s) * st.spread <= Crossings(st, t) * st.spread
      BY <1>2, <1>3, <3>1, ProductGrows
    <3> QED
      BY <3>1, <3>2 DEF Travel
  <2> QED
    BY <2>1, <2>2, <2>3
<1>5. Remaining(st, s) <= Remaining(st, t)
  BY <1>2, <1>4 DEF Remaining, Onset
<1>6. e.string[s].wait = Remaining(st, s) /\ e.string[t].wait >= Remaining(st, t)
  BY DEF Sound, OnItsWay, st
<1>7. Remaining(st, s) \in Nat /\ Remaining(st, t) \in Nat /\ e.string[t].wait \in Nat
  BY <1>1, OnsetIsBounded DEF Voices
<1> QED
  BY <1>5, <1>6, <1>7

\* A new stroke has no string yet, and goes the way Alternate wants it.
LEMMA BeginStrokeIsFine ==
    ASSUME NEW h \in Hosts, spread \in h.spreads, NEW e, Fine(h, e),
           NEW anchor \in Strings, NEW complete \in BOOLEAN, NEW late \in h.delays
    PROVE  Fine(h, BeginStroke(e, anchor, UpNext(e), complete, late))
<1> DEFINE d == Drop(e)
           f == BeginStroke(e, anchor, UpNext(e), complete, late)
<1>1. e \in Engines(h)
  BY DEF Fine, Sound
<1>2. /\ d \in Engines(h) /\ d.hand = e.hand /\ d.stroke = e.stroke
      /\ d.string = e.string /\ d.struck = e.struck
      /\ d.heard = [e.heard EXCEPT !.dropped =
                        @ \/ (e.stroke.consumed /\ ~e.stroke.contact /\ Waits(e))]
  BY <1>1 DEF Drop, Engines, Accounts
<1>3. UpNext(e) \in BOOLEAN
  BY DEF UpNext
<1> DEFINE st == [anchor |-> anchor, up |-> UpNext(e), consumed |-> FALSE,
                  contact |-> FALSE, age |-> 0, delay |-> late, spread |-> spread,
                  preRoll |-> IF spread = 0 \/ complete THEN 0 ELSE PreRoll]
           str == [s \in Strings |-> [e.string[s] EXCEPT !.mine = FALSE]]
<1>4. st \in Strokes(h)
  BY <1>3 DEF Strokes
<1>5. str \in [Strings -> Voices]
  BY <1>1 DEF Engines, Voices
<1>6. f = [d EXCEPT !.stroke = st, !.string = str]
  BY <1>1, <1>2 DEF BeginStroke, Engines
<1> HIDE DEF d, f, st
<1>7. f \in Engines(h) /\ f.stroke = st /\ f.string = str /\ f.hand = e.hand
      /\ f.heard = d.heard
  BY <1>2, <1>4, <1>5, <1>6 DEF Engines
<1>8. \A s \in Strings : ~f.string[s].mine
  BY <1>1, <1>7 DEF Engines, Voices
<1>9. Told(f)
  <2>1. /\ f.heard.fresh = e.heard.fresh /\ f.heard.last = e.heard.last
        /\ f.heard.same = e.heard.same
        /\ f.heard.dropped = (\/ e.heard.dropped
                              \/ e.stroke.consumed /\ ~e.stroke.contact /\ Waits(e))
    BY <1>1, <1>2, <1>7 DEF Engines, Accounts
  <2>2. f.stroke.up = UpNext(e) /\ ~f.stroke.consumed /\ ~f.stroke.contact
    BY <1>7 DEF st
  <2>3. e.heard.last \in BOOLEAN \cup {None} /\ None \notin BOOLEAN
    BY <1>1, StrokeAssumption DEF Engines, Accounts
  <2>4. e.hand.nextUp \in BOOLEAN /\ e.stroke.up \in BOOLEAN
    BY <1>1 DEF Engines, Hands, Strokes
  <2>5. ~e.heard.fresh => f.stroke.up = e.hand.nextUp /\ e.hand.pick = "Alternate"
    BY <2>2, <2>4 DEF Fine, Sound, Told, UpNext
  <2>6. ~e.heard.fresh => e.heard.last # e.hand.nextUp \/ f.heard.dropped
    BY <2>1, <2>3, <2>4 DEF Fine, Sound, Told, OnTheMove
  <2> QED
    BY <1>7, <1>8, <2>1, <2>2, <2>5, <2>6 DEF Fine, Sound, Told
<1> QED
  BY <1>7, <1>8, <1>9 DEF Fine, Sound, OnItsWay, Begun, OnTheMove, st, f

\* A note farther out, before the pick reached any string, puts off those that
\* wait, and leaves the stroke what it was.
LEMMA ReAnchorIsFine ==
    ASSUME NEW h \in Hosts, NEW e, Fine(h, e), NEW s \in Strings,
           e.stroke.age < e.stroke.preRoll
    PROVE  Fine(h, ReAnchor(e, s))
<1> DEFINE st == [e.stroke EXCEPT !.anchor = s]
           put(t) == IF e.string[t].mine /\ Travelling(e, t)
                     THEN [e.string[t] EXCEPT
                              !.wait = Max({1, Remaining(st, t), e.string[t].queued}),
                              !.detained = e.string[t].queued > Remaining(st, t)]
                     ELSE e.string[t]
           str == [t \in Strings |-> put(t)]
           f == [e EXCEPT !.stroke = st, !.string = str]
<1>0. CASE Crossings(e.stroke, s) >= 0
  BY <1>0 DEF ReAnchor
<1>1. CASE ~(Crossings(e.stroke, s) >= 0)
  <2>1. e \in Engines(h) /\ e.stroke \in Strokes(h) /\ e.string \in [Strings -> Voices]
    BY DEF Fine, Sound, Engines
  <2>2. st \in Strokes(h)
    BY <2>1 DEF Strokes
  <2>3. ReAnchor(e, s) = f
    BY <1>1 DEF ReAnchor
  <2>4. /\ st.up = e.stroke.up /\ st.consumed = e.stroke.consumed
        /\ st.contact = e.stroke.contact /\ st.age = e.stroke.age
        /\ st.preRoll = e.stroke.preRoll
    BY <2>1 DEF Strokes
  <2> HIDE DEF st
  <2>5. ASSUME NEW t \in Strings
        PROVE  /\ Remaining(st, t) \in Nat /\ Remaining(st, t) >= 1
               /\ Remaining(e.stroke, t) \in Nat /\ Remaining(e.stroke, t) >= 1
    <3>1. /\ Onset(st, t) \in Nat /\ st.preRoll <= Onset(st, t)
          /\ Onset(e.stroke, t) \in Nat /\ e.stroke.preRoll <= Onset(e.stroke, t)
          /\ e.stroke.preRoll \in Nat /\ e.stroke.age \in Nat
      BY <2>1, <2>2, OnsetIsBounded, StringsAreNumbers
    <3> QED
      BY <2>4, <3>1 DEF Remaining
  <2>6. ASSUME NEW t \in Strings
        PROVE  /\ put(t) \in Voices /\ put(t).mine = e.string[t].mine
               /\ e.string[t].mine =>
                     /\ put(t).wait >= 1 /\ put(t).wait >= Remaining(st, t)
                     /\ ~put(t).detained => put(t).wait = Remaining(st, t)
    <3> DEFINE v == e.string[t]
               r == Remaining(st, t)
               w == Max({1, r, v.queued})
    <3>1. v \in Voices /\ v.queued \in Nat /\ v.wait \in Nat
      BY <2>1 DEF Voices
    <3>2. r \in Nat /\ r >= 1
      BY <2>5
    <3> HIDE DEF r
    <3>3. w \in Nat /\ w >= 1 /\ w >= r /\ (~(v.queued > r) => w = r)
      <4> HIDE DEF v
      <4> QED
        BY <3>1, <3>2, MaxOfThree
    <3>4. v.mine => Travelling(e, t)
      <4>1. v.mine => v.wait >= Remaining(e.stroke, t)
        BY DEF Fine, Sound, OnItsWay
      <4> QED
        BY <2>5, <3>1, <4>1 DEF Travelling
    <3>5. put(t) = IF v.mine THEN [v EXCEPT !.wait = w, !.detained = v.queued > r] ELSE v
      BY <3>4 DEF r
    <3> HIDE DEF v, w, put
    <3>6. CASE v.mine
      <4> DEFINE late == v.queued > r
      <4>1. late \in BOOLEAN /\ put(t) = [v EXCEPT !.wait = w, !.detained = late]
        BY <3>5, <3>6
      <4> HIDE DEF late
      <4>2. /\ put(t) \in Voices /\ put(t).mine = v.mine /\ put(t).wait = w
            /\ put(t).detained = late
        BY <3>1, <3>3, <4>1 DEF Voices
      <4> QED
        BY <3>3, <4>2 DEF v, r, late
    <3>7. CASE ~v.mine
      BY <3>1, <3>5, <3>7 DEF v
    <3> QED
      BY <3>6, <3>7
  <2> HIDE DEF put
  <2>7. /\ f \in Engines(h) /\ f.stroke = st /\ f.hand = e.hand /\ f.heard = e.heard
        /\ f.string = str
    BY <2>1, <2>2, <2>6 DEF Engines
  <2> HIDE DEF f
  <2>8. \A t \in Strings : f.string[t] = put(t) /\ f.string[t].wait \in Nat
    BY <2>6, <2>7 DEF Voices
  <2>9. Waits(e) => Waits(f)
    BY <2>6, <2>8 DEF Waits, Travelling
  <2>10. Told(f)
    BY <2>4, <2>6, <2>7, <2>8 DEF Fine, Sound, Told
  <2>11. OnItsWay(f) /\ Begun(f)
    BY <2>6, <2>7, <2>8 DEF OnItsWay, Begun
  <2>12. OnTheMove(f)
    BY <2>4, <2>7, <2>9 DEF Fine, OnTheMove
  <2> QED
    BY <2>3, <2>7, <2>10, <2>11, <2>12 DEF Fine, Sound
<1> QED
  BY <1>0, <1>1

LEMMA JoinStrokeIsFine ==
    ASSUME NEW h \in Hosts, spread \in h.spreads, NEW e, Fine(h, e), NEW m \in Hits(h)
    PROVE  Fine(h, JoinStroke(e, m))
<1>1. /\ m.on \in Strings /\ m.edge \in Strings /\ m.whole \in BOOLEAN
      /\ m.late \in h.delays
  BY DEF Hits
<1> QED
  BY <1>1, BeginStrokeIsFine, ReAnchorIsFine DEF JoinStroke

\* With its direction reserved a stroke is sound, before its pick is on its way.
LEMMA ReserveIsSound ==
    ASSUME NEW h \in Hosts, NEW e, Fine(h, e)
    PROVE  /\ Sound(h, Reserve(e))
           /\ Reserve(e).heard.fresh \/ Reserve(e).stroke.consumed
<1> DEFINE f == Reserve(e)
<1>1. e \in Engines(h) /\ None \notin BOOLEAN
  BY StrokeAssumption DEF Fine, Sound
<1>2. CASE e.hand.pick # "Alternate" \/ e.stroke.consumed
  BY <1>2 DEF Reserve, Fine, Sound, Told
<1>3. CASE ~(e.hand.pick # "Alternate" \/ e.stroke.consumed)
  <2>1. f = [e EXCEPT !.stroke.consumed = TRUE, !.hand.nextUp = ~e.stroke.up,
                      !.heard.fresh = FALSE]
    BY <1>3 DEF Reserve
  <2> DEFINE st == [e.stroke EXCEPT !.consumed = TRUE]
             up == ~e.stroke.up
             hn == [e.hand EXCEPT !.nextUp = up]
             hd == [e.heard EXCEPT !.fresh = FALSE]
  <2> HIDE DEF f
  <2>a. st \in Strokes(h) /\ hn \in Hands /\ hd \in Accounts
    <3>1. up \in BOOLEAN
      OBVIOUS
    <3> HIDE DEF up
    <3> QED
      BY <1>1, <3>1 DEF Engines, Strokes, Hands, Accounts
  <2>b. f = [e EXCEPT !.stroke = st, !.hand = hn, !.heard = hd]
    BY <1>1, <2>1 DEF Engines
  <2> HIDE DEF st, hn, hd, up
  <2>2. /\ f \in Engines(h) /\ f.stroke = st /\ f.hand = hn /\ f.heard = hd
        /\ f.string = e.string
    BY <1>1, <2>a, <2>b DEF Engines
  <2>3. /\ f.stroke.consumed /\ f.stroke.contact = e.stroke.contact
        /\ f.stroke.up = e.stroke.up /\ f.hand.nextUp = ~e.stroke.up
        /\ f.hand.pick = e.hand.pick /\ ~f.heard.fresh /\ f.heard.last = e.heard.last
        /\ f.heard.dropped = e.heard.dropped /\ f.heard.same = e.heard.same
        /\ f.string = e.string
    BY <1>1, <2>2 DEF Engines, Strokes, Hands, Accounts, st, hn, hd, up
  <2>4. \A s \in Strings : Remaining(f.stroke, s) = Remaining(e.stroke, s)
    <3>1. /\ f.stroke.anchor = e.stroke.anchor /\ f.stroke.age = e.stroke.age
          /\ f.stroke.delay = e.stroke.delay /\ f.stroke.spread = e.stroke.spread
          /\ f.stroke.preRoll = e.stroke.preRoll /\ f.stroke.up = e.stroke.up
      BY <1>1, <2>2 DEF Engines, Strokes, st
    <3> QED
      BY <3>1, SameTiming
  <2>5. OnItsWay(f) /\ Begun(f)
    BY <2>3, <2>4 DEF Fine, Sound, OnItsWay, Begun
  <2>6. e.stroke.up \in BOOLEAN
    BY <1>1 DEF Engines, Strokes
  <2>7. Told(f)
    <3>1. e.heard.fresh => e.heard.last = None
      BY DEF Fine, Sound, Told
    <3>2. ~e.heard.fresh =>
             ~e.stroke.contact /\ (e.heard.last # e.stroke.up \/ e.heard.dropped)
      BY <1>3 DEF Fine, Sound, Told
    <3> QED
      BY <1>1, <1>3, <2>3, <2>6, <3>1, <3>2 DEF Fine, Sound, Told
  <2> QED
    BY <2>2, <2>3, <2>5, <2>7 DEF Sound, f
<1> QED
  BY <1>2, <1>3

\* The pick lands: the listener hears the stroke.
Landed(e) == [Hear(e) EXCEPT !.stroke.contact = TRUE]
LEMMA HearIsSound ==
    ASSUME NEW h \in Hosts, NEW e \in Engines(h), Told(e),
           e.heard.fresh \/ e.stroke.consumed
    PROVE  LET f == Landed(e) IN
           /\ f \in Engines(h) /\ Begun(f) /\ Told(f) /\ OnTheMove(f)
           /\ OnItsWay(e) => OnItsWay(f)
           /\ f.string = e.string /\ f.hand = e.hand /\ f.struck = e.struck
           /\ f.stroke = [e.stroke EXCEPT !.contact = TRUE]
<1> DEFINE g == Hear(e)
           f == Landed(e)
<1>1. /\ g \in Engines(h) /\ g.hand = e.hand /\ g.stroke = e.stroke
      /\ g.string = e.string /\ g.struck = e.struck
      /\ g.heard = IF e.stroke.contact \/ ~e.stroke.consumed \/ e.heard.fresh THEN e.heard
                   ELSE [e.heard EXCEPT
                            !.last = e.stroke.up, !.dropped = FALSE,
                            !.same = @ \/ (e.heard.last = e.stroke.up /\ ~e.heard.dropped)]
  <2>1. CASE e.stroke.contact \/ ~e.stroke.consumed \/ e.heard.fresh
    BY <2>1 DEF Hear
  <2>2. CASE ~(e.stroke.contact \/ ~e.stroke.consumed \/ e.heard.fresh)
    <3> DEFINE again == e.heard.same \/ (e.heard.last = e.stroke.up /\ ~e.heard.dropped)
               hd == [e.heard EXCEPT !.last = e.stroke.up, !.dropped = FALSE, !.same = again]
    <3>1. again \in BOOLEAN /\ e.stroke.up \in BOOLEAN /\ e.heard \in Accounts
      BY DEF Engines, Strokes, Accounts
    <3>2. hd = [e.heard EXCEPT
                   !.last = e.stroke.up, !.dropped = FALSE,
                   !.same = @ \/ (e.heard.last = e.stroke.up /\ ~e.heard.dropped)]
      BY <3>1 DEF Accounts
    <3>3. g = [e EXCEPT !.heard = hd]
      BY <2>2, <3>1 DEF Hear, Engines, Accounts
    <3> HIDE DEF again, g
    <3>4. hd \in Accounts
      BY <3>1 DEF Accounts
    <3> HIDE DEF hd
    <3>5. /\ g \in Engines(h) /\ g.hand = e.hand /\ g.stroke = e.stroke
          /\ g.string = e.string /\ g.struck = e.struck /\ g.heard = hd
      BY <3>3, <3>4 DEF Engines
    <3> QED
      BY <2>2, <3>2, <3>5
  <2> QED
    BY <2>1, <2>2
<1> DEFINE st == [e.stroke EXCEPT !.contact = TRUE]
<1>a. st \in Strokes(h)
  BY DEF Engines, Strokes
<1>2. f = [g EXCEPT !.stroke = st]
  BY <1>1 DEF Engines, Landed
<1> HIDE DEF g, st, f
<1>3. /\ f \in Engines(h) /\ f.hand = g.hand /\ f.string = g.string
      /\ f.struck = g.struck /\ f.heard = g.heard
      /\ f.stroke = st
  BY <1>1, <1>a, <1>2 DEF Engines
<1>4. /\ f.stroke.contact /\ f.stroke.up = e.stroke.up
      /\ f.stroke.consumed = e.stroke.consumed
      /\ f.stroke.anchor = e.stroke.anchor /\ f.stroke.age = e.stroke.age
      /\ f.stroke.delay = e.stroke.delay /\ f.stroke.spread = e.stroke.spread
      /\ f.stroke.preRoll = e.stroke.preRoll
  BY <1>3 DEF Engines, Strokes, st
<1>5. OnItsWay(e) => OnItsWay(f)
  BY <1>1, <1>3, <1>4, SameTiming DEF OnItsWay
<1>6. Begun(f) /\ OnTheMove(f)
  BY <1>4 DEF Begun, OnTheMove
<1>7. Told(f)
  <2>1. /\ g.heard.fresh = e.heard.fresh
        /\ e.stroke.contact \/ e.heard.fresh => g.heard = e.heard
        /\ ~e.stroke.contact /\ ~e.heard.fresh =>
              /\ g.heard.last = e.stroke.up
              /\ g.heard.same = (\/ e.heard.same
                                 \/ e.heard.last = e.stroke.up /\ ~e.heard.dropped)
    BY <1>1 DEF Engines, Accounts
  <2>2. CASE e.heard.fresh
    BY <1>1, <1>3, <1>4, <2>1, <2>2 DEF Told
  <2>3. CASE ~e.heard.fresh
    <3>1. /\ e.stroke.consumed /\ ~e.heard.same /\ e.hand.pick = "Alternate"
          /\ e.hand.nextUp = ~e.stroke.up
          /\ IF e.stroke.contact THEN e.heard.last \in {e.stroke.up, None}
             ELSE e.heard.last # e.stroke.up \/ e.heard.dropped
      BY <2>3 DEF Told
    <3>2. ~g.heard.same /\ g.heard.last \in {e.stroke.up, None} /\ ~g.heard.fresh
      BY <2>1, <2>3, <3>1
    <3>3. /\ f.stroke.consumed /\ f.stroke.contact /\ ~f.heard.fresh /\ ~f.heard.same
          /\ f.heard.last \in {f.stroke.up, None} /\ f.hand.pick = "Alternate"
          /\ f.hand.nextUp = ~f.stroke.up
      <4>1. /\ f.hand = e.hand /\ f.heard = g.heard /\ f.stroke.up = e.stroke.up
            /\ f.stroke.consumed = e.stroke.consumed /\ f.stroke.contact
        BY <1>1, <1>3, <1>4
      <4> QED
        BY <3>1, <3>2, <4>1
    <3> QED
      BY <3>3 DEF Told
  <2> QED
    BY <2>2, <2>3
<1> QED
  BY <1>1, <1>3, <1>5, <1>6, <1>7 DEF st, f

\* A picked note is on its way, or has landed.
LEMMA PickedVoiceIsFine ==
    ASSUME NEW h \in Hosts, NEW e, Sound(h, e), e.heard.fresh \/ e.stroke.consumed,
           NEW m \in Hits(h)
    PROVE  Fine(h, StartVoice(e, m, TRUE))
<1> DEFINE st == e.string[m.on]
           q == IF st.note \notin {None, m.note} /\ st.queued = 0 THEN m.boundary
                ELSE st.queued
           r == Remaining(e.stroke, m.on)
           w == Max({q, r})
           det == q > r
           rng == /\ w > 0 /\ st.note # None
                  /\ st.note = m.note => st.ring \/ st.wait = 0
           v == [st EXCEPT !.note = m.note, !.wait = w, !.queued = q, !.mine = TRUE,
                           !.detained = det, !.ring = rng]
           put == [e EXCEPT !.string[m.on] = v]
<1>1. /\ e \in Engines(h) /\ e.string \in [Strings -> Voices] /\ e.stroke \in Strokes(h)
      /\ m.on \in Strings /\ m.note \in Nat /\ m.boundary \in Nat
  BY DEF Sound, Engines, Hits
<1>2. st \in Voices
  BY <1>1
<1>3. q \in Nat /\ r \in Nat
  BY <1>1, <1>2, OnsetIsBounded DEF Voices
<1>4. w \in Nat /\ w >= r /\ (~det => w = r)
  <2> HIDE DEF q, r
  <2> QED
    BY <1>3, MaxOfTwo
<1>5. det \in BOOLEAN /\ rng \in BOOLEAN
  OBVIOUS
<1>6. StartVoice(e, m, TRUE) = IF w = 0 THEN [Land(put, m.on) EXCEPT !.struck = TRUE]
                               ELSE put
  <2>1. v = [st EXCEPT !.note = m.note, !.wait = w, !.queued = q, !.mine = TRUE,
                       !.detained = q > r,
                       !.ring = /\ w > 0 /\ st.note # None
                                /\ st.note = m.note => @ \/ st.wait = 0]
    BY <1>2 DEF Voices
  <2> QED
    BY <2>1 DEF StartVoice
<1> HIDE DEF q, r, w, det, rng
<1>7. /\ v \in Voices /\ v.mine /\ v.wait = w /\ v.detained = det
  BY <1>1, <1>2, <1>3, <1>4, <1>5 DEF Voices, Pitches
<1> HIDE DEF v
<1>8. /\ put \in Engines(h) /\ put.hand = e.hand /\ put.stroke = e.stroke
      /\ put.heard = e.heard /\ put.string = [e.string EXCEPT ![m.on] = v]
  BY <1>1, <1>7 DEF Engines
<1> HIDE DEF put
<1>9. put.string[m.on] = v /\ \A s \in Strings \ {m.on} : put.string[s] = e.string[s]
  BY <1>1, <1>8
<1>10. OnItsWay(put)
  BY <1>4, <1>7, <1>8, <1>9 DEF Sound, OnItsWay, r
<1>11. Told(put)
  <2>1. e.heard.fresh \/ e.stroke.consumed
    OBVIOUS
  <2> QED
    BY <1>8, <2>1 DEF Sound, Told
<1>12. CASE w = 0
  <2> DEFINE g == Landed(put)
             f == [g EXCEPT !.struck = TRUE]
  <2>1. StartVoice(e, m, TRUE) = f
    BY <1>6, <1>7, <1>9, <1>12 DEF Land, Landed
  <2>2. g \in Engines(h) /\ OnItsWay(g) /\ Begun(g) /\ Told(g) /\ OnTheMove(g)
    <3>1. put.heard.fresh \/ put.stroke.consumed
      BY <1>8
    <3>2. /\ g \in Engines(h) /\ Begun(g) /\ Told(g) /\ OnTheMove(g)
          /\ OnItsWay(put) => OnItsWay(g)
      BY <1>8, <1>11, <3>1, HearIsSound
    <3> QED
      BY <1>10, <3>2
  <2> HIDE DEF g
  <2>3. /\ f \in Engines(h) /\ f.hand = g.hand /\ f.stroke = g.stroke
        /\ f.string = g.string /\ f.heard = g.heard
    BY <2>2 DEF Engines
  <2> QED
    BY <2>1, <2>2, <2>3
       DEF Fine, Sound, OnItsWay, Begun, Told, OnTheMove, Waits, Travelling
<1>13. CASE w # 0
  <2>1. w > 0
    BY <1>4, <1>13
  <2>2. Begun(put)
    BY <1>7, <1>8, <1>9, <1>13 DEF Sound, Begun
  <2>3. Waits(put)
    BY <1>1, <1>7, <1>9, <2>1 DEF Waits, Travelling
  <2> QED
    BY <1>6, <1>8, <1>10, <1>11, <1>13, <2>2, <2>3 DEF Fine, Sound, OnTheMove
<1> QED
  BY <1>12, <1>13

\* A note the pick does not strike takes its string out of the stroke.
LEMMA OtherVoiceIsFine ==
    ASSUME NEW h \in Hosts, NEW e, Fine(h, e), NEW m \in Hits(h)
    PROVE  Fine(h, StartVoice(e, m, FALSE))
<1> DEFINE st == e.string[m.on]
           w == Max({st.queued, 0})
           det == st.queued > 0
           rng == /\ w > 0 /\ st.note # None
                  /\ st.note = m.note => st.ring \/ st.wait = 0
           v == [st EXCEPT !.note = m.note, !.wait = w, !.queued = st.queued, !.mine = FALSE,
                           !.detained = det, !.ring = rng]
           d == Drop(e)
           f == [d EXCEPT !.string[m.on] = v]
<1>1. /\ e \in Engines(h) /\ e.string \in [Strings -> Voices] /\ e.stroke \in Strokes(h)
      /\ m.on \in Strings /\ m.note \in Nat
  BY DEF Fine, Sound, Engines, Hits
<1>2. st \in Voices /\ st.queued \in Nat
  BY <1>1 DEF Voices
<1>3. w \in Nat
  BY <1>2, MaxOfTwo
<1>4. det \in BOOLEAN /\ rng \in BOOLEAN
  OBVIOUS
<1>5. StartVoice(e, m, FALSE) = f
  <2>1. v = [st EXCEPT !.note = m.note, !.wait = w, !.queued = st.queued, !.mine = FALSE,
                       !.detained = st.queued > 0,
                       !.ring = /\ w > 0 /\ st.note # None
                                /\ st.note = m.note => @ \/ st.wait = 0]
    BY <1>2 DEF Voices
  <2> QED
    BY <2>1 DEF StartVoice
<1> HIDE DEF w, det, rng
<1>6. v \in Voices /\ ~v.mine
  BY <1>1, <1>2, <1>3, <1>4 DEF Voices, Pitches
<1> DEFINE dropped == \/ e.heard.dropped
                      \/ e.stroke.consumed /\ ~e.stroke.contact /\ Waits(e)
           hd == [e.heard EXCEPT !.dropped = dropped]
<1>7. hd \in Accounts /\ d = [e EXCEPT !.heard = hd]
  <2>1. hd \in Accounts
    <3>1. dropped \in BOOLEAN
      BY <1>1 DEF Engines, Accounts
    <3> HIDE DEF dropped
    <3> QED
      BY <1>1, <3>1 DEF Engines, Accounts
  <2>2. CASE e.stroke.consumed /\ ~e.stroke.contact /\ Waits(e)
    <3>1. dropped = TRUE
      BY <2>2
    <3> HIDE DEF dropped
    <3> QED
      BY <1>1, <2>1, <2>2, <3>1 DEF Drop, Engines
  <2>3. CASE ~(e.stroke.consumed /\ ~e.stroke.contact /\ Waits(e))
    <3>1. dropped = e.heard.dropped
      BY <1>1, <2>3 DEF Engines, Accounts
    <3> HIDE DEF dropped
    <3> QED
      BY <1>1, <2>1, <2>3, <3>1 DEF Drop, Engines, Accounts
  <2> QED
    BY <2>1, <2>2, <2>3
<1> HIDE DEF v, d, hd
<1>8. /\ f \in Engines(h) /\ f.hand = e.hand /\ f.stroke = e.stroke /\ f.heard = hd
      /\ f.string = [e.string EXCEPT ![m.on] = v]
  BY <1>1, <1>6, <1>7 DEF Engines
<1> HIDE DEF f
<1>9. f.string[m.on] = v /\ \A s \in Strings \ {m.on} : f.string[s] = e.string[s]
  BY <1>1, <1>8
<1>10. /\ hd.last = e.heard.last /\ hd.same = e.heard.same /\ hd.fresh = e.heard.fresh
       /\ hd.dropped = dropped
  BY <1>1 DEF hd, Engines, Accounts
<1>11. OnItsWay(f) /\ Begun(f)
  BY <1>6, <1>8, <1>9 DEF Fine, Sound, OnItsWay, Begun
<1>12. Told(f)
  BY <1>6, <1>8, <1>9, <1>10 DEF Fine, Sound, Told
<1>13. OnTheMove(f)
  BY <1>8, <1>10 DEF Fine, OnTheMove
<1> QED
  BY <1>5, <1>8, <1>11, <1>12, <1>13 DEF Fine, Sound

\* The fretting hand alone moves the pitch, and leaves a pick on its way to land.
LEMMA LegatoRetargetIsFine ==
    ASSUME NEW h \in Hosts, NEW e, Fine(h, e), NEW m \in Hits(h)
    PROVE  Fine(h, LegatoRetarget(e, m))
<1> DEFINE st == e.string[m.on]
           mine == st.mine /\ Travelling(e, m.on)
           v == [st EXCEPT !.note = m.note, !.queued = 0, !.mine = mine]
           f == [e EXCEPT !.string[m.on] = v]
<1>1. /\ e \in Engines(h) /\ e.string \in [Strings -> Voices] /\ e.stroke \in Strokes(h)
      /\ m.on \in Strings /\ m.note \in Nat
  BY DEF Fine, Sound, Engines, Hits
<1>2. st \in Voices
  BY <1>1
<1>3. mine \in BOOLEAN
  OBVIOUS
<1>4. LegatoRetarget(e, m) = f
  <2>1. v = [st EXCEPT !.note = m.note, !.queued = 0, !.mine = @ /\ Travelling(e, m.on)]
    BY <1>2 DEF Voices
  <2> QED
    BY <1>1, <1>2, <2>1 DEF LegatoRetarget, Engines, Voices
<1> HIDE DEF mine
<1>5. /\ v \in Voices /\ v.mine = mine /\ v.wait = st.wait /\ v.detained = st.detained
  BY <1>1, <1>2, <1>3 DEF Voices, Pitches
<1> HIDE DEF v
<1>6. /\ f \in Engines(h) /\ f.hand = e.hand /\ f.stroke = e.stroke /\ f.heard = e.heard
      /\ f.string = [e.string EXCEPT ![m.on] = v]
  BY <1>1, <1>5 DEF Engines
<1> HIDE DEF f
<1>7. f.string[m.on] = v /\ \A s \in Strings \ {m.on} : f.string[s] = e.string[s]
  BY <1>1, <1>6
<1>8. mine = (st.mine /\ st.wait > 0)
  BY DEF mine, Travelling
<1>9. OnItsWay(f) /\ Begun(f)
  <2>1. ASSUME NEW s \in Strings
        PROVE  /\ f.string[s].wait = e.string[s].wait
               /\ f.string[s].detained = e.string[s].detained
               /\ f.string[s].mine => e.string[s].mine
    <3>1. CASE s = m.on
      BY <1>5, <1>7, <1>8, <3>1
    <3>2. CASE s # m.on
      BY <1>7, <3>2
    <3> QED
      BY <3>1, <3>2
  <2>2. OnItsWay(e) /\ Begun(e)
    BY DEF Fine, Sound
  <2> QED
    BY <1>6, <2>1, <2>2 DEF OnItsWay, Begun
<1>10. Told(f)
  BY <1>5, <1>6, <1>7, <1>8 DEF Fine, Sound, Told
<1>11. Waits(e) => Waits(f)
  BY <1>5, <1>7, <1>8 DEF Waits, Travelling
<1> QED
  BY <1>4, <1>6, <1>9, <1>10, <1>11 DEF Fine, Sound, OnTheMove

LEMMA StrikeIsFine ==
    ASSUME NEW h \in Hosts, spread \in h.spreads, NEW e, Fine(h, e), NEW m \in Hits(h)
    PROVE  Fine(h, Strike(e, m))
<1> DEFINE picked == Plectrum(e, m)
           wrist == IF picked THEN Reserve(JoinStroke(e, m)) ELSE e
           played == IF Legato(e, m) THEN LegatoRetarget(wrist, m)
                     ELSE StartVoice(wrist, m, picked)
<1>1. Fine(h, played)
  <2>1. CASE Legato(e, m)
    <3>1. ~picked
      BY <2>1 DEF Legato, Plectrum
    <3> QED
      BY <2>1, <3>1, LegatoRetargetIsFine
  <2>2. CASE ~Legato(e, m) /\ picked
    <3>1. /\ Sound(h, wrist)
          /\ wrist.heard.fresh \/ wrist.stroke.consumed
      BY <2>2, JoinStrokeIsFine, ReserveIsSound
    <3>2. picked = TRUE
      BY <2>2 DEF Plectrum
    <3> HIDE DEF wrist, picked
    <3> QED
      BY <2>2, <3>1, <3>2, PickedVoiceIsFine
  <2>3. CASE ~Legato(e, m) /\ ~picked
    <3>1. wrist = e /\ picked = FALSE
      BY <2>3 DEF Plectrum
    <3> HIDE DEF wrist, picked
    <3> QED
      BY <2>3, <3>1, OtherVoiceIsFine
  <2> QED
    BY <2>1, <2>2, <2>3
<1> HIDE DEF played
<1> DEFINE f == [played EXCEPT !.string[m.on].held = m.note]
<1>2. Strike(e, m) = IF m.key THEN f ELSE played
  BY DEF Strike, played
<1>3. Fine(h, f)
  <2>1. /\ played \in Engines(h) /\ m.on \in Strings /\ m.note \in Nat
        /\ played.string \in [Strings -> Voices]
    BY <1>1 DEF Fine, Sound, Engines, Hits
  <2> DEFINE v == [played.string[m.on] EXCEPT !.held = m.note]
  <2>2. /\ v \in Voices /\ v.mine = played.string[m.on].mine
        /\ v.wait = played.string[m.on].wait /\ v.detained = played.string[m.on].detained
    BY <2>1 DEF Voices, Pitches
  <2>3. f = [played EXCEPT !.string = [@ EXCEPT ![m.on] = v]]
    BY <2>1 DEF Engines
  <2> HIDE DEF v, f
  <2>4. /\ f \in Engines(h) /\ f.hand = played.hand /\ f.stroke = played.stroke
        /\ f.heard = played.heard /\ f.string = [played.string EXCEPT ![m.on] = v]
    BY <2>1, <2>2, <2>3 DEF Engines
  <2>5. \A s \in Strings : /\ f.string[s].mine = played.string[s].mine
                           /\ f.string[s].wait = played.string[s].wait
                           /\ f.string[s].detained = played.string[s].detained
    BY <2>1, <2>2, <2>4
  <2> QED
    BY <1>1, <2>4, <2>5
       DEF Fine, Sound, OnItsWay, Begun, Told, OnTheMove, Waits, Travelling
<1> QED
  BY <1>1, <1>2, <1>3

\* A string let go before its pick arrived leaves the stroke, which gives its
\* direction back if it was the last one.
LEMMA ReleaseIsFine ==
    ASSUME NEW h \in Hosts, NEW e, Fine(h, e), NEW s \in Strings
    PROVE  Fine(h, Release(e, s))
<1> DEFINE st == e.string[s]
           back == /\ e.hand.pick = "Alternate" /\ e.string[s].mine
                   /\ e.stroke.consumed /\ ~e.stroke.contact
                   /\ \A t \in Strings \ {s} : ~e.string[t].mine
           g == GiveBack(e, s)
           calm == IF st.ring THEN [st EXCEPT !.wait = 0, !.ring = FALSE, !.mine = FALSE,
                                              !.detained = FALSE]
                   ELSE [Silent EXCEPT !.held = st.held]
           f == [g EXCEPT !.string[s] = calm]
<1>0. CASE st.note = None \/ st.wait = 0
  BY <1>0 DEF Release
<1>1. CASE ~(st.note = None \/ st.wait = 0)
  <2>1. /\ e \in Engines(h) /\ e.string \in [Strings -> Voices] /\ e.stroke \in Strokes(h)
        /\ e.hand \in Hands /\ st \in Voices
    BY DEF Fine, Sound, Engines
  <2>2. Release(e, s) = f
    BY <1>1 DEF Release
  <2>3. calm \in Voices /\ ~calm.mine
    BY <2>1 DEF Voices, Silent, Pitches
  <2>4. /\ g \in Engines(h) /\ g.string = e.string /\ g.heard = e.heard
        /\ g.stroke.up = e.stroke.up /\ g.stroke.contact = e.stroke.contact
        /\ g.stroke.consumed = (e.stroke.consumed /\ ~back)
        /\ g.hand.pick = e.hand.pick
        /\ g.hand.nextUp = IF back THEN e.stroke.up ELSE e.hand.nextUp
        /\ \A t \in Strings : Remaining(g.stroke, t) = Remaining(e.stroke, t)
    <3>1. CASE back
      <4> DEFINE k == [e.stroke EXCEPT !.consumed = FALSE]
                 hn == [e.hand EXCEPT !.nextUp = e.stroke.up]
      <4>1. g = [e EXCEPT !.stroke = k, !.hand = hn]
        BY <2>1, <3>1 DEF GiveBack, Engines
      <4>2. /\ k \in Strokes(h) /\ hn \in Hands /\ k.consumed = FALSE /\ k.up = e.stroke.up
            /\ k.contact = e.stroke.contact /\ hn.pick = e.hand.pick
            /\ hn.nextUp = e.stroke.up
            /\ k.anchor = e.stroke.anchor /\ k.age = e.stroke.age
            /\ k.delay = e.stroke.delay /\ k.spread = e.stroke.spread
            /\ k.preRoll = e.stroke.preRoll
        BY <2>1 DEF Strokes, Hands
      <4> HIDE DEF k, hn, g
      <4>3. /\ g \in Engines(h) /\ g.string = e.string /\ g.heard = e.heard
            /\ g.stroke = k /\ g.hand = hn
        BY <2>1, <4>1, <4>2 DEF Engines
      <4>4. \A t \in Strings : Remaining(k, t) = Remaining(e.stroke, t)
        BY <4>2, SameTiming
      <4>5. back = TRUE
        BY <3>1
      <4> HIDE DEF back
      <4> QED
        BY <4>2, <4>3, <4>4, <4>5
    <3>2. CASE ~back
      <4>1. g = e
        BY <3>2 DEF GiveBack
      <4>2. e.stroke.consumed \in BOOLEAN
        BY <2>1 DEF Strokes
      <4> HIDE DEF back, g
      <4> QED
        BY <2>1, <3>2, <4>1, <4>2
    <3> QED
      BY <3>1, <3>2
  <2> HIDE DEF g, calm, f
  <2>5. /\ f \in Engines(h) /\ f.hand = g.hand /\ f.stroke = g.stroke /\ f.heard = g.heard
        /\ f.string = [e.string EXCEPT ![s] = calm]
    BY <2>1, <2>3, <2>4 DEF Engines, f
  <2>6. f.string[s] = calm /\ \A t \in Strings \ {s} : f.string[t] = e.string[t]
    BY <2>1, <2>5
  <2>7. OnItsWay(f) /\ Begun(f)
    BY <2>3, <2>4, <2>5, <2>6 DEF Fine, Sound, OnItsWay, Begun
  <2>8. Told(f)
    <3>1. Told(e)
      BY DEF Fine, Sound
    <3>2. CASE back
      <4>1. \A t \in Strings : ~f.string[t].mine
        BY <2>3, <2>6, <3>2
      <4>2. /\ ~f.stroke.consumed /\ ~f.stroke.contact /\ f.stroke.up = e.stroke.up
            /\ f.hand.nextUp = e.stroke.up /\ f.hand.pick = "Alternate"
            /\ f.heard = e.heard
        BY <2>4, <2>5, <3>2
      <4> QED
        BY <3>1, <3>2, <4>1, <4>2 DEF Told
    <3>3. CASE ~back
      <4>1. /\ f.stroke.consumed = e.stroke.consumed /\ f.stroke.up = e.stroke.up
            /\ f.stroke.contact = e.stroke.contact /\ f.hand.nextUp = e.hand.nextUp
            /\ f.hand.pick = e.hand.pick /\ f.heard = e.heard
        <5>1. e.stroke.consumed \in BOOLEAN
          BY <2>1 DEF Strokes
        <5> HIDE DEF back
        <5> QED
          BY <2>4, <2>5, <3>3, <5>1
      <4>2. \A t \in Strings : f.string[t].mine => e.string[t].mine
        BY <2>3, <2>6
      <4> QED
        BY <3>1, <4>1, <4>2 DEF Told
    <3> QED
      BY <3>2, <3>3
  <2>9. OnTheMove(f)
    <3> SUFFICES ASSUME ~f.heard.fresh, f.stroke.consumed, ~f.stroke.contact,
                        ~f.heard.dropped
                 PROVE  Waits(f)
      BY DEF OnTheMove
    <3>1. /\ ~e.heard.fresh /\ e.stroke.consumed /\ ~back /\ ~e.stroke.contact
          /\ ~e.heard.dropped
      <4> HIDE DEF back
      <4> QED
        BY <2>4, <2>5
    <3>2. Waits(e) /\ e.hand.pick = "Alternate"
      BY <3>1 DEF Fine, Sound, OnTheMove, Told
    <3>3. PICK t \in Strings : Travelling(e, t) /\ e.string[t].mine
      BY <3>2 DEF Waits
    <3>4. CASE t # s
      BY <2>6, <3>3, <3>4 DEF Waits, Travelling
    <3>5. CASE t = s
      <4>1. PICK u \in Strings \ {s} : e.string[u].mine
        BY <3>1, <3>2, <3>3, <3>5
      <4>2. e.string[u].wait # 0 /\ e.string[u].wait \in Nat
        BY <2>1, <3>1, <4>1 DEF Fine, Sound, Begun, Voices
      <4> QED
        BY <2>6, <4>1, <4>2 DEF Waits, Travelling
    <3> QED
      BY <3>4, <3>5
  <2> QED
    BY <2>2, <2>5, <2>7, <2>8, <2>9 DEF Fine, Sound
<1> QED
  BY <1>0, <1>1

LEMMA ReleaseUnheldIsFine ==
    ASSUME NEW h \in Hosts, NEW e, Fine(h, e), NEW s \in Strings
    PROVE  Fine(h, ReleaseUnheld(e, s))
BY ReleaseIsFine DEF ReleaseUnheld

LEMMA RepickIsFine ==
    ASSUME NEW h \in Hosts, spread \in h.spreads, NEW e, Fine(h, e),
           NEW s \in Strings, NEW late \in h.delays
    PROVE  Fine(h, Repick(e, s, late))
<1>1. CASE e.string[s].held = None
  BY <1>1 DEF Repick
<1>2. CASE e.string[s].held # None
  <2>1. e.string[s].held \in Nat
    BY <1>2 DEF Fine, Sound, Engines, Voices, Pitches
  <2>2. [Note(s, e.string[s].held, late, 0) EXCEPT !.key = FALSE] \in Hits(h)
    BY <2>1 DEF Note, Hits
  <2> QED
    BY <1>2, <2>2, StrikeIsFine DEF Repick
<1> QED
  BY <1>1, <1>2

-----------------------------------------------------------------------------
(***************************************************************************)
(* The engine's calls, over all strings.                                   *)
(***************************************************************************)

LEMMA LastOfPrefix ==
    ASSUME NEW N \in Nat, NEW n \in 0 .. N, n < N
    PROVE  /\ 1 .. n + 1 \in SUBSET (1 .. N) /\ 1 .. n + 1 # {} /\ n + 1 \in 1 .. N
           /\ Max(1 .. n + 1) = n + 1 /\ (1 .. n + 1) \ {n + 1} = 1 .. n
<1>1. n + 1 \in Nat /\ n + 1 \in 1 .. n + 1 /\ 1 .. n + 1 \in SUBSET (0 .. n + 1)
  OBVIOUS
<1>2. Max(1 .. n + 1) \in 1 .. n + 1 /\ Max(1 .. n + 1) >= n + 1
  BY <1>1, LastIsThere
<1> QED
  BY <1>1, <1>2

\* w goes on as F does, from where E holds; F hands C on from string to string.
Follows(N, E, F, w) ==
    \A s \in SUBSET (1 .. N) :
       s # {} /\ w[s \ {Max(s)}] \in E => w[s] = F[Max(s)][w[s \ {Max(s)}]]
HandsOn(N, E, F, C) ==
    /\ C \in [0 .. N -> SUBSET E]
    /\ \A n \in 1 .. N : \A x \in C[n - 1] : F[n][x] \in C[n]

\* Along a fold, what holds before a string's step and is handed on by it holds
\* after the last.
LEMMA Walked ==
    ASSUME NEW N \in Nat, NEW E, NEW F, NEW C, NEW w,
           Follows(N, E, F, w), HandsOn(N, E, F, C), w[{}] \in C[0]
    PROVE  w[1 .. N] \in C[N]
<1>0. /\ C \in [0 .. N -> SUBSET E]
      /\ \A n \in 1 .. N : \A x \in C[n - 1] : F[n][x] \in C[n]
  BY DEF HandsOn
<1> DEFINE G == {n \in 0 .. N : w[1 .. n] \in C[n]}
<1>1. 0 \in G
  <2>1. 1 .. 0 = {} /\ 0 \in 0 .. N
    OBVIOUS
  <2> QED
    BY <2>1
<1>2. ASSUME NEW n \in G, n < N
      PROVE  n + 1 \in G
  <2>1. /\ 1 .. n + 1 \in SUBSET (1 .. N) /\ 1 .. n + 1 # {} /\ n + 1 \in 1 .. N
        /\ Max(1 .. n + 1) = n + 1 /\ (1 .. n + 1) \ {n + 1} = 1 .. n
    BY <1>2, LastOfPrefix
  <2>2. w[1 .. n] \in C[n] /\ n \in 0 .. N /\ (n + 1) - 1 = n /\ n + 1 \in 0 .. N
    BY <1>2, <2>1
  <2>3. w[1 .. n] \in E
    BY <1>0, <2>2
  <2>4. w[1 .. n + 1] = F[Max(1 .. n + 1)][w[(1 .. n + 1) \ {Max(1 .. n + 1)}]]
    <3>1. w[(1 .. n + 1) \ {Max(1 .. n + 1)}] \in E
      BY <2>1, <2>3, Zenon
    <3> QED
      BY <2>1, <3>1, Zenon DEF Follows
  <2>5. w[1 .. n + 1] = F[n + 1][w[1 .. n]]
    BY <2>1, <2>4, Zenon
  <2>6. F[n + 1][w[1 .. n]] \in C[n + 1]
    BY <1>0, <2>1, <2>2
  <2> QED
    BY <2>2, <2>5, <2>6
<1>3. N \in G
  <2>1. G \in SUBSET (0 .. N)
    OBVIOUS
  <2> HIDE DEF G
  <2> QED
    BY <1>1, <1>2, <2>1, WalkUp
<1> QED
  BY <1>3

\* What the call for one string keeps, the calls for each string in turn keep.
LEMMA AllReleasedIsFine ==
    ASSUME NEW h \in Hosts, NEW e, Fine(h, e)
    PROVE  Fine(h, OverStrings(Release, e))
<1> DEFINE E == {x \in Engines(h) : Fine(h, x)}
           F == [n \in Strings |-> [x \in E |-> Release(x, n)]]
           seq == [s \in Strings |-> s]
           Folded(it) == it = [s \in SUBSET DOMAIN seq |->
                                 IF s = {} THEN e
                                 ELSE Release(it[s \ {Max(s)}], seq[Max(s)])]
           w == CHOOSE it : Folded(it)
<1>1. PICK N \in Nat : Strings = 1 .. N
  BY StrokeAssumption DEF Strings
<1>2. e \in E
  BY DEF Fine, Sound
<1>3. \A n \in 1 .. N : \A x \in E : Release(x, n) \in E /\ F[n][x] = Release(x, n)
  <2> SUFFICES ASSUME NEW n \in 1 .. N, NEW x \in E
               PROVE  Release(x, n) \in E /\ F[n][x] = Release(x, n)
    OBVIOUS
  <2>1. Release(x, n) \in E
    BY <1>1, ReleaseIsFine DEF Fine, Sound
  <2> HIDE DEF E
  <2> QED
    BY <1>1, <2>1
<1>4. F \in [1 .. N -> [E -> E]]
  <2> HIDE DEF E
  <2> QED
    BY <1>1, <1>3
<1>5. DOMAIN seq = 1 .. N /\ \A n \in 1 .. N : seq[n] = n
  BY <1>1
<1>6. OverStrings(Release, e) = w[1 .. N]
  BY <1>5 DEF OverStrings, FoldLeft, MapThenFoldSet
<1> HIDE DEF E, F, w
<1>7. PICK it \in [SUBSET (1 .. N) -> E] :
         /\ it[{}] = e
         /\ \A s \in SUBSET (1 .. N) :
               s # {} => it[s] = F[Max(s)][it[s \ {Max(s)}]]
  <2>1. FoldsOf(N, E, e, F) # {}
    BY <1>2, <1>4, FoldExists
  <2>2. PICK it \in FoldsOf(N, E, e, F) : TRUE
    BY <2>1
  <2> QED
    BY <2>2 DEF FoldsOf
<1>8. \A s \in SUBSET (1 .. N) : s # {} =>
         /\ Max(s) \in 1 .. N /\ s \ {Max(s)} \in SUBSET (1 .. N)
         /\ seq[Max(s)] = Max(s)
  <2> SUFFICES ASSUME NEW s \in SUBSET (1 .. N), s # {}
               PROVE  /\ Max(s) \in 1 .. N /\ s \ {Max(s)} \in SUBSET (1 .. N)
                      /\ seq[Max(s)] = Max(s)
    OBVIOUS
  <2>1. s \in SUBSET (0 .. N)
    OBVIOUS
  <2>2. Max(s) \in s
    BY <2>1, LastIsThere
  <2> QED
    BY <1>5, <2>2
<1>9. Folded(w)
  <2>1. ASSUME NEW s \in SUBSET (1 .. N), s # {}
        PROVE  it[s] = Release(it[s \ {Max(s)}], seq[Max(s)])
    <3> DEFINE m == Max(s)
    <3>1. /\ m \in 1 .. N /\ s \ {m} \in SUBSET (1 .. N) /\ seq[m] = m
          /\ it[s] = F[m][it[s \ {m}]]
      BY <1>7, <1>8, <2>1
    <3> HIDE DEF m, seq
    <3>2. it[s \ {m}] \in E
      BY <3>1
    <3>3. it[s] = Release(it[s \ {m}], seq[m])
      BY <1>3, <3>1, <3>2
    <3> QED
      BY <3>3 DEF m
  <2>2. Folded(it)
    <3>1. DOMAIN it = SUBSET (1 .. N) /\ it = [s \in DOMAIN it |-> it[s]]
      OBVIOUS
    <3> HIDE DEF seq
    <3> QED
      BY <1>5, <1>7, <2>1, <3>1
  <2> QED
    BY <2>2 DEF w
<1>10. /\ w[{}] = e
       /\ \A s \in SUBSET (1 .. N) :
             s # {} => w[s] = Release(w[s \ {Max(s)}], seq[Max(s)])
  <2> HIDE DEF seq
  <2> QED
    BY <1>5, <1>9
<1> HIDE DEF seq, Folded
<1>11. ASSUME NEW s \in SUBSET (1 .. N), s # {}, w[s \ {Max(s)}] \in E
       PROVE  w[s] = F[Max(s)][w[s \ {Max(s)}]]
  <2> DEFINE m == Max(s)
  <2>1. m \in 1 .. N /\ seq[m] = m /\ w[s] = Release(w[s \ {m}], seq[m])
    BY <1>8, <1>10, <1>11
  <2>2. w[s \ {m}] \in E
    BY <1>11
  <2> HIDE DEF m
  <2>3. w[s] = F[m][w[s \ {m}]]
    BY <1>3, <2>1, <2>2
  <2> QED
    BY <2>3 DEF m
<1> DEFINE C == [n \in 0 .. N |-> E]
<1>12. w[1 .. N] \in C[N]
  <2>1. w[{}] \in C[0]
    BY <1>2, <1>10
  <2>2. \A n \in 1 .. N : \A x \in C[n - 1] : F[n][x] \in C[n]
    BY <1>4
  <2>3. C \in [0 .. N -> SUBSET E]
    OBVIOUS
  <2> HIDE DEF C
  <2>4. HandsOn(N, E, F, C)
    BY <2>2, <2>3 DEF HandsOn
  <2>5. Follows(N, E, F, w)
    BY <1>11 DEF Follows
  <2> QED
    BY <2>1, <2>4, <2>5, Walked
<1> QED
  BY <1>6, <1>12 DEF E

LEMMA AllUnheldReleasedIsFine ==
    ASSUME NEW h \in Hosts, NEW e, Fine(h, e)
    PROVE  Fine(h, OverStrings(ReleaseUnheld, e))
<1> DEFINE E == {x \in Engines(h) : Fine(h, x)}
           F == [n \in Strings |-> [x \in E |-> ReleaseUnheld(x, n)]]
           seq == [s \in Strings |-> s]
           Folded(it) == it = [s \in SUBSET DOMAIN seq |->
                                 IF s = {} THEN e
                                 ELSE ReleaseUnheld(it[s \ {Max(s)}], seq[Max(s)])]
           w == CHOOSE it : Folded(it)
<1>1. PICK N \in Nat : Strings = 1 .. N
  BY StrokeAssumption DEF Strings
<1>2. e \in E
  BY DEF Fine, Sound
<1>3. \A n \in 1 .. N : \A x \in E : ReleaseUnheld(x, n) \in E /\ F[n][x] = ReleaseUnheld(x, n)
  <2> SUFFICES ASSUME NEW n \in 1 .. N, NEW x \in E
               PROVE  ReleaseUnheld(x, n) \in E /\ F[n][x] = ReleaseUnheld(x, n)
    OBVIOUS
  <2>1. ReleaseUnheld(x, n) \in E
    BY <1>1, ReleaseUnheldIsFine DEF Fine, Sound
  <2> HIDE DEF E
  <2> QED
    BY <1>1, <2>1
<1>4. F \in [1 .. N -> [E -> E]]
  <2> HIDE DEF E
  <2> QED
    BY <1>1, <1>3
<1>5. DOMAIN seq = 1 .. N /\ \A n \in 1 .. N : seq[n] = n
  BY <1>1
<1>6. OverStrings(ReleaseUnheld, e) = w[1 .. N]
  BY <1>5 DEF OverStrings, FoldLeft, MapThenFoldSet
<1> HIDE DEF E, F, w
<1>7. PICK it \in [SUBSET (1 .. N) -> E] :
         /\ it[{}] = e
         /\ \A s \in SUBSET (1 .. N) :
               s # {} => it[s] = F[Max(s)][it[s \ {Max(s)}]]
  <2>1. FoldsOf(N, E, e, F) # {}
    BY <1>2, <1>4, FoldExists
  <2>2. PICK it \in FoldsOf(N, E, e, F) : TRUE
    BY <2>1
  <2> QED
    BY <2>2 DEF FoldsOf
<1>8. \A s \in SUBSET (1 .. N) : s # {} =>
         /\ Max(s) \in 1 .. N /\ s \ {Max(s)} \in SUBSET (1 .. N)
         /\ seq[Max(s)] = Max(s)
  <2> SUFFICES ASSUME NEW s \in SUBSET (1 .. N), s # {}
               PROVE  /\ Max(s) \in 1 .. N /\ s \ {Max(s)} \in SUBSET (1 .. N)
                      /\ seq[Max(s)] = Max(s)
    OBVIOUS
  <2>1. s \in SUBSET (0 .. N)
    OBVIOUS
  <2>2. Max(s) \in s
    BY <2>1, LastIsThere
  <2> QED
    BY <1>5, <2>2
<1>9. Folded(w)
  <2>1. ASSUME NEW s \in SUBSET (1 .. N), s # {}
        PROVE  it[s] = ReleaseUnheld(it[s \ {Max(s)}], seq[Max(s)])
    <3> DEFINE m == Max(s)
    <3>1. /\ m \in 1 .. N /\ s \ {m} \in SUBSET (1 .. N) /\ seq[m] = m
          /\ it[s] = F[m][it[s \ {m}]]
      BY <1>7, <1>8, <2>1
    <3> HIDE DEF m, seq
    <3>2. it[s \ {m}] \in E
      BY <3>1
    <3>3. it[s] = ReleaseUnheld(it[s \ {m}], seq[m])
      BY <1>3, <3>1, <3>2
    <3> QED
      BY <3>3 DEF m
  <2>2. Folded(it)
    <3>1. DOMAIN it = SUBSET (1 .. N) /\ it = [s \in DOMAIN it |-> it[s]]
      OBVIOUS
    <3> HIDE DEF seq
    <3> QED
      BY <1>5, <1>7, <2>1, <3>1
  <2> QED
    BY <2>2 DEF w
<1>10. /\ w[{}] = e
       /\ \A s \in SUBSET (1 .. N) :
             s # {} => w[s] = ReleaseUnheld(w[s \ {Max(s)}], seq[Max(s)])
  <2> HIDE DEF seq
  <2> QED
    BY <1>5, <1>9
<1> HIDE DEF seq, Folded
<1>11. ASSUME NEW s \in SUBSET (1 .. N), s # {}, w[s \ {Max(s)}] \in E
       PROVE  w[s] = F[Max(s)][w[s \ {Max(s)}]]
  <2> DEFINE m == Max(s)
  <2>1. m \in 1 .. N /\ seq[m] = m /\ w[s] = ReleaseUnheld(w[s \ {m}], seq[m])
    BY <1>8, <1>10, <1>11
  <2>2. w[s \ {m}] \in E
    BY <1>11
  <2> HIDE DEF m
  <2>3. w[s] = F[m][w[s \ {m}]]
    BY <1>3, <2>1, <2>2
  <2> QED
    BY <2>3 DEF m
<1> DEFINE C == [n \in 0 .. N |-> E]
<1>12. w[1 .. N] \in C[N]
  <2>1. w[{}] \in C[0]
    BY <1>2, <1>10
  <2>2. \A n \in 1 .. N : \A x \in C[n - 1] : F[n][x] \in C[n]
    BY <1>4
  <2>3. C \in [0 .. N -> SUBSET E]
    OBVIOUS
  <2> HIDE DEF C
  <2>4. HandsOn(N, E, F, C)
    BY <2>2, <2>3 DEF HandsOn
  <2>5. Follows(N, E, F, w)
    BY <1>11 DEF Follows
  <2> QED
    BY <2>1, <2>4, <2>5, Walked
<1> QED
  BY <1>6, <1>12 DEF E

LEMMA TremoloTickIsFine ==
    ASSUME NEW h \in Hosts, spread \in h.spreads, NEW e, Fine(h, e), NEW late \in h.delays
    PROVE  Fine(h, TremoloTick(e, late))
<1> DEFINE E == {x \in Engines(h) : Fine(h, x)}
           F == [n \in Strings |-> [x \in E |-> Repick(x, n, late)]]
           seq == [s \in Strings |-> s]
           Folded(it) == it = [s \in SUBSET DOMAIN seq |->
                                 IF s = {} THEN e
                                 ELSE Repick(it[s \ {Max(s)}], seq[Max(s)], late)]
           w == CHOOSE it : Folded(it)
<1>1. PICK N \in Nat : Strings = 1 .. N
  BY StrokeAssumption DEF Strings
<1>2. e \in E
  BY DEF Fine, Sound
<1>3. \A n \in 1 .. N : \A x \in E : Repick(x, n, late) \in E /\ F[n][x] = Repick(x, n, late)
  <2> SUFFICES ASSUME NEW n \in 1 .. N, NEW x \in E
               PROVE  Repick(x, n, late) \in E /\ F[n][x] = Repick(x, n, late)
    OBVIOUS
  <2>1. Repick(x, n, late) \in E
    BY <1>1, RepickIsFine DEF Fine, Sound
  <2> HIDE DEF E
  <2> QED
    BY <1>1, <2>1
<1>4. F \in [1 .. N -> [E -> E]]
  <2> HIDE DEF E
  <2> QED
    BY <1>1, <1>3
<1>5. DOMAIN seq = 1 .. N /\ \A n \in 1 .. N : seq[n] = n
  BY <1>1
<1>6. TremoloTick(e, late) = w[1 .. N]
  BY <1>5 DEF TremoloTick, OverStrings, FoldLeft, MapThenFoldSet
<1> HIDE DEF E, F, w
<1>7. PICK it \in [SUBSET (1 .. N) -> E] :
         /\ it[{}] = e
         /\ \A s \in SUBSET (1 .. N) :
               s # {} => it[s] = F[Max(s)][it[s \ {Max(s)}]]
  <2>1. FoldsOf(N, E, e, F) # {}
    BY <1>2, <1>4, FoldExists
  <2>2. PICK it \in FoldsOf(N, E, e, F) : TRUE
    BY <2>1
  <2> QED
    BY <2>2 DEF FoldsOf
<1>8. \A s \in SUBSET (1 .. N) : s # {} =>
         /\ Max(s) \in 1 .. N /\ s \ {Max(s)} \in SUBSET (1 .. N)
         /\ seq[Max(s)] = Max(s)
  <2> SUFFICES ASSUME NEW s \in SUBSET (1 .. N), s # {}
               PROVE  /\ Max(s) \in 1 .. N /\ s \ {Max(s)} \in SUBSET (1 .. N)
                      /\ seq[Max(s)] = Max(s)
    OBVIOUS
  <2>1. s \in SUBSET (0 .. N)
    OBVIOUS
  <2>2. Max(s) \in s
    BY <2>1, LastIsThere
  <2> QED
    BY <1>5, <2>2
<1>9. Folded(w)
  <2>1. ASSUME NEW s \in SUBSET (1 .. N), s # {}
        PROVE  it[s] = Repick(it[s \ {Max(s)}], seq[Max(s)], late)
    <3> DEFINE m == Max(s)
    <3>1. /\ m \in 1 .. N /\ s \ {m} \in SUBSET (1 .. N) /\ seq[m] = m
          /\ it[s] = F[m][it[s \ {m}]]
      BY <1>7, <1>8, <2>1
    <3> HIDE DEF m, seq
    <3>2. it[s \ {m}] \in E
      BY <3>1
    <3>3. it[s] = Repick(it[s \ {m}], seq[m], late)
      BY <1>3, <3>1, <3>2
    <3> QED
      BY <3>3 DEF m
  <2>2. Folded(it)
    <3>1. DOMAIN it = SUBSET (1 .. N) /\ it = [s \in DOMAIN it |-> it[s]]
      OBVIOUS
    <3> HIDE DEF seq
    <3> QED
      BY <1>5, <1>7, <2>1, <3>1
  <2> QED
    BY <2>2 DEF w
<1>10. /\ w[{}] = e
       /\ \A s \in SUBSET (1 .. N) :
             s # {} => w[s] = Repick(w[s \ {Max(s)}], seq[Max(s)], late)
  <2> HIDE DEF seq
  <2> QED
    BY <1>5, <1>9
<1> HIDE DEF seq, Folded
<1>11. ASSUME NEW s \in SUBSET (1 .. N), s # {}, w[s \ {Max(s)}] \in E
       PROVE  w[s] = F[Max(s)][w[s \ {Max(s)}]]
  <2> DEFINE m == Max(s)
  <2>1. m \in 1 .. N /\ seq[m] = m /\ w[s] = Repick(w[s \ {m}], seq[m], late)
    BY <1>8, <1>10, <1>11
  <2>2. w[s \ {m}] \in E
    BY <1>11
  <2> HIDE DEF m
  <2>3. w[s] = F[m][w[s \ {m}]]
    BY <1>3, <2>1, <2>2
  <2> QED
    BY <2>3 DEF m
<1> DEFINE C == [n \in 0 .. N |-> E]
<1>12. w[1 .. N] \in C[N]
  <2>1. w[{}] \in C[0]
    BY <1>2, <1>10
  <2>2. \A n \in 1 .. N : \A x \in C[n - 1] : F[n][x] \in C[n]
    BY <1>4
  <2>3. C \in [0 .. N -> SUBSET E]
    OBVIOUS
  <2> HIDE DEF C
  <2>4. HandsOn(N, E, F, C)
    BY <2>2, <2>3 DEF HandsOn
  <2>5. Follows(N, E, F, w)
    BY <1>11 DEF Follows
  <2> QED
    BY <2>1, <2>4, <2>5, Walked
<1> QED
  BY <1>6, <1>12 DEF E

LEMMA ChordIsFine ==
    ASSUME NEW h \in Hosts, spread \in h.spreads, NEW e, Fine(h, e),
           NEW notes, \A s \in DOMAIN notes : notes[s] \in Hits(h)
    PROVE  Fine(h, StrikeEach(e, notes))
<1> DEFINE One(g, s) == IF s \in DOMAIN notes THEN Strike(g, notes[s]) ELSE g
<1> DEFINE E == {x \in Engines(h) : Fine(h, x)}
           F == [n \in Strings |-> [x \in E |-> One(x, n)]]
           seq == [s \in Strings |-> s]
           Folded(it) == it = [s \in SUBSET DOMAIN seq |->
                                 IF s = {} THEN e
                                 ELSE One(it[s \ {Max(s)}], seq[Max(s)])]
           w == CHOOSE it : Folded(it)
<1>1. PICK N \in Nat : Strings = 1 .. N
  BY StrokeAssumption DEF Strings
<1>2. e \in E
  BY DEF Fine, Sound
<1>3. \A n \in 1 .. N : \A x \in E : One(x, n) \in E /\ F[n][x] = One(x, n)
  <2> SUFFICES ASSUME NEW n \in 1 .. N, NEW x \in E
               PROVE  One(x, n) \in E /\ F[n][x] = One(x, n)
    OBVIOUS
  <2>1. One(x, n) \in E
    BY <1>1, StrikeIsFine DEF Fine, Sound
  <2> HIDE DEF E
  <2> QED
    BY <1>1, <2>1
<1>4. F \in [1 .. N -> [E -> E]]
  <2> HIDE DEF E
  <2> QED
    BY <1>1, <1>3
<1>5. DOMAIN seq = 1 .. N /\ \A n \in 1 .. N : seq[n] = n
  BY <1>1
<1>6. StrikeEach(e, notes) = w[1 .. N]
  BY <1>5 DEF StrikeEach, OverStrings, FoldLeft, MapThenFoldSet
<1> HIDE DEF E, F, w
<1>7. PICK it \in [SUBSET (1 .. N) -> E] :
         /\ it[{}] = e
         /\ \A s \in SUBSET (1 .. N) :
               s # {} => it[s] = F[Max(s)][it[s \ {Max(s)}]]
  <2>1. FoldsOf(N, E, e, F) # {}
    BY <1>2, <1>4, FoldExists
  <2>2. PICK it \in FoldsOf(N, E, e, F) : TRUE
    BY <2>1
  <2> QED
    BY <2>2 DEF FoldsOf
<1>8. \A s \in SUBSET (1 .. N) : s # {} =>
         /\ Max(s) \in 1 .. N /\ s \ {Max(s)} \in SUBSET (1 .. N)
         /\ seq[Max(s)] = Max(s)
  <2> SUFFICES ASSUME NEW s \in SUBSET (1 .. N), s # {}
               PROVE  /\ Max(s) \in 1 .. N /\ s \ {Max(s)} \in SUBSET (1 .. N)
                      /\ seq[Max(s)] = Max(s)
    OBVIOUS
  <2>1. s \in SUBSET (0 .. N)
    OBVIOUS
  <2>2. Max(s) \in s
    BY <2>1, LastIsThere
  <2> QED
    BY <1>5, <2>2
<1>9. Folded(w)
  <2>1. ASSUME NEW s \in SUBSET (1 .. N), s # {}
        PROVE  it[s] = One(it[s \ {Max(s)}], seq[Max(s)])
    <3> DEFINE m == Max(s)
    <3>1. /\ m \in 1 .. N /\ s \ {m} \in SUBSET (1 .. N) /\ seq[m] = m
          /\ it[s] = F[m][it[s \ {m}]]
      BY <1>7, <1>8, <2>1
    <3> HIDE DEF m, seq
    <3>2. it[s \ {m}] \in E
      BY <3>1
    <3>3. it[s] = One(it[s \ {m}], seq[m])
      BY <1>3, <3>1, <3>2
    <3> QED
      BY <3>3 DEF m
  <2>2. Folded(it)
    <3>1. DOMAIN it = SUBSET (1 .. N) /\ it = [s \in DOMAIN it |-> it[s]]
      OBVIOUS
    <3> HIDE DEF seq
    <3> QED
      BY <1>5, <1>7, <2>1, <3>1
  <2> QED
    BY <2>2 DEF w
<1>10. /\ w[{}] = e
       /\ \A s \in SUBSET (1 .. N) :
             s # {} => w[s] = One(w[s \ {Max(s)}], seq[Max(s)])
  <2> HIDE DEF seq
  <2> QED
    BY <1>5, <1>9
<1> HIDE DEF seq, Folded
<1>11. ASSUME NEW s \in SUBSET (1 .. N), s # {}, w[s \ {Max(s)}] \in E
       PROVE  w[s] = F[Max(s)][w[s \ {Max(s)}]]
  <2> DEFINE m == Max(s)
  <2>1. m \in 1 .. N /\ seq[m] = m /\ w[s] = One(w[s \ {m}], seq[m])
    BY <1>8, <1>10, <1>11
  <2>2. w[s \ {m}] \in E
    BY <1>11
  <2> HIDE DEF m
  <2>3. w[s] = F[m][w[s \ {m}]]
    BY <1>3, <2>1, <2>2
  <2> QED
    BY <2>3 DEF m
<1> DEFINE C == [n \in 0 .. N |-> E]
<1>12. w[1 .. N] \in C[N]
  <2>1. w[{}] \in C[0]
    BY <1>2, <1>10
  <2>2. \A n \in 1 .. N : \A x \in C[n - 1] : F[n][x] \in C[n]
    BY <1>4
  <2>3. C \in [0 .. N -> SUBSET E]
    OBVIOUS
  <2> HIDE DEF C
  <2>4. HandsOn(N, E, F, C)
    BY <2>2, <2>3 DEF HandsOn
  <2>5. Follows(N, E, F, w)
    BY <1>11 DEF Follows
  <2> QED
    BY <2>1, <2>4, <2>5, Walked
<1> QED
  BY <1>6, <1>12 DEF E

-----------------------------------------------------------------------------
(***************************************************************************)
(* The clock.                                                              *)
(***************************************************************************)

\* On one string the clock brings the pick nearer, and lets it land.
LEMMA ArriveKeeps ==
    ASSUME NEW h \in Hosts, NEW e \in Engines(h), Told(e), NEW s \in Strings
    PROVE  LET f == Arrive(e, s) IN
           /\ f \in Engines(h) /\ Told(f)
           /\ \A t \in Strings \ {s} : f.string[t] = e.string[t]
           /\ f.string[s].mine = e.string[s].mine
           /\ f.string[s].wait = Sooner(e.string[s].wait)
           /\ f.string[s].detained = (e.string[s].detained /\ e.string[s].wait > 1)
           /\ f.stroke = e.stroke \/ f.stroke = [e.stroke EXCEPT !.contact = TRUE]
           /\ e.string[s].mine /\ e.string[s].wait = 1 => f.stroke.contact
           /\ f.stroke.contact \/ f.heard = e.heard
<1> DEFINE st == e.string[s]
           rng == st.ring /\ st.wait > 1
           det == st.detained /\ st.wait > 1
           v == [st EXCEPT !.wait = Sooner(st.wait), !.queued = Sooner(st.queued),
                           !.ring = rng, !.detained = det]
           near == [e EXCEPT !.string[s] = v]
           heardIt == Landed(near)
           f == Arrive(e, s)
<1>1. /\ e.string \in [Strings -> Voices] /\ e.stroke \in Strokes(h) /\ st \in Voices
  BY DEF Engines
<1>2. rng \in BOOLEAN /\ det \in BOOLEAN
  OBVIOUS
<1>3. Sooner(st.wait) \in Nat /\ Sooner(st.queued) \in Nat
  BY <1>1 DEF Voices, Sooner
<1>4. f = IF st.wait = 1 THEN Land(near, s) ELSE near
  <2>1. v = [st EXCEPT !.wait = Sooner(@), !.queued = Sooner(@),
                       !.ring = @ /\ st.wait > 1, !.detained = @ /\ st.wait > 1]
    BY <1>1 DEF Voices
  <2> HIDE DEF v
  <2> QED
    BY <2>1 DEF Arrive
<1> HIDE DEF rng, det
<1>5. /\ v \in Voices /\ v.mine = st.mine /\ v.wait = Sooner(st.wait) /\ v.detained = det
  BY <1>1, <1>2, <1>3 DEF Voices
<1> HIDE DEF v
<1>6. /\ near \in Engines(h) /\ near.hand = e.hand /\ near.stroke = e.stroke
      /\ near.heard = e.heard /\ near.string = [e.string EXCEPT ![s] = v]
  BY <1>1, <1>5 DEF Engines
<1> HIDE DEF near
<1>7. near.string[s] = v /\ \A t \in Strings \ {s} : near.string[t] = e.string[t]
  BY <1>1, <1>6
<1>8. Told(near)
  BY <1>5, <1>6, <1>7 DEF Told
<1> HIDE DEF f, heardIt
<1>9. CASE st.wait = 1 /\ st.mine
  <2>1. near.heard.fresh \/ near.stroke.consumed
    BY <1>6, <1>9 DEF Told
  <2>2. heardIt = [Hear(near) EXCEPT !.stroke.contact = TRUE]
    BY DEF heardIt, Landed
  <2>3. /\ heardIt \in Engines(h) /\ Told(heardIt) /\ heardIt.string = near.string
        /\ heardIt.stroke = [near.stroke EXCEPT !.contact = TRUE]
    BY <1>6, <1>8, <2>1, HearIsSound DEF heardIt
  <2>4. f = heardIt
    BY <1>4, <1>5, <1>7, <1>9, <2>2 DEF Land
  <2>5. f.stroke.contact
    BY <1>1, <1>6, <2>3, <2>4 DEF Strokes
  <2>6. /\ f \in Engines(h) /\ Told(f) /\ f.string = near.string
        /\ f.stroke = [e.stroke EXCEPT !.contact = TRUE]
    BY <1>6, <2>3, <2>4
  <2> QED
    BY <1>5, <1>7, <2>5, <2>6 DEF f, det
<1>10. CASE ~(st.wait = 1 /\ st.mine)
  <2>1. f = near
    BY <1>4, <1>5, <1>7, <1>10 DEF Land
  <2>2. ~(e.string[s].mine /\ e.string[s].wait = 1)
    BY <1>10
  <2> QED
    BY <1>5, <1>6, <1>7, <1>8, <2>1, <2>2 DEF f, det
<1> QED
  BY <1>9, <1>10

\* While the clock goes over the strings: those up to n have one tick less to wait.
Due(st, s, n) == IF s <= n THEN Sooner(Remaining(st, s)) ELSE Remaining(st, s)
Nearing(n, e) ==
    /\ Begun(e) /\ OnTheMove(e)
    /\ \A s \in Strings :
          e.string[s].mine =>
              /\ e.string[s].wait >= Due(e.stroke, s, n)
              /\ ~e.string[s].detained => e.string[s].wait = Due(e.stroke, s, n)

LEMMA ArriveNears ==
    ASSUME NEW h \in Hosts, NEW n \in Strings, n \in Nat, NEW e \in Engines(h), Told(e),
           Nearing(n - 1, e)
    PROVE  Nearing(n, Arrive(e, n))
<1> DEFINE f == Arrive(e, n)
<1>1. /\ f \in Engines(h) /\ Told(f)
      /\ \A t \in Strings \ {n} : f.string[t] = e.string[t]
      /\ f.string[n].mine = e.string[n].mine
      /\ f.string[n].wait = Sooner(e.string[n].wait)
      /\ f.string[n].detained = (e.string[n].detained /\ e.string[n].wait > 1)
      /\ f.stroke = e.stroke \/ f.stroke = [e.stroke EXCEPT !.contact = TRUE]
      /\ e.string[n].mine /\ e.string[n].wait = 1 => f.stroke.contact
      /\ f.stroke.contact \/ f.heard = e.heard
  BY ArriveKeeps
<1> HIDE DEF f
<1>2. /\ e.string \in [Strings -> Voices] /\ e.stroke \in Strokes(h)
      /\ \A t \in Strings : e.string[t].wait \in Nat
      /\ \A t \in Strings : t \in Nat
  <2>1. e.string \in [Strings -> Voices] /\ e.stroke \in Strokes(h)
    BY DEF Engines
  <2>2. \A t \in Strings : t \in Nat
    BY StrokeAssumption DEF Strings
  <2> QED
    BY <2>1, <2>2 DEF Voices
<1>3. /\ f.stroke.up = e.stroke.up /\ f.stroke.anchor = e.stroke.anchor
      /\ f.stroke.age = e.stroke.age /\ f.stroke.delay = e.stroke.delay
      /\ f.stroke.spread = e.stroke.spread /\ f.stroke.preRoll = e.stroke.preRoll
      /\ f.stroke.consumed = e.stroke.consumed
      /\ e.stroke.contact => f.stroke.contact
      /\ ~f.stroke.contact => ~e.stroke.contact
  BY <1>1, <1>2 DEF Strokes
<1>4. \A t \in Strings : Remaining(f.stroke, t) = Remaining(e.stroke, t)
  BY <1>3, SameTiming
<1>5. Begun(f)
  <2> SUFFICES ASSUME NEW t \in Strings, f.string[t].mine, f.string[t].wait = 0
               PROVE  f.stroke.contact
    BY DEF Begun
  <2>1. CASE t # n
    BY <1>1, <1>3, <2>1 DEF Nearing, Begun
  <2>2. CASE t = n
    <3>1. e.string[n].mine /\ e.string[n].wait \in {0, 1}
      BY <1>1, <1>2, <2>2 DEF Sooner
    <3> QED
      BY <1>1, <1>3, <3>1 DEF Nearing, Begun
  <2> QED
    BY <2>1, <2>2
<1>6. OnTheMove(f)
  <2> SUFFICES ASSUME ~f.heard.fresh, f.stroke.consumed, ~f.stroke.contact,
                      ~f.heard.dropped
               PROVE  Waits(f)
    BY DEF OnTheMove
  <2>1. Waits(e)
    <3>1. f.heard = e.heard /\ e.stroke.consumed /\ ~e.stroke.contact
      BY <1>1, <1>3
    <3> QED
      BY <3>1 DEF Nearing, OnTheMove
  <2>2. PICK t \in Strings : e.string[t].wait > 0 /\ e.string[t].mine
    BY <2>1 DEF Waits, Travelling
  <2>3. CASE t # n
    BY <1>1, <2>2, <2>3 DEF Waits, Travelling
  <2>4. CASE t = n
    <3>1. e.string[n].wait # 1 /\ e.string[n].wait \in Nat
      BY <1>1, <1>2, <2>2, <2>4
    <3>2. Sooner(e.string[n].wait) > 0
      BY <2>2, <2>4, <3>1 DEF Sooner
    <3> QED
      BY <1>1, <2>2, <2>4, <3>2 DEF Waits, Travelling
  <2> QED
    BY <2>3, <2>4
<1>7. ASSUME NEW t \in Strings, f.string[t].mine
      PROVE  /\ f.string[t].wait >= Due(f.stroke, t, n)
             /\ ~f.string[t].detained => f.string[t].wait = Due(f.stroke, t, n)
  <2>1. Remaining(e.stroke, t) \in Nat /\ t \in Nat
    BY <1>2, OnsetIsBounded
  <2>2. CASE t # n
    <3>1. f.string[t] = e.string[t]
      BY <1>1, <2>2
    <3>2. Due(f.stroke, t, n) = Due(e.stroke, t, n - 1)
      BY <1>4, <2>1, <2>2 DEF Due
    <3>3. /\ e.string[t].wait >= Due(e.stroke, t, n - 1)
          /\ ~e.string[t].detained => e.string[t].wait = Due(e.stroke, t, n - 1)
      BY <1>7, <3>1 DEF Nearing
    <3> QED
      BY <3>1, <3>2, <3>3
  <2>3. CASE t = n
    <3> DEFINE r == Remaining(e.stroke, n)
               w == e.string[n].wait
    <3>1. Due(f.stroke, n, n) = Sooner(r) /\ Due(e.stroke, n, n - 1) = r
      BY <1>4, <2>1, <2>3 DEF Due
    <3>2. e.string[n].mine
      BY <1>1, <1>7, <2>3
    <3>3. w >= r /\ (~e.string[n].detained => w = r)
      BY <3>1, <3>2 DEF Nearing
    <3>4. w \in Nat /\ r \in Nat
      BY <1>2, <2>1, <2>3
    <3>5. f.string[n].wait = Sooner(w)
      BY <1>1
    <3> HIDE DEF r, w
    <3>6. Sooner(w) >= Sooner(r)
      BY <3>3, <3>4 DEF Sooner
    <3>7. ~f.string[n].detained => Sooner(w) = Sooner(r)
      <4>1. ~f.string[n].detained => ~e.string[n].detained \/ ~(w > 1)
        BY <1>1 DEF w
      <4> QED
        BY <3>3, <3>4, <4>1 DEF Sooner
    <3> QED
      BY <2>3, <3>1, <3>5, <3>6, <3>7
  <2> QED
    BY <2>2, <2>3
<1> QED
  BY <1>5, <1>6, <1>7 DEF Nearing, f

\* When the clock has gone over all strings, each has one tick less to wait.
LEMMA AllArrive ==
    ASSUME NEW h \in Hosts, NEW e, Fine(h, e)
    PROVE  LET x == OverStrings(Arrive, e) IN
           /\ x \in Engines(h) /\ Told(x)
           /\ \E n \in Nat : Strings = 1 .. n /\ Nearing(n, x)
<1> DEFINE E == {x \in Engines(h) : Told(x)}
           F == [n \in Strings |-> [x \in E |-> Arrive(x, n)]]
           seq == [s \in Strings |-> s]
           Folded(it) == it = [s \in SUBSET DOMAIN seq |->
                                 IF s = {} THEN e
                                 ELSE Arrive(it[s \ {Max(s)}], seq[Max(s)])]
           w == CHOOSE it : Folded(it)
<1>1. PICK N \in Nat : Strings = 1 .. N
  BY StrokeAssumption DEF Strings
<1>2. e \in E
  BY DEF Fine, Sound
<1>3. \A n \in 1 .. N : \A x \in E : Arrive(x, n) \in E /\ F[n][x] = Arrive(x, n)
  <2> SUFFICES ASSUME NEW n \in 1 .. N, NEW x \in E
               PROVE  Arrive(x, n) \in E /\ F[n][x] = Arrive(x, n)
    OBVIOUS
  <2>1. Arrive(x, n) \in E
    BY <1>1, ArriveKeeps
  <2> HIDE DEF E
  <2> QED
    BY <1>1, <2>1
<1>4. F \in [1 .. N -> [E -> E]]
  <2> HIDE DEF E
  <2> QED
    BY <1>1, <1>3
<1>5. DOMAIN seq = 1 .. N /\ \A n \in 1 .. N : seq[n] = n
  BY <1>1
<1>6. OverStrings(Arrive, e) = w[1 .. N]
  BY <1>5 DEF OverStrings, FoldLeft, MapThenFoldSet
<1> HIDE DEF E, F, w
<1>7. PICK it \in [SUBSET (1 .. N) -> E] :
         /\ it[{}] = e
         /\ \A s \in SUBSET (1 .. N) :
               s # {} => it[s] = F[Max(s)][it[s \ {Max(s)}]]
  <2>1. FoldsOf(N, E, e, F) # {}
    BY <1>2, <1>4, FoldExists
  <2>2. PICK it \in FoldsOf(N, E, e, F) : TRUE
    BY <2>1
  <2> QED
    BY <2>2 DEF FoldsOf
<1>8. \A s \in SUBSET (1 .. N) : s # {} =>
         /\ Max(s) \in 1 .. N /\ s \ {Max(s)} \in SUBSET (1 .. N)
         /\ seq[Max(s)] = Max(s)
  <2> SUFFICES ASSUME NEW s \in SUBSET (1 .. N), s # {}
               PROVE  /\ Max(s) \in 1 .. N /\ s \ {Max(s)} \in SUBSET (1 .. N)
                      /\ seq[Max(s)] = Max(s)
    OBVIOUS
  <2>1. s \in SUBSET (0 .. N)
    OBVIOUS
  <2>2. Max(s) \in s
    BY <2>1, LastIsThere
  <2> QED
    BY <1>5, <2>2
<1>9. Folded(w)
  <2>1. ASSUME NEW s \in SUBSET (1 .. N), s # {}
        PROVE  it[s] = Arrive(it[s \ {Max(s)}], seq[Max(s)])
    <3> DEFINE m == Max(s)
    <3>1. /\ m \in 1 .. N /\ s \ {m} \in SUBSET (1 .. N) /\ seq[m] = m
          /\ it[s] = F[m][it[s \ {m}]]
      BY <1>7, <1>8, <2>1
    <3> HIDE DEF m, seq
    <3>2. it[s \ {m}] \in E
      BY <3>1
    <3>3. it[s] = Arrive(it[s \ {m}], seq[m])
      BY <1>3, <3>1, <3>2
    <3> QED
      BY <3>3 DEF m
  <2>2. Folded(it)
    <3>1. DOMAIN it = SUBSET (1 .. N) /\ it = [s \in DOMAIN it |-> it[s]]
      OBVIOUS
    <3> HIDE DEF seq
    <3> QED
      BY <1>5, <1>7, <2>1, <3>1
  <2> QED
    BY <2>2 DEF w
<1>10. /\ w[{}] = e
       /\ \A s \in SUBSET (1 .. N) :
             s # {} => w[s] = Arrive(w[s \ {Max(s)}], seq[Max(s)])
  <2> HIDE DEF seq
  <2> QED
    BY <1>5, <1>9
<1> HIDE DEF seq, Folded
<1>11. ASSUME NEW s \in SUBSET (1 .. N), s # {}, w[s \ {Max(s)}] \in E
       PROVE  w[s] = F[Max(s)][w[s \ {Max(s)}]]
  <2> DEFINE m == Max(s)
  <2>1. m \in 1 .. N /\ seq[m] = m /\ w[s] = Arrive(w[s \ {m}], seq[m])
    BY <1>8, <1>10, <1>11
  <2>2. w[s \ {m}] \in E
    BY <1>11
  <2> HIDE DEF m
  <2>3. w[s] = F[m][w[s \ {m}]]
    BY <1>3, <2>1, <2>2
  <2> QED
    BY <2>3 DEF m
<1> DEFINE C == [n \in 0 .. N |-> {x \in E : Nearing(n, x)}]
<1>12. w[1 .. N] \in C[N]
  <2>1. w[{}] \in C[0]
    <3>1. Nearing(0, e)
      <4>1. \A s \in Strings : s \in Nat /\ ~(s <= 0)
        BY <1>1
      <4> QED
        BY <4>1 DEF Nearing, Due, Fine, Sound, OnItsWay
    <3> QED
      BY <1>2, <1>10, <3>1
  <2>2. \A n \in 1 .. N : \A x \in C[n - 1] : F[n][x] \in C[n]
    <3> SUFFICES ASSUME NEW n \in 1 .. N, NEW x \in C[n - 1]
                 PROVE  F[n][x] \in C[n]
      OBVIOUS
    <3>1. x \in E /\ Nearing(n - 1, x) /\ n \in Strings /\ n \in Nat /\ n \in 0 .. N
      BY <1>1
    <3>2. x \in Engines(h) /\ Told(x)
      BY <3>1 DEF E
    <3>3. Nearing(n, Arrive(x, n))
      BY <3>1, <3>2, ArriveNears
    <3> QED
      BY <1>3, <3>1, <3>3
  <2>3. C \in [0 .. N -> SUBSET E]
    OBVIOUS
  <2> HIDE DEF C
  <2>4. HandsOn(N, E, F, C)
    BY <2>2, <2>3 DEF HandsOn
  <2>5. Follows(N, E, F, w)
    BY <1>11 DEF Follows
  <2> QED
    BY <2>1, <2>4, <2>5, Walked
<1> QED
  <2>1. N \in 0 .. N
    OBVIOUS
  <2>2. w[1 .. N] \in E /\ Nearing(N, w[1 .. N])
    BY <1>12, <2>1
  <2>3. w[1 .. N] \in Engines(h) /\ Told(w[1 .. N])
    BY <2>2 DEF E
  <2> QED
    BY <1>1, <1>6, <2>2, <2>3

LEMMA TickIsFine ==
    ASSUME host \in Hosts, NEW e, Fine(host, e),
           NEW f, f = [OverStrings(Arrive, e) EXCEPT !.stroke.age = Min({@ + 1, Aged}),
                                                     !.struck = FALSE]
    PROVE  Fine(host, f)
<1> DEFINE x == OverStrings(Arrive, e)
           st == [x.stroke EXCEPT !.age = Min({@ + 1, Aged})]
<1>1. /\ x \in Engines(host) /\ Told(x)
      /\ \E n \in Nat : Strings = 1 .. n /\ Nearing(n, x)
  BY AllArrive
<1>2. f = [x EXCEPT !.stroke = st, !.struck = FALSE]
  <2> HIDE DEF x
  <2>1. f = [x EXCEPT !.stroke.age = Min({@ + 1, Aged}), !.struck = FALSE]
    BY DEF x
  <2> QED
    BY <1>1, <2>1 DEF Engines
<1> HIDE DEF x
<1>3. PICK n \in Nat : Strings = 1 .. n /\ Nearing(n, x)
  BY <1>1
<1>4. x.stroke \in Strokes(host) /\ x.string \in [Strings -> Voices]
  BY <1>1 DEF Engines
<1>5. Min({x.stroke.age + 1, Aged}) \in Nat
  <2>1. x.stroke.age \in Nat
    BY <1>4 DEF Strokes
  <2>2. Aged \in Nat
    BY AgedIsNat
  <2> QED
    <3> DEFINE older == x.stroke.age + 1
    <3>1. older \in Int /\ older \in Nat
      BY <2>1
    <3> HIDE DEF older
    <3>2. Min({older, Aged}) = IF older <= Aged THEN older ELSE Aged
      BY <2>2, <3>1, MinOfTwo
    <3> QED
      BY <2>2, <3>1, <3>2 DEF older
<1>6. /\ st \in Strokes(host) /\ st.up = x.stroke.up /\ st.contact = x.stroke.contact
      /\ st.consumed = x.stroke.consumed
  BY <1>4, <1>5 DEF Strokes
<1>7. \A s \in Strings : Remaining(st, s) = Sooner(Remaining(x.stroke, s))
  BY <1>4, OneTickLess
<1> HIDE DEF st
<1>8. /\ f \in Engines(host) /\ f.stroke = st /\ f.string = x.string /\ f.hand = x.hand
      /\ f.heard = x.heard
  BY <1>1, <1>2, <1>6 DEF Engines
<1>9. \A s \in Strings : Due(x.stroke, s, n) = Remaining(f.stroke, s)
  BY <1>3, <1>7, <1>8 DEF Due
<1>10. OnItsWay(f)
  BY <1>3, <1>8, <1>9 DEF OnItsWay, Nearing
<1>11. Begun(f) /\ OnTheMove(f)
  BY <1>3, <1>6, <1>8 DEF Begun, OnTheMove, Nearing, Waits, Travelling
<1>12. Told(f)
  BY <1>1, <1>6, <1>8 DEF Told
<1> QED
  BY <1>8, <1>10, <1>11, <1>12 DEF Fine, Sound

-----------------------------------------------------------------------------
(***************************************************************************)
(* The specification keeps the invariant.                                  *)
(***************************************************************************)

StrokeInv ==
    /\ host \in Hosts
    /\ spread \in host.spreads
    /\ Fine(host, Engine)

\* Whom a finger holds, and what the other controls say, is nothing to a stroke.
LEMMA AlikeIsFine ==
    ASSUME NEW h \in Hosts, NEW e, Fine(h, e), NEW f \in Engines(h),
           f.stroke = e.stroke, f.heard = e.heard,
           f.hand.pick = e.hand.pick, f.hand.nextUp = e.hand.nextUp,
           \A s \in Strings : /\ f.string[s].mine = e.string[s].mine
                              /\ f.string[s].wait = e.string[s].wait
                              /\ f.string[s].detained = e.string[s].detained
    PROVE  Fine(h, f)
BY DEF Fine, Sound, OnItsWay, Begun, Told, OnTheMove, Waits, Travelling

LEMMA LetUpIsFine ==
    ASSUME NEW h \in Hosts, NEW e, Fine(h, e), NEW s \in Strings
    PROVE  Fine(h, [e EXCEPT !.string[s].held = None])
<1> DEFINE v == [e.string[s] EXCEPT !.held = None]
           f == [e EXCEPT !.string[s].held = None]
<1>1. e \in Engines(h) /\ e.string \in [Strings -> Voices]
  BY DEF Fine, Sound, Engines
<1>2. /\ v \in Voices /\ v.mine = e.string[s].mine /\ v.wait = e.string[s].wait
      /\ v.detained = e.string[s].detained
  BY <1>1 DEF Voices, Pitches
<1>3. f = [e EXCEPT !.string[s] = v]
  BY <1>1 DEF Engines
<1> HIDE DEF v, f
<1>4. /\ f \in Engines(h) /\ f.stroke = e.stroke /\ f.heard = e.heard /\ f.hand = e.hand
      /\ f.string = [e.string EXCEPT ![s] = v]
  BY <1>1, <1>2, <1>3 DEF Engines
<1>5. \A t \in Strings : /\ f.string[t].mine = e.string[t].mine
                         /\ f.string[t].wait = e.string[t].wait
                         /\ f.string[t].detained = e.string[t].detained
  BY <1>1, <1>2, <1>4
<1> QED
  BY <1>4, <1>5, AlikeIsFine DEF f

LEMMA AllUpIsFine ==
    ASSUME NEW h \in Hosts, NEW e, Fine(h, e)
    PROVE  Fine(h, [e EXCEPT !.string = [s \in Strings |-> [@[s] EXCEPT !.held = None]]])
<1> DEFINE str == [s \in Strings |-> [e.string[s] EXCEPT !.held = None]]
           f == [e EXCEPT !.string = str]
<1>1. e \in Engines(h) /\ e.string \in [Strings -> Voices]
  BY DEF Fine, Sound, Engines
<1>2. str \in [Strings -> Voices]
  BY <1>1 DEF Voices, Pitches
<1>3. \A s \in Strings : /\ str[s].mine = e.string[s].mine
                         /\ str[s].wait = e.string[s].wait
                         /\ str[s].detained = e.string[s].detained
  BY <1>1 DEF Voices
<1> HIDE DEF str
<1>4. /\ f \in Engines(h) /\ f.stroke = e.stroke /\ f.heard = e.heard /\ f.hand = e.hand
      /\ f.string = str
  BY <1>1, <1>2 DEF Engines
<1> HIDE DEF f
<1>5. Fine(h, f)
  BY <1>3, <1>4, AlikeIsFine
<1> QED
  BY <1>5 DEF f, str

LEMMA PedalIsFine ==
    ASSUME NEW h \in Hosts, NEW e, Fine(h, e), NEW on \in BOOLEAN
    PROVE  Fine(h, [e EXCEPT !.hand.pedal = on])
<1> DEFINE hn == [e.hand EXCEPT !.pedal = on]
           f == [e EXCEPT !.hand = hn]
<1>1. e \in Engines(h) /\ e.hand \in Hands
  BY DEF Fine, Sound, Engines
<1>2. hn \in Hands /\ hn.pick = e.hand.pick /\ hn.nextUp = e.hand.nextUp
  BY <1>1 DEF Hands
<1>3. f = [e EXCEPT !.hand.pedal = on]
  BY <1>1 DEF Engines
<1> HIDE DEF hn
<1>4. /\ f \in Engines(h) /\ f.stroke = e.stroke /\ f.heard = e.heard /\ f.hand = hn
      /\ f.string = e.string
  BY <1>1, <1>2 DEF Engines
<1> HIDE DEF f
<1>5. Fine(h, f)
  BY <1>2, <1>4, AlikeIsFine
<1> QED
  BY <1>3, <1>5

\* What is fine, the engine may become.
LEMMA BecomesIsSound ==
    ASSUME StrokeInv, NEW e, Fine(host, e), Becomes(e), UNCHANGED spread
    PROVE  StrokeInv'
<1>1. e \in Engines(host)
  BY DEF Fine, Sound
<1>2. e = [hand |-> e.hand, stroke |-> e.stroke, string |-> e.string, struck |-> e.struck,
           heard |-> e.heard]
  BY <1>1 DEF Engines
<1>3. Engine' = e
  BY <1>2 DEF Becomes, Engine
<1>4. host' = host /\ spread' = spread
  BY DEF Becomes
<1> QED
  BY <1>3, <1>4 DEF StrokeInv

LEMMA EngineIsRecord ==
    ASSUME StrokeInv
    PROVE  /\ Engine \in Engines(host) /\ host \in Hosts /\ spread \in host.spreads
           /\ Fine(host, Engine)
           /\ hand \in Hands /\ stroke \in Strokes(host) /\ string \in [Strings -> Voices]
           /\ struck \in BOOLEAN /\ heard \in Accounts
           /\ Engine.hand = hand /\ Engine.stroke = stroke /\ Engine.string = string
           /\ Engine.struck = struck /\ Engine.heard = heard
<1>1. /\ Engine \in Engines(host) /\ host \in Hosts /\ spread \in host.spreads
      /\ Fine(host, Engine)
  BY DEF StrokeInv, Fine, Sound
<1>2. /\ Engine.hand = hand /\ Engine.stroke = stroke /\ Engine.string = string
      /\ Engine.struck = struck /\ Engine.heard = heard
  BY DEF Engine
<1>3. /\ Engine.hand \in Hands /\ Engine.stroke \in Strokes(host)
      /\ Engine.string \in [Strings -> Voices] /\ Engine.struck \in BOOLEAN
      /\ Engine.heard \in Accounts
  BY <1>1 DEF Engines
<1> QED
  BY <1>1, <1>2, <1>3

LEMMA InitIsSound ==
    Init => StrokeInv
<1> SUFFICES ASSUME Init
             PROVE  StrokeInv
  OBVIOUS
<1>1. host \in Hosts /\ spread \in host.spreads
  BY DEF Init
<1>2. PICK p \in host.picks, q \in host.plays :
        hand = [pick |-> p, play |-> q, nextUp |-> FALSE, pedal |-> FALSE,
                tremolo |-> FALSE]
  BY DEF Init
<1>3. hand \in Hands
  BY <1>1, <1>2, HostIsSound DEF Hands
<1>4. stroke \in Strokes(host)
  BY <1>1, AgedIsNat DEF Init, Strokes
<1>5. string \in [Strings -> Voices] /\ \A s \in Strings : ~string[s].mine
  BY DEF Init, Silent, Voices, Pitches
<1>6. heard \in Accounts /\ heard.fresh /\ ~heard.same /\ heard.last = None
  BY DEF Init, Untold, Accounts
<1>7. Engine \in Engines(host)
  BY <1>3, <1>4, <1>5, <1>6 DEF Init, Engine, Engines
<1>8. Engine.string = string /\ Engine.heard = heard
  BY DEF Engine
<1> QED
  BY <1>1, <1>5, <1>6, <1>7, <1>8
     DEF StrokeInv, Fine, Sound, OnItsWay, Begun, Told, OnTheMove

LEMMA NoteOnIsSound ==
    ASSUME StrokeInv, NEW s \in host.strings, NEW n \in host.notes, NoteOn(s, n)
    PROVE  StrokeInv'
<1>1. PICK late \in host.delays, boundary \in host.boundaries :
        Becomes(Strike(Engine, Note(s, n, late, boundary)))
  BY DEF NoteOn
<1>2. host \in Hosts /\ spread \in host.spreads /\ Fine(host, Engine)
  BY EngineIsRecord
<1>3. Note(s, n, late, boundary) \in Hits(host)
  BY <1>2, HostIsSound DEF Note, Hits
<1>4. Fine(host, Strike(Engine, Note(s, n, late, boundary)))
  BY <1>2, <1>3, StrikeIsFine
<1>5. UNCHANGED spread
  BY DEF NoteOn
<1> QED
  BY <1>1, <1>4, <1>5, BecomesIsSound

LEMMA ChordIsSound ==
    ASSUME StrokeInv, NEW ss \in SUBSET host.strings, NEW f \in [ss -> host.notes],
           NoteOnChord(f)
    PROVE  StrokeInv'
<1>1. PICK late \in host.delays, boundary \in host.boundaries :
        LET alone == [s \in DOMAIN f |-> Note(s, f[s], late, boundary)]
            picked == {s \in DOMAIN f : Plectrum(Engine, alone[s])}
            edge == IF UpNext(Engine) THEN Max(picked) ELSE Min(picked)
            notes == [s \in DOMAIN f |->
                        IF picked # {} /\ s = Min(picked)
                        THEN [alone[s] EXCEPT !.whole = TRUE, !.edge = edge]
                        ELSE alone[s]]
        IN Becomes(StrikeEach(Engine, notes))
  BY DEF NoteOnChord
<1> DEFINE alone == [s \in DOMAIN f |-> Note(s, f[s], late, boundary)]
           picked == {s \in DOMAIN f : Plectrum(Engine, alone[s])}
           edge == IF UpNext(Engine) THEN Max(picked) ELSE Min(picked)
           notes == [s \in DOMAIN f |->
                       IF picked # {} /\ s = Min(picked)
                       THEN [alone[s] EXCEPT !.whole = TRUE, !.edge = edge]
                       ELSE alone[s]]
<1>2. host \in Hosts /\ spread \in host.spreads /\ Fine(host, Engine)
  BY EngineIsRecord
<1>3. DOMAIN f = ss /\ ss \in SUBSET Strings
  BY <1>2, HostIsSound
<1>4. \A s \in DOMAIN f : alone[s] \in Hits(host)
  BY <1>2, <1>3, HostIsSound DEF Note, Hits
<1>5. picked # {} => edge \in Strings
  <2> SUFFICES ASSUME picked # {}
               PROVE  edge \in Strings
    OBVIOUS
  <2> HIDE DEF alone
  <2>1. picked \in SUBSET Strings
    BY <1>3
  <2> HIDE DEF picked
  <2>2. StringCount \in Nat /\ picked \in SUBSET (0 .. StringCount) /\ picked \in SUBSET Nat
    BY <2>1, StrokeAssumption DEF Strings
  <2>3. Max(picked) \in picked
    BY <2>2, LastIsThere
  <2>4. Min(picked) \in picked
    BY <2>2, MinIsIn
  <2> QED
    BY <2>1, <2>3, <2>4
<1> HIDE DEF alone, picked, edge
<1>6. \A s \in DOMAIN notes : notes[s] \in Hits(host)
  BY <1>4, <1>5 DEF Hits
<1>7. Becomes(StrikeEach(Engine, notes))
  BY <1>1 DEF alone, picked, edge
<1> HIDE DEF notes
<1>8. Fine(host, StrikeEach(Engine, notes))
  BY <1>2, <1>6, ChordIsFine
<1>9. UNCHANGED spread
  BY DEF NoteOnChord
<1> QED
  BY <1>7, <1>8, <1>9, BecomesIsSound

LEMMA RepickIsSound ==
    ASSUME StrokeInv, NEW s \in host.strings, RepickHeldString(s)
    PROVE  StrokeInv'
<1>1. PICK late \in host.delays : Becomes(Repick(Engine, s, late))
  BY DEF RepickHeldString
<1>2. host \in Hosts /\ spread \in host.spreads /\ Fine(host, Engine) /\ s \in Strings
  BY EngineIsRecord, HostIsSound
<1>3. Fine(host, Repick(Engine, s, late))
  BY <1>2, RepickIsFine
<1>4. UNCHANGED spread
  BY DEF RepickHeldString
<1> QED
  BY <1>1, <1>3, <1>4, BecomesIsSound

LEMMA NoteOffIsSound ==
    ASSUME StrokeInv, NEW s \in host.strings, NoteOff(s)
    PROVE  StrokeInv'
<1> DEFINE up == [Engine EXCEPT !.string[s].held = None]
           f == IF hand.pedal THEN up ELSE Release(up, s)
<1>1. host \in Hosts /\ Fine(host, Engine) /\ s \in Strings
  BY EngineIsRecord, HostIsSound
<1>2. Fine(host, up)
  BY <1>1, LetUpIsFine
<1> HIDE DEF up
<1>3. Fine(host, f)
  BY <1>1, <1>2, ReleaseIsFine
<1>4. Becomes(f) /\ UNCHANGED spread
  BY DEF NoteOff, up
<1> HIDE DEF f
<1> QED
  BY <1>3, <1>4, BecomesIsSound

LEMMA PedalIsSound ==
    ASSUME StrokeInv, NEW on \in BOOLEAN, SetSustainPedal(on)
    PROVE  StrokeInv'
<1> DEFINE g == IF on THEN Engine ELSE OverStrings(ReleaseUnheld, Engine)
           f == [g EXCEPT !.hand.pedal = on]
<1>1. host \in Hosts /\ Fine(host, Engine)
  BY EngineIsRecord
<1>2. Fine(host, g)
  BY <1>1, AllUnheldReleasedIsFine
<1>3. Becomes(f) /\ UNCHANGED spread
  BY DEF SetSustainPedal
<1> HIDE DEF g
<1>4. Fine(host, f)
  BY <1>1, <1>2, PedalIsFine
<1> HIDE DEF f
<1> QED
  BY <1>3, <1>4, BecomesIsSound

LEMMA AllNotesOffIsSound ==
    ASSUME StrokeInv, AllNotesOff
    PROVE  StrokeInv'
<1> DEFINE up == [Engine EXCEPT
                    !.string = [s \in Strings |-> [@[s] EXCEPT !.held = None]]]
           f == OverStrings(Release, up)
<1>1. host \in Hosts /\ Fine(host, Engine)
  BY EngineIsRecord
<1>2. Fine(host, up)
  BY <1>1, AllUpIsFine
<1>3. Becomes(f) /\ UNCHANGED spread
  BY DEF AllNotesOff
<1> HIDE DEF up
<1>4. Fine(host, f)
  BY <1>1, <1>2, AllReleasedIsFine
<1> HIDE DEF f
<1> QED
  BY <1>3, <1>4, BecomesIsSound

\* A style that is selected begins the account anew.
LEMMA PickStyleIsSound ==
    ASSUME StrokeInv, NEW p \in host.picks, SelectPickStyle(p)
    PROVE  StrokeInv'
<1> DEFINE next == p # "Alternate" /\ hand.nextUp
           f == [hand |-> hand', stroke |-> stroke, string |-> string,
                 struck |-> struck, heard |-> Untold]
<1>1. /\ Engine \in Engines(host) /\ host \in Hosts /\ spread \in host.spreads
      /\ Fine(host, Engine) /\ hand \in Hands /\ string \in [Strings -> Voices]
      /\ Engine.hand = hand /\ Engine.stroke = stroke /\ Engine.string = string
      /\ Engine.struck = struck /\ Engine.heard = heard
  BY EngineIsRecord
<1>2. hand' = [hand EXCEPT !.pick = p, !.nextUp = next]
  BY <1>1 DEF SelectPickStyle, Hands
<1>3. next \in BOOLEAN /\ p \in {"Down", "Up", "Alternate"}
  BY <1>1, HostIsSound
<1> HIDE DEF next
<1>4. hand' \in Hands
  BY <1>1, <1>2, <1>3 DEF Hands
<1>5. Untold \in Accounts /\ Untold.fresh /\ ~Untold.same /\ Untold.last = None
  BY DEF Untold, Accounts
<1>6. /\ f \in Engines(host) /\ f.string = string /\ f.stroke = stroke
      /\ f.heard = Untold
  <2>1. stroke \in Strokes(host) /\ string \in [Strings -> Voices] /\ struck \in BOOLEAN
    BY EngineIsRecord
  <2> QED
    BY <1>4, <1>5, <2>1 DEF Engines
<1>7. Engine' = f
  <2>1. /\ stroke' = stroke /\ string' = string /\ struck' = struck
        /\ heard' = Untold
    BY DEF SelectPickStyle
  <2> QED
    BY <2>1 DEF Engine
<1> HIDE DEF f
<1>8. Fine(host, f)
  BY <1>1, <1>5, <1>6 DEF Fine, Sound, OnItsWay, Begun, Told, OnTheMove
<1> QED
  BY <1>1, <1>7, <1>8 DEF SelectPickStyle, StrokeInv

LEMMA ControlIsSound ==
    ASSUME StrokeInv, hand' \in Hands, hand'.pick = hand.pick, hand'.nextUp = hand.nextUp,
           UNCHANGED <<stroke, string, struck, heard, host>>, spread' \in host.spreads
    PROVE  StrokeInv'
<1> DEFINE f == [Engine EXCEPT !.hand = hand']
<1>1. /\ Engine \in Engines(host) /\ host \in Hosts
      /\ Fine(host, Engine) /\ hand \in Hands
      /\ Engine.hand = hand /\ Engine.stroke = stroke /\ Engine.string = string
      /\ Engine.struck = struck /\ Engine.heard = heard
  BY EngineIsRecord
<1>2. /\ f \in Engines(host) /\ f.string = string /\ f.stroke = stroke
      /\ f.heard = heard /\ f.hand = hand'
  BY <1>1 DEF Engines
<1>3. Engine' = f
  BY <1>1 DEF Engine
<1> HIDE DEF f
<1>4. Fine(host, f)
  BY <1>1, <1>2, AlikeIsFine
<1> QED
  BY <1>1, <1>3, <1>4 DEF StrokeInv

\* A string that is given up neither waits nor moves the stroke.
LEMMA RetireIsSound ==
    ASSUME StrokeInv, NEW s \in host.strings, Retire(s)
    PROVE  StrokeInv'
<1> DEFINE v == [Silent EXCEPT !.held = string[s].held]
           f == [Engine EXCEPT !.string = string']
<1>1. /\ Engine \in Engines(host) /\ host \in Hosts /\ spread \in host.spreads
      /\ Fine(host, Engine) /\ string \in [Strings -> Voices] /\ s \in Strings
      /\ Engine.hand = hand /\ Engine.stroke = stroke /\ Engine.string = string
      /\ Engine.struck = struck /\ Engine.heard = heard
  BY EngineIsRecord, HostIsSound
<1>2. string' = [string EXCEPT ![s] = v] /\ string[s].wait = 0
  BY DEF Retire
<1>3. v \in Voices /\ ~v.mine
  BY <1>1 DEF Silent, Voices, Pitches
<1> HIDE DEF v
<1>4. /\ string' \in [Strings -> Voices] /\ string'[s] = v
      /\ \A t \in Strings \ {s} : string'[t] = string[t]
  BY <1>1, <1>2, <1>3
<1>5. /\ f \in Engines(host) /\ f.string = string' /\ f.stroke = stroke
      /\ f.heard = heard /\ f.hand = hand
  BY <1>1, <1>4 DEF Engines
<1>6. Engine' = f
  BY <1>1 DEF Retire, Engine
<1> HIDE DEF f
<1>7. OnItsWay(f) /\ Begun(f) /\ Told(f)
  BY <1>1, <1>3, <1>4, <1>5 DEF Fine, Sound, OnItsWay, Begun, Told
<1>8. Waits(Engine) => Waits(f)
  BY <1>1, <1>2, <1>4, <1>5 DEF Waits, Travelling
<1>9. Fine(host, f)
  BY <1>1, <1>5, <1>7, <1>8 DEF Fine, Sound, OnTheMove
<1> QED
  BY <1>1, <1>6, <1>9 DEF Retire, StrokeInv

LEMMA ClockIsSound ==
    ASSUME StrokeInv, NEW due \in BOOLEAN, Clock(due)
    PROVE  StrokeInv'
<1>1. PICK late \in host.delays :
        LET begun == IF due /\ Repeats THEN TremoloTick(Engine, late) ELSE Engine
        IN Becomes([OverStrings(Arrive, begun) EXCEPT
                       !.stroke.age = Min({@ + 1, Aged}), !.struck = FALSE])
  BY DEF Clock
<1> DEFINE begun == IF due /\ Repeats THEN TremoloTick(Engine, late) ELSE Engine
           f == [OverStrings(Arrive, begun) EXCEPT
                    !.stroke.age = Min({@ + 1, Aged}), !.struck = FALSE]
<1>2. host \in Hosts /\ spread \in host.spreads /\ Fine(host, Engine)
  BY EngineIsRecord
<1>3. Fine(host, begun)
  BY <1>2, TremoloTickIsFine
<1>4. Becomes(f) /\ UNCHANGED spread
  BY <1>1 DEF Clock
<1> HIDE DEF begun
<1>5. Fine(host, f)
  BY <1>2, <1>3, TickIsFine
<1> HIDE DEF f
<1> QED
  BY <1>4, <1>5, BecomesIsSound

LEMMA StepIsSound ==
    StrokeInv /\ [Next]_vars => StrokeInv'
<1> SUFFICES ASSUME StrokeInv, [Next]_vars
             PROVE  StrokeInv'
  OBVIOUS
<1>0. host \in Hosts /\ hand \in Hands /\ spread \in host.spreads
  BY EngineIsRecord
<1>1. CASE UNCHANGED vars
  <2>1. Engine' = Engine /\ host' = host /\ spread' = spread
    BY <1>1 DEF vars, Engine
  <2> QED
    BY <2>1 DEF StrokeInv
<1>2. CASE \E s \in host.strings, n \in host.notes : NoteOn(s, n)
  BY <1>2, NoteOnIsSound
<1>3. CASE \E ss \in SUBSET host.strings : \E f \in [ss -> host.notes] : NoteOnChord(f)
  BY <1>3, ChordIsSound
<1>4. CASE \E s \in host.strings : RepickHeldString(s) \/ NoteOff(s) \/ Retire(s)
  BY <1>4, RepickIsSound, NoteOffIsSound, RetireIsSound
<1>5. CASE \E on \in BOOLEAN : SetSustainPedal(on)
  BY <1>5, PedalIsSound
<1>6. CASE \E on \in BOOLEAN : HoldB0(on)
  <2>1. PICK on \in BOOLEAN : HoldB0(on)
    BY <1>6
  <2>2. hand' \in Hands /\ hand'.pick = hand.pick /\ hand'.nextUp = hand.nextUp
    BY <1>0, <2>1 DEF HoldB0, Hands
  <2> QED
    BY <1>0, <2>1, <2>2, ControlIsSound DEF HoldB0
<1>7. CASE AllNotesOff
  BY <1>7, AllNotesOffIsSound
<1>8. CASE \E p \in host.picks : SelectPickStyle(p)
  BY <1>8, PickStyleIsSound
<1>9. CASE \E p \in host.plays : SelectPlayStyle(p)
  <2>1. PICK p \in host.plays : SelectPlayStyle(p)
    BY <1>9
  <2>2. p \in {"Sustain", "Hammer", "Slide"}
    BY <1>0, HostIsSound
  <2>3. hand' \in Hands /\ hand'.pick = hand.pick /\ hand'.nextUp = hand.nextUp
    BY <1>0, <2>1, <2>2 DEF SelectPlayStyle, Hands
  <2> QED
    BY <1>0, <2>1, <2>3, ControlIsSound DEF SelectPlayStyle
<1>10. CASE \E n \in host.spreads : SetSpread(n)
  <2>1. PICK n \in host.spreads : SetSpread(n)
    BY <1>10
  <2> QED
    BY <1>0, <2>1, ControlIsSound DEF SetSpread
<1>11. CASE \E due \in BOOLEAN : Clock(due)
  BY <1>11, ClockIsSound
<1> QED
  BY <1>1, <1>2, <1>3, <1>4, <1>5, <1>6, <1>7, <1>8, <1>9, <1>10, <1>11 DEF Next

\* Whatever the host plays: each voice's pick lies within its pre-roll and belongs
\* to the last stroke begun or one before it, Alternate's next direction agrees
\* with the last stroke unless that was settled, and a direction that is reserved
\* has a pick on its way (noteOnChord, noteOff, renderSample and their helpers).
THEOREM StrokesStaySound ==
    Spec => []StrokeInv
<1>1. Init => StrokeInv
  BY InitIsSound
<1>2. StrokeInv /\ [Next]_vars => StrokeInv'
  BY StepIsSound
<1> QED
  BY <1>1, <1>2, PTL DEF Spec

\* One stroke crosses the strings one way, whatever the host plays and however the
\* spread changes while the pick is on its way (beginChordStroke,
\* reAnchorChordStroke): of two strings the pick has met or will meet, the one it
\* passes first waits no longer, unless a fret boundary detains it there.
THEOREM StrokesCrossOneWay ==
    Spec => []PickCrossesOneWay
<1>1. StrokeInv => PickCrossesOneWay
  <2> SUFFICES ASSUME StrokeInv, NEW s \in Strings, NEW t \in Strings,
                      string[s].mine, string[t].mine, ~string[s].detained,
                      IF stroke.up THEN s > t ELSE s < t
               PROVE  string[s].wait <= string[t].wait
    BY DEF PickCrossesOneWay
  <2>1. /\ host \in Hosts /\ Fine(host, Engine)
        /\ Engine.stroke = stroke /\ Engine.string = string
    BY EngineIsRecord
  <2>2. Engine.string[s].wait <= Engine.string[t].wait
    <3>1. Sound(host, Engine)
      BY <2>1 DEF Fine
    <3> QED
      BY <2>1, <3>1, FirstPassedFirstMet
  <2> QED
    BY <2>1, <2>2
<1> QED
  BY <1>1, StrokesStaySound, PTL

\* The strokes the listener hears alternate (reserveStrokeDirection and
\* restoreCancelledStroke): a direction is reserved with the stroke's first note,
\* and given back when no pick of it lands, so that none is heard twice in a row
\* unless the wrist dropped a stroke in between.
THEOREM StrokesAlternate ==
    Spec => []HeardStrokesAlternate
<1>1. StrokeInv => HeardStrokesAlternate
  <2>1. StrokeInv => Told(Engine)
    BY DEF StrokeInv, Fine, Sound
  <2> QED
    BY <2>1 DEF Told, Engine, HeardStrokesAlternate
<1> QED
  BY <1>1, StrokesStaySound, PTL
=============================================================================

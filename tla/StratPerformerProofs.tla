------------------------ MODULE StratPerformerProofs ------------------------
(***************************************************************************)
(* Theorems about StratPerformer: its held-back MIDI stays in order, and   *)
(* only a gesture that comes late leaves a string ringing for nobody or    *)
(* lifts the flesh off one.  No way of playing is left out.                *)
(*                                                                         *)
(* The hands touch the held-back queue in few places: a message is         *)
(* appended with the longest wait, the oldest is taken, the hand marks the *)
(* notes it reads ahead, a panic empties the queue, and turning the        *)
(* lookahead off plays it out.  The work is in showing that everything     *)
(* else a call does, a stroke, a fingering, a release, leaves it alone.    *)
(*                                                                         *)
(* The second part follows the two hands through every operator: what it   *)
(* moves (MovesOne), and that no string it moves comes to ring for nobody  *)
(* or loses its flesh (Spares).  It needs of the player only that every    *)
(* string has all its parts (Whole).                                       *)
(***************************************************************************)
EXTENDS StratPerformer, FiniteSetTheorems, SequenceTheorems, TLAPS

-----------------------------------------------------------------------------
\* What the proof asks of the performer: its three queues are queues.
AllKeys == Keys \cup {Damp} \cup Articulations \cup StrokeKeys \cup {"down", "up"}
Messages == [kind : {"on", "off", "pedal"}, key : AllKeys, wait : 0..Lookahead,
             read : BOOLEAN]
EventKinds == {"leave", "liftTouch", "prepare", "shift", "press", "strike"}

IsQueue(q) ==
    /\ q \in Seq(ToSet(q))
    /\ \A i \in DOMAIN q : {"kind", "string"} \subseteq DOMAIN q[i] /\ q[i].kind \in EventKinds
Queues == {"pending", "events", "delayed", "controls"}
QueuesFine(g) ==
    /\ Queues \subseteq DOMAIN g
    /\ g.pending \in Seq(AllKeys) /\ IsQueue(g.events) /\ g.delayed \in Seq(Messages)

\* h has the held-back MIDI of g.  The hands leave all queues alone (Still).
Keeps(g, h) == QueuesFine(h) /\ h.delayed = g.delayed /\ h.controls = g.controls
Still(g, h) ==
    /\ DOMAIN h = DOMAIN g
    /\ h.pending = g.pending /\ h.events = g.events
    /\ h.delayed = g.delayed /\ h.controls = g.controls

LEMMA StillKeeps ==
    ASSUME NEW g, NEW h, QueuesFine(g), Still(g, h)
    PROVE  Keeps(g, h)
BY DEF QueuesFine, Still, Keeps

LEMMA KeepsOn ==
    ASSUME NEW g, NEW h, NEW i, Keeps(g, h), Keeps(h, i)
    PROVE  Keeps(g, i)
BY DEF Keeps

\* All strings at once.
LEMMA HandsAreStill ==
    ASSUME NEW g, QueuesFine(g), NEW a, NEW b
    PROVE  /\ Still(g, [g EXCEPT !.strings = a])
           /\ Still(g, [g EXCEPT !.wood = a])
           /\ Still(g, [g EXCEPT !.strings = a, !.wood = b])
BY DEF QueuesFine, Queues, Still

LEMMA GuitarIsStill ==
    ASSUME NEW g, QueuesFine(g), NEW s, NEW x
    PROVE  /\ Keeps(g, SetFret(g, s, x)) /\ Keeps(g, LiftFromFret(g, s))
           /\ Keeps(g, SetDamper(g, s, x)) /\ Keeps(g, Pluck(g, s))
           /\ Keeps(g, Rub(g, s, x))
<1>1. Still(g, SetFret(g, s, x))
  BY DEF QueuesFine, Queues, Still, SetFret
<1>2. Still(g, LiftFromFret(g, s))
  BY DEF QueuesFine, Queues, Still, LiftFromFret
<1>3. Still(g, SetDamper(g, s, x))
  BY DEF QueuesFine, Queues, Still, SetDamper
<1>4. Still(g, Pluck(g, s))
  BY DEF QueuesFine, Queues, Still, Pluck
<1>5. Still(g, Rub(g, s, x))
  BY DEF QueuesFine, Queues, Still, Rub
<1> QED
  BY <1>1, <1>2, <1>3, <1>4, <1>5, StillKeeps

-----------------------------------------------------------------------------
(* The event queue.                                                        *)

LEMMA QueueOf ==
    ASSUME NEW S, NEW q \in Seq(S),
           \A e \in S : {"kind", "string"} \subseteq DOMAIN e /\ e.kind \in EventKinds
    PROVE  IsQueue(q)
<1>1. q \in Seq(ToSet(q))
  <2>1. \A i \in 1 .. Len(q) : q[i] \in ToSet(q)
    BY DEF ToSet
  <2> QED
    BY <2>1
<1>2. \A i \in DOMAIN q : q[i] \in S
  OBVIOUS
<1> QED
  BY <1>1, <1>2 DEF IsQueue

LEMMA QueueIsOf ==
    ASSUME NEW q, IsQueue(q)
    PROVE  \A e \in ToSet(q) : {"kind", "string"} \subseteq DOMAIN e /\ e.kind \in EventKinds
BY DEF IsQueue, ToSet

LEMMA ScheduleKeeps ==
    ASSUME NEW g, QueuesFine(g), NEW e,
           {"kind", "string"} \subseteq DOMAIN e, e.kind \in EventKinds
    PROVE  Keeps(g, Schedule(g, e))
<1> DEFINE q == g.events
           P == {i \in DOMAIN q : q[i].wait <= e.wait}
           n == Cardinality(P)
           r == InsertAt(q, n + 1, e)
<1>1. q \in Seq(ToSet(q)) /\ IsQueue(q)
  BY DEF QueuesFine, IsQueue
<1>2. n \in 0 .. Len(q)
  <2>1. P \subseteq 1 .. Len(q) /\ Len(q) \in Nat
    BY <1>1
  <2>2. IsFiniteSet(1 .. Len(q)) /\ Cardinality(1 .. Len(q)) = Len(q)
    BY <2>1, FS_Interval
  <2>3. n \in Nat /\ n <= Len(q)
    BY <2>1, <2>2, FS_Subset, FS_CardinalityType
  <2> QED
    BY <2>1, <2>3
<1> DEFINE S == ToSet(q) \cup {e}
<1> HIDE DEF n, P, q
<1>3. r \in Seq(S)
  <2>1. SubSeq(q, 1, n) \in Seq(ToSet(q)) /\ SubSeq(q, n + 1, Len(q)) \in Seq(ToSet(q))
    BY <1>1, <1>2
  <2>2. (n + 1) - 1 = n
    BY <1>2
  <2>3. <<e>> \in Seq(S) /\ SubSeq(q, 1, n) \in Seq(S) /\ SubSeq(q, n + 1, Len(q)) \in Seq(S)
    BY <2>1, SeqMonotonic
  <2> HIDE DEF S
  <2> QED
    BY <2>2, <2>3 DEF InsertAt
<1>4. IsQueue(r)
  <2>1. \A x \in S : {"kind", "string"} \subseteq DOMAIN x /\ x.kind \in EventKinds
    BY <1>1, QueueIsOf
  <2> HIDE DEF S, r
  <2> QED
    BY <1>3, <2>1, QueueOf
<1>5. Schedule(g, e) = g \/ Schedule(g, e) = [g EXCEPT !.events = r]
  BY DEF Schedule, r, n, P, q
<1> HIDE DEF r
<1>6. Keeps(g, [g EXCEPT !.events = r])
  BY <1>4 DEF Keeps, QueuesFine, Queues
<1>7. Keeps(g, g)
  BY DEF Keeps
<1> QED
  BY <1>5, <1>6, <1>7

\* The events the hands make.
LEMMA EventsFine ==
    ASSUME NEW s, NEW t, NEW f, NEW x, NEW y
    PROVE  /\ \A k \in {"leave", "liftTouch"} :
                 LET e == Event(k, s, t)
                 IN {"kind", "string"} \subseteq DOMAIN e /\ e.kind \in EventKinds
           /\ LET e == Strike(s, t, f, x, y)
              IN {"kind", "string"} \subseteq DOMAIN e /\ e.kind \in EventKinds
           /\ LET e == Press(s, t, f)
              IN {"kind", "string"} \subseteq DOMAIN e /\ e.kind \in EventKinds
           /\ LET e == Shift(s, t, f)
              IN {"kind", "string"} \subseteq DOMAIN e /\ e.kind \in EventKinds
           /\ LET e == Prepare(t)
              IN {"kind", "string"} \subseteq DOMAIN e /\ e.kind \in EventKinds
BY DEF Event, Strike, Press, Shift, Prepare, EventKinds

LEMMA SchedulesKeep ==
    ASSUME NEW g, QueuesFine(g), NEW s, NEW t, NEW f, NEW x, NEW y
    PROVE  /\ \A k \in {"leave", "liftTouch"} : Keeps(g, Schedule(g, Event(k, s, t)))
           /\ Keeps(g, Schedule(g, Strike(s, t, f, x, y)))
           /\ Keeps(g, Schedule(g, Press(s, t, f)))
           /\ Keeps(g, Schedule(g, Shift(s, t, f)))
           /\ Keeps(g, Schedule(g, Prepare(t)))
BY ScheduleKeeps, EventsFine

-----------------------------------------------------------------------------
(* The fretting hand lets go.                                              *)

LEMMA ReleaseKeeps ==
    ASSUME NEW g, QueuesFine(g), NEW s
    PROVE  Keeps(g, Release(g, s))
<1> DEFINE st == g.strings[s]
           damped == SetDamper(g, s, Flesh)
           lifted == IF st.fret = 0 THEN damped
                     ELSE Schedule(LiftFromFret(damped, s), Event("leave", s, LiftTicks))
           new == [NewString EXCEPT !.released = TRUE, !.restFret = st.fret,
                                    !.prepared = st.prepared, !.due = st.due]
           let_go == [lifted EXCEPT !.strings[s] = new]
<1>1. Keeps(g, damped)
  BY GuitarIsStill
<1>2. Keeps(g, lifted)
  <2>1. Keeps(damped, LiftFromFret(damped, s))
    BY <1>1, GuitarIsStill DEF Keeps
  <2>2. Keeps(LiftFromFret(damped, s),
              Schedule(LiftFromFret(damped, s), Event("leave", s, LiftTicks)))
    BY <2>1, SchedulesKeep DEF Keeps
  <2> HIDE DEF damped
  <2> QED
    BY <1>1, <2>1, <2>2, KeepsOn
<1>3. QueuesFine(lifted)
  BY <1>2 DEF Keeps
<1> HIDE DEF lifted, new
<1>4. Still(lifted, let_go)
  BY <1>3 DEF QueuesFine, Queues, Still
<1>5. Keeps(lifted, let_go) /\ QueuesFine(let_go)
  BY <1>3, <1>4, StillKeeps DEF Keeps
<1> HIDE DEF let_go
<1>6. Keeps(let_go, EachString(RestOnFree, let_go))
  BY <1>5, HandsAreStill, StillKeeps DEF EachString
<1>7. Release(g, s) = EachString(RestOnFree, let_go)
  BY DEF Release, let_go, lifted, new
<1> QED
  BY <1>2, <1>5, <1>6, <1>7, KeepsOn
-----------------------------------------------------------------------------
(* Numbers, and folds.                                                     *)

\* A set of numbers has a least one.
LEMMA LeastIsThere ==
    ASSUME NEW S \in SUBSET Nat, S # {}
    PROVE  \E m \in S : \A y \in S : m <= y
<1>1. \E m \in S : \A y \in S : <<y, m>> \notin OpToRel(<, Nat)
  BY NatLessThanWellFounded, WFMin, Zenon
<1>2. PICK m \in S : \A y \in S : <<y, m>> \notin OpToRel(<, Nat)
  BY <1>1
<1>3. \A y \in S : m <= y
  <2> SUFFICES ASSUME NEW y \in S
               PROVE  m <= y
    OBVIOUS
  <2>1. <<y, m>> \notin OpToRel(<, Nat)
    BY <1>2
  <2>2. ~(y < m)
    BY <2>1 DEF OpToRel
  <2> QED
    BY <2>2
<1> QED
  BY <1>3

\* And a last one, if some number bounds it.
LEMMA LastIsThere ==
    ASSUME NEW N \in Nat, NEW S \in SUBSET (0 .. N), S # {}
    PROVE  Max(S) \in S /\ \A y \in S : Max(S) >= y
<1> DEFINE T == {N - x : x \in S}
<1>1. T \in SUBSET Nat /\ T # {}
  <2>1. \A x \in S : x \in 0 .. N /\ N - x \in Nat
    OBVIOUS
  <2> QED
    BY <2>1
<1>2. PICK m \in T : \A y \in T : m <= y
  BY <1>1, LeastIsThere
<1>3. PICK x \in S : m = N - x
  OBVIOUS
<1>4. \A y \in S : x >= y
  <2> SUFFICES ASSUME NEW y \in S
               PROVE  x >= y
    OBVIOUS
  <2>1. N - y \in T
    OBVIOUS
  <2>2. N - x <= N - y
    BY <1>2, <1>3, <2>1
  <2> QED
    BY <2>2
<1> QED
  BY <1>4 DEF Max

\* What holds at the start of a walk and is carried over each of its steps
\* holds all along it.
LEMMA WalkUp ==
    ASSUME NEW N \in Nat, NEW G \in SUBSET (0 .. N), 0 \in G,
           \A n \in G : n < N => n + 1 \in G
    PROVE  N \in G
<1> DEFINE B == {n \in 0 .. N : n \notin G}
<1> SUFFICES ASSUME B # {} PROVE FALSE
  BY DEF B
<1>1. B \in SUBSET Nat
  OBVIOUS
<1>2. \E m \in B : \A y \in B : <<y, m>> \notin OpToRel(<, Nat)
  <2> HIDE DEF B
  <2> QED
    BY <1>1, NatLessThanWellFounded, WFMin, Zenon
<1>3. PICK m \in B : \A y \in B : <<y, m>> \notin OpToRel(<, Nat)
  BY <1>2
<1>4. m \in 0 .. N /\ m \notin G /\ m # 0
  OBVIOUS
<1>5. m - 1 \in 0 .. N /\ m - 1 < N /\ (m - 1) + 1 = m
  BY <1>4
<1>6. m - 1 \notin G
  BY <1>4, <1>5
<1>7. <<m - 1, m>> \in OpToRel(<, Nat)
  BY <1>4, <1>5 DEF OpToRel
<1> QED
  BY <1>3, <1>5, <1>6, <1>7

LEMMA LastOfPrefix ==
    ASSUME NEW N \in Nat, NEW n \in 0 .. N, n < N
    PROVE  /\ 1 .. n + 1 \in SUBSET (1 .. N) /\ 1 .. n + 1 # {} /\ n + 1 \in 1 .. N
           /\ Max(1 .. n + 1) = n + 1 /\ (1 .. n + 1) \ {n + 1} = 1 .. n
<1>1. n + 1 \in Nat /\ n + 1 \in 1 .. n + 1 /\ 1 .. n + 1 \in SUBSET (0 .. n + 1)
  OBVIOUS
<1>2. Max(1 .. n + 1) \in 1 .. n + 1 /\ Max(1 .. n + 1) >= n + 1
  BY <1>1, LastIsThere
<1> QED
  BY <1>1, <1>2

\* The steps of the folds, by name: release the strings of some, play the
\* messages of a queue, strike a chord's notes, place the notes of a stroke,
\* send the fingers ahead.
StrokeOne(acc, k, sounding) ==
    IF Continues(acc.g, k, sounding)
    THEN [acc EXCEPT !.g = PlayOnSoundingString(@, k, sounding)]
    ELSE IF HasHarmonic(acc.g, k) THEN [acc EXCEPT !.g = PlayHarmonic(@, k)]
    ELSE IF Len(acc.notes) < Len(OpenNote) THEN [acc EXCEPT !.notes = Append(@, k)]
    ELSE acc
Step(t, x, i) ==
    CASE t.fold = "release" -> IF i \in t.some THEN Release(x, i) ELSE x
      [] t.fold = "flush" -> Dispatch(x, t.queue[i])
      [] t.fold = "strum" -> IF i \in t.placed
                             THEN StrikeNote(x, t.notes[i], t.f[i], t.crossed[i]) ELSE x
      [] t.fold = "stroke" -> StrokeOne(x, t.notes[i], t.sounding)
      [] t.fold = "send" -> IF t.f[i] = 0 THEN x
                            ELSE IF t.held[t.f[i]] THEN x
                            ELSE SendFinger(x, t.notes[i], t.f[i], t.freeAt[t.f[i]], t.due)

\* What each of them carries from step to step.
Carried(t, b, x) ==
    IF t.fold = "stroke"
    THEN DOMAIN x = {"g", "notes"} /\ Keeps(b.g, x.g) /\ x.notes \in Seq(ToSet(x.notes))
    ELSE Keeps(b, x)

\* w goes through N steps from b, as FoldLeft counts them.
IsWalk(t, b, N, w) ==
    w = [s \in SUBSET (1 .. N) |->
            IF s = {} THEN b ELSE Step(t, w[s \ {Max(s)}], Max(s))]

LEMMA Walks ==
    ASSUME NEW t, NEW b, NEW N \in Nat
    PROVE  \E w : IsWalk(t, b, N, w)
<1> DEFINE G == {n \in 0 .. N : \E w : IsWalk(t, b, n, w)}
<1>1. 0 \in G
  <2>1. IsWalk(t, b, 0, [s \in SUBSET (1 .. 0) |-> b])
    BY DEF IsWalk
  <2> QED
    BY <2>1
<1>2. ASSUME NEW n \in G, n < N
      PROVE  n + 1 \in G
  <2>1. PICK g : g = [s \in SUBSET (1 .. n) |->
                       IF s = {} THEN b ELSE Step(t, g[s \ {Max(s)}], Max(s))]
    BY <1>2 DEF IsWalk
  <2> DEFINE h == [s \in SUBSET (1 .. n + 1) |->
                     IF n + 1 \in s THEN Step(t, g[s \ {n + 1}], n + 1) ELSE g[s]]
  <2>2. ASSUME NEW s \in SUBSET (1 .. n + 1)
        PROVE  h[s] = IF s = {} THEN b ELSE Step(t, h[s \ {Max(s)}], Max(s))
    <3>1. CASE n + 1 \in s
      <4>1. Max(s) = n + 1
        <5>1. n + 1 \in Nat /\ s \in SUBSET (0 .. n + 1)
          OBVIOUS
        <5>2. Max(s) \in s /\ Max(s) >= n + 1
          BY <3>1, <5>1, LastIsThere
        <5>3. Max(s) \in 1 .. n + 1
          BY <5>2
        <5> QED
          BY <5>1, <5>2, <5>3
      <4>2. s \ {n + 1} \in SUBSET (1 .. n + 1) /\ n + 1 \notin s \ {n + 1}
        OBVIOUS
      <4>3. h[s \ {n + 1}] = g[s \ {n + 1}]
        BY <4>2
      <4>4. h[s] = Step(t, g[s \ {n + 1}], n + 1)
        BY <3>1
      <4> QED
        BY <3>1, <4>1, <4>3, <4>4
    <3>2. CASE n + 1 \notin s /\ s # {}
      <4>1. s \in SUBSET (1 .. n) /\ s \in SUBSET (0 .. n)
        BY <3>2
      <4>2. Max(s) \in s
        <5>1. n \in Nat
          OBVIOUS
        <5> QED
          BY <3>2, <4>1, <5>1, LastIsThere
      <4>3. s \ {Max(s)} \in SUBSET (1 .. n + 1) /\ n + 1 \notin s \ {Max(s)}
        BY <3>2
      <4>4. h[s] = g[s] /\ h[s \ {Max(s)}] = g[s \ {Max(s)}]
        BY <3>2, <4>3
      <4>5. g[s] = Step(t, g[s \ {Max(s)}], Max(s))
        BY <2>1, <3>2, <4>1
      <4> QED
        BY <3>2, <4>4, <4>5
    <3>3. CASE s = {}
      <4>1. g[s] = b
        BY <2>1, <3>3
      <4>2. h[s] = g[s]
        BY <3>3
      <4> QED
        BY <3>3, <4>1, <4>2
    <3> QED
      BY <3>1, <3>2, <3>3
  <2>3. IsWalk(t, b, n + 1, h)
    <3> HIDE DEF h
    <3>1. h = [s \in SUBSET (1 .. n + 1) |-> h[s]]
      BY DEF h
    <3> QED
      BY <2>2, <3>1 DEF IsWalk
  <2> HIDE DEF h
  <2> QED
    BY <1>2, <2>3
<1>3. N \in G
  <2>1. G \in SUBSET (0 .. N)
    OBVIOUS
  <2> HIDE DEF G
  <2> QED
    BY <1>1, <1>2, <2>1, WalkUp
<1> QED
  BY <1>3

\* What every step carries on, the whole walk does.
LEMMA WalkCarries ==
    ASSUME NEW t, NEW b, NEW N \in Nat, NEW w, IsWalk(t, b, N, w),
           Carried(t, b, b),
           \A x : \A i \in 1 .. N : Carried(t, b, x) => Carried(t, b, Step(t, x, i))
    PROVE  Carried(t, b, w[1 .. N])
<1>0. \A s \in SUBSET (1 .. N) :
         w[s] = IF s = {} THEN b ELSE Step(t, w[s \ {Max(s)}], Max(s))
  BY DEF IsWalk
<1> DEFINE G == {n \in 0 .. N : Carried(t, b, w[1 .. n])}
<1>1. 0 \in G
  <2>1. 1 .. 0 = {} /\ 0 \in 0 .. N
    OBVIOUS
  <2>2. w[1 .. 0] = b
    BY <1>0, <2>1
  <2> QED
    BY <2>1, <2>2
<1>2. ASSUME NEW n \in G, n < N
      PROVE  n + 1 \in G
  <2>1. /\ 1 .. n + 1 \in SUBSET (1 .. N) /\ 1 .. n + 1 # {} /\ n + 1 \in 1 .. N
        /\ Max(1 .. n + 1) = n + 1 /\ (1 .. n + 1) \ {n + 1} = 1 .. n
    BY <1>2, LastOfPrefix
  <2>2. w[1 .. n + 1] = Step(t, w[(1 .. n + 1) \ {Max(1 .. n + 1)}], Max(1 .. n + 1))
    BY <1>0, <2>1, Zenon
  <2>3. w[1 .. n + 1] = Step(t, w[1 .. n], n + 1)
    BY <2>1, <2>2, Zenon
  <2>4. Carried(t, b, w[1 .. n])
    BY <1>2
  <2>5. Carried(t, b, w[1 .. n + 1])
    BY <2>1, <2>3, <2>4
  <2>6. n + 1 \in 0 .. N
    BY <2>1
  <2> QED
    BY <2>5, <2>6
<1>3. N \in G
  <2>1. G \in SUBSET (0 .. N)
    OBVIOUS
  <2> HIDE DEF G
  <2> QED
    BY <1>1, <1>2, <2>1, WalkUp
<1> QED
  BY <1>3

\* A walk, step by step.
Walked(t, b, N, w) ==
    /\ w[1 .. 0] = b
    /\ \A n \in 0 .. N : n < N => w[1 .. n + 1] = Step(t, w[1 .. n], n + 1)

LEMMA WalkSteps ==
    ASSUME NEW t, NEW b, NEW N \in Nat, NEW w, IsWalk(t, b, N, w)
    PROVE  Walked(t, b, N, w)
<1>0. \A s \in SUBSET (1 .. N) :
         w[s] = IF s = {} THEN b ELSE Step(t, w[s \ {Max(s)}], Max(s))
  BY DEF IsWalk
<1>1. w[1 .. 0] = b
  <2>1. 1 .. 0 = {} /\ 1 .. 0 \in SUBSET (1 .. N)
    OBVIOUS
  <2> QED
    BY <1>0, <2>1
<1>2. ASSUME NEW n \in 0 .. N, n < N
      PROVE  w[1 .. n + 1] = Step(t, w[1 .. n], n + 1)
  <2>1. /\ 1 .. n + 1 \in SUBSET (1 .. N) /\ 1 .. n + 1 # {}
        /\ Max(1 .. n + 1) = n + 1 /\ (1 .. n + 1) \ {n + 1} = 1 .. n
    BY <1>2, LastOfPrefix
  <2>2. w[1 .. n + 1] = Step(t, w[(1 .. n + 1) \ {Max(1 .. n + 1)}], Max(1 .. n + 1))
    BY <1>0, <2>1, Zenon
  <2> QED
    BY <2>1, <2>2, Zenon
<1> QED
  BY <1>1, <1>2 DEF Walked

LEMMA MaxOfPart ==
    ASSUME NEW N \in Nat, NEW s \in SUBSET (1 .. N), s # {}
    PROVE  Max(s) \in 1 .. N /\ s \ {Max(s)} \in SUBSET (1 .. N)
<1>1. s \in SUBSET (0 .. N)
  OBVIOUS
<1>2. Max(s) \in s
  BY <1>1, LastIsThere
<1> QED
  BY <1>2

\* Releasing some of the strings.
LEMMA ReleaseAllIsAWalk ==
    ASSUME NEW g, NEW some
    PROVE  \E N \in Nat : \E w :
             /\ Strings = 1 .. N /\ ReleaseAll(g, some) = w[1 .. N]
             /\ IsWalk([fold |-> "release", some |-> some], g, N, w)
<1> DEFINE t == [fold |-> "release", some |-> some]
           seq == [s \in Strings |-> s]
           Folded(it) == it = [s \in SUBSET DOMAIN seq |->
                                 IF s = {} THEN g
                                 ELSE IF seq[Max(s)] \in some
                                      THEN Release(it[s \ {Max(s)}], seq[Max(s)])
                                      ELSE it[s \ {Max(s)}]]
           w == CHOOSE it : Folded(it)
<1>1. PICK N \in Nat : Strings = 1 .. N
  BY NeckAssumption DEF Strings
<1>2. DOMAIN seq = 1 .. N /\ \A n \in 1 .. N : seq[n] = n
  BY <1>1
<1>3. ReleaseAll(g, some) = w[1 .. N]
  BY <1>2 DEF ReleaseAll, FoldLeft, MapThenFoldSet
<1>4. \A x : \A i \in 1 .. N :
         Step(t, x, i) = IF seq[i] \in some THEN Release(x, seq[i]) ELSE x
  BY <1>2 DEF Step
<1> HIDE DEF seq, w, t
<1>5. ASSUME NEW it PROVE IsWalk(t, g, N, it) <=> Folded(it)
  <2>1. \A s \in SUBSET (1 .. N) : s # {} =>
           Step(t, it[s \ {Max(s)}], Max(s)) =
             IF seq[Max(s)] \in some
             THEN Release(it[s \ {Max(s)}], seq[Max(s)]) ELSE it[s \ {Max(s)}]
    BY <1>4, MaxOfPart
  <2> DEFINE A == [s \in SUBSET (1 .. N) |->
                     IF s = {} THEN g ELSE Step(t, it[s \ {Max(s)}], Max(s))]
             B == [s \in SUBSET (1 .. N) |->
                     IF s = {} THEN g
                     ELSE IF seq[Max(s)] \in some
                          THEN Release(it[s \ {Max(s)}], seq[Max(s)])
                          ELSE it[s \ {Max(s)}]]
  <2>2. A = B
    BY <2>1
  <2>3. IsWalk(t, g, N, it) <=> it = A
    BY DEF IsWalk
  <2>4. Folded(it) <=> it = B
    BY <1>2
  <2> QED
    BY <2>2, <2>3, <2>4
<1>6. IsWalk(t, g, N, w)
  <2>1. \E it : Folded(it)
    BY <1>5, Walks
  <2>2. Folded(w)
    BY <2>1 DEF w
  <2> QED
    BY <1>5, <2>2
<1> QED
  BY <1>1, <1>3, <1>6 DEF t

LEMMA ReleaseAllKeeps ==
    ASSUME NEW g, QueuesFine(g), NEW some
    PROVE  Keeps(g, ReleaseAll(g, some))
<1> DEFINE t == [fold |-> "release", some |-> some]
<1>1. PICK N \in Nat : \E w : /\ Strings = 1 .. N /\ ReleaseAll(g, some) = w[1 .. N]
                              /\ IsWalk(t, g, N, w)
  BY ReleaseAllIsAWalk
<1>2. PICK w : ReleaseAll(g, some) = w[1 .. N] /\ IsWalk(t, g, N, w)
  BY <1>1
<1>3. \A x, i : Step(t, x, i) = Release(x, i) \/ Step(t, x, i) = x
  BY DEF Step
<1>4. \A x : Carried(t, g, x) <=> Keeps(g, x)
  BY DEF Carried
<1> HIDE DEF t
<1>5. ASSUME NEW x, NEW i \in 1 .. N, Carried(t, g, x)
      PROVE  Carried(t, g, Step(t, x, i))
  <2>1. QueuesFine(x) /\ Keeps(g, x)
    BY <1>4, <1>5 DEF Keeps
  <2>2. Keeps(x, Release(x, i))
    BY <2>1, ReleaseKeeps
  <2> QED
    BY <1>3, <1>4, <2>1, <2>2, KeepsOn
<1>6. Carried(t, g, g)
  BY <1>4 DEF Keeps
<1> QED
  BY <1>2, <1>4, <1>5, <1>6, WalkCarries
-----------------------------------------------------------------------------
(* MIDI as it takes effect.                                                *)

LEMMA HandKeeps ==
    ASSUME NEW g, QueuesFine(g), NEW on
    PROVE  Keeps(g, LiftRestingHand(g)) /\ Keeps(g, DampStrings(g, on))
<1>1. \A h : QueuesFine(h) => Keeps(h, LiftRestingHand(h))
  <2> SUFFICES ASSUME NEW h, QueuesFine(h)
               PROVE  Keeps(h, LiftRestingHand(h))
    OBVIOUS
  <2> QED
    BY HandsAreStill, StillKeeps DEF LiftRestingHand, EachString
<1> DEFINE h == [g EXCEPT !.damping = on]
<1>2. Still(g, h)
  BY DEF QueuesFine, Queues, Still
<1>3. Keeps(g, h) /\ QueuesFine(h)
  BY <1>2, StillKeeps DEF Keeps
<1> HIDE DEF h
<1>4. Keeps(h, EachString(DampOne, h))
  BY <1>3, HandsAreStill, StillKeeps DEF EachString
<1>5. DampStrings(g, on) = EachString(DampOne, h) \/ DampStrings(g, on) = LiftRestingHand(h)
  BY DEF DampStrings, h
<1>6. Keeps(h, DampStrings(g, on))
  BY <1>1, <1>3, <1>4, <1>5
<1> QED
  BY <1>1, <1>3, <1>6, KeepsOn

LEMMA PlayNoteOnKeeps ==
    ASSUME NEW g, QueuesFine(g), NEW k \in AllKeys
    PROVE  Keeps(g, PlayNoteOn(g, k))
<1>1. Keeps(g, g)
  BY DEF Keeps
<1>2. Keeps(g, [g EXCEPT !.style = k]) /\ Keeps(g, [g EXCEPT !.stroke = k])
  BY DEF Keeps, QueuesFine, Queues
<1>3. Keeps(g, [g EXCEPT !.pending = Append(@, k)])
  <2>1. Append(g.pending, k) \in Seq(AllKeys)
    BY DEF QueuesFine
  <2> QED
    BY <2>1 DEF Keeps, QueuesFine, Queues
<1>4. Keeps(g, DampStrings(g, TRUE))
  BY HandKeeps
<1> QED
  BY <1>1, <1>2, <1>3, <1>4 DEF PlayNoteOn

LEMMA UnpendStays ==
    ASSUME NEW S, NEW q \in Seq(S), q # <<>>, NEW k
    PROVE  Unpend(q, k) \in Seq(S)
<1> DEFINE at == SelectInSeq(q, LAMBDA other : other = k)
           r == [i \in 1 .. Len(q) - 1 |-> IF i = at THEN q[Len(q)] ELSE q[i]]
<1>1. Len(q) - 1 \in Nat /\ \A i \in 1 .. Len(q) : q[i] \in S
  OBVIOUS
<1>2. Unpend(q, k) = r
  BY DEF Unpend
<1> HIDE DEF at
<1>3. \A i \in 1 .. Len(q) - 1 : r[i] \in S
  BY <1>1
<1>4. r \in [1 .. Len(q) - 1 -> S]
  BY <1>3
<1> QED
  BY <1>1, <1>2, <1>4

LEMMA LiftKeyKeeps ==
    ASSUME NEW g, QueuesFine(g), NEW s
    PROVE  Keeps(g, LiftKey(g, s))
<1> DEFINE up == [g EXCEPT !.strings[s].down = FALSE]
           later == [up EXCEPT !.strings[s].sustained = TRUE]
<1>1. Still(g, up) /\ Still(g, later)
  BY DEF QueuesFine, Queues, Still
<1>2. Keeps(g, up) /\ Keeps(g, later) /\ QueuesFine(up)
  BY <1>1, StillKeeps DEF Keeps
<1>3. LiftKey(g, s) \in {up, later, Release(up, s)}
  BY DEF LiftKey
<1> HIDE DEF up, later
<1>4. Keeps(up, Release(up, s))
  BY <1>2, ReleaseKeeps
<1> QED
  BY <1>2, <1>3, <1>4, KeepsOn

LEMMA PlayNoteOffKeeps ==
    ASSUME NEW g, QueuesFine(g), NEW k
    PROVE  Keeps(g, PlayNoteOff(g, k))
<1>1. Keeps(g, g)
  BY DEF Keeps
<1>2. Keeps(g, DampStrings(g, FALSE))
  BY HandKeeps
<1>3. ASSUME k \in ToSet(g.pending)
      PROVE  Keeps(g, [g EXCEPT !.pending = Unpend(@, k)])
  <2>1. g.pending \in Seq(AllKeys) /\ g.pending # <<>>
    BY <1>3 DEF QueuesFine, ToSet
  <2>2. Unpend(g.pending, k) \in Seq(AllKeys)
    BY <2>1, UnpendStays
  <2> QED
    BY <2>2 DEF Keeps, QueuesFine, Queues
<1>4. Keeps(g, LiftKey(g, Min(Holding(g, k))))
  BY LiftKeyKeeps
<1> QED
  BY <1>1, <1>2, <1>3, <1>4 DEF PlayNoteOff

LEMMA PlaySustainKeeps ==
    ASSUME NEW g, QueuesFine(g), NEW on
    PROVE  Keeps(g, PlaySustain(g, on))
<1> DEFINE h == [g EXCEPT !.pedal = on]
           some == {s \in Strings : g.strings[s].sustained}
<1>1. Still(g, h)
  BY DEF QueuesFine, Queues, Still
<1>2. Keeps(g, h) /\ QueuesFine(h)
  BY <1>1, StillKeeps DEF Keeps
<1>3. PlaySustain(g, on) = h \/ PlaySustain(g, on) = ReleaseAll(h, some)
  BY DEF PlaySustain
<1> HIDE DEF h, some
<1>4. Keeps(h, ReleaseAll(h, some))
  BY <1>2, ReleaseAllKeeps
<1> QED
  BY <1>2, <1>3, <1>4, KeepsOn

\* Playing a message leaves the others where they are.
LEMMA DispatchKeeps ==
    ASSUME NEW g, QueuesFine(g), NEW m \in Messages
    PROVE  Keeps(g, Dispatch(g, m))
<1>1. m.key \in AllKeys /\ m.kind \in {"on", "off", "pedal"}
  BY DEF Messages
<1>2. /\ Keeps(g, PlayNoteOn(g, m.key)) /\ Keeps(g, PlayNoteOff(g, m.key))
      /\ Keeps(g, PlaySustain(g, m.key = "down"))
  BY <1>1, PlayNoteOnKeeps, PlayNoteOffKeeps, PlaySustainKeeps
<1> QED
  BY <1>1, <1>2 DEF Dispatch

LEMMA FlushIsAWalk ==
    ASSUME NEW g, g.delayed \in Seq(Messages)
    PROVE  \E w : /\ Flush(g) = w[1 .. Len(g.delayed)]
                  /\ IsWalk([fold |-> "flush", queue |-> g.delayed],
                            [g EXCEPT !.delayed = <<>>], Len(g.delayed), w)
<1> DEFINE q == g.delayed
           b == [g EXCEPT !.delayed = <<>>]
           t == [fold |-> "flush", queue |-> q]
           Folded(it) == it = [s \in SUBSET DOMAIN q |->
                                 IF s = {} THEN b
                                 ELSE Dispatch(it[s \ {Max(s)}], q[Max(s)])]
           w == CHOOSE it : Folded(it)
           N == Len(q)
<1>1. N \in Nat /\ DOMAIN q = 1 .. N
  OBVIOUS
<1>3. Flush(g) = w[1 .. N]
  BY <1>1 DEF Flush, FoldLeft, MapThenFoldSet
<1>4. \A x : \A i \in 1 .. N : Step(t, x, i) = Dispatch(x, q[i])
  BY DEF Step
<1> HIDE DEF w, t, b, q, N
<1>5. ASSUME NEW it PROVE IsWalk(t, b, N, it) <=> Folded(it)
  <2>1. \A s \in SUBSET (1 .. N) : s # {} =>
           Step(t, it[s \ {Max(s)}], Max(s)) = Dispatch(it[s \ {Max(s)}], q[Max(s)])
    BY <1>1, <1>4, MaxOfPart
  <2> DEFINE A == [s \in SUBSET (1 .. N) |->
                     IF s = {} THEN b ELSE Step(t, it[s \ {Max(s)}], Max(s))]
             B == [s \in SUBSET (1 .. N) |->
                     IF s = {} THEN b ELSE Dispatch(it[s \ {Max(s)}], q[Max(s)])]
  <2>2. A = B
    BY <2>1
  <2>3. IsWalk(t, b, N, it) <=> it = A
    BY DEF IsWalk
  <2>4. Folded(it) <=> it = B
    BY <1>1
  <2> QED
    BY <2>2, <2>3, <2>4
<1>6. IsWalk(t, b, N, w)
  <2>1. \E it : Folded(it)
    BY <1>1, <1>5, Walks
  <2>2. Folded(w)
    BY <2>1 DEF w
  <2> QED
    BY <1>5, <2>2
<1> QED
  BY <1>3, <1>6 DEF t, b, q, N

LEMMA FlushEmpties ==
    ASSUME NEW g, QueuesFine(g)
    PROVE  QueuesFine(Flush(g)) /\ Flush(g).delayed = <<>>
<1> DEFINE q == g.delayed
           b == [g EXCEPT !.delayed = <<>>]
           t == [fold |-> "flush", queue |-> q]
           N == Len(q)
<1>1. N \in Nat /\ DOMAIN q = 1 .. N /\ \A i \in 1 .. N : q[i] \in Messages
  BY DEF QueuesFine
<1>2. QueuesFine(b) /\ b.delayed = <<>>
  BY DEF QueuesFine, Queues
<1>3. PICK w : Flush(g) = w[1 .. N] /\ IsWalk(t, b, N, w)
  BY FlushIsAWalk DEF QueuesFine
<1>4. \A x : \A i \in 1 .. N : Step(t, x, i) = Dispatch(x, q[i])
  BY DEF Step
<1>6. \A x : Carried(t, b, x) <=> Keeps(b, x)
  BY DEF Carried
<1> HIDE DEF t, b, q, N
<1>8. ASSUME NEW x, NEW i \in 1 .. N, Carried(t, b, x)
      PROVE  Carried(t, b, Step(t, x, i))
  <2>1. QueuesFine(x) /\ Keeps(b, x)
    BY <1>6, <1>8 DEF Keeps
  <2>2. Keeps(x, Dispatch(x, q[i]))
    BY <1>1, <2>1, DispatchKeeps
  <2> QED
    BY <1>4, <1>6, <2>1, <2>2, KeepsOn
<1>9. Carried(t, b, b)
  BY <1>2, <1>6 DEF Keeps
<1>10. Keeps(b, Flush(g))
  BY <1>1, <1>3, <1>6, <1>8, <1>9, WalkCarries
<1> QED
  BY <1>2, <1>10 DEF Keeps

-----------------------------------------------------------------------------
(* A stroke.                                                               *)

LEMMA TakeStringIsStill ==
    ASSUME NEW g, QueuesFine(g), NEW s, NEW st, NEW f
    PROVE  Keeps(g, TakeString(g, s, st)) /\ Keeps(g, MoveHand(g, f))
<1>1. Still(g, TakeString(g, s, st))
  BY DEF QueuesFine, Queues, Still, TakeString
<1>2. Still(g, MoveHand(g, f))
  BY DEF QueuesFine, Queues, Still, MoveHand
<1> QED
  BY <1>1, <1>2, StillKeeps

LEMMA LineKeeps ==
    ASSUME NEW g, QueuesFine(g), NEW k, NEW sounding
    PROVE  Keeps(g, PlayOnSoundingString(g, k, sounding))
<1> DEFINE s == Last(LineStrings(g, sounding))
           f == Fret(k, s)
           free == SetDamper(g, s, Free)
           played == IF g.style = "legato" THEN Pluck(SetFret(free, s, f), s)
                     ELSE [free EXCEPT !.wood[s].rings = TRUE]
           held == [played.strings[s] EXCEPT
                       !.key = k, !.down = TRUE, !.sustained = FALSE, !.fretted = TRUE,
                       !.fret = IF g.style = "legato" THEN f ELSE @,
                       !.slideTo = IF g.style = "legato" THEN None ELSE f]
           taken == TakeString(played, s, held)
<1>1. Keeps(g, free) /\ QueuesFine(free)
  BY GuitarIsStill DEF Keeps
<1>2. PlayOnSoundingString(g, k, sounding) = MoveHand(taken, f)
  BY DEF PlayOnSoundingString
<1>3. Keeps(free, played)
  <2> HIDE DEF free, f, s
  <2>1. Keeps(free, SetFret(free, s, f)) /\ QueuesFine(SetFret(free, s, f))
    BY <1>1, GuitarIsStill DEF Keeps
  <2>2. Keeps(SetFret(free, s, f), Pluck(SetFret(free, s, f), s))
    BY <2>1, GuitarIsStill
  <2>3. Keeps(free, [free EXCEPT !.wood[s].rings = TRUE])
    <3>1. Still(free, [free EXCEPT !.wood[s].rings = TRUE])
      BY <1>1 DEF QueuesFine, Queues, Still
    <3> QED
      BY <1>1, <3>1, StillKeeps
  <2> QED
    BY <2>1, <2>2, <2>3, KeepsOn
<1> HIDE DEF free, f, s, played, held
<1>4. Keeps(g, played) /\ QueuesFine(played)
  BY <1>1, <1>3, KeepsOn DEF Keeps
<1>5. Keeps(played, taken) /\ QueuesFine(taken)
  BY <1>4, TakeStringIsStill DEF Keeps
<1> HIDE DEF taken
<1>6. Keeps(taken, MoveHand(taken, f))
  BY <1>5, TakeStringIsStill
<1> QED
  BY <1>2, <1>4, <1>5, <1>6, KeepsOn

LEMMA HarmonicKeeps ==
    ASSUME NEW g, QueuesFine(g), NEW k
    PROVE  Keeps(g, PlayHarmonic(g, k))
<1> SUFFICES ASSUME NEW s, NEW f, NEW st
             PROVE  LET struck == Schedule(g, Strike(s, 0, f, Touched, FALSE))
                        touched == Schedule(struck, Event("liftTouch", s, HarmonicTicks))
                    IN Keeps(g, TakeString(touched, s, st))
  BY DEF PlayHarmonic
<1> DEFINE struck == Schedule(g, Strike(s, 0, f, Touched, FALSE))
           touched == Schedule(struck, Event("liftTouch", s, HarmonicTicks))
<1>0. Keeps(g, Schedule(g, Strike(s, 0, f, Touched, FALSE)))
  BY SchedulesKeep
<1>1. Keeps(g, struck) /\ QueuesFine(struck)
  BY <1>0 DEF Keeps
<1> HIDE DEF struck
<1>2. Keeps(struck, touched) /\ QueuesFine(touched)
  BY <1>1, SchedulesKeep DEF Keeps
<1> HIDE DEF touched
<1>3. Keeps(touched, TakeString(touched, s, st))
  BY <1>2, TakeStringIsStill
<1>4. Keeps(g, TakeString(touched, s, st))
  BY <1>1, <1>2, <1>3, KeepsOn
<1> QED
  BY <1>4 DEF touched, struck

LEMMA StrikeNoteKeeps ==
    ASSUME NEW g, QueuesFine(g), NEW k, NEW s, NEW crossed
    PROVE  Keeps(g, StrikeNote(g, k, s, crossed))
<1> SUFFICES ASSUME NEW t, NEW f, NEW x, NEW y, NEW st
             PROVE  Keeps(g, TakeString(Schedule(g, Strike(s, t, f, x, y)), s, st))
  BY DEF StrikeNote
<1> DEFINE h == Schedule(g, Strike(s, t, f, x, y))
<1>0. Keeps(g, Schedule(g, Strike(s, t, f, x, y)))
  BY SchedulesKeep
<1>1. Keeps(g, h) /\ QueuesFine(h)
  BY <1>0 DEF Keeps
<1> HIDE DEF h
<1>2. Keeps(h, TakeString(h, s, st))
  BY <1>1, TakeStringIsStill
<1>3. Keeps(g, TakeString(h, s, st))
  BY <1>1, <1>2, KeepsOn
<1> QED
  BY <1>3 DEF h

LEMMA UnprepareKeeps ==
    ASSUME NEW g, QueuesFine(g)
    PROVE  Keeps(g, Unprepare(g))
<1> DEFINE h == EachString(GiveUp, g)
           some == {s \in Unneeded(g) : g.strings[s].fretted}
<1>1. Keeps(g, h) /\ QueuesFine(h)
  BY HandsAreStill, StillKeeps DEF EachString, Keeps
<1>2. Unprepare(g) = ReleaseAll(h, some)
  BY DEF Unprepare
<1> HIDE DEF h, some
<1>3. Keeps(h, ReleaseAll(h, some))
  BY <1>1, ReleaseAllKeeps
<1> QED
  BY <1>1, <1>2, <1>3, KeepsOn
\* The strikes of a stroke, one after the other.
LEMMA StrumIsAWalk ==
    ASSUME NEW g, NEW S, NEW notes \in Seq(S), NEW up
    PROVE  LET f == Assign(g, [s \in Strings |-> g.strings[s].down], notes)
               placed == {i \in DOMAIN f : f[i] # 0}
               ends == {f[i] : i \in placed}
               Across(s) == IF up THEN Max(ends) - s ELSE s - Min(ends)
               frets == {Fret(notes[i], f[i]) : i \in placed} \ {0}
               t == [fold |-> "strum", placed |-> placed, notes |-> notes, f |-> f,
                     crossed |-> [i \in placed |-> Across(f[i])]]
           IN \E w : /\ Strum(g, notes, up) = Unprepare(SettleHand(w[1 .. Len(notes)], frets))
                     /\ IsWalk(t, g, Len(notes), w)
<1> DEFINE f == Assign(g, [s \in Strings |-> g.strings[s].down], notes)
           placed == {i \in DOMAIN f : f[i] # 0}
           ends == {f[i] : i \in placed}
           Across(s) == IF up THEN Max(ends) - s ELSE s - Min(ends)
           One(h, i) == IF i \in placed
                        THEN StrikeNote(h, notes[i], f[i], Across(f[i])) ELSE h
           seq == [i \in DOMAIN notes |-> i]
           struck == FoldLeft(One, g, seq)
           frets == {Fret(notes[i], f[i]) : i \in placed} \ {0}
           crossed == [i \in placed |-> Across(f[i])]
           t == [fold |-> "strum", placed |-> placed, notes |-> notes, f |-> f,
                 crossed |-> crossed]
           Folded(it) == it = [s \in SUBSET DOMAIN seq |->
                                 IF s = {} THEN g
                                 ELSE One(it[s \ {Max(s)}], seq[Max(s)])]
           w == CHOOSE it : Folded(it)
           N == Len(notes)
<1>1. N \in Nat /\ DOMAIN seq = 1 .. N /\ \A i \in 1 .. N : seq[i] = i
  OBVIOUS
<1>2. Strum(g, notes, up) = Unprepare(SettleHand(struck, frets))
  BY DEF Strum
<1>3. struck = w[1 .. N]
  BY <1>1 DEF FoldLeft, MapThenFoldSet
<1>4. \A i \in placed : crossed[i] = Across(f[i])
  OBVIOUS
<1> HIDE DEF f, Across, crossed, placed, ends
<1>5. \A x : \A i \in 1 .. N : Step(t, x, i) = One(x, seq[i])
  BY <1>1, <1>4 DEF Step
<1> HIDE DEF w, t, seq, N, One, struck, frets
<1>6. ASSUME NEW it PROVE IsWalk(t, g, N, it) <=> Folded(it)
  <2>1. \A s \in SUBSET (1 .. N) : s # {} =>
           Step(t, it[s \ {Max(s)}], Max(s)) = One(it[s \ {Max(s)}], seq[Max(s)])
    BY <1>1, <1>5, MaxOfPart
  <2> DEFINE A == [s \in SUBSET (1 .. N) |->
                     IF s = {} THEN g ELSE Step(t, it[s \ {Max(s)}], Max(s))]
             B == [s \in SUBSET (1 .. N) |->
                     IF s = {} THEN g ELSE One(it[s \ {Max(s)}], seq[Max(s)])]
  <2>2. A = B
    BY <2>1
  <2>3. IsWalk(t, g, N, it) <=> it = A
    BY DEF IsWalk
  <2>4. Folded(it) <=> it = B
    BY <1>1
  <2> QED
    BY <2>2, <2>3, <2>4
<1>7. IsWalk(t, g, N, w)
  <2>1. \E it : Folded(it)
    <3>1. PICK it : IsWalk(t, g, N, it)
      BY <1>1, Walks
    <3>2. Folded(it)
      BY <1>6, <3>1
    <3> QED
      BY <3>2
  <2>2. Folded(w)
    BY <2>1 DEF w
  <2> QED
    BY <1>6, <2>2
<1>8. Strum(g, notes, up) = Unprepare(SettleHand(w[1 .. N], frets))
  BY <1>2, <1>3
<1> QED
  BY <1>7, <1>8 DEF t, N, frets, crossed, Across, ends, placed, f

LEMMA StrumKeeps ==
    ASSUME NEW g, QueuesFine(g), NEW S, NEW notes \in Seq(S), NEW up
    PROVE  Keeps(g, Strum(g, notes, up))
<1> DEFINE N == Len(notes)
<1>1. \E t, w, frets : /\ Strum(g, notes, up) = Unprepare(SettleHand(w[1 .. N], frets))
                       /\ IsWalk(t, g, N, w) /\ t.fold = "strum"
  <2> DEFINE f == Assign(g, [s \in Strings |-> g.strings[s].down], notes)
             placed == {i \in DOMAIN f : f[i] # 0}
             ends == {f[i] : i \in placed}
             Across(s) == IF up THEN Max(ends) - s ELSE s - Min(ends)
             frets == {Fret(notes[i], f[i]) : i \in placed} \ {0}
             t == [fold |-> "strum", placed |-> placed, notes |-> notes, f |-> f,
                   crossed |-> [i \in placed |-> Across(f[i])]]
  <2>1. PICK w : /\ Strum(g, notes, up) = Unprepare(SettleHand(w[1 .. N], frets))
                 /\ IsWalk(t, g, N, w)
    BY StrumIsAWalk
  <2>2. t.fold = "strum"
    OBVIOUS
  <2> HIDE DEF t, frets, N
  <2> QED
    BY <2>1, <2>2
<1>2. PICK t, w, frets : /\ Strum(g, notes, up) = Unprepare(SettleHand(w[1 .. N], frets))
                         /\ IsWalk(t, g, N, w) /\ t.fold = "strum"
  BY <1>1
<1>3. \A x, i : Step(t, x, i) \in {x, StrikeNote(x, t.notes[i], t.f[i], t.crossed[i])}
  BY <1>2 DEF Step
<1>4. \A x : Carried(t, g, x) <=> Keeps(g, x)
  BY <1>2 DEF Carried
<1>5. N \in Nat
  OBVIOUS
<1> HIDE DEF N
<1>6. ASSUME NEW x, NEW i \in 1 .. N, Carried(t, g, x)
      PROVE  Carried(t, g, Step(t, x, i))
  <2>1. QueuesFine(x) /\ Keeps(g, x)
    BY <1>4, <1>6 DEF Keeps
  <2>2. Keeps(x, StrikeNote(x, t.notes[i], t.f[i], t.crossed[i]))
    BY <2>1, StrikeNoteKeeps
  <2> QED
    BY <1>3, <1>4, <2>1, <2>2, KeepsOn
<1>7. Carried(t, g, g)
  BY <1>4 DEF Keeps
<1> DEFINE struck == w[1 .. N]
           settled == SettleHand(struck, frets)
<1>8. Keeps(g, struck) /\ QueuesFine(struck)
  BY <1>2, <1>4, <1>5, <1>6, <1>7, WalkCarries DEF Keeps
<1> HIDE DEF struck
<1>9. Still(struck, settled)
  BY <1>8 DEF QueuesFine, Queues, Still, SettleHand
<1>10. Keeps(struck, settled) /\ QueuesFine(settled)
  BY <1>8, <1>9, StillKeeps DEF Keeps
<1> HIDE DEF settled
<1>11. Keeps(settled, Unprepare(settled))
  BY <1>10, UnprepareKeeps
<1> QED
  BY <1>2, <1>8, <1>10, <1>11, KeepsOn DEF struck, settled

\* A stroke's note leaves the rest to come a sequence.
LEMMA StrokeOneKeeps ==
    ASSUME NEW x, DOMAIN x = {"g", "notes"}, QueuesFine(x.g),
           x.notes \in Seq(ToSet(x.notes)), NEW k, NEW sounding
    PROVE  LET y == StrokeOne(x, k, sounding)
           IN DOMAIN y = {"g", "notes"} /\ Keeps(x.g, y.g) /\ y.notes \in Seq(ToSet(y.notes))
<1> DEFINE a == [x EXCEPT !.g = PlayOnSoundingString(@, k, sounding)]
           b == [x EXCEPT !.g = PlayHarmonic(@, k)]
           c == [x EXCEPT !.notes = Append(@, k)]
<1>1. Keeps(x.g, x.g)
  BY DEF Keeps
<1>2. /\ DOMAIN a = {"g", "notes"} /\ a.notes = x.notes
      /\ a.g = PlayOnSoundingString(x.g, k, sounding)
  OBVIOUS
<1>3. DOMAIN b = {"g", "notes"} /\ b.g = PlayHarmonic(x.g, k) /\ b.notes = x.notes
  OBVIOUS
<1>4. DOMAIN c = {"g", "notes"} /\ c.g = x.g /\ c.notes = Append(x.notes, k)
  OBVIOUS
<1>5. c.notes \in Seq(ToSet(c.notes))
  <2> DEFINE q == x.notes
             r == Append(q, k)
             S == ToSet(q)
  <2>1. q \in Seq(S)
    OBVIOUS
  <2> HIDE DEF q, S
  <2>2. r \in Seq(S \cup {k})
    <3>1. q \in Seq(S \cup {k})
      BY <2>1, SeqMonotonic
    <3> QED
      BY <3>1
  <2> HIDE DEF r
  <2>3. \A i \in 1 .. Len(r) : r[i] \in ToSet(r)
    BY <2>2 DEF ToSet
  <2>4. r \in Seq(ToSet(r))
    BY <2>2, <2>3
  <2> QED
    BY <1>4, <2>4 DEF r, q
<1>6. StrokeOne(x, k, sounding) \in {a, b, c, x}
  BY DEF StrokeOne
<1> HIDE DEF a, b, c
<1>7. Keeps(x.g, a.g) /\ Keeps(x.g, b.g)
  BY <1>2, <1>3, LineKeeps, HarmonicKeeps
<1> QED
  BY <1>1, <1>2, <1>3, <1>4, <1>5, <1>6, <1>7

\* The notes of a stroke, one after the other.
LEMMA StrokeIsAWalk ==
    ASSUME NEW g, NEW S, g.pending \in Seq(S), NEW up, NEW sounding
    PROVE  LET N == Len(g.pending)
               b == [g |-> [g EXCEPT !.nextUp = ~up, !.pending = <<>>], notes |-> <<>>]
               t == [fold |-> "stroke", notes |-> InNoteOrder(g.pending),
                     sounding |-> sounding]
           IN \E w : /\ IsWalk(t, b, N, w)
                     /\ StartStroke(g, up, sounding) =
                          IF w[1 .. N].notes = <<>> THEN w[1 .. N].g
                          ELSE Strum(w[1 .. N].g, w[1 .. N].notes, up)
<1> DEFINE begun == [g EXCEPT !.nextUp = ~up, !.pending = <<>>]
           q == InNoteOrder(g.pending)
           b == [g |-> begun, notes |-> <<>>]
           One(acc, k) ==
               IF Continues(acc.g, k, sounding)
               THEN [acc EXCEPT !.g = PlayOnSoundingString(@, k, sounding)]
               ELSE IF HasHarmonic(acc.g, k) THEN [acc EXCEPT !.g = PlayHarmonic(@, k)]
               ELSE IF Len(acc.notes) < Len(OpenNote) THEN [acc EXCEPT !.notes = Append(@, k)]
               ELSE acc
           all == FoldLeft(One, b, q)
           t == [fold |-> "stroke", notes |-> q, sounding |-> sounding]
           Folded(it) == it = [s \in SUBSET DOMAIN q |->
                                 IF s = {} THEN b
                                 ELSE One(it[s \ {Max(s)}], q[Max(s)])]
           w == CHOOSE it : Folded(it)
           N == Len(g.pending)
<1>1. N \in Nat /\ DOMAIN q = 1 .. N
  BY DEF InNoteOrder
<1>2. StartStroke(g, up, sounding) =
         IF all.notes = <<>> THEN all.g ELSE Strum(all.g, all.notes, up)
  BY DEF StartStroke
<1>3. all = w[1 .. N]
  BY <1>1 DEF FoldLeft, MapThenFoldSet
<1>4. \A x : \A i \in 1 .. N : Step(t, x, i) = StrokeOne(x, q[i], sounding)
  BY DEF Step
<1>5. \A x : \A i \in 1 .. N : Step(t, x, i) = One(x, q[i])
  BY <1>4 DEF StrokeOne
<1> HIDE DEF w, t, q, N, One, begun, b, all
<1>9. ASSUME NEW it PROVE IsWalk(t, b, N, it) <=> Folded(it)
  <2>1. \A s \in SUBSET (1 .. N) : s # {} =>
           Step(t, it[s \ {Max(s)}], Max(s)) = One(it[s \ {Max(s)}], q[Max(s)])
    BY <1>1, <1>5, MaxOfPart
  <2> DEFINE A == [s \in SUBSET (1 .. N) |->
                     IF s = {} THEN b ELSE Step(t, it[s \ {Max(s)}], Max(s))]
             B == [s \in SUBSET (1 .. N) |->
                     IF s = {} THEN b ELSE One(it[s \ {Max(s)}], q[Max(s)])]
  <2>2. A = B
    BY <2>1
  <2>3. IsWalk(t, b, N, it) <=> it = A
    BY DEF IsWalk
  <2>4. Folded(it) <=> it = B
    BY <1>1
  <2> QED
    BY <2>2, <2>3, <2>4
<1>10. IsWalk(t, b, N, w)
  <2>1. \E it : Folded(it)
    <3>1. PICK it : IsWalk(t, b, N, it)
      BY <1>1, Walks
    <3>2. Folded(it)
      BY <1>9, <3>1
    <3> QED
      BY <3>2
  <2>2. Folded(w)
    BY <2>1 DEF w
  <2> QED
    BY <1>9, <2>2
<1>11. StartStroke(g, up, sounding) =
          IF w[1 .. N].notes = <<>> THEN w[1 .. N].g
          ELSE Strum(w[1 .. N].g, w[1 .. N].notes, up)
  BY <1>2, <1>3
<1> QED
  BY <1>10, <1>11 DEF b, begun, t, q, N

LEMMA StrokeKeeps ==
    ASSUME NEW g, QueuesFine(g), NEW up, NEW sounding
    PROVE  Keeps(g, StartStroke(g, up, sounding))
<1> DEFINE begun == [g EXCEPT !.nextUp = ~up, !.pending = <<>>]
           q == InNoteOrder(g.pending)
           b == [g |-> begun, notes |-> <<>>]
           t == [fold |-> "stroke", notes |-> q, sounding |-> sounding]
           N == Len(g.pending)
<1>1. N \in Nat
  BY DEF QueuesFine
<1>2. PICK w : /\ IsWalk(t, b, N, w)
               /\ StartStroke(g, up, sounding) =
                    IF w[1 .. N].notes = <<>> THEN w[1 .. N].g
                    ELSE Strum(w[1 .. N].g, w[1 .. N].notes, up)
  BY StrokeIsAWalk DEF QueuesFine
<1> DEFINE all == w[1 .. N]
<1>4. \A x : \A i \in 1 .. N : Step(t, x, i) = StrokeOne(x, q[i], sounding)
  BY DEF Step
<1>6. \A x : Carried(t, b, x) <=>
         DOMAIN x = {"g", "notes"} /\ Keeps(begun, x.g) /\ x.notes \in Seq(ToSet(x.notes))
  BY DEF Carried
<1>7. Keeps(g, begun)
  BY DEF Keeps, QueuesFine, Queues
<1>8. DOMAIN b = {"g", "notes"} /\ b.g = begun /\ b.notes = <<>>
  OBVIOUS
<1> HIDE DEF t, q, N, begun, b
<1>11. ASSUME NEW x, NEW i \in 1 .. N, Carried(t, b, x)
       PROVE  Carried(t, b, Step(t, x, i))
  <2> DEFINE y == StrokeOne(x, q[i], sounding)
  <2>1. /\ DOMAIN x = {"g", "notes"} /\ Keeps(begun, x.g) /\ QueuesFine(x.g)
        /\ x.notes \in Seq(ToSet(x.notes))
    BY <1>6, <1>11 DEF Keeps
  <2>2. DOMAIN y = {"g", "notes"} /\ Keeps(x.g, y.g) /\ y.notes \in Seq(ToSet(y.notes))
    BY <2>1, StrokeOneKeeps
  <2> HIDE DEF y
  <2>3. Keeps(begun, y.g)
    BY <2>1, <2>2, KeepsOn
  <2>4. Step(t, x, i) = y
    BY <1>4 DEF y
  <2> QED
    BY <1>6, <2>2, <2>3, <2>4
<1>12. Carried(t, b, b)
  <2>1. Keeps(begun, begun)
    BY <1>7 DEF Keeps
  <2>2. b.notes \in Seq(ToSet(b.notes))
    BY <1>8 DEF ToSet
  <2> QED
    BY <1>6, <1>8, <2>1, <2>2
<1>13. Carried(t, b, all)
  BY <1>1, <1>2, <1>11, <1>12, WalkCarries
<1> HIDE DEF all
<1>14. Keeps(g, all.g) /\ QueuesFine(all.g) /\ all.notes \in Seq(ToSet(all.notes))
  BY <1>6, <1>7, <1>13, KeepsOn DEF Keeps
<1>15. Keeps(all.g, Strum(all.g, all.notes, up))
  BY <1>14, StrumKeeps
<1> QED
  BY <1>2, <1>14, <1>15, KeepsOn DEF all, N, b, begun, t, q
-----------------------------------------------------------------------------
(* The lookahead, and the events as they come due.                         *)

LEMMA SendFingerKeeps ==
    ASSUME NEW g, QueuesFine(g), NEW k, NEW s, NEW start, NEW due
    PROVE  Keeps(g, SendFinger(g, k, s, start, due))
<1> SUFFICES ASSUME NEW room, NEW fret
             PROVE  LET sent == [g EXCEPT !.strings[s].prepared = Note[k],
                                          !.strings[s].due = due]
                    IN /\ Keeps(g, g)
                       /\ Keeps(g, Schedule(Schedule(sent, Shift(s, start, room)),
                                            Press(s, start + room, fret)))
                       /\ Keeps(g, Schedule(sent, Press(s, start, fret)))
  BY DEF SendFinger
<1> DEFINE sent == [g EXCEPT !.strings[s].prepared = Note[k], !.strings[s].due = due]
           shifted == Schedule(sent, Shift(s, start, room))
           pressed == Schedule(shifted, Press(s, start + room, fret))
           still == Schedule(sent, Press(s, start, fret))
<1>1. Keeps(g, g)
  BY DEF Keeps
<1>2. Keeps(g, sent) /\ QueuesFine(sent)
  <2>1. Still(g, sent)
    BY DEF QueuesFine, Queues, Still
  <2> QED
    BY <2>1, StillKeeps DEF Keeps
<1> HIDE DEF sent
<1>3. Keeps(sent, Schedule(sent, Shift(s, start, room)))
  BY <1>2, SchedulesKeep
<1>4. Keeps(sent, shifted) /\ QueuesFine(shifted)
  BY <1>3 DEF Keeps
<1>5. Keeps(sent, Schedule(sent, Press(s, start, fret)))
  BY <1>2, SchedulesKeep
<1> HIDE DEF shifted
<1>6. Keeps(shifted, Schedule(shifted, Press(s, start + room, fret)))
  BY <1>4, SchedulesKeep
<1>7. Keeps(g, Schedule(shifted, Press(s, start + room, fret)))
  BY <1>2, <1>4, <1>6, KeepsOn
<1>8. Keeps(g, Schedule(sent, Press(s, start, fret)))
  BY <1>2, <1>5, KeepsOn
<1> QED
  BY <1>1, <1>7, <1>8 DEF shifted, sent

\* The messages of h wait as long as those of g.
Paced(g, h) ==
    /\ QueuesFine(h) /\ h.controls = g.controls
    /\ Len(h.delayed) = Len(g.delayed)
    /\ \A i \in 1 .. Len(g.delayed) : h.delayed[i].wait = g.delayed[i].wait

LEMMA KeepsIsPaced ==
    ASSUME NEW g, NEW h, Keeps(g, h)
    PROVE  Paced(g, h)
BY DEF Keeps, Paced

LEMMA PacedOn ==
    ASSUME NEW g, NEW h, NEW i, Paced(g, h), Keeps(h, i)
    PROVE  Paced(g, i)
BY DEF Keeps, Paced

\* Reading ahead marks messages as read, and sends fingers.
MarksOnly(g, h) == \E q : h = [g EXCEPT !.delayed = q]
SendsAlong(g, h) ==
    \E t, w : \E N \in Nat : t.fold = "send" /\ IsWalk(t, g, N, w) /\ h = w[1 .. N]

LEMMA PrepareIsAWalk ==
    ASSUME NEW g, QueuesFine(g), NEW due
    PROVE  \E read, sent :
             /\ Paced(g, read) /\ MarksOnly(g, read)
             /\ PrepareNotes(g, due) \in {read, sent} /\ SendsAlong(read, sent)
<1> DEFINE unread == Unread(g, due)
           some == {i \in unread : Place(unread, i) <= Len(OpenNote)}
           N == Cardinality(some)
           notes == [n \in 1..N |-> g.delayed[CHOOSE i \in some : Place(some, i) = n].key]
           Mark(i) == [g.delayed[i] EXCEPT !.read = @ \/ i \in some]
           read == [g EXCEPT !.delayed = [i \in DOMAIN @ |-> Mark(i)]]
           seq == [i \in DOMAIN notes |-> i]
<1>1. N \in Nat
  <2>1. some \subseteq 1 .. Len(g.delayed) /\ Len(g.delayed) \in Nat
    BY DEF Unread, QueuesFine
  <2>2. IsFiniteSet(1 .. Len(g.delayed))
    BY <2>1, FS_Interval
  <2> QED
    BY <2>1, <2>2, FS_Subset, FS_CardinalityType
<1> HIDE DEF some, N
<1>2. DOMAIN seq = 1 .. N /\ \A i \in 1 .. N : seq[i] = i
  OBVIOUS
<1>3. Paced(g, read) /\ MarksOnly(g, read)
  <2> DEFINE q == g.delayed
             r == [i \in DOMAIN q |-> Mark(i)]
  <2>1. q \in Seq(Messages) /\ Len(q) \in Nat /\ DOMAIN q = 1 .. Len(q)
    BY DEF QueuesFine
  <2>2. ASSUME NEW i \in 1 .. Len(q)
        PROVE  Mark(i) \in Messages /\ Mark(i).wait = q[i].wait
    <3>1. q[i] \in Messages
      BY <2>1
    <3>2. \A m \in Messages : \A b \in BOOLEAN :
             /\ [m EXCEPT !.read = b] \in Messages
             /\ [m EXCEPT !.read = b].wait = m.wait
      BY DEF Messages
    <3>3. (q[i].read \/ i \in some) \in BOOLEAN
      OBVIOUS
    <3> QED
      BY <3>1, <3>2, <3>3
  <2>4. read = [g EXCEPT !.delayed = r]
    OBVIOUS
  <2> HIDE DEF q, Mark
  <2>3. r \in Seq(Messages) /\ Len(r) = Len(q) /\ \A i \in 1 .. Len(q) : r[i].wait = q[i].wait
    BY <2>1, <2>2
  <2> HIDE DEF r, read
  <2>5. /\ read.delayed = r /\ read.controls = g.controls
        /\ read.pending = g.pending /\ read.events = g.events /\ DOMAIN read = DOMAIN g
    BY <2>4 DEF QueuesFine, Queues
  <2> QED
    BY <2>1, <2>3, <2>4, <2>5 DEF Paced, QueuesFine, MarksOnly, q
<1> DEFINE ahead == SelectSeq(g.delayed, LAMBDA m : m.wait <= due)
           Lifts(s) == SelectSeq(ahead, LAMBDA m :
                           /\ m.kind = "off" /\ ~g.pedal
                           /\ g.strings[s].down /\ g.strings[s].key = m.key)
           held == [s \in Strings |-> g.strings[s].down /\ Lifts(s) = <<>>]
           freeAt == [s \in Strings |-> LastOr(Lifts(s), [wait |-> 0]).wait]
           f == Assign(g, held, notes)
           One(h, i) == IF f[i] = 0 THEN h
                        ELSE IF held[f[i]] THEN h
                        ELSE SendFinger(h, notes[i], f[i], freeAt[f[i]], due)
           sent == FoldLeft(One, read, seq)
           t == [fold |-> "send", notes |-> notes, f |-> f, held |-> held,
                 freeAt |-> freeAt, due |-> due]
           Folded(it) == it = [s \in SUBSET DOMAIN seq |->
                                 IF s = {} THEN read
                                 ELSE One(it[s \ {Max(s)}], seq[Max(s)])]
           w == CHOOSE it : Folded(it)
<1>0. PrepareNotes(g, due) = read \/ PrepareNotes(g, due) = sent
  BY DEF PrepareNotes, N, some
<1> HIDE DEF notes, read, f, held, freeAt
<1>4. sent = w[1 .. N]
  BY <1>2 DEF FoldLeft, MapThenFoldSet
<1>5. \A x : \A i \in 1 .. N : Step(t, x, i) = One(x, seq[i])
  BY <1>2 DEF Step
<1>6. t.fold = "send"
  OBVIOUS
<1> HIDE DEF w, t, seq, One
<1>8. ASSUME NEW it PROVE IsWalk(t, read, N, it) <=> Folded(it)
  <2>1. \A s \in SUBSET (1 .. N) : s # {} =>
           Step(t, it[s \ {Max(s)}], Max(s)) = One(it[s \ {Max(s)}], seq[Max(s)])
    BY <1>1, <1>2, <1>5, MaxOfPart
  <2> DEFINE A == [s \in SUBSET (1 .. N) |->
                     IF s = {} THEN read ELSE Step(t, it[s \ {Max(s)}], Max(s))]
             B == [s \in SUBSET (1 .. N) |->
                     IF s = {} THEN read ELSE One(it[s \ {Max(s)}], seq[Max(s)])]
  <2>2. A = B
    BY <2>1
  <2>3. IsWalk(t, read, N, it) <=> it = A
    BY DEF IsWalk
  <2>4. Folded(it) <=> it = B
    BY <1>2
  <2> QED
    BY <2>2, <2>3, <2>4
<1>9. IsWalk(t, read, N, w)
  <2>1. \E it : Folded(it)
    <3>1. PICK it : IsWalk(t, read, N, it)
      BY <1>1, Walks
    <3>2. Folded(it)
      BY <1>8, <3>1
    <3> QED
      BY <3>2
  <2>2. Folded(w)
    BY <2>1 DEF w
  <2> QED
    BY <1>8, <2>2
<1>10. PrepareNotes(g, due) \in {read, sent}
  BY <1>0
<1> HIDE DEF sent
<1>11. SendsAlong(read, sent)
  <2>1. t.fold = "send" /\ IsWalk(t, read, N, w) /\ sent = w[1 .. N]
    BY <1>4, <1>6, <1>9
  <2> QED
    BY <1>1, <2>1 DEF SendsAlong
<1> QED
  BY <1>3, <1>10, <1>11

SendsOne(t, x, i) == SendFinger(x, t.notes[i], t.f[i], t.freeAt[t.f[i]], t.due)

LEMMA PrepareIsPaced ==
    ASSUME NEW g, QueuesFine(g), NEW due
    PROVE  Paced(g, PrepareNotes(g, due))
<1>1. PICK read, sent :
         /\ Paced(g, read) /\ MarksOnly(g, read)
         /\ PrepareNotes(g, due) \in {read, sent} /\ SendsAlong(read, sent)
  BY PrepareIsAWalk
<1>2. PICK t, w : \E N \in Nat :
         t.fold = "send" /\ IsWalk(t, read, N, w) /\ sent = w[1 .. N]
  BY <1>1 DEF SendsAlong
<1>0. PICK N \in Nat : IsWalk(t, read, N, w) /\ sent = w[1 .. N]
  BY <1>2
<1>3. \A x, i : Step(t, x, i) \in {x, SendsOne(t, x, i)}
  BY <1>2 DEF Step, SendsOne
<1>4. \A x : Carried(t, read, x) <=> Keeps(read, x)
  BY <1>2 DEF Carried
<1>5. ASSUME NEW x, NEW i \in 1 .. N, Carried(t, read, x)
      PROVE  Carried(t, read, Step(t, x, i))
  <2>1. QueuesFine(x) /\ Keeps(read, x)
    BY <1>4, <1>5 DEF Keeps
  <2>2. Keeps(x, SendsOne(t, x, i))
    BY <2>1, SendFingerKeeps DEF SendsOne
  <2> QED
    BY <1>3, <1>4, <2>1, <2>2, KeepsOn
<1>6. Carried(t, read, read)
  BY <1>1, <1>4 DEF Keeps, Paced
<1>7. Keeps(read, sent)
  BY <1>0, <1>4, <1>5, <1>6, WalkCarries
<1>8. Paced(g, sent)
  BY <1>1, <1>7, PacedOn
<1> QED
  BY <1>1, <1>8

LEMMA StrikeStringKeeps ==
    ASSUME NEW g, QueuesFine(g), NEW e
    PROVE  Keeps(g, StrikeString(g, e))
<1> DEFINE s == e.string
           under == StrikeUnderHand(g, s)
           stopped == SetFret(LiftRestingHand(g), s, e.fret)
           pinched == Schedule(SetDamper(stopped, s, Touched),
                               Event("liftTouch", s, TouchTicks))
           touched == SetDamper(stopped, s, e.touch)
           free == StrikeFree(g, e)
           laid == IF g.damping THEN under ELSE free
           struck == Pluck(laid, s)
<1>1. Keeps(g, under)
  <2> DEFINE d == SetDamper(g, s, Flesh)
             f == SetFret(d, s, 0)
  <2>1. Keeps(g, d) /\ QueuesFine(d)
    BY GuitarIsStill DEF Keeps
  <2> HIDE DEF d
  <2>2. Keeps(d, f) /\ QueuesFine(f)
    BY <2>1, GuitarIsStill DEF Keeps
  <2>3. under = [f EXCEPT !.strings[s].fretted = FALSE, !.strings[s].resting = TRUE]
    BY DEF StrikeUnderHand, d
  <2> HIDE DEF f, under
  <2>4. Still(f, under)
    BY <2>2, <2>3 DEF QueuesFine, Queues, Still
  <2>5. Keeps(f, under)
    BY <2>2, <2>4, StillKeeps
  <2> QED
    BY <2>1, <2>2, <2>5, KeepsOn
<1>2. Keeps(g, free)
  <2>1. Keeps(g, LiftRestingHand(g)) /\ QueuesFine(LiftRestingHand(g))
    BY HandKeeps DEF Keeps
  <2>2. Keeps(LiftRestingHand(g), stopped) /\ QueuesFine(stopped)
    BY <2>1, GuitarIsStill DEF Keeps
  <2>3. Keeps(g, stopped)
    BY <2>1, <2>2, KeepsOn
  <2> HIDE DEF stopped
  <2>4. Keeps(stopped, touched) /\ Keeps(stopped, SetDamper(stopped, s, Touched))
    BY <2>2, GuitarIsStill
  <2>5. Keeps(SetDamper(stopped, s, Touched), pinched)
    BY <2>4, SchedulesKeep DEF Keeps
  <2>6. free = pinched \/ free = touched
    BY DEF StrikeFree, stopped
  <2> QED
    BY <2>3, <2>4, <2>5, <2>6, KeepsOn
<1> HIDE DEF under, free
<1>3. Keeps(g, laid) /\ QueuesFine(laid)
  BY <1>1, <1>2 DEF Keeps
<1>4. StrikeString(g, e) = struck \/ StrikeString(g, e) = Release(struck, s)
  BY DEF StrikeString, under, free
<1> HIDE DEF laid
<1>5. Keeps(laid, struck) /\ QueuesFine(struck)
  BY <1>3, GuitarIsStill DEF Keeps
<1> HIDE DEF struck
<1>6. Keeps(struck, Release(struck, s))
  BY <1>5, ReleaseKeeps
<1> QED
  BY <1>3, <1>4, <1>5, <1>6, KeepsOn

LEMMA FingersKeep ==
    ASSUME NEW g, QueuesFine(g), NEW e
    PROVE  /\ Keeps(g, LeaveString(g, e.string)) /\ Keeps(g, LiftTouch(g, e.string))
           /\ Keeps(g, StartShift(g, e)) /\ Keeps(g, PressFret(g, e))
<1> DEFINE s == e.string
<1>1. Keeps(g, g)
  BY DEF Keeps
<1>2. Keeps(g, LeaveString(g, s)) /\ Keeps(g, LiftTouch(g, s))
  BY <1>1, GuitarIsStill DEF LeaveString, LiftTouch
<1>3. Keeps(g, StartShift(g, e))
  <2> DEFINE r == Rub(g, s, e.length > 0)
             h == [r EXCEPT !.strings[s].shift = e.length]
  <2>1. Keeps(g, r) /\ QueuesFine(r)
    BY GuitarIsStill DEF Keeps
  <2> HIDE DEF r
  <2>2. Still(r, h)
    BY <2>1 DEF QueuesFine, Queues, Still
  <2>3. Keeps(g, h)
    BY <2>1, <2>2, StillKeeps, KeepsOn
  <2> QED
    BY <1>1, <2>3 DEF StartShift, r
<1>4. Keeps(g, PressFret(g, e))
  <2> DEFINE still == IF g.strings[s].shift > 0 THEN Rub(g, s, FALSE) ELSE g
             lain == SetDamper(still, s, Free)
             down == SetFret(lain, s, e.fret)
             h == [down EXCEPT !.strings[s].shift = 0, !.strings[s].fret = e.fret,
                               !.strings[s].fretted = TRUE, !.strings[s].released = FALSE]
  <2>0. Keeps(g, Rub(g, s, FALSE))
    BY GuitarIsStill
  <2>1. Keeps(g, still) /\ QueuesFine(still)
    BY <1>1, <2>0 DEF Keeps
  <2>2. PressFret(g, e) = g \/ PressFret(g, e) = h
    BY DEF PressFret
  <2> HIDE DEF still
  <2>3. Keeps(still, lain) /\ QueuesFine(lain)
    BY <2>1, GuitarIsStill DEF Keeps
  <2> HIDE DEF lain
  <2>4. Keeps(lain, down) /\ QueuesFine(down)
    BY <2>3, GuitarIsStill DEF Keeps
  <2> HIDE DEF down
  <2>5. Still(down, h)
    BY <2>4 DEF QueuesFine, Queues, Still
  <2>6. Keeps(g, h)
    BY <2>1, <2>3, <2>4, <2>5, StillKeeps, KeepsOn
  <2> QED
    BY <1>1, <2>2, <2>6
<1> QED
  BY <1>2, <1>3, <1>4

LEMMA RunEventIsPaced ==
    ASSUME NEW g, QueuesFine(g), NEW e, e.kind \in EventKinds
    PROVE  Paced(g, RunEvent(g, e))
<1>1. Paced(g, PrepareNotes(g, e.due))
  BY PrepareIsPaced
<1>2. /\ Paced(g, LeaveString(g, e.string)) /\ Paced(g, LiftTouch(g, e.string))
      /\ Paced(g, StartShift(g, e)) /\ Paced(g, PressFret(g, e))
      /\ Paced(g, StrikeString(g, e))
  BY FingersKeep, StrikeStringKeeps, KeepsIsPaced
<1> QED
  BY <1>1, <1>2 DEF RunEvent, EventKinds
-----------------------------------------------------------------------------
(* Held-back MIDI.                                                         *)

InOrder(g) ==
    /\ \A i, j \in DOMAIN g.delayed : i < j => g.delayed[i].wait <= g.delayed[j].wait
    /\ g.delayed # <<>> => g.controls.lookahead

LEMMA PacedIsInOrder ==
    ASSUME NEW g, NEW h, QueuesFine(g), InOrder(g), Paced(g, h)
    PROVE  QueuesFine(h) /\ InOrder(h)
<1>1. /\ g.delayed \in Seq(Messages) /\ h.delayed \in Seq(Messages)
      /\ Len(h.delayed) = Len(g.delayed) /\ h.controls = g.controls
      /\ \A i \in 1 .. Len(g.delayed) : h.delayed[i].wait = g.delayed[i].wait
  BY DEF QueuesFine, Paced
<1>2. DOMAIN h.delayed = 1 .. Len(g.delayed) /\ DOMAIN g.delayed = 1 .. Len(g.delayed)
  BY <1>1
<1>3. h.delayed # <<>> => g.delayed # <<>>
  BY <1>1
<1> QED
  BY <1>1, <1>2, <1>3 DEF InOrder, Paced

LEMMA KeepsIsInOrder ==
    ASSUME NEW g, NEW h, QueuesFine(g), InOrder(g), Keeps(g, h)
    PROVE  QueuesFine(h) /\ InOrder(h)
BY DEF InOrder, Keeps

LEMMA EmptyIsInOrder ==
    ASSUME NEW g, g.delayed = <<>>
    PROVE  InOrder(g)
BY DEF InOrder

\* The oldest message plays, the others move up.
LEMMA OldestIsInOrder ==
    ASSUME NEW g, QueuesFine(g), InOrder(g), g.delayed # <<>>
    PROVE  /\ QueuesFine(Oldest(g)) /\ InOrder(Oldest(g))
           /\ Oldest(g).controls = g.controls
<1> DEFINE q == g.delayed
           h == [g EXCEPT !.delayed = Tail(@)]
<1>1. q \in Seq(Messages) /\ q # <<>>
  BY DEF QueuesFine
<1>2. /\ Head(q) \in Messages /\ Tail(q) \in Seq(Messages) /\ Len(Tail(q)) = Len(q) - 1
      /\ \A i \in 1 .. Len(q) - 1 : Tail(q)[i] = q[i + 1]
  BY <1>1
<1>3. QueuesFine(h) /\ h.delayed = Tail(q) /\ h.controls = g.controls
  BY <1>2 DEF QueuesFine, Queues
<1>4. InOrder(h)
  <2>1. \A i, j \in 1 .. Len(q) : i < j => q[i].wait <= q[j].wait
    BY <1>1 DEF InOrder
  <2>2. DOMAIN Tail(q) = 1 .. Len(q) - 1 /\ Len(q) \in Nat
    BY <1>1, <1>2
  <2> HIDE DEF q, h
  <2>3. ASSUME NEW i \in 1 .. Len(q) - 1, NEW j \in 1 .. Len(q) - 1, i < j
        PROVE  Tail(q)[i].wait <= Tail(q)[j].wait
    <3>1. i + 1 \in 1 .. Len(q) /\ j + 1 \in 1 .. Len(q) /\ i + 1 < j + 1
      BY <2>2, <2>3
    <3> QED
      BY <1>2, <2>1, <3>1
  <2>4. g.controls.lookahead
    BY DEF InOrder
  <2> QED
    BY <1>3, <2>2, <2>3, <2>4 DEF InOrder
<1>5. Oldest(g) = Dispatch(h, Head(q))
  BY DEF Oldest
<1> HIDE DEF h, q
<1>6. Keeps(h, Oldest(g))
  BY <1>2, <1>3, <1>5, DispatchKeeps
<1>7. QueuesFine(Oldest(g)) /\ InOrder(Oldest(g))
  BY <1>3, <1>4, <1>6, KeepsIsInOrder
<1> QED
  BY <1>3, <1>6, <1>7 DEF Keeps

\* What arrives goes last, and no message waits longer than it.
LEMMA ReceiveIsInOrder ==
    ASSUME NEW g, QueuesFine(g), InOrder(g),
           NEW kind \in {"on", "off", "pedal"}, NEW k \in AllKeys
    PROVE  QueuesFine(Receive(g, kind, k)) /\ InOrder(Receive(g, kind, k))
<1> DEFINE m == [kind |-> kind, key |-> k, wait |-> Latency(g), read |-> FALSE]
           room == IF Len(g.delayed) < MaxMidi THEN g ELSE Oldest(g)
           last == [room EXCEPT !.delayed = Append(@, m)]
<1>1. m \in Messages /\ m.wait = Latency(g)
  BY QueueAssumption DEF Messages, Latency
<1>2. Receive(g, kind, k) = IF Latency(g) = 0 THEN Dispatch(g, m) ELSE last
  BY DEF Receive
<1>3. CASE Latency(g) = 0
  <2>1. Keeps(g, Dispatch(g, m))
    BY <1>1, DispatchKeeps
  <2> QED
    BY <1>2, <1>3, <2>1, KeepsIsInOrder
<1>4. CASE Latency(g) # 0
  <2>1. g.controls.lookahead /\ Latency(g) = Lookahead
    BY <1>4 DEF Latency
  <2>2. QueuesFine(room) /\ InOrder(room) /\ room.controls = g.controls
    <3>1. CASE Len(g.delayed) < MaxMidi
      BY <3>1
    <3>2. CASE ~(Len(g.delayed) < MaxMidi)
      <4>1. g.delayed # <<>>
        BY <3>2, QueueAssumption DEF QueuesFine
      <4> QED
        BY <3>2, <4>1, OldestIsInOrder
    <3> QED
      BY <3>1, <3>2
  <2> DEFINE q == room.delayed
             r == Append(q, m)
  <2> HIDE DEF room, m
  <2>3. q \in Seq(Messages)
    BY <2>2 DEF QueuesFine
  <2>4. /\ r \in Seq(Messages) /\ DOMAIN r = 1 .. Len(q) + 1 /\ r[Len(q) + 1] = m
        /\ \A i \in 1 .. Len(q) : r[i] = q[i]
        /\ Len(q) \in Nat
    BY <1>1, <2>3
  <2>5. QueuesFine(last) /\ last.delayed = r /\ last.controls = g.controls
    BY <2>2, <2>4 DEF QueuesFine, Queues
  <2>6. \A i, j \in 1 .. Len(q) : i < j => q[i].wait <= q[j].wait
    BY <2>2, <2>3 DEF InOrder
  <2>7. \A i \in 1 .. Len(q) : q[i].wait \in 0 .. Lookahead
    <3>1. \A i \in 1 .. Len(q) : q[i] \in Messages
      BY <2>3
    <3> QED
      BY <3>1 DEF Messages
  <2> HIDE DEF q, r
  <2>8. ASSUME NEW i \in 1 .. Len(q) + 1, NEW j \in 1 .. Len(q) + 1, i < j
        PROVE  r[i].wait <= r[j].wait
    <3>1. i \in 1 .. Len(q) /\ (j \in 1 .. Len(q) \/ j = Len(q) + 1)
      BY <2>4, <2>8
    <3>2. CASE j \in 1 .. Len(q)
      BY <2>4, <2>6, <2>8, <3>1, <3>2
    <3>3. CASE j = Len(q) + 1
      <4>1. r[j].wait = Lookahead /\ r[i].wait \in 0 .. Lookahead
        BY <1>1, <2>1, <2>4, <2>7, <3>1, <3>3
      <4> QED
        BY <4>1, QueueAssumption
    <3> QED
      BY <3>1, <3>2, <3>3
  <2>9. InOrder(last)
    BY <2>1, <2>4, <2>5, <2>8 DEF InOrder
  <2> QED
    BY <1>2, <1>4, <2>5, <2>9
<1> QED
  BY <1>3, <1>4

LEMMA NoteOnIsInOrder ==
    ASSUME NEW g, QueuesFine(g), InOrder(g), NEW k \in AllKeys
    PROVE  QueuesFine(ReceiveNoteOn(g, k)) /\ InOrder(ReceiveNoteOn(g, k))
<1> DEFINE h == Receive(g, "on", k)
<1>1. QueuesFine(h) /\ InOrder(h)
  BY ReceiveIsInOrder
<1>2. ReceiveNoteOn(g, k) = h \/ ReceiveNoteOn(g, k) = Schedule(h, Prepare(Latency(g)))
  BY DEF ReceiveNoteOn
<1> HIDE DEF h
<1>3. Keeps(h, Schedule(h, Prepare(Latency(g))))
  BY <1>1, SchedulesKeep
<1> QED
  BY <1>1, <1>2, <1>3, KeepsIsInOrder

LEMMA SilenceIsInOrder ==
    ASSUME NEW g, QueuesFine(g)
    PROVE  QueuesFine(Silence(g)) /\ InOrder(Silence(g))
<1> DEFINE h == Forget(g)
           down == EachString(PutDown, h)
           some == {s \in Strings : g.strings[s].key # None}
<1>1. QueuesFine(h) /\ h.delayed = <<>>
  <2>1. IsQueue(<<>>)
    BY DEF IsQueue, ToSet
  <2> QED
    BY <2>1 DEF Forget, QueuesFine, Queues
<1>2. Silence(g) = ReleaseAll(down, some)
  BY DEF Silence
<1> HIDE DEF h, some
<1>3. Keeps(h, down) /\ QueuesFine(down)
  BY <1>1, HandsAreStill, StillKeeps DEF EachString, Keeps
<1> HIDE DEF down
<1>4. Keeps(down, ReleaseAll(down, some))
  BY <1>3, ReleaseAllKeeps
<1>5. Keeps(h, Silence(g))
  BY <1>2, <1>3, <1>4, KeepsOn
<1> QED
  BY <1>1, <1>5, EmptyIsInOrder DEF Keeps

\* Switching the lookahead off plays what waits.
LEMMA ControlsAreInOrder ==
    ASSUME NEW g, QueuesFine(g), InOrder(g), NEW c
    PROVE  QueuesFine(ChooseControls(g, c)) /\ InOrder(ChooseControls(g, c))
<1> DEFINE h == IF c.lookahead THEN g ELSE Flush(g)
           i == [h EXCEPT !.controls = c]
<1>1. QueuesFine(h) /\ (h.delayed = <<>> \/ (c.lookahead /\ h = g))
  <2>1. QueuesFine(Flush(g)) /\ Flush(g).delayed = <<>>
    BY FlushEmpties
  <2>2. CASE c.lookahead
    BY <2>2
  <2>3. CASE ~c.lookahead
    BY <2>1, <2>3
  <2> QED
    BY <2>2, <2>3
<1>2. ChooseControls(g, c) = i
  BY DEF ChooseControls
<1> HIDE DEF h
<1>3. QueuesFine(i) /\ i.delayed = h.delayed /\ i.controls = c
  BY <1>1 DEF QueuesFine, Queues
<1>4. InOrder(i)
  BY <1>1, <1>3 DEF InOrder
<1> QED
  BY <1>2, <1>3, <1>4

LEMMA SoonerStays ==
    ASSUME NEW q, IsQueue(q)
    PROVE  IsQueue(AllSooner(q))
<1> DEFINE r == AllSooner(q)
<1>1. q \in Seq(ToSet(q)) /\ Len(q) \in Nat /\ DOMAIN q = 1 .. Len(q)
  BY DEF IsQueue
<1>2. r = [i \in 1 .. Len(q) |-> [q[i] EXCEPT !.wait = Sooner(@)]]
  BY <1>1 DEF AllSooner
<1> HIDE DEF r
<1>3. \A i \in 1 .. Len(q) : r[i] \in ToSet(r)
  BY <1>2 DEF ToSet
<1>4. r \in Seq(ToSet(r))
  <2> DEFINE S == ToSet(r)
  <2>1. r = [i \in 1 .. Len(q) |-> r[i]]
    BY <1>2
  <2>2. \A i \in 1 .. Len(q) : r[i] \in S
    BY <1>3
  <2> HIDE DEF S
  <2>3. r \in [1 .. Len(q) -> S]
    BY <2>1, <2>2
  <2>4. r \in Seq(S)
    BY <1>1, <2>3
  <2> QED
    BY <2>4 DEF S
<1>5. \A i \in DOMAIN r : {"kind", "string"} \subseteq DOMAIN r[i] /\ r[i].kind \in EventKinds
  <2> SUFFICES ASSUME NEW i \in DOMAIN r
               PROVE  {"kind", "string"} \subseteq DOMAIN r[i] /\ r[i].kind \in EventKinds
    OBVIOUS
  <2>1. i \in DOMAIN q /\ r[i] = [q[i] EXCEPT !.wait = Sooner(@)]
    BY <1>1, <1>2
  <2>2. {"kind", "string"} \subseteq DOMAIN q[i] /\ q[i].kind \in EventKinds
    BY <2>1 DEF IsQueue
  <2> QED
    BY <2>1, <2>2
<1> QED
  BY <1>4, <1>5 DEF IsQueue, r

LEMMA TickIsInOrder ==
    ASSUME NEW g, QueuesFine(g), InOrder(g)
    PROVE  QueuesFine(Countdown(g)) /\ InOrder(Countdown(g))
<1> DEFINE h == Countdown(g)
           q == g.delayed
           r == AllSooner(q)
<1>1. /\ DOMAIN h = DOMAIN g /\ h.pending = g.pending /\ h.events = AllSooner(g.events)
      /\ h.delayed = r /\ h.controls = g.controls
  BY DEF Countdown, QueuesFine, Queues
<1>2. q \in Seq(Messages) /\ Len(q) \in Nat /\ DOMAIN q = 1 .. Len(q)
  BY DEF QueuesFine
<1>3. \A m \in Messages :
         /\ [m EXCEPT !.wait = Sooner(@)] \in Messages
         /\ [m EXCEPT !.wait = Sooner(@)].wait = Sooner(m.wait)
  BY QueueAssumption DEF Messages, Sooner
<1>4. r = [i \in 1 .. Len(q) |-> [q[i] EXCEPT !.wait = Sooner(@)]]
  BY <1>2 DEF AllSooner
<1> HIDE DEF r, h
<1>5. \A i \in 1 .. Len(q) : r[i] \in Messages /\ r[i].wait = Sooner(q[i].wait)
  BY <1>2, <1>3, <1>4
<1>6. r \in Seq(Messages) /\ DOMAIN r = 1 .. Len(q)
  <2>1. r = [i \in 1 .. Len(q) |-> r[i]]
    BY <1>4
  <2>2. r \in [1 .. Len(q) -> Messages]
    BY <1>5, <2>1
  <2> QED
    BY <1>2, <2>2
<1>7. QueuesFine(h)
  BY <1>1, <1>6, SoonerStays DEF QueuesFine
<1>8. ASSUME NEW i \in 1 .. Len(q), NEW j \in 1 .. Len(q), i < j
      PROVE  r[i].wait <= r[j].wait
  <2>1. q[i].wait <= q[j].wait
    BY <1>2, <1>8 DEF InOrder
  <2>2. q[i].wait \in Nat /\ q[j].wait \in Nat
    <3>1. q[i] \in Messages /\ q[j] \in Messages
      BY <1>2
    <3> QED
      BY <3>1 DEF Messages
  <2>3. Sooner(q[i].wait) <= Sooner(q[j].wait)
    BY <2>1, <2>2 DEF Sooner
  <2> QED
    BY <1>5, <2>3
<1>9. r # <<>> => q # <<>>
  BY <1>2, <1>6
<1>10. InOrder(h)
  BY <1>1, <1>6, <1>8, <1>9 DEF InOrder
<1> QED
  BY <1>7, <1>10 DEF h

-----------------------------------------------------------------------------
(* The invariant, and the theorem.                                         *)

MidiInv == QueuesFine(player) /\ NoMidiIsOvertaken /\ plays \in Players

LEMMA OvertakenIs == NoMidiIsOvertaken <=> InOrder(player)
BY DEF NoMidiIsOvertaken, InOrder

LEMMA NewIsFine ==
    ASSUME NEW c
    PROVE  QueuesFine(NewPlayer(c)) /\ NewPlayer(c).delayed = <<>>
<1>1. IsQueue(<<>>)
  BY DEF IsQueue, ToSet
<1> QED
  BY <1>1 DEF NewPlayer, QueuesFine, Queues

LEMMA MidiInitially == Init => MidiInv
<1> SUFFICES ASSUME Init PROVE MidiInv
  OBVIOUS
<1>1. PICK c : player = NewPlayer(c)
  BY DEF Init
<1>2. QueuesFine(player) /\ player.delayed = <<>>
  BY <1>1, NewIsFine
<1> QED
  BY <1>2, EmptyIsInOrder, OvertakenIs DEF Init, MidiInv

LEMMA PlayersKeys ==
    ASSUME plays \in Players
    PROVE  plays.styles \cup plays.strokes \subseteq AllKeys
<1>1. plays \in Player
  BY PlayerAssumption
<1> QED
  BY <1>1 DEF Player, AllKeys

LEMMA StrokeIfPendingIsInOrder ==
    ASSUME QueuesFine(player), InOrder(player), StrokeIfPending
    PROVE  QueuesFine(player') /\ InOrder(player')
<1>1. CASE UNCHANGED player
  BY <1>1
<1>2. ASSUME NEW up, NEW sounding, player' = StartStroke(player, up, sounding)
      PROVE  QueuesFine(player') /\ InOrder(player')
  <2>1. Keeps(player, player')
    BY <1>2, StrokeKeeps
  <2> QED
    BY <2>1, KeepsIsInOrder
<1> QED
  BY <1>1, <1>2 DEF StrokeIfPending

LEMMA MidiStep == MidiInv /\ [Next]_vars => MidiInv'
<1> SUFFICES ASSUME QueuesFine(player), InOrder(player), plays \in Players, [Next]_vars
             PROVE  QueuesFine(player') /\ InOrder(player') /\ plays' \in Players
  <2>1. NoMidiIsOvertaken' <=> InOrder(player')
    BY DEF NoMidiIsOvertaken, InOrder
  <2> QED
    BY <2>1, OvertakenIs DEF MidiInv
<1>1. ASSUME NEW k \in Keys \cup {Damp}, NoteOn(k)
      PROVE  QueuesFine(player') /\ InOrder(player') /\ plays' = plays
  <2>1. k \in AllKeys
    BY DEF AllKeys
  <2> QED
    BY <1>1, <2>1, NoteOnIsInOrder DEF NoteOn, Calls
<1>2. ASSUME NEW k \in Keys \cup {Damp}, NoteOff(k)
      PROVE  QueuesFine(player') /\ InOrder(player') /\ plays' = plays
  <2>1. k \in AllKeys
    BY DEF AllKeys
  <2> QED
    BY <1>2, <2>1, ReceiveIsInOrder DEF NoteOff, Calls
<1>3. ASSUME NEW k \in plays.styles \cup plays.strokes, Keyswitch(k)
      PROVE  QueuesFine(player') /\ InOrder(player') /\ plays' = plays
  <2>1. k \in AllKeys
    BY PlayersKeys
  <2> QED
    BY <1>3, <2>1, NoteOnIsInOrder DEF Keyswitch, Calls
<1>4. ASSUME NEW on \in BOOLEAN, Sustain(on)
      PROVE  QueuesFine(player') /\ InOrder(player') /\ plays' = plays
  <2>1. (IF on THEN "down" ELSE "up") \in AllKeys
    BY DEF AllKeys
  <2> QED
    BY <1>4, <2>1, ReceiveIsInOrder DEF Sustain, Calls
<1>5. ASSUME NEW c \in plays.controls, SetControls(c)
      PROVE  QueuesFine(player') /\ InOrder(player') /\ plays' = plays
  BY <1>5, ControlsAreInOrder DEF SetControls, Calls
<1>6. ASSUME AllNotesOff
      PROVE  QueuesFine(player') /\ InOrder(player') /\ plays' = plays
  BY <1>6, SilenceIsInOrder DEF AllNotesOff, Calls
<1>7. ASSUME Reset
      PROVE  QueuesFine(player') /\ InOrder(player') /\ plays' = plays
  <2> DEFINE new == NewPlayer(player.controls)
  <2>1. QueuesFine(new) /\ new.delayed = <<>>
    BY NewIsFine
  <2>2. player' = [new EXCEPT !.style = player.style, !.stroke = player.stroke]
    BY <1>7 DEF Reset
  <2> HIDE DEF new
  <2>3. Still(new, player')
    BY <2>1, <2>2 DEF Still, QueuesFine, Queues
  <2>4. Keeps(new, player')
    BY <2>1, <2>3, StillKeeps
  <2>5. InOrder(player')
    BY <2>1, <2>4, EmptyIsInOrder DEF Keeps
  <2> QED
    BY <1>7, <2>4, <2>5 DEF Reset, Calls, Keeps
<1>8. ASSUME BeginRender \/ MidiDone
      PROVE  QueuesFine(player') /\ InOrder(player') /\ plays' = plays
  BY <1>8, StrokeIfPendingIsInOrder DEF BeginRender, MidiDone
<1>9. ASSUME DispatchDue
      PROVE  QueuesFine(player') /\ InOrder(player') /\ plays' = plays
  BY <1>9, OldestIsInOrder DEF DispatchDue, MidiIsDue
<1>10. ASSUME RunDueEvent
       PROVE  QueuesFine(player') /\ InOrder(player') /\ plays' = plays
  <2> DEFINE q == player.events
             e == Head(q)
             h == [player EXCEPT !.events = Tail(@)]
  <2>1. q \in Seq(ToSet(q)) /\ q # <<>> /\ IsQueue(q)
    BY <1>10 DEF RunDueEvent, EventIsDue, QueuesFine, IsQueue
  <2>2. e \in ToSet(q) /\ Tail(q) \in Seq(ToSet(q))
    <3> DEFINE S == ToSet(q)
    <3>1. q \in Seq(S)
      BY <2>1
    <3> HIDE DEF S, q
    <3>2. Head(q) \in S /\ Tail(q) \in Seq(S)
      BY <2>1, <3>1
    <3> QED
      BY <3>2 DEF S
  <2>3. e.kind \in EventKinds /\ IsQueue(Tail(q))
    BY <2>1, <2>2, QueueIsOf, QueueOf
  <2>4. Keeps(player, h) /\ QueuesFine(h)
    BY <2>3 DEF Keeps, QueuesFine, Queues
  <2>5. InOrder(h)
    BY <2>4, KeepsIsInOrder
  <2>6. player' = RunEvent(h, e)
    BY <1>10 DEF RunDueEvent
  <2> HIDE DEF h, e
  <2>7. Paced(h, player')
    BY <2>3, <2>4, <2>6, RunEventIsPaced
  <2>8. QueuesFine(player') /\ InOrder(player')
    BY <2>4, <2>5, <2>7, PacedIsInOrder
  <2> QED
    BY <1>10, <2>8 DEF RunDueEvent
<1>11. ASSUME NEW ended, Tick(ended)
       PROVE  QueuesFine(player') /\ InOrder(player') /\ plays' = plays
  <2> DEFINE h == Countdown(player)
  <2>1. QueuesFine(h) /\ InOrder(h)
    BY TickIsInOrder
  <2>2. player' = EachString(LAMBDA g, s : ControlUpdate(g, s, ended), h) /\ plays' = plays
    BY <1>11 DEF Tick
  <2> HIDE DEF h
  <2>3. Keeps(h, player')
    BY <2>1, <2>2, HandsAreStill, StillKeeps DEF EachString
  <2> QED
    BY <2>1, <2>2, <2>3, KeepsIsInOrder
<1>12. CASE UNCHANGED vars
  BY <1>12 DEF vars
<1> QED
  BY <1>1, <1>2, <1>3, <1>4, <1>5, <1>6, <1>7, <1>8, <1>9, <1>10, <1>11, <1>12 DEF Next

\* Held-back MIDI stays in the order of its times, and waits only while the
\* lookahead is on, for every neck, every size of the queues and every player,
\* careful or not.
THEOREM HeldBackMidiStaysInOrder == Spec => []NoMidiIsOvertaken
<1>1. MidiInv => NoMidiIsOvertaken
  BY DEF MidiInv
<1> QED
  BY <1>1, MidiInitially, MidiStep, PTL DEF Spec

-----------------------------------------------------------------------------
(* The hands, whoever plays.                                               *)

\* The player as the class keeps it: every string has all its parts.
PlayerFields == {"strings", "wood", "recent", "pending", "events", "delayed", "pedal",
                 "damping", "nextUp", "hand", "style", "stroke", "controls"}
Fits(st, w) ==
    /\ DOMAIN st = DOMAIN NewString /\ DOMAIN w = DOMAIN NewWood
    /\ {st.down, st.sustained, st.released, st.resting, st.fretted, w.rings} \subseteq BOOLEAN
Shaped(g) ==
    /\ DOMAIN g = PlayerFields
    /\ DOMAIN g.strings = Strings /\ DOMAIN g.wood = Strings
    /\ \A s \in Strings : Fits(g.strings[s], g.wood[s])
Whole(g) == QueuesFine(g) /\ g.pending \in Seq(Keys) /\ Shaped(g)

\* The strings a pick is on its way to.
Picked(q) == {s \in Strings : \E i \in DOMAIN q : q[i].kind = "strike" /\ q[i].string = s}

\* What the two properties say of one string of g.
ForSomebody(st, w, picked) == w.rings => st.key # None /\ (st.down \/ st.sustained \/ picked)
UnderFlesh(st, w) ==
    st.key = None =>
        /\ ~(st.released /\ st.resting)
        /\ st.released \/ (st.resting /\ ~st.fretted) => w.damper = Flesh
Heard(g, s) == ForSomebody(g.strings[s], g.wood[s], s \in Picked(g.events))
Lies(g, s) == UnderFlesh(g.strings[s], g.wood[s])

\* From g to h no string comes to move for nobody, or loses its flesh; a string
\* is safe in h when it does neither there.
Spared(g, h, s) == (Heard(g, s) => Heard(h, s)) /\ (Lies(g, s) => Lies(h, s))
Spares(g, h) == Whole(h) /\ \A s \in Strings : Spared(g, h, s)
Safe(h, s) == Heard(h, s) /\ Lies(h, s)

LEMMA SparesOn ==
    ASSUME NEW g, NEW h, NEW i, Spares(g, h), Spares(h, i)
    PROVE  Spares(g, i)
BY DEF Spares, Spared

LEMMA SparesItself ==
    ASSUME NEW g, Whole(g)
    PROVE  Spares(g, g)
BY DEF Spares, Spared

\* What moves neither strings nor guitar spares them, as long as no pick turns
\* back on its way.
LEMMA HandsUnmoved ==
    ASSUME NEW g, Whole(g), NEW h, QueuesFine(h), h.pending \in Seq(Keys),
           DOMAIN h = DOMAIN g, h.strings = g.strings, h.wood = g.wood,
           Picked(g.events) \subseteq Picked(h.events)
    PROVE  Spares(g, h)
<1>1. Whole(h)
  BY DEF Whole, Shaped
<1> QED
  BY <1>1 DEF Spares, Spared, Heard, Lies, ForSomebody

-----------------------------------------------------------------------------
(* Events join the queue, and none leaves it.                              *)

LEMMA JoinsQueue ==
    ASSUME NEW S, NEW q \in Seq(S), NEW n \in 0 .. Len(q), NEW e \in S
    PROVE  \A i \in DOMAIN q : \E j \in DOMAIN InsertAt(q, n + 1, e) :
              InsertAt(q, n + 1, e)[j] = q[i]
<1> DEFINE a == SubSeq(q, 1, n)
           b == SubSeq(q, n + 1, Len(q))
           r == InsertAt(q, n + 1, e)
<1>1. /\ a \in Seq(S) /\ Len(a) = n /\ \A i \in 1 .. n : a[i] = q[i]
  OBVIOUS
<1>2. /\ b \in Seq(S) /\ Len(b) = Len(q) - n
      /\ \A i \in 1 .. Len(q) - n : b[i] = q[n + i]
  OBVIOUS
<1>3. (n + 1) - 1 = n
  OBVIOUS
<1>4. r = a \o <<e>> \o b
  BY <1>3 DEF InsertAt
<1> HIDE DEF a, b, r
<1>5. a \o <<e>> \in Seq(S) /\ Len(a \o <<e>>) = n + 1
      /\ (\A i \in 1 .. n : (a \o <<e>>)[i] = a[i])
  BY <1>1
<1> DEFINE c == a \o <<e>>
<1> HIDE DEF c
<1>6. r = c \o b /\ c \in Seq(S) /\ Len(c) = n + 1 /\ (\A i \in 1 .. n : c[i] = a[i])
  BY <1>4, <1>5 DEF c
<1>7. r \in Seq(S) /\ Len(r) = Len(q) + 1 /\ \A i \in 1 .. n + 1 : r[i] = c[i]
  BY <1>2, <1>6
<1>8. ASSUME NEW i \in DOMAIN q
      PROVE  \E j \in DOMAIN r : r[j] = q[i]
  <2>0. i \in 1 .. Len(q) /\ DOMAIN r = 1 .. Len(q) + 1
    BY <1>7
  <2>1. CASE i <= n
    <3>1. i \in 1 .. n /\ i \in 1 .. n + 1
      BY <2>0, <2>1
    <3>2. r[i] = c[i]
      BY <1>7, <3>1
    <3> QED
      BY <1>1, <1>6, <2>0, <3>1, <3>2
  <2>2. CASE ~(i <= n)
    <3>1. i + 1 \in DOMAIN r /\ i + 1 \in Len(c) + 1 .. Len(c) + Len(b)
      BY <1>2, <1>6, <2>0, <2>2
    <3>2. r[i + 1] = b[(i + 1) - Len(c)]
      BY <1>2, <1>6, <3>1
    <3>3. (i + 1) - Len(c) = i - n /\ i - n \in 1 .. Len(q) - n /\ n + (i - n) = i
      BY <1>6, <2>0, <2>2
    <3>4. r[i + 1] = q[i]
      BY <1>2, <3>2, <3>3
    <3> QED
      BY <3>1, <3>4
  <2> QED
    BY <2>1, <2>2
<1> QED
  BY <1>8 DEF r

\* Only the events move, and no pick turns back.
EventsJoin(g, h) ==
    /\ Whole(h) /\ \A x \in PlayerFields \ {"events"} : h[x] = g[x]
    /\ Picked(g.events) \subseteq Picked(h.events)

LEMMA ScheduleJoins ==
    ASSUME NEW g, Whole(g), NEW e, {"kind", "string"} \subseteq DOMAIN e, e.kind \in EventKinds
    PROVE  EventsJoin(g, Schedule(g, e))
<1> DEFINE q == g.events
           n == Cardinality({i \in DOMAIN q : q[i].wait <= e.wait})
           r == InsertAt(q, n + 1, e)
           S == ToSet(q) \cup {e}
           h == Schedule(g, e)
<1>1. q \in Seq(ToSet(q)) /\ Len(q) \in Nat /\ DOMAIN q = 1 .. Len(q)
  BY DEF Whole, QueuesFine, IsQueue
<1>2. q \in Seq(S) /\ e \in S
  BY <1>1, SeqMonotonic
<1>3. n \in 0 .. Len(q)
  <2> DEFINE P == {i \in DOMAIN q : q[i].wait <= e.wait}
  <2>1. P \subseteq 1 .. Len(q)
    BY <1>1
  <2>2. IsFiniteSet(1 .. Len(q)) /\ Cardinality(1 .. Len(q)) = Len(q)
    BY <1>1, FS_Interval
  <2>3. Cardinality(P) \in Nat /\ Cardinality(P) <= Len(q)
    <3> HIDE DEF P
    <3> QED
      BY <2>1, <2>2, FS_Subset, FS_CardinalityType
  <2> QED
    BY <1>1, <2>3
<1>4. h = g \/ h = [g EXCEPT !.events = r]
  BY DEF Schedule
<1>5. \A i \in DOMAIN q : \E j \in DOMAIN r : r[j] = q[i]
  <2> HIDE DEF n, S, q
  <2> QED
    BY <1>2, <1>3, JoinsQueue
<1>6. Picked(q) \subseteq Picked(r)
  <2> HIDE DEF q, r
  <2> QED
    BY <1>5 DEF Picked
<1>7. QueuesFine(h)
  BY ScheduleKeeps DEF Whole, Keeps
<1> HIDE DEF r, h
<1>8. h.events \in {q, r} /\ DOMAIN h = DOMAIN g
      /\ \A x \in PlayerFields \ {"events"} : h[x] = g[x]
  BY <1>4 DEF Whole, Shaped, PlayerFields
<1>9. Picked(q) \subseteq Picked(h.events)
  BY <1>6, <1>8
<1>10. Whole(h)
  <2>1. h.pending = g.pending /\ h.strings = g.strings /\ h.wood = g.wood
    BY <1>8 DEF PlayerFields
  <2> QED
    BY <1>7, <1>8, <2>1 DEF Whole, Shaped
<1> QED
  BY <1>8, <1>9, <1>10 DEF EventsJoin, h

LEMMA EventsJoined ==
    ASSUME NEW g, NEW h, Whole(g), EventsJoin(g, h)
    PROVE  Spares(g, h)
<1>1. h.strings = g.strings /\ h.wood = g.wood
  BY DEF EventsJoin, PlayerFields
<1> QED
  BY <1>1 DEF EventsJoin, Spares, Spared, Heard, Lies, ForSomebody

-----------------------------------------------------------------------------
(* One string and its wood move.                                           *)

\* h has the strings, the wood and the picks of g but on string s.
MovesOne(g, h, s) ==
    /\ Whole(h) /\ Picked(g.events) \subseteq Picked(h.events)
    /\ \A t \in Strings \ {s} : h.strings[t] = g.strings[t] /\ h.wood[t] = g.wood[t]

LEMMA OthersSpared ==
    ASSUME NEW g, NEW h, NEW s, MovesOne(g, h, s)
    PROVE  \A t \in Strings \ {s} : Spared(g, h, t)
BY DEF MovesOne, Spared, Heard, Lies, ForSomebody

LEMMA OneSpared ==
    ASSUME NEW g, NEW h, NEW s, MovesOne(g, h, s), s \in Strings => Spared(g, h, s)
    PROVE  Spares(g, h)
BY OthersSpared DEF MovesOne, Spares

\* On the guitar alone.
WoodMoves(g, h, s) ==
    /\ Whole(h) /\ \A x \in PlayerFields \ {"wood"} : h[x] = g[x]
    /\ \A t \in Strings \ {s} : h.wood[t] = g.wood[t]

LEMMA WoodMovesOne ==
    ASSUME NEW g, NEW h, NEW s, WoodMoves(g, h, s)
    PROVE  MovesOne(g, h, s)
<1>1. h.strings = g.strings /\ h.events = g.events
  BY DEF WoodMoves, PlayerFields
<1> QED
  BY <1>1 DEF WoodMoves, MovesOne

\* What each move of the guitar does to the wood.
Refretted(g, h, s) ==
    s \in Strings => /\ h.wood[s].damper = g.wood[s].damper
                     /\ h.wood[s].rings = g.wood[s].rings

LEMMA GuitarMoves ==
    ASSUME NEW g, Whole(g), NEW h, QueuesFine(h), NEW s, NEW w,
           h.pending = g.pending,
           DOMAIN h = DOMAIN g, \A x \in PlayerFields \ {"wood"} : h[x] = g[x],
           DOMAIN h.wood = Strings,
           \A t \in Strings \ {s} : h.wood[t] = g.wood[t],
           s \in Strings => h.wood[s] = w,
           s \in Strings => DOMAIN w = DOMAIN NewWood /\ w.rings \in BOOLEAN
    PROVE  WoodMoves(g, h, s)
<1>1. h.strings = g.strings
  BY DEF PlayerFields
<1>2. ASSUME NEW t \in Strings
      PROVE  Fits(h.strings[t], h.wood[t])
  <2>1. Fits(g.strings[t], g.wood[t])
    BY DEF Whole, Shaped
  <2>2. CASE t = s
    BY <1>1, <2>1, <2>2 DEF Fits
  <2>3. CASE t # s
    BY <1>1, <2>1, <2>3
  <2> QED
    BY <2>2, <2>3
<1> QED
  BY <1>1, <1>2 DEF WoodMoves, Whole, Shaped

LEMMA FretMoves ==
    ASSUME NEW g, Whole(g), NEW s, NEW f
    PROVE  /\ WoodMoves(g, SetFret(g, s, f), s) /\ Refretted(g, SetFret(g, s, f), s)
           /\ WoodMoves(g, LiftFromFret(g, s), s) /\ Refretted(g, LiftFromFret(g, s), s)
<1> DEFINE h == SetFret(g, s, f)
           i == LiftFromFret(g, s)
           v == [g.wood[s] EXCEPT !.fret = f, !.lifted = FALSE]
           w == [g.wood[s] EXCEPT !.lifted = TRUE]
<1>0. DOMAIN g = PlayerFields /\ DOMAIN g.wood = Strings
  BY DEF Whole, Shaped
<1>1. /\ DOMAIN h = DOMAIN g /\ \A x \in PlayerFields \ {"wood"} : h[x] = g[x]
      /\ DOMAIN h.wood = Strings
      /\ \A t \in Strings \ {s} : h.wood[t] = g.wood[t]
      /\ s \in Strings => h.wood[s] = v
  BY <1>0 DEF SetFret, PlayerFields
<1>2. /\ DOMAIN i = DOMAIN g /\ \A x \in PlayerFields \ {"wood"} : i[x] = g[x]
      /\ DOMAIN i.wood = Strings
      /\ \A t \in Strings \ {s} : i.wood[t] = g.wood[t]
      /\ s \in Strings => i.wood[s] = w
  BY <1>0 DEF LiftFromFret, PlayerFields
<1>3. QueuesFine(h) /\ QueuesFine(i)
  BY GuitarIsStill DEF Whole, Keeps
<1> HIDE DEF h, i
<1>4. s \in Strings => /\ DOMAIN v = DOMAIN NewWood /\ v.rings = g.wood[s].rings
                       /\ v.damper = g.wood[s].damper /\ v.rings \in BOOLEAN
                       /\ DOMAIN w = DOMAIN NewWood /\ w.rings = g.wood[s].rings
                       /\ w.damper = g.wood[s].damper /\ w.rings \in BOOLEAN
  BY DEF Whole, Shaped, Fits, NewWood
<1>5. h.pending = g.pending /\ i.pending = g.pending
  BY <1>1, <1>2 DEF PlayerFields
<1> HIDE DEF v, w
<1>6. WoodMoves(g, h, s) /\ WoodMoves(g, i, s)
  BY <1>1, <1>2, <1>3, <1>4, <1>5, GuitarMoves
<1>7. Refretted(g, h, s) /\ Refretted(g, i, s)
  BY <1>1, <1>2, <1>4 DEF Refretted
<1> QED
  BY <1>6, <1>7 DEF h, i

LEMMA RubMoves ==
    ASSUME NEW g, Whole(g), NEW s, NEW on
    PROVE  WoodMoves(g, Rub(g, s, on), s) /\ Refretted(g, Rub(g, s, on), s)
<1> DEFINE h == Rub(g, s, on)
           v == [g.wood[s] EXCEPT !.rubbed = on]
<1>0. DOMAIN g = PlayerFields /\ DOMAIN g.wood = Strings
  BY DEF Whole, Shaped
<1>1. /\ DOMAIN h = DOMAIN g /\ \A x \in PlayerFields \ {"wood"} : h[x] = g[x]
      /\ DOMAIN h.wood = Strings
      /\ \A t \in Strings \ {s} : h.wood[t] = g.wood[t]
      /\ s \in Strings => h.wood[s] = v
  BY <1>0 DEF Rub, PlayerFields
<1>2. QueuesFine(h)
  BY GuitarIsStill DEF Whole, Keeps
<1> HIDE DEF h
<1>3. s \in Strings => /\ DOMAIN v = DOMAIN NewWood /\ v.rings = g.wood[s].rings
                       /\ v.damper = g.wood[s].damper /\ v.rings \in BOOLEAN
  BY DEF Whole, Shaped, Fits, NewWood
<1>4. h.pending = g.pending
  BY <1>1 DEF PlayerFields
<1> HIDE DEF v
<1>5. WoodMoves(g, h, s) /\ Refretted(g, h, s)
  BY <1>1, <1>2, <1>3, <1>4, GuitarMoves DEF Refretted
<1> QED
  BY <1>5 DEF h

LEMMA DamperMoves ==
    ASSUME NEW g, Whole(g), NEW s, NEW d
    PROVE  LET h == SetDamper(g, s, d)
           IN /\ WoodMoves(g, h, s)
              /\ s \in Strings => /\ h.wood[s].damper = d
                                  /\ h.wood[s].rings <=> g.wood[s].rings /\ d # Flesh
<1> DEFINE h == SetDamper(g, s, d)
           v == [g.wood[s] EXCEPT !.damper = d, !.rings = @ /\ d # Flesh]
<1>0. DOMAIN g = PlayerFields /\ DOMAIN g.wood = Strings
  BY DEF Whole, Shaped
<1>1. /\ DOMAIN h = DOMAIN g /\ \A x \in PlayerFields \ {"wood"} : h[x] = g[x]
      /\ DOMAIN h.wood = Strings
      /\ \A t \in Strings \ {s} : h.wood[t] = g.wood[t]
      /\ s \in Strings => h.wood[s] = v
  BY <1>0 DEF SetDamper, PlayerFields
<1>2. QueuesFine(h)
  BY GuitarIsStill DEF Whole, Keeps
<1> HIDE DEF h
<1>3. s \in Strings => /\ DOMAIN v = DOMAIN NewWood /\ v.damper = d
                       /\ v.rings = (g.wood[s].rings /\ d # Flesh)
  BY DEF Whole, Shaped, Fits, NewWood
<1>4. h.pending = g.pending
  BY <1>1 DEF PlayerFields
<1> HIDE DEF v
<1>5. WoodMoves(g, h, s)
  BY <1>1, <1>2, <1>3, <1>4, GuitarMoves
<1> QED
  BY <1>1, <1>3, <1>5 DEF h

LEMMA PluckMoves ==
    ASSUME NEW g, Whole(g), NEW s
    PROVE  LET h == Pluck(g, s)
           IN /\ WoodMoves(g, h, s)
              /\ s \in Strings => /\ h.wood[s].damper = g.wood[s].damper
                                  /\ h.wood[s].rings <=> g.wood[s].damper # Flesh
<1> DEFINE h == Pluck(g, s)
           on == g.wood[s].damper # Flesh
           v == [g.wood[s] EXCEPT !.rings = on]
<1>0. DOMAIN g = PlayerFields /\ DOMAIN g.wood = Strings
  BY DEF Whole, Shaped
<1>1. /\ DOMAIN h = DOMAIN g /\ \A x \in PlayerFields \ {"wood"} : h[x] = g[x]
      /\ DOMAIN h.wood = Strings
      /\ \A t \in Strings \ {s} : h.wood[t] = g.wood[t]
      /\ s \in Strings => h.wood[s] = v
  BY <1>0 DEF Pluck, PlayerFields
<1>2. QueuesFine(h)
  BY GuitarIsStill DEF Whole, Keeps
<1> HIDE DEF h
<1>3. s \in Strings => /\ DOMAIN v = DOMAIN NewWood /\ v.damper = g.wood[s].damper
                       /\ v.rings = on
  BY DEF Whole, Shaped, Fits, NewWood
<1>4. h.pending = g.pending /\ on \in BOOLEAN
  BY <1>1 DEF PlayerFields
<1> HIDE DEF v
<1>5. WoodMoves(g, h, s)
  BY <1>1, <1>2, <1>3, <1>4, GuitarMoves
<1> QED
  BY <1>1, <1>3, <1>5 DEF h

-----------------------------------------------------------------------------
(* The hand on all the strings, and the fingers it lifts.                  *)

LEMMA AllMove ==
    ASSUME NEW g, Whole(g), NEW a, NEW b, DOMAIN a = Strings, DOMAIN b = Strings,
           \A s \in Strings :
              /\ Fits(a[s], b[s])
              /\ Heard(g, s) => ForSomebody(a[s], b[s], s \in Picked(g.events))
              /\ Lies(g, s) => UnderFlesh(a[s], b[s])
    PROVE  LET h == [g EXCEPT !.strings = a, !.wood = b]
           IN Spares(g, h) /\ h.strings = a /\ h.wood = b
              /\ \A x \in PlayerFields \ {"strings", "wood"} : h[x] = g[x]
<1> DEFINE h == [g EXCEPT !.strings = a, !.wood = b]
<1>1. /\ DOMAIN h = DOMAIN g /\ h.strings = a /\ h.wood = b
      /\ \A x \in PlayerFields \ {"strings", "wood"} : h[x] = g[x]
  BY DEF Whole, Shaped, PlayerFields
<1>2. QueuesFine(h)
  BY HandsAreStill, StillKeeps DEF Whole, Keeps
<1> HIDE DEF h
<1>3. h.events = g.events /\ h.pending = g.pending
  BY <1>1 DEF PlayerFields
<1>4. Whole(h)
  BY <1>1, <1>2, <1>3 DEF Whole, Shaped
<1>5. ASSUME NEW s \in Strings
      PROVE  Spared(g, h, s)
  BY <1>1, <1>3 DEF Spared, Heard, Lies
<1> QED
  BY <1>1, <1>4, <1>5 DEF Spares, h

LEMMA RestSpares ==
    ASSUME NEW g, Whole(g)
    PROVE  Spares(g, EachString(RestOnFree, g))
<1> DEFINE a == [s \in Strings |-> RestOnFree(g, s).strings[s]]
           b == [s \in Strings |-> RestOnFree(g, s).wood[s]]
<1>1. EachString(RestOnFree, g) = [g EXCEPT !.strings = a, !.wood = b]
  BY DEF EachString
<1>2. ASSUME NEW s \in Strings
      PROVE  /\ Fits(a[s], b[s])
             /\ Heard(g, s) => ForSomebody(a[s], b[s], s \in Picked(g.events))
             /\ Lies(g, s) => UnderFlesh(a[s], b[s])
  <2> DEFINE st == g.strings[s]
             w == g.wood[s]
             at == a[s]
             bt == b[s]
  <2>0. Fits(st, w)
    BY DEF Whole, Shaped
  <2>1. CASE st.key # None \/ st.released \/ st.resting
    <3>1. at = st /\ bt = w
      BY <2>1 DEF RestOnFree
    <3> HIDE DEF at, bt
    <3> QED
      BY <2>0, <3>1 DEF Heard, Lies, at, bt
  <2>2. CASE ~(st.key # None \/ st.released \/ st.resting)
    <3>1. at = [st EXCEPT !.resting = TRUE]
          /\ bt = [w EXCEPT !.damper = Flesh, !.rings = @ /\ FALSE]
      BY <2>2 DEF RestOnFree, SetDamper, Whole, Shaped, PlayerFields
    <3> HIDE DEF at, bt
    <3>2. DOMAIN bt = DOMAIN NewWood /\ bt.damper = Flesh /\ bt.rings = FALSE
      BY <2>0, <3>1 DEF Fits, NewWood
    <3>3. /\ DOMAIN at = DOMAIN NewString /\ at.resting = TRUE
          /\ at.key = st.key /\ at.down = st.down /\ at.sustained = st.sustained
          /\ at.released = st.released /\ at.fretted = st.fretted
      BY <2>0, <3>1 DEF Fits, NewString
    <3> HIDE DEF st, w
    <3>4. Fits(at, bt)
      BY <2>0, <3>2, <3>3 DEF Fits
    <3>5. ForSomebody(at, bt, s \in Picked(g.events)) /\ UnderFlesh(at, bt)
      BY <2>2, <3>2, <3>3 DEF ForSomebody, UnderFlesh
    <3> QED
      BY <3>4, <3>5 DEF at, bt
  <2> QED
    BY <2>1, <2>2
<1> HIDE DEF a, b
<1>3. DOMAIN a = Strings /\ DOMAIN b = Strings
  BY DEF a, b
<1>4. Spares(g, [g EXCEPT !.strings = a, !.wood = b])
  BY <1>2, <1>3, AllMove
<1> QED
  BY <1>1, <1>4

\* A string that is let go is silent and under flesh, whatever it was before.
LetsGo(g, h, s) ==
    /\ Whole(h)
    /\ s \in Strings => Safe(h, s)
    /\ \A t \in Strings \ {s} : Spared(g, h, t)

LEMMA ReleaseLetsGo ==
    ASSUME NEW g, Whole(g), NEW s
    PROVE  LetsGo(g, Release(g, s), s)
<1> DEFINE st == g.strings[s]
           damped == SetDamper(g, s, Flesh)
           lifting == LiftFromFret(damped, s)
           leaves == Schedule(lifting, Event("leave", s, LiftTicks))
           lifted == IF st.fret = 0 THEN damped ELSE leaves
           new == [NewString EXCEPT !.released = TRUE, !.restFret = st.fret,
                                    !.prepared = st.prepared, !.due = st.due]
           let_go == [lifted EXCEPT !.strings[s] = new]
<1>1. /\ WoodMoves(g, damped, s)
      /\ s \in Strings => damped.wood[s].damper = Flesh /\ ~damped.wood[s].rings
  BY DamperMoves
<1>2. Whole(damped)
  BY <1>1 DEF WoodMoves
<1> HIDE DEF damped
<1>3. WoodMoves(damped, lifting, s) /\ Refretted(damped, lifting, s) /\ Whole(lifting)
  <2>1. /\ Refretted(damped, SetFret(damped, s, 0), s)
        /\ WoodMoves(damped, lifting, s) /\ Refretted(damped, lifting, s)
    BY <1>2, FretMoves
  <2> QED
    BY <2>1 DEF WoodMoves
<1> HIDE DEF lifting
<1>4. EventsJoin(lifting, leaves)
  BY <1>3, ScheduleJoins, EventsFine
<1> HIDE DEF leaves
<1>5. /\ Whole(lifted) /\ lifted.strings = g.strings
      /\ Picked(g.events) \subseteq Picked(lifted.events)
      /\ \A t \in Strings \ {s} : lifted.wood[t] = g.wood[t]
      /\ s \in Strings => lifted.wood[s].damper = Flesh /\ ~lifted.wood[s].rings
  <2>1. /\ damped.strings = g.strings /\ damped.events = g.events
        /\ lifting.strings = g.strings /\ lifting.events = g.events
        /\ leaves.strings = lifting.strings /\ leaves.wood = lifting.wood
    BY <1>1, <1>3, <1>4 DEF WoodMoves, EventsJoin, PlayerFields
  <2>2. CASE st.fret = 0
    BY <1>1, <1>2, <2>1, <2>2 DEF WoodMoves
  <2>3. CASE st.fret # 0
    <3>1. lifted = leaves
      BY <2>3
    <3> HIDE DEF lifted
    <3> QED
      BY <1>1, <1>3, <1>4, <2>1, <3>1 DEF WoodMoves, EventsJoin, Refretted
  <2> QED
    BY <2>2, <2>3
<1>6. /\ DOMAIN new = DOMAIN NewString /\ new.key = None /\ new.released = TRUE
      /\ new.down = FALSE /\ new.sustained = FALSE /\ new.resting = FALSE
      /\ new.fretted = FALSE
  BY DEF NewString
<1> HIDE DEF lifted, new
<1>7. /\ DOMAIN let_go = DOMAIN lifted
      /\ \A x \in PlayerFields \ {"strings"} : let_go[x] = lifted[x]
      /\ DOMAIN let_go.strings = Strings
      /\ \A t \in Strings \ {s} : let_go.strings[t] = g.strings[t]
      /\ s \in Strings => let_go.strings[s] = new
  BY <1>5 DEF Whole, Shaped, PlayerFields
<1>8. QueuesFine(let_go)
  <2>1. Still(lifted, let_go)
    BY <1>5 DEF Whole, QueuesFine, Queues, Still
  <2> QED
    BY <1>5, <2>1, StillKeeps DEF Whole, Keeps
<1> HIDE DEF let_go
<1>9. let_go.wood = lifted.wood /\ let_go.events = lifted.events
      /\ let_go.pending = lifted.pending
  BY <1>7 DEF PlayerFields
<1>10. Whole(let_go)
  <2>1. ASSUME NEW t \in Strings
        PROVE  Fits(let_go.strings[t], let_go.wood[t])
    <3>1. Fits(lifted.strings[t], lifted.wood[t])
      BY <1>5 DEF Whole, Shaped
    <3>2. CASE t = s
      BY <1>6, <1>7, <1>9, <3>1, <3>2 DEF Fits
    <3>3. CASE t # s
      BY <1>5, <1>7, <1>9, <3>1, <3>3
    <3> QED
      BY <3>2, <3>3
  <2> QED
    BY <1>5, <1>7, <1>8, <1>9, <2>1 DEF Whole, Shaped
<1>11. MovesOne(g, let_go, s)
  BY <1>5, <1>7, <1>9, <1>10 DEF MovesOne
<1>12. s \in Strings => Safe(let_go, s)
  BY <1>5, <1>6, <1>7, <1>9 DEF Safe, Heard, Lies, ForSomebody, UnderFlesh
<1>13. Spares(let_go, EachString(RestOnFree, let_go))
  BY <1>10, RestSpares
<1>14. Release(g, s) = EachString(RestOnFree, let_go)
  BY DEF Release, let_go, lifted, leaves, lifting, damped, new
<1> QED
  BY <1>11, <1>12, <1>13, <1>14, OthersSpared DEF LetsGo, Spares, Spared, Safe

LEMMA ReleaseSpares ==
    ASSUME NEW g, Whole(g), NEW s
    PROVE  Spares(g, Release(g, s))
BY ReleaseLetsGo DEF LetsGo, Spares, Spared, Safe

\* What every step of a walk spares, the walk does.
LEMMA WalkSpares ==
    ASSUME NEW t, NEW b, Whole(b), NEW N \in Nat, NEW w, IsWalk(t, b, N, w),
           \A x : \A i \in 1 .. N : Whole(x) => Spares(x, Step(t, x, i))
    PROVE  Spares(b, w[1 .. N])
<1>1. /\ w[1 .. 0] = b
      /\ \A n \in 0 .. N : n < N => w[1 .. n + 1] = Step(t, w[1 .. n], n + 1)
  <2>1. Walked(t, b, N, w)
    BY WalkSteps
  <2> QED
    BY <2>1 DEF Walked
<1> DEFINE G == {n \in 0 .. N : Spares(b, w[1 .. n])}
<1>2. 0 \in G
  BY <1>1, SparesItself
<1>3. ASSUME NEW n \in G, n < N
      PROVE  n + 1 \in G
  <2>1. Spares(b, w[1 .. n]) /\ n + 1 \in 1 .. N /\ n + 1 \in 0 .. N
    BY <1>3
  <2>2. Whole(w[1 .. n])
    BY <2>1 DEF Spares
  <2>3. Spares(w[1 .. n], w[1 .. n + 1])
    BY <1>1, <1>3, <2>1, <2>2
  <2>4. Spares(b, w[1 .. n + 1])
    BY <2>1, <2>3, SparesOn
  <2> QED
    BY <2>1, <2>4
<1>4. N \in G
  <2>1. G \in SUBSET (0 .. N)
    OBVIOUS
  <2> HIDE DEF G
  <2> QED
    BY <1>2, <1>3, <2>1, WalkUp
<1> QED
  BY <1>4

LEMMA ReleaseAllLetsGo ==
    ASSUME NEW g, Whole(g), NEW some
    PROVE  LET h == ReleaseAll(g, some)
           IN Spares(g, h) /\ \A s \in Strings \cap some : Safe(h, s)
<1> DEFINE t == [fold |-> "release", some |-> some]
           Good(x, n) == Spares(g, x) /\ \A s \in (1 .. n) \cap Strings \cap some : Safe(x, s)
<1>1. PICK N \in Nat : \E w : /\ Strings = 1 .. N /\ ReleaseAll(g, some) = w[1 .. N]
                              /\ IsWalk(t, g, N, w)
  BY ReleaseAllIsAWalk
<1>2. PICK w : ReleaseAll(g, some) = w[1 .. N] /\ IsWalk(t, g, N, w)
  BY <1>1
<1>3. \A x, i : Step(t, x, i) = IF i \in some THEN Release(x, i) ELSE x
  BY DEF Step
<1> HIDE DEF t
<1>4. /\ w[1 .. 0] = g
      /\ \A n \in 0 .. N : n < N => w[1 .. n + 1] = Step(t, w[1 .. n], n + 1)
  <2>1. Walked(t, g, N, w)
    BY <1>2, WalkSteps
  <2> QED
    BY <2>1 DEF Walked
<1> DEFINE G == {n \in 0 .. N : Good(w[1 .. n], n)}
<1>5. 0 \in G
  <2>1. Good(g, 0)
    BY SparesItself
  <2> HIDE DEF Good
  <2> QED
    BY <1>4, <2>1
<1>6. ASSUME NEW n \in G, n < N
      PROVE  n + 1 \in G
  <2> DEFINE x == w[1 .. n]
             y == w[1 .. n + 1]
  <2>1. Good(x, n) /\ n \in Nat /\ n + 1 \in Strings /\ n + 1 \in 0 .. N
    BY <1>1, <1>6
  <2>2. y = IF n + 1 \in some THEN Release(x, n + 1) ELSE x
    BY <1>3, <1>4, <1>6
  <2> HIDE DEF x, y
  <2>3. CASE n + 1 \in some
    <3>1. Spares(x, y) /\ Safe(y, n + 1)
      BY <2>1, <2>2, <2>3, ReleaseSpares, ReleaseLetsGo DEF Spares, LetsGo
    <3>2. \A s \in (1 .. n) \cap Strings \cap some : Safe(y, s)
      BY <2>1, <3>1 DEF Spares, Spared, Safe
    <3>3. \A s \in 1 .. n + 1 : s \in 1 .. n \/ s = n + 1
      BY <2>1
    <3>4. \A s \in (1 .. n + 1) \cap Strings \cap some : Safe(y, s)
      BY <3>1, <3>2, <3>3
    <3>5. Spares(g, y)
      BY <2>1, <3>1, SparesOn
    <3> QED
      BY <2>1, <3>4, <3>5 DEF y
  <2>4. CASE n + 1 \notin some
    <3>1. \A s \in (1 .. n + 1) \cap some : s \in 1 .. n
      BY <2>1, <2>4
    <3> QED
      BY <2>1, <2>2, <2>4, <3>1 DEF y
  <2> QED
    BY <2>3, <2>4
<1>7. N \in G
  <2>1. G \in SUBSET (0 .. N)
    OBVIOUS
  <2> HIDE DEF G
  <2> QED
    BY <1>5, <1>6, <2>1, WalkUp
<1> QED
  BY <1>1, <1>2, <1>7

\* The hand takes itself off the strings it rests on, and only itself.
LEMMA HandLifts ==
    ASSUME NEW g, Whole(g)
    PROVE  LET h == LiftRestingHand(g)
           IN /\ Spares(g, h)
              /\ \A x \in PlayerFields \ {"strings", "wood"} : h[x] = g[x]
              /\ \A s \in Strings : /\ h.strings[s].key = g.strings[s].key
                                    /\ h.strings[s].down = g.strings[s].down
                                    /\ h.strings[s].sustained = g.strings[s].sustained
<1> DEFINE a == [s \in Strings |-> LiftOne(g, s).strings[s]]
           b == [s \in Strings |-> LiftOne(g, s).wood[s]]
<1>1. LiftRestingHand(g) = [g EXCEPT !.strings = a, !.wood = b]
  BY DEF LiftRestingHand, EachString
<1>2. ASSUME NEW s \in Strings
      PROVE  /\ Fits(a[s], b[s])
             /\ Heard(g, s) => ForSomebody(a[s], b[s], s \in Picked(g.events))
             /\ Lies(g, s) => UnderFlesh(a[s], b[s])
             /\ a[s].key = g.strings[s].key /\ a[s].down = g.strings[s].down
             /\ a[s].sustained = g.strings[s].sustained
  <2> DEFINE st == g.strings[s]
             w == g.wood[s]
             at == a[s]
             bt == b[s]
  <2>0. Fits(st, w)
    BY DEF Whole, Shaped
  <2>1. CASE ~st.resting
    <3>1. at = st /\ bt = w
      BY <2>1 DEF LiftOne
    <3> HIDE DEF at, bt
    <3> QED
      BY <2>0, <3>1 DEF Heard, Lies, at, bt
  <2>2. CASE st.resting
    <3>1. at = [st EXCEPT !.resting = FALSE]
          /\ bt = [w EXCEPT !.damper = Free, !.rings = @ /\ TRUE]
      BY <2>2 DEF LiftOne, SetDamper, Whole, Shaped, PlayerFields, Free, Flesh
    <3> HIDE DEF at, bt
    <3>2. DOMAIN bt = DOMAIN NewWood /\ bt.rings = w.rings
      BY <2>0, <3>1 DEF Fits, NewWood
    <3>3. /\ DOMAIN at = DOMAIN NewString /\ at.resting = FALSE
          /\ at.key = st.key /\ at.down = st.down /\ at.sustained = st.sustained
          /\ at.released = st.released /\ at.fretted = st.fretted
      BY <2>0, <3>1 DEF Fits, NewString
    <3>4. Heard(g, s) <=> ForSomebody(st, w, s \in Picked(g.events))
      BY DEF Heard
    <3>5. Lies(g, s) <=> UnderFlesh(st, w)
      BY DEF Lies
    <3> HIDE DEF st, w
    <3>6. Fits(at, bt)
      BY <2>0, <3>2, <3>3 DEF Fits
    <3>7. Heard(g, s) => ForSomebody(at, bt, s \in Picked(g.events))
      BY <3>2, <3>3, <3>4 DEF ForSomebody
    <3>8. Lies(g, s) => UnderFlesh(at, bt)
      BY <2>2, <3>3, <3>5 DEF UnderFlesh
    <3> QED
      BY <3>3, <3>6, <3>7, <3>8 DEF at, bt, st
  <2> QED
    BY <2>1, <2>2
<1> HIDE DEF a, b
<1>3. DOMAIN a = Strings /\ DOMAIN b = Strings
  BY DEF a, b
<1> DEFINE h == [g EXCEPT !.strings = a, !.wood = b]
<1>4. Spares(g, h) /\ h.strings = a /\ h.wood = b
      /\ \A x \in PlayerFields \ {"strings", "wood"} : h[x] = g[x]
  <2>1. \A s \in Strings :
           /\ Fits(a[s], b[s])
           /\ Heard(g, s) => ForSomebody(a[s], b[s], s \in Picked(g.events))
           /\ Lies(g, s) => UnderFlesh(a[s], b[s])
    BY <1>2
  <2>2. Spares(g, [g EXCEPT !.strings = a, !.wood = b])
    BY <1>3, <2>1, AllMove
  <2> QED
    BY <2>2 DEF Whole, Shaped, PlayerFields
<1> HIDE DEF h
<1> QED
  BY <1>1, <1>2, <1>4 DEF h

LEMMA DampSpares ==
    ASSUME NEW g, Whole(g), NEW on
    PROVE  Spares(g, DampStrings(g, on))
<1> DEFINE h == [g EXCEPT !.damping = on]
<1>1. DOMAIN h = DOMAIN g /\ \A x \in PlayerFields \ {"damping"} : h[x] = g[x]
  BY DEF Whole, Shaped, PlayerFields
<1>2. QueuesFine(h)
  <2>1. Still(g, h)
    BY DEF Whole, QueuesFine, Queues, Still
  <2> QED
    BY <2>1, StillKeeps DEF Whole, Keeps
<1> HIDE DEF h
<1>3. Spares(g, h) /\ Whole(h)
  <2>1. /\ h.strings = g.strings /\ h.wood = g.wood /\ h.events = g.events
        /\ h.pending = g.pending
    BY <1>1 DEF PlayerFields
  <2>2. Spares(g, h)
    BY <1>1, <1>2, <2>1, HandsUnmoved DEF Whole
  <2> QED
    BY <2>2 DEF Spares
<1> DEFINE a == [s \in Strings |-> DampOne(h, s).strings[s]]
           b == [s \in Strings |-> DampOne(h, s).wood[s]]
<1>4. EachString(DampOne, h) = [h EXCEPT !.strings = a, !.wood = b]
  BY DEF EachString
<1>5. ASSUME NEW s \in Strings
      PROVE  /\ Fits(a[s], b[s])
             /\ Heard(h, s) => ForSomebody(a[s], b[s], s \in Picked(h.events))
             /\ Lies(h, s) => UnderFlesh(a[s], b[s])
  <2> DEFINE at == a[s]
             bt == b[s]
             damped == SetDamper(h, s, Flesh)
             open == IF h.strings[s].fret > 0 THEN SetFret(damped, s, 0) ELSE damped
  <2>1. WoodMoves(h, damped, s) /\ damped.wood[s].damper = Flesh /\ ~damped.wood[s].rings
    BY <1>3, DamperMoves
  <2> HIDE DEF damped
  <2>2. WoodMoves(damped, SetFret(damped, s, 0), s) /\ Refretted(damped, SetFret(damped, s, 0), s)
    BY <2>1, FretMoves DEF WoodMoves
  <2>3. Whole(open) /\ open.wood[s].damper = Flesh /\ ~open.wood[s].rings
    BY <2>1, <2>2 DEF WoodMoves, Refretted
  <2>4. DampOne(h, s) = [open EXCEPT !.strings[s] = [NewString EXCEPT !.resting = TRUE]]
    BY DEF DampOne, damped
  <2> HIDE DEF open
  <2>5. at = [NewString EXCEPT !.resting = TRUE] /\ bt = open.wood[s]
    BY <2>3, <2>4 DEF Whole, Shaped, PlayerFields
  <2> HIDE DEF at, bt
  <2>6. /\ DOMAIN at = DOMAIN NewString /\ at.key = None /\ at.resting = TRUE
        /\ at.down = FALSE /\ at.sustained = FALSE /\ at.released = FALSE
        /\ at.fretted = FALSE
    BY <2>5 DEF NewString
  <2>7. DOMAIN bt = DOMAIN NewWood /\ bt.rings \in BOOLEAN /\ bt.damper = Flesh /\ ~bt.rings
    BY <2>3, <2>5 DEF Whole, Shaped, Fits
  <2> QED
    BY <2>6, <2>7 DEF Fits, ForSomebody, UnderFlesh, at, bt
<1> HIDE DEF a, b
<1>6. DOMAIN a = Strings /\ DOMAIN b = Strings
  BY DEF a, b
<1>7. Spares(h, EachString(DampOne, h))
  <2>1. Spares(h, [h EXCEPT !.strings = a, !.wood = b])
    BY <1>3, <1>5, <1>6, AllMove
  <2> QED
    BY <1>4, <2>1
<1>8. Spares(h, LiftRestingHand(h))
  BY <1>3, HandLifts
<1>9. DampStrings(g, on) \in {EachString(DampOne, h), LiftRestingHand(h)}
  BY DEF DampStrings, h
<1> QED
  BY <1>3, <1>7, <1>8, <1>9, SparesOn

-----------------------------------------------------------------------------
(* What the MIDI does to the hands.                                        *)

\* What the performer keeps of a string moves.
LEMMA StringMoves ==
    ASSUME NEW g, Whole(g), NEW h, NEW s, NEW st,
           DOMAIN h = DOMAIN g, \A x \in PlayerFields \ {"strings"} : h[x] = g[x],
           DOMAIN h.strings = Strings,
           \A t \in Strings \ {s} : h.strings[t] = g.strings[t],
           s \in Strings => h.strings[s] = st,
           s \in Strings =>
              /\ DOMAIN st = DOMAIN NewString
              /\ {st.down, st.sustained, st.released, st.resting, st.fretted} \subseteq BOOLEAN
    PROVE  MovesOne(g, h, s) /\ h.wood = g.wood /\ h.events = g.events
<1>1. /\ h.wood = g.wood /\ h.events = g.events /\ h.pending = g.pending
      /\ h.delayed = g.delayed /\ h.controls = g.controls
  BY DEF PlayerFields
<1>2. QueuesFine(h)
  BY <1>1 DEF Whole, QueuesFine
<1>3. ASSUME NEW t \in Strings
      PROVE  Fits(h.strings[t], h.wood[t])
  <2>1. Fits(g.strings[t], g.wood[t])
    BY DEF Whole, Shaped
  <2>2. CASE t = s
    BY <1>1, <2>1, <2>2 DEF Fits
  <2>3. CASE t # s
    BY <1>1, <2>1, <2>3
  <2> QED
    BY <2>2, <2>3
<1> QED
  BY <1>1, <1>2, <1>3 DEF MovesOne, Whole, Shaped

\* None of what the properties speak of.
LEMMA SameHands ==
    ASSUME NEW g, NEW h, NEW s, MovesOne(g, h, s),
           s \in Strings =>
              /\ h.strings[s].key = g.strings[s].key
              /\ h.strings[s].down = g.strings[s].down
              /\ h.strings[s].sustained = g.strings[s].sustained
              /\ h.strings[s].released = g.strings[s].released
              /\ h.strings[s].resting = g.strings[s].resting
              /\ h.strings[s].fretted = g.strings[s].fretted
              /\ h.wood[s].damper = g.wood[s].damper /\ h.wood[s].rings = g.wood[s].rings
    PROVE  Spares(g, h)
<1>1. s \in Strings => Spared(g, h, s)
  BY DEF MovesOne, Spared, Heard, Lies, ForSomebody, UnderFlesh
<1> QED
  BY <1>1, OneSpared

LEMMA PlayNoteOnSpares ==
    ASSUME NEW g, Whole(g), NEW k \in AllKeys
    PROVE  Spares(g, PlayNoteOn(g, k))
<1>0. Spares(g, g) /\ Spares(g, DampStrings(g, TRUE)) /\ DOMAIN g = PlayerFields
      /\ g.pending \in Seq(Keys) /\ QueuesFine(g)
  BY SparesItself, DampSpares DEF Whole, Shaped
<1>1. Spares(g, [g EXCEPT !.style = k])
  <2> DEFINE h == [g EXCEPT !.style = k]
  <2>1. /\ DOMAIN h = DOMAIN g /\ h.strings = g.strings /\ h.wood = g.wood
        /\ h.events = g.events /\ h.pending = g.pending /\ Still(g, h)
    BY <1>0 DEF PlayerFields, Still
  <2> QED
    BY <1>0, <2>1, StillKeeps, HandsUnmoved DEF Keeps
<1>2. Spares(g, [g EXCEPT !.stroke = k])
  <2> DEFINE h == [g EXCEPT !.stroke = k]
  <2>1. /\ DOMAIN h = DOMAIN g /\ h.strings = g.strings /\ h.wood = g.wood
        /\ h.events = g.events /\ h.pending = g.pending /\ Still(g, h)
    BY <1>0 DEF PlayerFields, Still
  <2> QED
    BY <1>0, <2>1, StillKeeps, HandsUnmoved DEF Keeps
<1>3. ASSUME k \in Keys
      PROVE  Spares(g, [g EXCEPT !.pending = Append(@, k)])
  <2> DEFINE h == [g EXCEPT !.pending = Append(@, k)]
  <2>1. /\ DOMAIN h = DOMAIN g /\ h.strings = g.strings /\ h.wood = g.wood
        /\ h.events = g.events /\ h.pending = Append(g.pending, k)
        /\ h.delayed = g.delayed
    BY <1>0 DEF PlayerFields
  <2> HIDE DEF h
  <2>2. h.pending \in Seq(Keys) /\ h.pending \in Seq(AllKeys)
    BY <1>0, <1>3, <2>1 DEF QueuesFine
  <2>3. QueuesFine(h)
    BY <1>0, <2>1, <2>2 DEF QueuesFine
  <2> QED
    BY <2>1, <2>2, <2>3, HandsUnmoved DEF h
<1>4. ASSUME k \notin Articulations, k \notin StrokeKeys, k # Damp
      PROVE  k \in Keys
  BY <1>4 DEF AllKeys, StrokeKeys
<1> QED
  BY <1>0, <1>1, <1>2, <1>3, <1>4 DEF PlayNoteOn

LEMMA LiftKeySpares ==
    ASSUME NEW g, Whole(g), NEW s
    PROVE  Spares(g, LiftKey(g, s))
<1> DEFINE up == [g EXCEPT !.strings[s].down = FALSE]
           later == [up EXCEPT !.strings[s].sustained = TRUE]
           st == [g.strings[s] EXCEPT !.down = FALSE]
           lt == [g.strings[s] EXCEPT !.down = FALSE, !.sustained = TRUE]
<1>0. /\ DOMAIN g = PlayerFields /\ DOMAIN g.strings = Strings /\ QueuesFine(g)
      /\ s \in Strings => Fits(g.strings[s], g.wood[s])
  BY DEF Whole, Shaped
<1>1. /\ DOMAIN up = DOMAIN g /\ \A x \in PlayerFields \ {"strings"} : up[x] = g[x]
      /\ DOMAIN up.strings = Strings
      /\ \A t \in Strings \ {s} : up.strings[t] = g.strings[t]
      /\ s \in Strings => up.strings[s] = st
  BY <1>0 DEF PlayerFields
<1>2. /\ DOMAIN later = DOMAIN g /\ \A x \in PlayerFields \ {"strings"} : later[x] = g[x]
      /\ DOMAIN later.strings = Strings
      /\ \A t \in Strings \ {s} : later.strings[t] = g.strings[t]
      /\ s \in Strings => later.strings[s] = lt
  BY <1>0 DEF PlayerFields
<1>3. LiftKey(g, s) = IF g.pedal THEN later ELSE IF StrikeWaits(g, s) THEN up ELSE Release(up, s)
  BY DEF LiftKey
<1> HIDE DEF up, later
<1>4. s \in Strings =>
        /\ DOMAIN st = DOMAIN NewString /\ DOMAIN lt = DOMAIN NewString
        /\ {st.down, st.sustained, st.released, st.resting, st.fretted} \subseteq BOOLEAN
        /\ {lt.down, lt.sustained, lt.released, lt.resting, lt.fretted} \subseteq BOOLEAN
        /\ lt.sustained = TRUE /\ st.key = g.strings[s].key /\ lt.key = g.strings[s].key
        /\ st.released = g.strings[s].released /\ lt.released = g.strings[s].released
        /\ st.resting = g.strings[s].resting /\ lt.resting = g.strings[s].resting
        /\ st.fretted = g.strings[s].fretted /\ lt.fretted = g.strings[s].fretted
  BY <1>0 DEF Fits, NewString
<1> HIDE DEF st, lt
<1>5. MovesOne(g, up, s) /\ up.wood = g.wood /\ up.events = g.events
  <2>1. s \in Strings => /\ DOMAIN st = DOMAIN NewString
          /\ {st.down, st.sustained, st.released, st.resting, st.fretted} \subseteq BOOLEAN
    BY <1>4
  <2> QED
    BY <1>1, <2>1, StringMoves
<1>6. MovesOne(g, later, s) /\ later.wood = g.wood /\ later.events = g.events
  <2>1. s \in Strings => /\ DOMAIN lt = DOMAIN NewString
          /\ {lt.down, lt.sustained, lt.released, lt.resting, lt.fretted} \subseteq BOOLEAN
    BY <1>4
  <2> QED
    BY <1>2, <2>1, StringMoves
<1>7. CASE g.pedal
  <2>1. s \in Strings => Spared(g, later, s)
    BY <1>2, <1>4, <1>6 DEF Spared, Heard, Lies, ForSomebody, UnderFlesh
  <2> QED
    BY <1>3, <1>6, <1>7, <2>1, OneSpared
<1>8. CASE ~g.pedal /\ StrikeWaits(g, s)
  <2>1. s \in Strings => s \in Picked(g.events)
    BY <1>8 DEF StrikeWaits, Waiting, Picked
  <2>2. s \in Strings => Spared(g, up, s)
    BY <1>1, <1>4, <1>5, <2>1 DEF Spared, Heard, Lies, ForSomebody, UnderFlesh
  <2> QED
    BY <1>3, <1>5, <1>8, <2>2, OneSpared
<1>9. CASE ~g.pedal /\ ~StrikeWaits(g, s)
  <2>1. LetsGo(up, Release(up, s), s) /\ Spares(up, Release(up, s))
    BY <1>5, ReleaseLetsGo, ReleaseSpares DEF MovesOne
  <2>2. \A t \in Strings \ {s} : Spared(g, up, t)
    BY <1>5, OthersSpared
  <2>3. \A t \in Strings : Spared(g, Release(up, s), t)
    BY <2>1, <2>2 DEF LetsGo, Spared, Safe
  <2> QED
    BY <1>3, <1>9, <2>1, <2>3 DEF Spares
<1> QED
  BY <1>7, <1>8, <1>9

LEMMA PlayNoteOffSpares ==
    ASSUME NEW g, Whole(g), NEW k
    PROVE  Spares(g, PlayNoteOff(g, k))
<1>0. /\ Spares(g, g) /\ Spares(g, DampStrings(g, FALSE)) /\ DOMAIN g = PlayerFields
      /\ Spares(g, LiftKey(g, Min(Holding(g, k)))) /\ g.pending \in Seq(Keys) /\ QueuesFine(g)
  BY SparesItself, DampSpares, LiftKeySpares DEF Whole, Shaped
<1>1. ASSUME k \in ToSet(g.pending)
      PROVE  Spares(g, [g EXCEPT !.pending = Unpend(@, k)])
  <2> DEFINE h == [g EXCEPT !.pending = Unpend(@, k)]
  <2>1. /\ DOMAIN h = DOMAIN g /\ h.strings = g.strings /\ h.wood = g.wood
        /\ h.events = g.events /\ h.pending = Unpend(g.pending, k) /\ h.delayed = g.delayed
    BY <1>0 DEF PlayerFields
  <2> HIDE DEF h
  <2>2. h.pending \in Seq(Keys) /\ h.pending \in Seq(AllKeys)
    <3>1. g.pending # <<>> /\ g.pending \in Seq(AllKeys)
      BY <1>1 DEF ToSet, Whole, QueuesFine
    <3> QED
      BY <1>0, <2>1, <3>1, UnpendStays
  <2>3. QueuesFine(h)
    BY <1>0, <2>1, <2>2 DEF QueuesFine
  <2> QED
    BY <2>1, <2>2, <2>3, HandsUnmoved DEF h
<1> QED
  BY <1>0, <1>1 DEF PlayNoteOff

LEMMA PlaySustainSpares ==
    ASSUME NEW g, Whole(g), NEW on
    PROVE  Spares(g, PlaySustain(g, on))
<1> DEFINE h == [g EXCEPT !.pedal = on]
           some == {s \in Strings : g.strings[s].sustained}
<1>0. DOMAIN g = PlayerFields /\ QueuesFine(g) /\ g.pending \in Seq(Keys)
  BY DEF Whole, Shaped
<1>1. /\ DOMAIN h = DOMAIN g /\ h.strings = g.strings /\ h.wood = g.wood
      /\ h.events = g.events /\ h.pending = g.pending /\ Still(g, h)
  BY <1>0 DEF PlayerFields, Still
<1>2. Spares(g, h) /\ Whole(h)
  <2> HIDE DEF h
  <2>1. Spares(g, h)
    BY <1>0, <1>1, StillKeeps, HandsUnmoved DEF Keeps
  <2> QED
    BY <2>1 DEF Spares
<1>3. PlaySustain(g, on) \in {h, ReleaseAll(h, some)}
  BY DEF PlaySustain
<1> HIDE DEF h, some
<1>4. Spares(h, ReleaseAll(h, some))
  BY <1>2, ReleaseAllLetsGo
<1> QED
  BY <1>2, <1>3, <1>4, SparesOn

LEMMA DispatchSpares ==
    ASSUME NEW g, Whole(g), NEW m \in Messages
    PROVE  Spares(g, Dispatch(g, m))
<1>1. m.key \in AllKeys /\ m.kind \in {"on", "off", "pedal"}
  BY DEF Messages
<1>2. /\ Spares(g, PlayNoteOn(g, m.key)) /\ Spares(g, PlayNoteOff(g, m.key))
      /\ Spares(g, PlaySustain(g, m.key = "down"))
  BY <1>1, PlayNoteOnSpares, PlayNoteOffSpares, PlaySustainSpares
<1> QED
  BY <1>1, <1>2 DEF Dispatch

\* The held-back MIDI alone moves.
LEMMA DelayedMoves ==
    ASSUME NEW g, Whole(g), NEW q \in Seq(Messages)
    PROVE  /\ Spares(g, [g EXCEPT !.delayed = q]) /\ Whole([g EXCEPT !.delayed = q])
           /\ [g EXCEPT !.delayed = q].delayed = q
           /\ [g EXCEPT !.delayed = q].controls = g.controls
<1> DEFINE h == [g EXCEPT !.delayed = q]
<1>0. DOMAIN g = PlayerFields /\ QueuesFine(g) /\ g.pending \in Seq(Keys)
  BY DEF Whole, Shaped
<1>1. /\ DOMAIN h = DOMAIN g /\ h.strings = g.strings /\ h.wood = g.wood
      /\ h.events = g.events /\ h.pending = g.pending /\ h.delayed = q
      /\ h.controls = g.controls
  BY <1>0 DEF PlayerFields
<1> HIDE DEF h
<1>2. QueuesFine(h)
  BY <1>0, <1>1 DEF QueuesFine
<1>3. Spares(g, h)
  BY <1>0, <1>1, <1>2, HandsUnmoved
<1> QED
  BY <1>1, <1>3 DEF Spares, h

LEMMA OldestSpares ==
    ASSUME NEW g, Whole(g), g.delayed # <<>>
    PROVE  Spares(g, Oldest(g))
<1> DEFINE q == g.delayed
           h == [g EXCEPT !.delayed = Tail(@)]
<1>1. q \in Seq(Messages) /\ q # <<>>
  BY DEF Whole, QueuesFine
<1> HIDE DEF q
<1>2. Head(q) \in Messages /\ Tail(q) \in Seq(Messages)
  BY <1>1
<1>3. h = [g EXCEPT !.delayed = Tail(q)]
  BY DEF q
<1>4. Spares(g, h) /\ Whole(h)
  BY <1>2, <1>3, DelayedMoves
<1>5. Oldest(g) = Dispatch(h, Head(q))
  BY DEF Oldest, q
<1> HIDE DEF h
<1>6. Spares(h, Oldest(g))
  BY <1>2, <1>4, <1>5, DispatchSpares
<1> QED
  BY <1>4, <1>6, SparesOn

LEMMA ReceiveSpares ==
    ASSUME NEW g, Whole(g), NEW kind \in {"on", "off", "pedal"}, NEW k \in AllKeys
    PROVE  Spares(g, Receive(g, kind, k))
<1> DEFINE m == [kind |-> kind, key |-> k, wait |-> Latency(g), read |-> FALSE]
           room == IF Len(g.delayed) < MaxMidi THEN g ELSE Oldest(g)
           last == [room EXCEPT !.delayed = Append(@, m)]
<1>1. m \in Messages
  BY QueueAssumption DEF Messages, Latency
<1>2. Receive(g, kind, k) \in {Dispatch(g, m), last}
  BY DEF Receive
<1> HIDE DEF m
<1>3. Spares(g, Dispatch(g, m))
  BY <1>1, DispatchSpares
<1>4. Spares(g, room) /\ Whole(room)
  <2>1. CASE Len(g.delayed) < MaxMidi
    BY <2>1, SparesItself
  <2>2. CASE ~(Len(g.delayed) < MaxMidi)
    <3>1. g.delayed # <<>>
      BY <2>2, QueueAssumption DEF Whole, QueuesFine
    <3>2. Spares(g, Oldest(g))
      BY <3>1, OldestSpares
    <3> QED
      BY <2>2, <3>2 DEF Spares
  <2> QED
    BY <2>1, <2>2
<1> HIDE DEF room
<1>5. Spares(room, last)
  <2>1. Append(room.delayed, m) \in Seq(Messages)
    BY <1>1, <1>4 DEF Whole, QueuesFine
  <2> QED
    BY <1>4, <2>1, DelayedMoves
<1> HIDE DEF last
<1> QED
  BY <1>2, <1>3, <1>4, <1>5, SparesOn

LEMMA ReceiveNoteOnSpares ==
    ASSUME NEW g, Whole(g), NEW k \in AllKeys
    PROVE  Spares(g, ReceiveNoteOn(g, k))
<1> DEFINE h == Receive(g, "on", k)
<1>1. Spares(g, h) /\ Whole(h)
  <2>1. Spares(g, h)
    BY ReceiveSpares
  <2> QED
    BY <2>1 DEF Spares
<1>2. ReceiveNoteOn(g, k) \in {h, Schedule(h, Prepare(Latency(g)))}
  BY DEF ReceiveNoteOn
<1> HIDE DEF h
<1>3. Spares(h, Schedule(h, Prepare(Latency(g))))
  <2>1. EventsJoin(h, Schedule(h, Prepare(Latency(g))))
    BY <1>1, EventsFine, ScheduleJoins
  <2> QED
    BY <1>1, <2>1, EventsJoined
<1> QED
  BY <1>1, <1>2, <1>3, SparesOn

LEMMA FlushSpares ==
    ASSUME NEW g, Whole(g)
    PROVE  Spares(g, Flush(g))
<1> DEFINE q == g.delayed
           b == [g EXCEPT !.delayed = <<>>]
           t == [fold |-> "flush", queue |-> q]
           N == Len(q)
<1>1. q \in Seq(Messages)
  BY DEF Whole, QueuesFine
<1>2. N \in Nat /\ \A i \in 1 .. N : q[i] \in Messages
  BY <1>1
<1>3. Spares(g, b) /\ Whole(b)
  <2>1. <<>> \in Seq(Messages)
    OBVIOUS
  <2> QED
    BY <2>1, DelayedMoves
<1>4. PICK w : Flush(g) = w[1 .. N] /\ IsWalk(t, b, N, w)
  BY <1>1, FlushIsAWalk
<1>5. \A x : \A i \in 1 .. N : Step(t, x, i) = Dispatch(x, q[i])
  BY DEF Step
<1> HIDE DEF t, b, q, N
<1>6. \A x : \A i \in 1 .. N : Whole(x) => Spares(x, Step(t, x, i))
  BY <1>2, <1>5, DispatchSpares
<1>7. Spares(b, w[1 .. N])
  BY <1>2, <1>3, <1>4, <1>6, WalkSpares
<1> QED
  BY <1>3, <1>4, <1>7, SparesOn

LEMMA ChooseControlsSpares ==
    ASSUME NEW g, Whole(g), NEW c
    PROVE  Spares(g, ChooseControls(g, c))
<1> DEFINE h == IF c.lookahead THEN g ELSE Flush(g)
           i == [h EXCEPT !.controls = c]
<1>1. Spares(g, h) /\ Whole(h)
  <2>1. Spares(g, g) /\ Spares(g, Flush(g))
    BY SparesItself, FlushSpares
  <2> QED
    BY <2>1 DEF Spares
<1>2. ChooseControls(g, c) = i
  BY DEF ChooseControls
<1> HIDE DEF h
<1>3. DOMAIN h = PlayerFields /\ QueuesFine(h) /\ h.pending \in Seq(Keys)
  BY <1>1 DEF Whole, Shaped
<1>4. /\ DOMAIN i = DOMAIN h /\ i.strings = h.strings /\ i.wood = h.wood
      /\ i.events = h.events /\ i.pending = h.pending /\ i.delayed = h.delayed
  BY <1>3 DEF PlayerFields
<1> HIDE DEF i
<1>5. QueuesFine(i)
  BY <1>3, <1>4 DEF QueuesFine
<1>6. Spares(h, i)
  BY <1>1, <1>3, <1>4, <1>5, HandsUnmoved
<1> QED
  BY <1>1, <1>2, <1>6, SparesOn

\* A panic drops the picks, and lets every string go that has a key.
LEMMA SilenceSpares ==
    ASSUME NEW g, Whole(g)
    PROVE  Spares(g, Silence(g))
<1> DEFINE h == Forget(g)
           a == [s \in Strings |-> PutDown(h, s).strings[s]]
           b == [s \in Strings |-> PutDown(h, s).wood[s]]
           down == [h EXCEPT !.strings = a, !.wood = b]
           some == {s \in Strings : g.strings[s].key # None}
<1>0. DOMAIN g = PlayerFields /\ QueuesFine(g) /\ DOMAIN g.strings = Strings
      /\ DOMAIN g.wood = Strings /\ \A s \in Strings : Fits(g.strings[s], g.wood[s])
  BY DEF Whole, Shaped
<1>1. /\ DOMAIN h = PlayerFields /\ h.strings = g.strings /\ h.wood = g.wood
      /\ h.pending = <<>> /\ h.events = <<>> /\ h.delayed = <<>>
  BY <1>0 DEF Forget, PlayerFields
<1>2. Silence(g) = ReleaseAll(down, some)
  BY DEF Silence, EachString
<1> HIDE DEF h
<1>3. Whole(h)
  <2>1. QueuesFine(h)
    BY <1>0, <1>1 DEF QueuesFine, IsQueue, ToSet, Queues, PlayerFields
  <2> QED
    BY <1>0, <1>1, <2>1 DEF Whole, Shaped
<1>4. ASSUME NEW s \in Strings
      PROVE  /\ a[s] = g.strings[s] /\ DOMAIN b[s] = DOMAIN NewWood
             /\ b[s].damper = g.wood[s].damper /\ b[s].rings = g.wood[s].rings
  <2>1. WoodMoves(h, SetFret(h, s, 0), s) /\ Refretted(h, SetFret(h, s, 0), s)
    BY <1>3, FretMoves
  <2>2. /\ SetFret(h, s, 0).strings = h.strings /\ Whole(SetFret(h, s, 0))
        /\ SetFret(h, s, 0).wood[s].damper = h.wood[s].damper
        /\ SetFret(h, s, 0).wood[s].rings = h.wood[s].rings
    BY <2>1 DEF WoodMoves, Refretted, PlayerFields
  <2>3. DOMAIN SetFret(h, s, 0).wood[s] = DOMAIN NewWood /\ DOMAIN h.wood[s] = DOMAIN NewWood
    BY <1>3, <2>2 DEF Whole, Shaped, Fits
  <2>4. PutDown(h, s) \in {h, SetFret(h, s, 0)}
    BY DEF PutDown
  <2> QED
    BY <1>1, <2>2, <2>3, <2>4
<1> HIDE DEF a, b
<1>5. DOMAIN a = Strings /\ DOMAIN b = Strings
  BY DEF a, b
<1>6. /\ DOMAIN down = PlayerFields /\ down.strings = a /\ down.wood = b
      /\ down.pending = <<>> /\ down.events = <<>> /\ down.delayed = <<>>
  BY <1>1 DEF PlayerFields
<1>7. Whole(down)
  <2>1. QueuesFine(down)
    BY <1>3, HandsAreStill, StillKeeps DEF Whole, Keeps
  <2> HIDE DEF down
  <2>2. ASSUME NEW s \in Strings
        PROVE  Fits(down.strings[s], down.wood[s])
    BY <1>0, <1>4, <1>6 DEF Fits
  <2> QED
    BY <1>5, <1>6, <2>1, <2>2 DEF Whole, Shaped
<1> HIDE DEF down
<1>8. /\ Spares(down, ReleaseAll(down, some))
      /\ \A s \in Strings \cap some : Safe(ReleaseAll(down, some), s)
  BY <1>7, ReleaseAllLetsGo
<1>9. ASSUME NEW s \in Strings
      PROVE  Spared(g, Silence(g), s)
  <2>1. CASE s \in some
    BY <1>2, <1>8, <2>1 DEF Spared, Safe
  <2>2. CASE s \notin some
    <3>1. g.strings[s].key = None
      BY <2>2
    <3> HIDE DEF some
    <3>2. Spared(g, down, s)
      BY <1>4, <1>6, <3>1 DEF Spared, Heard, Lies, ForSomebody, UnderFlesh
    <3> QED
      BY <1>2, <1>8, <3>2 DEF Spares, Spared
  <2> QED
    BY <2>1, <2>2
<1> QED
  BY <1>2, <1>8, <1>9 DEF Spares

-----------------------------------------------------------------------------
(* What a stroke does to them.                                             *)

LEMMA KeysAreKeys == ASSUME NEW k \in Keys PROVE k # None
BY PlayerAssumption

\* A string is taken for a key that is down.
Taken(st) ==
    /\ DOMAIN st = DOMAIN NewString /\ st.key # None /\ st.down = TRUE
    /\ {st.down, st.sustained, st.released, st.resting, st.fretted} \subseteq BOOLEAN

LEMMA TakeStringSpares ==
    ASSUME NEW g, NEW h, NEW s, MovesOne(g, h, s), NEW st, s \in Strings => Taken(st)
    PROVE  Spares(g, TakeString(h, s, st))
<1> DEFINE i == TakeString(h, s, st)
           j == [h EXCEPT !.strings[s] = st]
<1>0. Whole(h) /\ DOMAIN h = PlayerFields /\ DOMAIN h.strings = Strings /\ QueuesFine(h)
  BY DEF MovesOne, Whole, Shaped
<1>1. /\ DOMAIN j = DOMAIN h /\ \A x \in PlayerFields \ {"strings"} : j[x] = h[x]
      /\ DOMAIN j.strings = Strings /\ (\A t \in Strings \ {s} : j.strings[t] = h.strings[t])
      /\ s \in Strings => j.strings[s] = st
  BY <1>0 DEF PlayerFields
<1>2. /\ DOMAIN i = DOMAIN j /\ i.strings = j.strings /\ i.wood = j.wood
      /\ i.events = j.events /\ i.pending = j.pending /\ i.delayed = j.delayed
      /\ i.controls = j.controls
  BY <1>0 DEF TakeString, PlayerFields
<1> HIDE DEF i, j
<1>3. MovesOne(h, j, s) /\ j.wood = h.wood /\ j.events = h.events
  <2>1. s \in Strings => /\ DOMAIN st = DOMAIN NewString
          /\ {st.down, st.sustained, st.released, st.resting, st.fretted} \subseteq BOOLEAN
    BY DEF Taken
  <2> QED
    BY <1>0, <1>1, <2>1, StringMoves
<1>4. MovesOne(g, j, s)
  BY <1>3 DEF MovesOne
<1>5. s \in Strings => Spared(g, j, s)
  BY <1>1 DEF Taken, Spared, Heard, Lies, ForSomebody, UnderFlesh
<1>6. Spares(g, j) /\ Whole(j)
  BY <1>4, <1>5, OneSpared DEF Spares
<1>7. Spares(j, i)
  <2>1. QueuesFine(i) /\ i.pending \in Seq(Keys)
    BY <1>2, <1>6 DEF Whole, QueuesFine
  <2> QED
    BY <1>2, <1>6, <2>1, HandsUnmoved
<1> QED
  BY <1>6, <1>7, SparesOn DEF i

LEMMA MoveHandSpares ==
    ASSUME NEW g, Whole(g), NEW f
    PROVE  Spares(g, [g EXCEPT !.hand = f]) /\ Spares(g, MoveHand(g, f))
<1> DEFINE h == [g EXCEPT !.hand = f]
<1>0. DOMAIN g = PlayerFields /\ QueuesFine(g) /\ g.pending \in Seq(Keys)
  BY DEF Whole, Shaped
<1>1. /\ DOMAIN h = DOMAIN g /\ h.strings = g.strings /\ h.wood = g.wood
      /\ h.events = g.events /\ h.pending = g.pending /\ Still(g, h)
  BY <1>0 DEF PlayerFields, Still
<1>2. MoveHand(g, f) \in {g, h}
  BY DEF MoveHand
<1> HIDE DEF h
<1>3. Spares(g, h)
  BY <1>0, <1>1, StillKeeps, HandsUnmoved DEF Keeps
<1> QED
  BY <1>2, <1>3, SparesItself DEF h

LEMMA LineSpares ==
    ASSUME NEW g, Whole(g), NEW k \in Keys, NEW sounding
    PROVE  Spares(g, PlayOnSoundingString(g, k, sounding))
<1> DEFINE s == Last(LineStrings(g, sounding))
           f == Fret(k, s)
           free == SetDamper(g, s, Free)
           fretted == SetFret(free, s, f)
           plucked == Pluck(fretted, s)
           slid == [free EXCEPT !.wood[s].rings = TRUE]
           played == IF g.style = "legato" THEN plucked ELSE slid
           held == [played.strings[s] EXCEPT
                       !.key = k, !.down = TRUE, !.sustained = FALSE, !.fretted = TRUE,
                       !.fret = IF g.style = "legato" THEN f ELSE @,
                       !.slideTo = IF g.style = "legato" THEN None ELSE f]
           taken == TakeString(played, s, held)
<1>1. WoodMoves(g, free, s)
  BY DamperMoves
<1>2. PlayOnSoundingString(g, k, sounding) = MoveHand(taken, f)
  BY DEF PlayOnSoundingString
<1> HIDE DEF s, f, free
<1>3. WoodMoves(g, plucked, s)
  <2>1. WoodMoves(free, fretted, s)
    BY <1>1, FretMoves DEF WoodMoves
  <2> HIDE DEF fretted
  <2>2. WoodMoves(fretted, plucked, s)
    BY <2>1, PluckMoves DEF WoodMoves
  <2> QED
    BY <1>1, <2>1, <2>2 DEF WoodMoves
<1>4. WoodMoves(g, slid, s)
  <2> DEFINE v == [free.wood[s] EXCEPT !.rings = TRUE]
  <2>1. Whole(free) /\ DOMAIN free = PlayerFields /\ DOMAIN free.wood = Strings
        /\ QueuesFine(free)
    BY <1>1 DEF WoodMoves, Whole, Shaped
  <2>2. /\ DOMAIN slid = DOMAIN free /\ \A x \in PlayerFields \ {"wood"} : slid[x] = free[x]
        /\ DOMAIN slid.wood = Strings
        /\ \A t \in Strings \ {s} : slid.wood[t] = free.wood[t]
        /\ s \in Strings => slid.wood[s] = v
    BY <2>1 DEF PlayerFields
  <2> HIDE DEF slid
  <2>3. s \in Strings => DOMAIN v = DOMAIN NewWood /\ v.rings \in BOOLEAN
    BY <2>1 DEF Whole, Shaped, Fits, NewWood
  <2> HIDE DEF v
  <2>4. /\ slid.pending = free.pending /\ slid.delayed = free.delayed
        /\ slid.events = free.events /\ slid.controls = free.controls
    BY <2>2 DEF PlayerFields
  <2>5. QueuesFine(slid)
    BY <2>1, <2>2, <2>4 DEF QueuesFine
  <2>6. WoodMoves(free, slid, s)
    BY <2>1, <2>2, <2>3, <2>4, <2>5, GuitarMoves
  <2> QED
    BY <1>1, <2>6 DEF WoodMoves
<1>5. WoodMoves(g, played, s)
  <2> HIDE DEF plucked, slid
  <2> QED
    BY <1>3, <1>4
<1> HIDE DEF played
<1>6. s \in Strings => Taken(held)
  <2>1. s \in Strings => Fits(played.strings[s], played.wood[s])
    BY <1>5 DEF WoodMoves, Whole, Shaped
  <2> QED
    BY <2>1, KeysAreKeys DEF Fits, Taken, NewString
<1> HIDE DEF held
<1>7. Spares(g, taken) /\ Whole(taken)
  <2>1. Spares(g, taken)
    BY <1>5, <1>6, WoodMovesOne, TakeStringSpares
  <2> QED
    BY <2>1 DEF Spares
<1> HIDE DEF taken
<1>8. Spares(taken, MoveHand(taken, f))
  BY <1>7, MoveHandSpares
<1> QED
  BY <1>2, <1>7, <1>8, SparesOn

LEMMA JoinedMovesOne ==
    ASSUME NEW g, NEW h, Whole(g), EventsJoin(g, h), NEW s
    PROVE  MovesOne(g, h, s) /\ Whole(h)
<1>1. h.strings = g.strings /\ h.wood = g.wood
  BY DEF EventsJoin, PlayerFields
<1> QED
  BY <1>1 DEF EventsJoin, MovesOne

LEMMA HarmonicSpares ==
    ASSUME NEW g, Whole(g), NEW k \in Keys
    PROVE  Spares(g, PlayHarmonic(g, k))
<1>1. ASSUME NEW s, NEW f
      PROVE  LET struck == Schedule(g, Strike(s, 0, f, Touched, FALSE))
                 touched == Schedule(struck, Event("liftTouch", s, HarmonicTicks))
                 st == [NewString EXCEPT !.key = k, !.down = TRUE, !.fret = f,
                                         !.fretted = f > 0]
             IN Spares(g, TakeString(touched, s, st))
  <2> DEFINE struck == Schedule(g, Strike(s, 0, f, Touched, FALSE))
             touched == Schedule(struck, Event("liftTouch", s, HarmonicTicks))
             st == [NewString EXCEPT !.key = k, !.down = TRUE, !.fret = f, !.fretted = f > 0]
  <2>1. MovesOne(g, struck, s) /\ Whole(struck)
    <3>1. EventsJoin(g, Schedule(g, Strike(s, 0, f, Touched, FALSE)))
      BY EventsFine, ScheduleJoins
    <3> QED
      BY <3>1, JoinedMovesOne
  <2> HIDE DEF struck
  <2>2. MovesOne(struck, touched, s)
    <3>1. EventsJoin(struck, Schedule(struck, Event("liftTouch", s, HarmonicTicks)))
      BY <2>1, EventsFine, ScheduleJoins
    <3> QED
      BY <2>1, <3>1, JoinedMovesOne
  <2> HIDE DEF touched
  <2>3. MovesOne(g, touched, s)
    BY <2>1, <2>2 DEF MovesOne
  <2>4. Taken(st)
    BY KeysAreKeys DEF Taken, NewString
  <2> HIDE DEF st
  <2>5. Spares(g, TakeString(touched, s, st))
    BY <2>3, <2>4, TakeStringSpares
  <2> QED
    BY <2>5 DEF struck, touched, st
<1> QED
  BY <1>1 DEF PlayHarmonic

LEMMA StrikeNoteSpares ==
    ASSUME NEW g, Whole(g), NEW k \in Keys, NEW s, NEW crossed
    PROVE  Spares(g, StrikeNote(g, k, s, crossed))
<1>1. ASSUME NEW t, NEW f, NEW x, NEW y
      PROVE  LET h == Schedule(g, Strike(s, t, f, x, y))
                 st == [NewString EXCEPT !.key = k, !.down = TRUE, !.fret = f,
                                         !.fretted = f > 0]
             IN Spares(g, TakeString(h, s, st))
  <2> DEFINE h == Schedule(g, Strike(s, t, f, x, y))
             st == [NewString EXCEPT !.key = k, !.down = TRUE, !.fret = f, !.fretted = f > 0]
  <2>1. MovesOne(g, h, s)
    <3>1. EventsJoin(g, Schedule(g, Strike(s, t, f, x, y)))
      BY EventsFine, ScheduleJoins
    <3> QED
      BY <3>1, JoinedMovesOne
  <2> HIDE DEF h
  <2>2. Taken(st)
    BY KeysAreKeys DEF Taken, NewString
  <2> HIDE DEF st
  <2>3. Spares(g, TakeString(h, s, st))
    BY <2>1, <2>2, TakeStringSpares
  <2> QED
    BY <2>3 DEF h, st
<1> QED
  BY <1>1 DEF StrikeNote

LEMMA UnprepareSpares ==
    ASSUME NEW g, Whole(g)
    PROVE  Spares(g, Unprepare(g))
<1> DEFINE a == [s \in Strings |-> GiveUp(g, s).strings[s]]
           b == [s \in Strings |-> GiveUp(g, s).wood[s]]
           h == [g EXCEPT !.strings = a, !.wood = b]
           some == {s \in Unneeded(g) : g.strings[s].fretted}
<1>1. Unprepare(g) = ReleaseAll(h, some)
  BY DEF Unprepare, EachString
<1>2. ASSUME NEW s \in Strings
      PROVE  /\ Fits(a[s], b[s])
             /\ Heard(g, s) => ForSomebody(a[s], b[s], s \in Picked(g.events))
             /\ Lies(g, s) => UnderFlesh(a[s], b[s])
  <2> DEFINE still == IF g.strings[s].shift > 0 THEN Rub(g, s, FALSE) ELSE g
             up == [still EXCEPT !.strings[s].prepared = None, !.strings[s].shift = 0]
             st == g.strings[s]
             at == a[s]
             bt == b[s]
  <2>0. Fits(st, g.wood[s]) /\ DOMAIN g = PlayerFields
    BY DEF Whole, Shaped
  <2>1. /\ Whole(still) /\ still.strings = g.strings
        /\ still.wood[s].damper = g.wood[s].damper /\ still.wood[s].rings = g.wood[s].rings
        /\ DOMAIN still.wood[s] = DOMAIN NewWood
    <3>1. WoodMoves(g, Rub(g, s, FALSE), s) /\ Refretted(g, Rub(g, s, FALSE), s)
      BY RubMoves
    <3>2. Whole(still) /\ still.strings = g.strings
          /\ still.wood[s].damper = g.wood[s].damper /\ still.wood[s].rings = g.wood[s].rings
      BY <3>1 DEF WoodMoves, Refretted, PlayerFields
    <3> QED
      BY <3>2 DEF Whole, Shaped, Fits
  <2>2. GiveUp(g, s) \in {g, up}
    BY DEF GiveUp
  <2> HIDE DEF still
  <2>3. /\ up.strings[s] = [still.strings[s] EXCEPT !.prepared = None, !.shift = 0]
        /\ up.wood = still.wood
    BY <2>1 DEF Whole, Shaped, PlayerFields
  <2> HIDE DEF up
  <2>4. /\ DOMAIN at = DOMAIN NewString /\ at.key = st.key /\ at.down = st.down
        /\ at.sustained = st.sustained /\ at.released = st.released
        /\ at.resting = st.resting /\ at.fretted = st.fretted
        /\ DOMAIN bt = DOMAIN NewWood
        /\ bt.damper = g.wood[s].damper /\ bt.rings = g.wood[s].rings
    <3>1. at \in {st, up.strings[s]} /\ bt \in {g.wood[s], up.wood[s]}
      BY <2>2
    <3>2. LET u == up.strings[s]
          IN /\ DOMAIN u = DOMAIN NewString /\ u.key = st.key /\ u.down = st.down
             /\ u.sustained = st.sustained /\ u.released = st.released
             /\ u.resting = st.resting /\ u.fretted = st.fretted
      BY <2>0, <2>1, <2>3 DEF Fits, NewString
    <3> HIDE DEF at, bt
    <3> QED
      BY <2>0, <2>1, <2>3, <3>1, <3>2 DEF Fits
  <2> QED
    BY <2>0, <2>4 DEF Fits, Heard, Lies, ForSomebody, UnderFlesh
<1> HIDE DEF a, b
<1>3. DOMAIN a = Strings /\ DOMAIN b = Strings
  BY DEF a, b
<1>4. Spares(g, h) /\ Whole(h)
  <2>1. Spares(g, [g EXCEPT !.strings = a, !.wood = b])
    BY <1>2, <1>3, AllMove
  <2> QED
    BY <2>1 DEF Spares
<1> HIDE DEF h, some
<1>5. Spares(h, ReleaseAll(h, some))
  BY <1>4, ReleaseAllLetsGo
<1> QED
  BY <1>1, <1>4, <1>5, SparesOn

LEMMA StrumSpares ==
    ASSUME NEW g, Whole(g), NEW notes \in Seq(Keys), NEW up
    PROVE  Spares(g, Strum(g, notes, up))
<1> DEFINE N == Len(notes)
<1>1. \E t, w, frets : /\ Strum(g, notes, up) = Unprepare(SettleHand(w[1 .. N], frets))
                       /\ IsWalk(t, g, N, w) /\ t.fold = "strum" /\ t.notes = notes
  <2> DEFINE f == Assign(g, [s \in Strings |-> g.strings[s].down], notes)
             placed == {i \in DOMAIN f : f[i] # 0}
             ends == {f[i] : i \in placed}
             Across(s) == IF up THEN Max(ends) - s ELSE s - Min(ends)
             frets == {Fret(notes[i], f[i]) : i \in placed} \ {0}
             t == [fold |-> "strum", placed |-> placed, notes |-> notes, f |-> f,
                   crossed |-> [i \in placed |-> Across(f[i])]]
  <2>1. PICK w : /\ Strum(g, notes, up) = Unprepare(SettleHand(w[1 .. N], frets))
                 /\ IsWalk(t, g, N, w)
    BY StrumIsAWalk
  <2>2. t.fold = "strum" /\ t.notes = notes
    OBVIOUS
  <2> HIDE DEF t, frets, N
  <2> QED
    BY <2>1, <2>2
<1>2. PICK t, w, frets : /\ Strum(g, notes, up) = Unprepare(SettleHand(w[1 .. N], frets))
                         /\ IsWalk(t, g, N, w) /\ t.fold = "strum" /\ t.notes = notes
  BY <1>1
<1>3. \A x, i : Step(t, x, i) \in {x, StrikeNote(x, notes[i], t.f[i], t.crossed[i])}
  BY <1>2 DEF Step
<1>4. N \in Nat /\ \A i \in 1 .. N : notes[i] \in Keys
  OBVIOUS
<1> HIDE DEF N
<1>5. \A x : \A i \in 1 .. N : Whole(x) => Spares(x, Step(t, x, i))
  BY <1>3, <1>4, StrikeNoteSpares, SparesItself
<1> DEFINE struck == w[1 .. N]
           settled == SettleHand(struck, frets)
<1>6. Spares(g, struck) /\ Whole(struck)
  <2>1. Spares(g, struck)
    BY <1>2, <1>4, <1>5, WalkSpares
  <2> QED
    BY <2>1 DEF Spares
<1> HIDE DEF struck
<1>7. Spares(struck, settled) /\ Whole(settled)
  <2>1. settled \in {struck, [struck EXCEPT !.hand = Min(frets)]}
    BY DEF SettleHand
  <2> HIDE DEF settled
  <2>2. Spares(struck, settled)
    BY <1>6, <2>1, MoveHandSpares, SparesItself
  <2> QED
    BY <2>2 DEF Spares
<1> HIDE DEF settled
<1>8. Spares(settled, Unprepare(settled))
  BY <1>7, UnprepareSpares
<1> QED
  BY <1>2, <1>6, <1>7, <1>8, SparesOn DEF struck, settled

LEMMA OneIsLess ==
    ASSUME NEW a \in Int, NEW b \in Int, NEW i \in Int, NEW j \in Int, i # j
    PROVE  \/ a < b
           \/ a = b /\ i < j
           \/ b < a
           \/ b = a /\ j < i
OBVIOUS

\* Sorting the keys of a stroke loses none and adds none: of each number of
\* keys below it or like it there is one.
LEMMA NoteOrderIsKeys ==
    ASSUME NEW ks \in Seq(Keys)
    PROVE  /\ DOMAIN InNoteOrder(ks) = 1 .. Len(ks)
           /\ \A n \in 1 .. Len(ks) : InNoteOrder(ks)[n] \in Keys
<1> DEFINE N == Len(ks)
           Below(i) == {j \in DOMAIN ks : \/ Note[ks[j]] < Note[ks[i]]
                                          \/ Note[ks[j]] = Note[ks[i]] /\ j <= i}
           R == [i \in 1 .. N |-> Cardinality(Below(i))]
<1>1. /\ N \in Nat /\ DOMAIN ks = 1 .. N
      /\ \A i \in 1 .. N : ks[i] \in Keys /\ Note[ks[i]] \in Int
  BY NeckAssumption
<1>2. IsFiniteSet(1 .. N) /\ Cardinality(1 .. N) = N
  <2>1. N \in Int /\ 1 \in Int /\ N >= 0
    BY <1>1
  <2> HIDE DEF N
  <2> QED
    BY <2>1, FS_Interval
<1>3. \A i \in 1 .. N : Below(i) \in SUBSET (1 .. N) /\ i \in Below(i)
  BY <1>1
<1>4. \A i \in 1 .. N : IsFiniteSet(Below(i)) /\ R[i] \in 1 .. N
  <2> SUFFICES ASSUME NEW i \in 1 .. N
               PROVE  IsFiniteSet(Below(i)) /\ Cardinality(Below(i)) \in 1 .. N
    OBVIOUS
  <2> DEFINE B == Below(i)
  <2>1. B \in SUBSET (1 .. N) /\ B # {}
    BY <1>3
  <2> HIDE DEF B
  <2>2. IsFiniteSet(B) /\ Cardinality(B) <= N
    BY <1>2, <2>1, FS_Subset
  <2>3. Cardinality(B) \in Nat /\ Cardinality(B) # 0
    BY <2>1, <2>2, FS_CardinalityType, FS_EmptySet
  <2>4. Cardinality(B) \in 1 .. N
    BY <1>1, <2>2, <2>3
  <2> QED
    BY <2>2, <2>4 DEF B
<1>5. ASSUME NEW i \in 1 .. N, NEW j \in 1 .. N,
             \/ Note[ks[i]] < Note[ks[j]]
             \/ Note[ks[i]] = Note[ks[j]] /\ i < j
      PROVE  R[i] # R[j]
  <2> DEFINE A == Below(i)
             B == Below(j)
  <2>1. A \in SUBSET B /\ j \in B /\ j \notin A
    BY <1>1, <1>5
  <2>2. IsFiniteSet(B) /\ R[i] = Cardinality(A) /\ R[j] = Cardinality(B)
    BY <1>4
  <2> HIDE DEF A, B, R
  <2>3. Cardinality(B) = Cardinality(A) => B = A
    BY <2>1, <2>2, FS_Subset
  <2> QED
    BY <2>1, <2>2, <2>3
<1>6. R \in Injection(1 .. N, 1 .. N)
  <2>1. R \in [1 .. N -> 1 .. N] /\ DOMAIN R = 1 .. N
    BY <1>4
  <2>2. ASSUME NEW i \in 1 .. N, NEW j \in 1 .. N, i # j
        PROVE  R[i] # R[j]
    <3>1. \/ Note[ks[i]] < Note[ks[j]]
          \/ Note[ks[i]] = Note[ks[j]] /\ i < j
          \/ Note[ks[j]] < Note[ks[i]]
          \/ Note[ks[j]] = Note[ks[i]] /\ j < i
      <4>1. Note[ks[i]] \in Int /\ Note[ks[j]] \in Int /\ i \in Int /\ j \in Int
        BY <1>1
      <4> HIDE DEF R, Below
      <4> QED
        BY <2>2, <4>1, OneIsLess
    <3> HIDE DEF R
    <3> QED
      BY <1>5, <3>1
  <2> HIDE DEF R
  <2> QED
    BY <2>1, <2>2 DEF Injection, IsInjective
<1>7. \A n \in 1 .. N : \E i \in 1 .. N : R[i] = n
  <2>1. R \in Surjection(1 .. N, 1 .. N)
    <3> HIDE DEF R
    <3> QED
      BY <1>2, <1>6, FS_Injection
  <2> HIDE DEF R
  <2> QED
    BY <2>1 DEF Surjection
<1>8. DOMAIN InNoteOrder(ks) = 1 .. N
  BY <1>1 DEF InNoteOrder
<1>9. ASSUME NEW n \in 1 .. N
      PROVE  InNoteOrder(ks)[n] \in Keys
  <2>1. InNoteOrder(ks)[n] = ks[CHOOSE i \in DOMAIN ks : Cardinality(Below(i)) = n]
    BY <1>1 DEF InNoteOrder
  <2>2. \E i \in DOMAIN ks : Cardinality(Below(i)) = n
    BY <1>1, <1>7
  <2>3. (CHOOSE i \in DOMAIN ks : Cardinality(Below(i)) = n) \in DOMAIN ks
    <3> HIDE DEF Below
    <3> QED
      BY <2>2
  <2> QED
    BY <1>1, <2>1, <2>3
<1> QED
  BY <1>8, <1>9

\* One key of a stroke, and all of them in the order of their notes.
LEMMA StrokeOneSpares ==
    ASSUME NEW x, DOMAIN x = {"g", "notes"}, Whole(x.g), x.notes \in Seq(Keys),
           NEW k \in Keys, NEW sounding
    PROVE  LET y == StrokeOne(x, k, sounding)
           IN DOMAIN y = {"g", "notes"} /\ Spares(x.g, y.g) /\ y.notes \in Seq(Keys)
<1> DEFINE a == [x EXCEPT !.g = PlayOnSoundingString(@, k, sounding)]
           b == [x EXCEPT !.g = PlayHarmonic(@, k)]
           c == [x EXCEPT !.notes = Append(@, k)]
<1>1. Spares(x.g, x.g)
  BY SparesItself
<1>2. /\ DOMAIN a = {"g", "notes"} /\ a.notes = x.notes
      /\ a.g = PlayOnSoundingString(x.g, k, sounding)
  OBVIOUS
<1>3. DOMAIN b = {"g", "notes"} /\ b.g = PlayHarmonic(x.g, k) /\ b.notes = x.notes
  OBVIOUS
<1>4. DOMAIN c = {"g", "notes"} /\ c.g = x.g /\ c.notes = Append(x.notes, k)
  OBVIOUS
<1>5. StrokeOne(x, k, sounding) \in {a, b, c, x}
  BY DEF StrokeOne
<1> HIDE DEF a, b, c
<1>6. Append(x.notes, k) \in Seq(Keys)
  OBVIOUS
<1>7. Spares(x.g, a.g) /\ Spares(x.g, b.g)
  BY <1>2, <1>3, LineSpares, HarmonicSpares
<1> QED
  BY <1>1, <1>2, <1>3, <1>4, <1>5, <1>6, <1>7

LEMMA StrokeSpares ==
    ASSUME NEW g, Whole(g), NEW up, NEW sounding
    PROVE  Spares(g, StartStroke(g, up, sounding))
<1> DEFINE begun == [g EXCEPT !.nextUp = ~up, !.pending = <<>>]
           q == InNoteOrder(g.pending)
           b == [g |-> begun, notes |-> <<>>]
           t == [fold |-> "stroke", notes |-> q, sounding |-> sounding]
           N == Len(g.pending)
           Good(x) == DOMAIN x = {"g", "notes"} /\ Spares(g, x.g) /\ x.notes \in Seq(Keys)
<1>0. DOMAIN g = PlayerFields /\ QueuesFine(g) /\ g.pending \in Seq(Keys)
  BY DEF Whole, Shaped
<1>1. N \in Nat /\ \A i \in 1 .. N : q[i] \in Keys
  BY <1>0, NoteOrderIsKeys
<1>2. PICK w : /\ IsWalk(t, b, N, w)
               /\ StartStroke(g, up, sounding) =
                    IF w[1 .. N].notes = <<>> THEN w[1 .. N].g
                    ELSE Strum(w[1 .. N].g, w[1 .. N].notes, up)
  BY <1>0, StrokeIsAWalk
<1>3. \A x : \A i \in 1 .. N : Step(t, x, i) = StrokeOne(x, q[i], sounding)
  BY DEF Step
<1>4. Spares(g, begun)
  <2>1. /\ DOMAIN begun = DOMAIN g /\ begun.strings = g.strings /\ begun.wood = g.wood
        /\ begun.events = g.events /\ begun.pending = <<>> /\ begun.delayed = g.delayed
    BY <1>0 DEF PlayerFields
  <2> HIDE DEF begun
  <2>2. QueuesFine(begun) /\ begun.pending \in Seq(Keys)
    BY <1>0, <2>1 DEF QueuesFine
  <2> QED
    BY <2>1, <2>2, HandsUnmoved
<1>5. DOMAIN b = {"g", "notes"} /\ b.g = begun /\ b.notes = <<>>
  OBVIOUS
<1> HIDE DEF t, q, N, begun, b
<1>6. Good(b)
  BY <1>4, <1>5
<1>7. /\ w[1 .. 0] = b
      /\ \A n \in 0 .. N : n < N => w[1 .. n + 1] = Step(t, w[1 .. n], n + 1)
  <2>1. Walked(t, b, N, w)
    BY <1>1, <1>2, WalkSteps
  <2> QED
    BY <2>1 DEF Walked
<1> DEFINE G == {n \in 0 .. N : Good(w[1 .. n])}
<1>8. 0 \in G
  <2> HIDE DEF Good
  <2> QED
    BY <1>1, <1>6, <1>7
<1>9. ASSUME NEW n \in G, n < N
      PROVE  n + 1 \in G
  <2> DEFINE x == w[1 .. n]
             y == w[1 .. n + 1]
  <2>1. Good(x) /\ n + 1 \in 1 .. N /\ n + 1 \in 0 .. N
    BY <1>1, <1>9
  <2>2. y = StrokeOne(x, q[n + 1], sounding)
    BY <1>3, <1>7, <1>9, <2>1
  <2> HIDE DEF x, y
  <2>3. Whole(x.g)
    BY <2>1 DEF Spares
  <2>4. DOMAIN y = {"g", "notes"} /\ Spares(x.g, y.g) /\ y.notes \in Seq(Keys)
    BY <1>1, <2>1, <2>2, <2>3, StrokeOneSpares
  <2>5. Spares(g, y.g)
    BY <2>1, <2>4, SparesOn
  <2> QED
    BY <2>1, <2>4, <2>5 DEF y
<1>10. N \in G
  <2>1. G \in SUBSET (0 .. N)
    OBVIOUS
  <2> HIDE DEF G
  <2> QED
    BY <1>1, <1>8, <1>9, <2>1, WalkUp
<1> DEFINE all == w[1 .. N]
<1>11. Spares(g, all.g) /\ Whole(all.g) /\ all.notes \in Seq(Keys)
  BY <1>10 DEF Spares
<1> HIDE DEF all
<1>12. Spares(all.g, Strum(all.g, all.notes, up))
  BY <1>11, StrumSpares
<1> QED
  BY <1>2, <1>11, <1>12, SparesOn DEF all

-----------------------------------------------------------------------------
(* What the lookahead and the events do to them.                           *)

LEMMA SendFingerSpares ==
    ASSUME NEW g, Whole(g), NEW k, NEW s, NEW start, NEW due
    PROVE  Spares(g, SendFinger(g, k, s, start, due))
<1> DEFINE sent == [g EXCEPT !.strings[s].prepared = Note[k], !.strings[s].due = due]
           st == [g.strings[s] EXCEPT !.prepared = Note[k], !.due = due]
<1>0. DOMAIN g = PlayerFields /\ DOMAIN g.strings = Strings
      /\ (s \in Strings => Fits(g.strings[s], g.wood[s]))
  BY DEF Whole, Shaped
<1>1. /\ DOMAIN sent = DOMAIN g /\ \A x \in PlayerFields \ {"strings"} : sent[x] = g[x]
      /\ DOMAIN sent.strings = Strings
      /\ \A t \in Strings \ {s} : sent.strings[t] = g.strings[t]
      /\ s \in Strings => sent.strings[s] = st
  BY <1>0 DEF PlayerFields
<1>2. s \in Strings =>
        /\ DOMAIN st = DOMAIN NewString /\ st.key = g.strings[s].key
        /\ st.down = g.strings[s].down /\ st.sustained = g.strings[s].sustained
        /\ st.released = g.strings[s].released /\ st.resting = g.strings[s].resting
        /\ st.fretted = g.strings[s].fretted
        /\ {st.down, st.sustained, st.released, st.resting, st.fretted} \subseteq BOOLEAN
  BY <1>0 DEF Fits, NewString
<1>3. ASSUME NEW room, NEW fret
      PROVE  /\ Spares(g, Schedule(Schedule(sent, Shift(s, start, room)),
                                   Press(s, start + room, fret)))
             /\ Spares(g, Schedule(sent, Press(s, start, fret)))
  <2> HIDE DEF sent, st
  <2>1. MovesOne(g, sent, s) /\ sent.wood = g.wood
    BY <1>1, <1>2, StringMoves
  <2>2. Spares(g, sent) /\ Whole(sent)
    <3>1. Spares(g, sent)
      BY <1>1, <1>2, <2>1, SameHands
    <3> QED
      BY <3>1 DEF Spares
  <2>3. EventsJoin(sent, Schedule(sent, Shift(s, start, room)))
    BY <2>2, EventsFine, ScheduleJoins
  <2>4. EventsJoin(sent, Schedule(sent, Press(s, start, fret)))
    BY <2>2, EventsFine, ScheduleJoins
  <2>5. Spares(g, Schedule(sent, Press(s, start, fret)))
    BY <2>2, <2>4, EventsJoined, SparesOn
  <2> DEFINE h == Schedule(sent, Shift(s, start, room))
  <2>6. Spares(g, h) /\ Whole(h)
    <3>1. Spares(g, h)
      BY <2>2, <2>3, EventsJoined, SparesOn
    <3> QED
      BY <3>1 DEF Spares
  <2> HIDE DEF h
  <2>7. EventsJoin(h, Schedule(h, Press(s, start + room, fret)))
    BY <2>6, EventsFine, ScheduleJoins
  <2>8. Spares(g, Schedule(h, Press(s, start + room, fret)))
    BY <2>6, <2>7, EventsJoined, SparesOn
  <2> QED
    BY <2>5, <2>8 DEF h
<1>4. Spares(g, g)
  BY SparesItself
<1> HIDE DEF st
<1> QED
  BY <1>3, <1>4 DEF SendFinger

LEMMA PrepareSpares ==
    ASSUME NEW g, Whole(g), NEW due
    PROVE  Spares(g, PrepareNotes(g, due))
<1>1. PICK read, sent :
         /\ Paced(g, read) /\ MarksOnly(g, read)
         /\ PrepareNotes(g, due) \in {read, sent} /\ SendsAlong(read, sent)
  BY PrepareIsAWalk DEF Whole
<1>2. Spares(g, read) /\ Whole(read)
  <2>1. PICK q : read = [g EXCEPT !.delayed = q]
    BY <1>1 DEF MarksOnly
  <2>2. read.delayed = q
    BY <2>1 DEF Whole, Shaped, PlayerFields
  <2>3. q \in Seq(Messages)
    BY <1>1, <2>2 DEF Paced, QueuesFine
  <2> QED
    BY <2>1, <2>3, DelayedMoves
<1>3. Spares(read, sent)
  <2>1. PICK t, w : \E N \in Nat :
           t.fold = "send" /\ IsWalk(t, read, N, w) /\ sent = w[1 .. N]
    BY <1>1 DEF SendsAlong
  <2>2. PICK N \in Nat : IsWalk(t, read, N, w) /\ sent = w[1 .. N]
    BY <2>1
  <2>3. \A x, i : Step(t, x, i) \in {x, SendsOne(t, x, i)}
    BY <2>1 DEF Step, SendsOne
  <2>4. \A x, i : Whole(x) => Spares(x, SendsOne(t, x, i))
    BY SendFingerSpares DEF SendsOne
  <2>5. \A x : \A i \in 1 .. N : Whole(x) => Spares(x, Step(t, x, i))
    BY <2>3, <2>4, SparesItself
  <2> QED
    BY <1>2, <2>2, <2>5, WalkSpares
<1> QED
  BY <1>1, <1>2, <1>3, SparesOn

\* Whatever a finger or the pick does to string s, the others are spared.
SparesOthers(g, h, s) == Whole(h) /\ \A t \in Strings \ {s} : Spared(g, h, t)

LEMMA SparesAlso ==
    ASSUME NEW g, NEW h, NEW s, Spares(g, h)
    PROVE  SparesOthers(g, h, s)
BY DEF Spares, SparesOthers

LEMMA OthersSparedOn ==
    ASSUME NEW g, NEW h, NEW i, NEW s, SparesOthers(g, h, s), SparesOthers(h, i, s)
    PROVE  SparesOthers(g, i, s)
BY DEF SparesOthers, Spared

LEMMA MovesSpareOthers ==
    ASSUME NEW g, NEW h, NEW s, MovesOne(g, h, s)
    PROVE  SparesOthers(g, h, s)
BY OthersSpared DEF MovesOne, SparesOthers

LEMMA LeaveStringSpares ==
    ASSUME NEW g, Whole(g), NEW s
    PROVE  Spares(g, LeaveString(g, s))
<1>1. WoodMoves(g, SetFret(g, s, 0), s) /\ Refretted(g, SetFret(g, s, 0), s)
  BY FretMoves
<1>2. Spares(g, SetFret(g, s, 0))
  <2> DEFINE h == SetFret(g, s, 0)
  <2>1. MovesOne(g, h, s) /\ h.strings = g.strings
    BY <1>1, WoodMovesOne DEF WoodMoves, PlayerFields
  <2> HIDE DEF h
  <2> QED
    BY <1>1, <2>1, SameHands DEF Refretted, h
<1> QED
  BY <1>2, SparesItself DEF LeaveString

\* A touch ends late on a string that was let go.
LEMMA LiftTouchSpares ==
    ASSUME NEW g, Whole(g), NEW s
    PROVE  /\ SparesOthers(g, LiftTouch(g, s), s)
           /\ s \in Strings =>
                Spared(g, LiftTouch(g, s), s)
                \/ (g.strings[s].key = None /\ g.strings[s].released)
<1> DEFINE h == SetDamper(g, s, Free)
<1>1. /\ WoodMoves(g, h, s)
      /\ s \in Strings => h.wood[s].damper = Free /\ (h.wood[s].rings <=> g.wood[s].rings)
  BY DamperMoves DEF Free, Flesh
<1>2. LiftTouch(g, s) = IF g.strings[s].resting THEN g ELSE h
  BY DEF LiftTouch
<1> HIDE DEF h
<1>3. MovesOne(g, h, s) /\ h.strings = g.strings
  BY <1>1, WoodMovesOne DEF WoodMoves, PlayerFields
<1>4. CASE g.strings[s].resting
  BY <1>2, <1>4, SparesItself DEF Spares, SparesOthers
<1>5. CASE ~g.strings[s].resting
  <2>1. SparesOthers(g, h, s)
    BY <1>3, MovesSpareOthers
  <2>2. s \in Strings =>
          Spared(g, h, s) \/ (g.strings[s].key = None /\ g.strings[s].released)
    BY <1>1, <1>3, <1>5 DEF MovesOne, Spared, Heard, Lies, ForSomebody, UnderFlesh
  <2> QED
    BY <1>2, <1>5, <2>1, <2>2
<1> QED
  BY <1>4, <1>5

LEMMA StartShiftSpares ==
    ASSUME NEW g, Whole(g), NEW e
    PROVE  Spares(g, StartShift(g, e))
<1> DEFINE s == e.string
           r == Rub(g, s, e.length > 0)
           h == [r EXCEPT !.strings[s].shift = e.length]
           st == [r.strings[s] EXCEPT !.shift = e.length]
<1>1. WoodMoves(g, r, s) /\ Refretted(g, r, s)
  BY RubMoves
<1>2. StartShift(g, e) \in {g, h}
  BY DEF StartShift
<1> HIDE DEF r, s
<1>3. Whole(r) /\ DOMAIN r = PlayerFields /\ DOMAIN r.strings = Strings
      /\ r.strings = g.strings
      /\ (s \in Strings => Fits(r.strings[s], r.wood[s]))
  BY <1>1 DEF WoodMoves, Whole, Shaped, PlayerFields
<1>4. /\ DOMAIN h = DOMAIN r /\ \A x \in PlayerFields \ {"strings"} : h[x] = r[x]
      /\ DOMAIN h.strings = Strings
      /\ \A t \in Strings \ {s} : h.strings[t] = r.strings[t]
      /\ s \in Strings => h.strings[s] = st
  BY <1>3 DEF PlayerFields
<1>5. s \in Strings =>
        /\ DOMAIN st = DOMAIN NewString /\ st.key = g.strings[s].key
        /\ st.down = g.strings[s].down /\ st.sustained = g.strings[s].sustained
        /\ st.released = g.strings[s].released /\ st.resting = g.strings[s].resting
        /\ st.fretted = g.strings[s].fretted
        /\ {st.down, st.sustained, st.released, st.resting, st.fretted} \subseteq BOOLEAN
  BY <1>3 DEF Fits, NewString
<1> HIDE DEF h, st
<1>6. MovesOne(r, h, s) /\ h.wood = r.wood
  BY <1>3, <1>4, <1>5, StringMoves
<1>7. MovesOne(g, h, s)
  BY <1>1, <1>6, WoodMovesOne DEF MovesOne
<1>8. Spares(g, h)
  BY <1>1, <1>4, <1>5, <1>6, <1>7, SameHands DEF Refretted
<1> QED
  BY <1>2, <1>8, SparesItself

LEMMA PressFretSpares ==
    ASSUME NEW g, Whole(g), NEW e
    PROVE  Spares(g, PressFret(g, e))
<1> DEFINE s == e.string
           still == IF g.strings[s].shift > 0 THEN Rub(g, s, FALSE) ELSE g
           lain == SetDamper(still, s, Free)
           down == SetFret(lain, s, e.fret)
           h == [down EXCEPT !.strings[s].shift = 0, !.strings[s].fret = e.fret,
                             !.strings[s].fretted = TRUE, !.strings[s].released = FALSE]
           st == [down.strings[s] EXCEPT !.shift = 0, !.fret = e.fret,
                                         !.fretted = TRUE, !.released = FALSE]
<1>1. WoodMoves(g, still, s) /\ Refretted(g, still, s)
  <2>1. WoodMoves(g, Rub(g, s, FALSE), s) /\ Refretted(g, Rub(g, s, FALSE), s)
    BY RubMoves
  <2>2. WoodMoves(g, g, s) /\ Refretted(g, g, s)
    BY DEF WoodMoves, Refretted
  <2> QED
    BY <2>1, <2>2
<1>2. PressFret(g, e) \in {g, h}
  BY DEF PressFret
<1> HIDE DEF still, s
<1>3. /\ WoodMoves(still, lain, s)
      /\ s \in Strings => lain.wood[s].rings <=> still.wood[s].rings
  <2>1. Whole(still)
    BY <1>1 DEF WoodMoves
  <2> QED
    BY <2>1, DamperMoves DEF Free, Flesh
<1> HIDE DEF lain
<1>4. WoodMoves(lain, down, s) /\ Refretted(lain, down, s)
  BY <1>3, FretMoves DEF WoodMoves
<1> HIDE DEF down
<1>5. WoodMoves(g, down, s) /\ (s \in Strings => (down.wood[s].rings <=> g.wood[s].rings))
  BY <1>1, <1>3, <1>4 DEF WoodMoves, Refretted
<1>6. Whole(down) /\ DOMAIN down = PlayerFields /\ DOMAIN down.strings = Strings
      /\ down.strings = g.strings
      /\ (s \in Strings => Fits(down.strings[s], down.wood[s]))
  BY <1>5 DEF WoodMoves, Whole, Shaped, PlayerFields
<1>7. /\ DOMAIN h = DOMAIN down /\ \A x \in PlayerFields \ {"strings"} : h[x] = down[x]
      /\ DOMAIN h.strings = Strings
      /\ \A t \in Strings \ {s} : h.strings[t] = down.strings[t]
      /\ s \in Strings => h.strings[s] = st
  BY <1>6 DEF PlayerFields
<1>8. s \in Strings =>
        /\ DOMAIN st = DOMAIN NewString /\ st.key = g.strings[s].key
        /\ st.down = g.strings[s].down /\ st.sustained = g.strings[s].sustained
        /\ st.released = FALSE /\ st.resting = g.strings[s].resting /\ st.fretted = TRUE
        /\ {st.down, st.sustained, st.released, st.resting, st.fretted} \subseteq BOOLEAN
  BY <1>6 DEF Fits, NewString
<1> HIDE DEF h, st
<1>9. MovesOne(down, h, s) /\ h.wood = down.wood
  BY <1>6, <1>7, <1>8, StringMoves
<1>10. MovesOne(g, h, s)
  BY <1>5, <1>9, WoodMovesOne DEF MovesOne
<1>11. s \in Strings => Spared(g, h, s)
  BY <1>5, <1>7, <1>8, <1>9, <1>10 DEF MovesOne, Spared, Heard, Lies, ForSomebody, UnderFlesh
<1> QED
  BY <1>2, <1>10, <1>11, OneSpared, SparesItself

\* The pick, under the hand or free of it, moves the string it plucks.
LEMMA UnderHandSpares ==
    ASSUME NEW g, Whole(g), NEW s
    PROVE  LET h == StrikeUnderHand(g, s)
           IN /\ SparesOthers(g, h, s)
              /\ s \in Strings => /\ h.strings[s].key = g.strings[s].key
                                  /\ h.strings[s].down = g.strings[s].down
                                  /\ h.strings[s].sustained = g.strings[s].sustained
<1> DEFINE lain == SetDamper(g, s, Flesh)
           down == SetFret(lain, s, 0)
           h == [down EXCEPT !.strings[s].fretted = FALSE, !.strings[s].resting = TRUE]
           st == [down.strings[s] EXCEPT !.fretted = FALSE, !.resting = TRUE]
<1>1. WoodMoves(g, lain, s)
  BY DamperMoves
<1>2. StrikeUnderHand(g, s) = h
  BY DEF StrikeUnderHand
<1> HIDE DEF lain
<1>3. WoodMoves(lain, down, s)
  BY <1>1, FretMoves DEF WoodMoves
<1> HIDE DEF down
<1>4. WoodMoves(g, down, s)
  BY <1>1, <1>3 DEF WoodMoves
<1>5. Whole(down) /\ DOMAIN down = PlayerFields /\ DOMAIN down.strings = Strings
      /\ down.strings = g.strings
      /\ (s \in Strings => Fits(down.strings[s], down.wood[s]))
  BY <1>4 DEF WoodMoves, Whole, Shaped, PlayerFields
<1>6. /\ DOMAIN h = DOMAIN down /\ \A x \in PlayerFields \ {"strings"} : h[x] = down[x]
      /\ DOMAIN h.strings = Strings
      /\ \A t \in Strings \ {s} : h.strings[t] = down.strings[t]
      /\ s \in Strings => h.strings[s] = st
  BY <1>5 DEF PlayerFields
<1>7. s \in Strings =>
        /\ DOMAIN st = DOMAIN NewString /\ st.key = g.strings[s].key
        /\ st.down = g.strings[s].down /\ st.sustained = g.strings[s].sustained
        /\ {st.down, st.sustained, st.released, st.resting, st.fretted} \subseteq BOOLEAN
  BY <1>5 DEF Fits, NewString
<1> HIDE DEF h, st
<1>8. MovesOne(down, h, s)
  BY <1>5, <1>6, <1>7, StringMoves
<1>9. MovesOne(g, h, s)
  BY <1>4, <1>8, WoodMovesOne DEF MovesOne
<1> QED
  BY <1>2, <1>6, <1>7, <1>9, MovesSpareOthers

LEMMA StrikeFreeSpares ==
    ASSUME NEW g, Whole(g), NEW e
    PROVE  LET h == StrikeFree(g, e)
               s == e.string
           IN /\ SparesOthers(g, h, s)
              /\ s \in Strings => /\ h.strings[s].key = g.strings[s].key
                                  /\ h.strings[s].down = g.strings[s].down
                                  /\ h.strings[s].sustained = g.strings[s].sustained
<1> DEFINE s == e.string
           hand == LiftRestingHand(g)
           stopped == SetFret(hand, s, e.fret)
           touching == SetDamper(stopped, s, Touched)
           pinched == Schedule(touching, Event("liftTouch", s, TouchTicks))
           touched == SetDamper(stopped, s, e.touch)
<1>1. /\ Spares(g, hand) /\ Whole(hand)
      /\ \A t \in Strings : /\ hand.strings[t].key = g.strings[t].key
                            /\ hand.strings[t].down = g.strings[t].down
                            /\ hand.strings[t].sustained = g.strings[t].sustained
  BY HandLifts DEF Spares
<1>2. StrikeFree(g, e) \in {pinched, touched}
  BY DEF StrikeFree
<1> HIDE DEF hand, s
<1>3. WoodMoves(hand, stopped, s)
  BY <1>1, FretMoves
<1> HIDE DEF stopped
<1>4. WoodMoves(stopped, touching, s) /\ WoodMoves(stopped, touched, s)
  BY <1>3, DamperMoves DEF WoodMoves
<1> HIDE DEF touching, touched
<1>5. EventsJoin(touching, pinched)
  BY <1>4, EventsFine, ScheduleJoins DEF WoodMoves
<1> HIDE DEF pinched
<1>6. MovesOne(hand, touched, s) /\ touched.strings = hand.strings
  <2>1. touched.strings = stopped.strings /\ stopped.strings = hand.strings
    BY <1>3, <1>4 DEF WoodMoves, PlayerFields
  <2>2. MovesOne(hand, stopped, s) /\ MovesOne(stopped, touched, s)
    BY <1>3, <1>4, WoodMovesOne
  <2> QED
    BY <2>1, <2>2 DEF MovesOne
<1>7. MovesOne(hand, pinched, s) /\ pinched.strings = hand.strings
  <2>1. touching.strings = stopped.strings /\ stopped.strings = hand.strings
        /\ pinched.strings = touching.strings
    BY <1>3, <1>4, <1>5 DEF WoodMoves, EventsJoin, PlayerFields
  <2>2. MovesOne(hand, stopped, s) /\ MovesOne(stopped, touching, s)
    BY <1>3, <1>4, WoodMovesOne
  <2>3. MovesOne(touching, pinched, s)
    BY <1>4, <1>5, JoinedMovesOne DEF WoodMoves
  <2> QED
    BY <2>1, <2>2, <2>3 DEF MovesOne
<1>8. SparesOthers(hand, touched, s) /\ SparesOthers(hand, pinched, s)
  BY <1>6, <1>7, MovesSpareOthers
<1>9. SparesOthers(g, touched, s) /\ SparesOthers(g, pinched, s)
  BY <1>1, <1>8, SparesAlso, OthersSparedOn
<1> QED
  BY <1>1, <1>2, <1>6, <1>7, <1>9 DEF s

\* It comes late when nobody has the string any more.
LEMMA StrikeSpares ==
    ASSUME NEW g, Whole(g), NEW e
    PROVE  LET h == StrikeString(g, e)
               s == e.string
           IN /\ SparesOthers(g, h, s)
              /\ s \in Strings => Safe(h, s) \/ g.strings[s].key = None
<1> DEFINE s == e.string
           laid == IF g.damping THEN StrikeUnderHand(g, s) ELSE StrikeFree(g, e)
           struck == Pluck(laid, s)
           st == struck.strings[s]
<1>1. /\ SparesOthers(g, laid, s)
      /\ s \in Strings => /\ laid.strings[s].key = g.strings[s].key
                          /\ laid.strings[s].down = g.strings[s].down
                          /\ laid.strings[s].sustained = g.strings[s].sustained
  BY UnderHandSpares, StrikeFreeSpares
<1>2. StrikeString(g, e) =
        IF ~st.down /\ ~st.sustained /\ st.key # None THEN Release(struck, s) ELSE struck
  BY DEF StrikeString
<1> HIDE DEF laid, s
<1>3. WoodMoves(laid, struck, s)
  BY <1>1, PluckMoves DEF SparesOthers
<1> HIDE DEF struck
<1>4. MovesOne(laid, struck, s) /\ struck.strings = laid.strings /\ Whole(struck)
  BY <1>3, WoodMovesOne DEF WoodMoves, PlayerFields
<1>5. SparesOthers(g, struck, s)
  BY <1>1, <1>4, MovesSpareOthers, OthersSparedOn
<1>6. CASE ~st.down /\ ~st.sustained /\ st.key # None
  <2>1. LetsGo(struck, Release(struck, s), s)
    BY <1>4, ReleaseLetsGo
  <2>2. SparesOthers(struck, Release(struck, s), s)
    BY <2>1 DEF LetsGo, SparesOthers
  <2>3. SparesOthers(g, Release(struck, s), s)
    BY <1>5, <2>2, OthersSparedOn
  <2> QED
    BY <1>2, <1>6, <2>1, <2>3 DEF LetsGo, s
<1>7. CASE ~(~st.down /\ ~st.sustained /\ st.key # None)
  <2>1. s \in Strings => Safe(struck, s) \/ g.strings[s].key = None
    BY <1>1, <1>4, <1>7 DEF Safe, Heard, Lies, ForSomebody, UnderFlesh
  <2> QED
    BY <1>2, <1>5, <1>7, <2>1 DEF s
<1> QED
  BY <1>6, <1>7

-----------------------------------------------------------------------------
(* A tick, and the event that is due.                                      *)

LEMMA SoonerPicks ==
    ASSUME NEW q, IsQueue(q)
    PROVE  Picked(AllSooner(q)) = Picked(q)
<1> DEFINE r == AllSooner(q)
<1>1. r = [i \in DOMAIN q |-> [q[i] EXCEPT !.wait = Sooner(@)]]
  BY DEF AllSooner
<1> HIDE DEF r
<1>2. \A i \in DOMAIN q : r[i].kind = q[i].kind /\ r[i].string = q[i].string
  BY <1>1 DEF IsQueue
<1> QED
  BY <1>1, <1>2 DEF Picked, r

LEMMA CountdownSpares ==
    ASSUME NEW g, Whole(g)
    PROVE  Spares(g, Countdown(g))
<1> DEFINE h == Countdown(g)
           a == [s \in Strings |-> [g.strings[s] EXCEPT !.due = Sooner(@)]]
<1>0. /\ DOMAIN g = PlayerFields /\ QueuesFine(g) /\ g.pending \in Seq(Keys)
      /\ DOMAIN g.wood = Strings /\ \A s \in Strings : Fits(g.strings[s], g.wood[s])
  BY DEF Whole, Shaped
<1>1. /\ DOMAIN h = DOMAIN g /\ h.strings = a /\ h.wood = g.wood
      /\ h.events = AllSooner(g.events) /\ h.pending = g.pending
  BY <1>0 DEF Countdown, PlayerFields
<1> HIDE DEF h
<1>2. ASSUME NEW s \in Strings
      PROVE  /\ DOMAIN a[s] = DOMAIN NewString /\ a[s].key = g.strings[s].key
             /\ a[s].down = g.strings[s].down /\ a[s].sustained = g.strings[s].sustained
             /\ a[s].released = g.strings[s].released
             /\ a[s].resting = g.strings[s].resting /\ a[s].fretted = g.strings[s].fretted
  <2>1. a[s] = [g.strings[s] EXCEPT !.due = Sooner(@)] /\ Fits(g.strings[s], g.wood[s])
    BY <1>0
  <2> HIDE DEF a
  <2> QED
    BY <2>1 DEF Fits, NewString
<1>3. DOMAIN a = Strings
  OBVIOUS
<1> HIDE DEF a
<1>4. QueuesFine(h)
  <2>1. DOMAIN h = DOMAIN g /\ h.delayed = AllSooner(g.delayed)
    BY <1>0, <1>1 DEF Countdown, PlayerFields, h
  <2>2. h.delayed \in Seq(Messages)
    <3> DEFINE q == g.delayed
    <3>1. q \in Seq(Messages) /\ Len(q) \in Nat /\ DOMAIN q = 1 .. Len(q)
      BY <1>0 DEF QueuesFine
    <3> HIDE DEF q
    <3>2. \A m \in Messages : [m EXCEPT !.wait = Sooner(@)] \in Messages
      BY QueueAssumption DEF Messages, Sooner
    <3>3. AllSooner(q) = [i \in 1 .. Len(q) |-> [q[i] EXCEPT !.wait = Sooner(@)]]
      BY <3>1 DEF AllSooner
    <3>4. AllSooner(q) \in [1 .. Len(q) -> Messages]
      BY <3>1, <3>2, <3>3
    <3>5. AllSooner(q) \in Seq(Messages)
      BY <3>1, <3>4
    <3> QED
      BY <2>1, <3>5 DEF q
  <2> QED
    BY <1>0, <1>1, <2>1, <2>2, SoonerStays DEF QueuesFine
<1>5. Picked(h.events) = Picked(g.events)
  BY <1>0, <1>1, SoonerPicks DEF QueuesFine
<1>6. Whole(h)
  <2>1. \A s \in Strings : Fits(h.strings[s], h.wood[s])
    BY <1>0, <1>1, <1>2 DEF Fits
  <2> QED
    BY <1>0, <1>1, <1>3, <1>4, <2>1 DEF Whole, Shaped
<1>7. ASSUME NEW s \in Strings
      PROVE  Spared(g, h, s)
  BY <1>1, <1>2, <1>5 DEF Spared, Heard, Lies, ForSomebody, UnderFlesh
<1> QED
  BY <1>6, <1>7 DEF Spares, h

\* Slides and glides move frets, and leave keys and flesh alone.
LEMMA ControlUpdateMoves ==
    ASSUME NEW g, Whole(g), NEW s \in Strings, NEW ended
    PROVE  LET h == ControlUpdate(g, s, ended)
               st == g.strings[s]
               new == h.strings[s]
           IN /\ DOMAIN new = DOMAIN NewString /\ new.key = st.key /\ new.down = st.down
              /\ new.sustained = st.sustained /\ new.released = st.released
              /\ new.resting = st.resting /\ new.fretted = st.fretted
              /\ DOMAIN h.wood[s] = DOMAIN NewWood
              /\ h.wood[s].damper = g.wood[s].damper /\ h.wood[s].rings = g.wood[s].rings
<1> DEFINE st == g.strings[s]
           w == g.wood[s]
           SameSt(new) ==
             /\ DOMAIN new = DOMAIN NewString /\ new.key = st.key /\ new.down = st.down
             /\ new.sustained = st.sustained /\ new.released = st.released
             /\ new.resting = st.resting /\ new.fretted = st.fretted
           SameW(v) == DOMAIN v = DOMAIN NewWood /\ v.damper = w.damper /\ v.rings = w.rings
           Good(h) == /\ DOMAIN h.strings = Strings /\ DOMAIN h.wood = Strings
                      /\ {"strings", "wood"} \subseteq DOMAIN h
                      /\ SameSt(h.strings[s]) /\ SameW(h.wood[s])
<1>1. Good(g)
  BY DEF Whole, Shaped, Fits, PlayerFields
<1>2. ASSUME NEW h, Good(h), NEW on
      PROVE  Good(Rub(h, s, on))
  <2> DEFINE i == Rub(h, s, on)
  <2>1. /\ i.strings = h.strings /\ DOMAIN i = DOMAIN h /\ DOMAIN i.wood = Strings
        /\ i.wood[s] = [h.wood[s] EXCEPT !.rubbed = on]
    BY <1>2 DEF Rub
  <2>2. SameW(i.wood[s])
    BY <1>2, <2>1 DEF NewWood
  <2> HIDE DEF i, SameW, SameSt
  <2> QED
    BY <1>2, <2>1, <2>2 DEF i
<1>3. ASSUME NEW h, Good(h), NEW f
      PROVE  Good(SetFret(h, s, f))
  <2> DEFINE i == SetFret(h, s, f)
  <2>1. /\ i.strings = h.strings /\ DOMAIN i = DOMAIN h /\ DOMAIN i.wood = Strings
        /\ i.wood[s] = [h.wood[s] EXCEPT !.fret = f, !.lifted = FALSE]
    BY <1>3 DEF SetFret
  <2>2. SameW(i.wood[s])
    BY <1>3, <2>1 DEF NewWood
  <2> HIDE DEF i, SameW, SameSt
  <2> QED
    BY <1>3, <2>1, <2>2 DEF i
<1>4. ASSUME NEW h, Good(h), NEW x, NEW y
      PROVE  /\ Good([h EXCEPT !.strings[s].shift = x])
             /\ Good([h EXCEPT !.strings[s].fret = x, !.strings[s].slideTo = y])
  <2> DEFINE i == [h EXCEPT !.strings[s].shift = x]
             j == [h EXCEPT !.strings[s].fret = x, !.strings[s].slideTo = y]
  <2>1. /\ i.wood = h.wood /\ DOMAIN i = DOMAIN h /\ DOMAIN i.strings = Strings
        /\ i.strings[s] = [h.strings[s] EXCEPT !.shift = x]
        /\ j.wood = h.wood /\ DOMAIN j = DOMAIN h /\ DOMAIN j.strings = Strings
        /\ j.strings[s] = [h.strings[s] EXCEPT !.fret = x, !.slideTo = y]
    BY <1>4
  <2>2. SameSt(i.strings[s]) /\ SameSt(j.strings[s])
    BY <1>4, <2>1 DEF NewString
  <2> HIDE DEF i, j, SameW, SameSt
  <2> QED
    BY <1>4, <2>1, <2>2 DEF i, j
<1> DEFINE rubbing == Rub(g, s, st.shift > 1)
           shifting == [rubbing EXCEPT !.strings[s].shift = @ - 1]
           shifted == IF st.shift = 0 THEN g ELSE shifting
           refretted == SetFret(shifted, s, st.slideTo)
           arrived == IF st.fret = st.slideTo THEN shifted ELSE refretted
           still == Rub(arrived, s, FALSE)
           there == [still EXCEPT !.strings[s].fret = st.slideTo, !.strings[s].slideTo = None]
           sliding == Rub(shifted, s, st.fret # st.slideTo)
<1>5. ControlUpdate(g, s, ended) \in {shifted, sliding, there}
  BY DEF ControlUpdate
<1>6. Good(shifted)
  <2>1. Good(rubbing)
    BY <1>1, <1>2
  <2> HIDE DEF Good, rubbing
  <2>2. \A x : Good([rubbing EXCEPT !.strings[s].shift = x])
    BY <1>4, <2>1
  <2>3. shifting = [rubbing EXCEPT !.strings[s].shift = rubbing.strings[s].shift - 1]
    OBVIOUS
  <2>4. Good(shifting)
    BY <2>2, <2>3
  <2> HIDE DEF shifting
  <2> QED
    BY <1>1, <2>4
<1> HIDE DEF Good, shifted
<1>7. Good(sliding) /\ Good(arrived)
  BY <1>2, <1>3, <1>6
<1> HIDE DEF arrived
<1>8. Good(still)
  BY <1>2, <1>7
<1> HIDE DEF still
<1>9. Good(there)
  BY <1>4, <1>8
<1> HIDE DEF there, sliding
<1>10. Good(ControlUpdate(g, s, ended))
  BY <1>5, <1>6, <1>7, <1>9
<1> QED
  BY <1>10 DEF Good

LEMMA TickSpares ==
    ASSUME NEW g, Whole(g), NEW ended
    PROVE  Spares(g, EachString(LAMBDA h, s : ControlUpdate(h, s, ended), Countdown(g)))
<1> DEFINE h == Countdown(g)
           a == [s \in Strings |-> ControlUpdate(h, s, ended).strings[s]]
           b == [s \in Strings |-> ControlUpdate(h, s, ended).wood[s]]
<1>1. Spares(g, h) /\ Whole(h)
  BY CountdownSpares DEF Spares
<1>2. EachString(LAMBDA x, s : ControlUpdate(x, s, ended), Countdown(g))
        = [h EXCEPT !.strings = a, !.wood = b]
  BY DEF EachString
<1> HIDE DEF h
<1>3. ASSUME NEW s \in Strings
      PROVE  /\ Fits(a[s], b[s])
             /\ Heard(h, s) => ForSomebody(a[s], b[s], s \in Picked(h.events))
             /\ Lies(h, s) => UnderFlesh(a[s], b[s])
  <2> DEFINE st == h.strings[s]
             w == h.wood[s]
             at == a[s]
             bt == b[s]
  <2>1. /\ DOMAIN at = DOMAIN NewString /\ at.key = st.key /\ at.down = st.down
        /\ at.sustained = st.sustained /\ at.released = st.released
        /\ at.resting = st.resting /\ at.fretted = st.fretted
        /\ DOMAIN bt = DOMAIN NewWood /\ bt.damper = w.damper /\ bt.rings = w.rings
    BY <1>1, ControlUpdateMoves
  <2>2. Fits(st, w)
    BY <1>1 DEF Whole, Shaped
  <2> HIDE DEF at, bt
  <2>3. Fits(at, bt)
    BY <2>1, <2>2 DEF Fits
  <2>4. Heard(h, s) => ForSomebody(at, bt, s \in Picked(h.events))
    BY <2>1 DEF Heard, ForSomebody
  <2>5. Lies(h, s) => UnderFlesh(at, bt)
    BY <2>1 DEF Lies, UnderFlesh
  <2> QED
    BY <2>3, <2>4, <2>5 DEF at, bt
<1> HIDE DEF a, b
<1>4. DOMAIN a = Strings /\ DOMAIN b = Strings
  BY DEF a, b
<1>5. Spares(h, [h EXCEPT !.strings = a, !.wood = b])
  BY <1>1, <1>3, <1>4, AllMove
<1> QED
  BY <1>1, <1>2, <1>5, SparesOn

\* The due event is taken off the queue, and its pick with it.
LEMMA TakeEvent ==
    ASSUME NEW g, Whole(g), g.events # <<>>
    PROVE  LET h == [g EXCEPT !.events = Tail(@)]
               e == Head(g.events)
           IN /\ Whole(h) /\ h.strings = g.strings /\ h.wood = g.wood /\ e.kind \in EventKinds
              /\ Picked(g.events) \ Picked(h.events)
                   \subseteq {s \in {e.string} : e.kind = "strike"}
<1> DEFINE q == g.events
           h == [g EXCEPT !.events = Tail(@)]
           e == Head(q)
           S == ToSet(q)
<1>0. DOMAIN g = PlayerFields /\ QueuesFine(g) /\ g.pending \in Seq(Keys)
  BY DEF Whole, Shaped
<1>1. q \in Seq(S) /\ q # <<>> /\ IsQueue(q)
  BY <1>0 DEF QueuesFine, IsQueue
<1>2. /\ DOMAIN h = DOMAIN g /\ h.strings = g.strings /\ h.wood = g.wood
      /\ h.events = Tail(q) /\ h.pending = g.pending /\ h.delayed = g.delayed
  BY <1>0 DEF PlayerFields
<1> HIDE DEF h, q, S
<1>3. /\ e \in S /\ e = q[1] /\ Tail(q) \in Seq(S) /\ Len(q) \in Nat /\ DOMAIN q = 1 .. Len(q)
      /\ DOMAIN Tail(q) = 1 .. Len(q) - 1 /\ \A i \in 1 .. Len(q) - 1 : Tail(q)[i] = q[i + 1]
  BY <1>1
<1> HIDE DEF e
<1>4. \A x \in S : {"kind", "string"} \subseteq DOMAIN x /\ x.kind \in EventKinds
  BY <1>1, QueueIsOf DEF S
<1>5. e.kind \in EventKinds /\ IsQueue(Tail(q))
  BY <1>3, <1>4, QueueOf
<1>6. QueuesFine(h) /\ Whole(h)
  <2>1. QueuesFine(h)
    BY <1>0, <1>2, <1>5 DEF QueuesFine
  <2> QED
    BY <1>0, <1>2, <2>1 DEF Whole, Shaped
<1>7. ASSUME NEW s \in Picked(q), s \notin Picked(Tail(q))
      PROVE  s = e.string /\ e.kind = "strike"
  <2>1. PICK i \in 1 .. Len(q) : q[i].kind = "strike" /\ q[i].string = s
    BY <1>3 DEF Picked
  <2>2. s \in Strings
    BY DEF Picked
  <2>3. CASE i = 1
    BY <1>3, <2>1, <2>3
  <2>4. CASE i # 1
    <3>1. i - 1 \in 1 .. Len(q) - 1 /\ (i - 1) + 1 = i
      BY <1>3, <2>4
    <3>2. Tail(q)[i - 1] = q[i]
      BY <1>3, <3>1
    <3>3. s \in Picked(Tail(q))
      BY <1>3, <2>1, <2>2, <3>1, <3>2 DEF Picked
    <3> QED
      BY <1>7, <3>3
  <2> QED
    BY <2>3, <2>4
<1> QED
  BY <1>2, <1>5, <1>6, <1>7 DEF h, e, q

\* Only a pick or the end of a touch may find its string let go.
LEMMA RunEventSpares ==
    ASSUME NEW g, Whole(g), g.events # <<>>
    PROVE  LET e == Head(g.events)
               h == RunEvent([g EXCEPT !.events = Tail(@)], e)
           IN /\ Whole(h)
              /\ \A s \in Strings :
                    \/ Spared(g, h, s)
                    \/ e.kind = "strike" /\ e.string = s /\ g.strings[s].key = None
                    \/ /\ e.kind = "liftTouch" /\ e.string = s
                       /\ g.strings[s].key = None /\ g.strings[s].released
                       /\ Heard(g, s) => Heard(h, s)
<1> DEFINE e == Head(g.events)
           f == [g EXCEPT !.events = Tail(@)]
           h == RunEvent(f, e)
<1>1. /\ Whole(f) /\ f.strings = g.strings /\ f.wood = g.wood /\ e.kind \in EventKinds
      /\ Picked(g.events) \ Picked(f.events) \subseteq {s \in {e.string} : e.kind = "strike"}
  BY TakeEvent
<1> HIDE DEF e, f
<1>2. \A s \in Strings \ {t \in {e.string} : e.kind = "strike"} : Spared(g, f, s)
  BY <1>1 DEF Spared, Heard, Lies, ForSomebody
<1>3. CASE e.kind \notin {"strike", "liftTouch"}
  <2>1. Spares(f, h)
    <3>1. /\ Spares(f, LeaveString(f, e.string)) /\ Spares(f, PrepareNotes(f, e.due))
          /\ Spares(f, StartShift(f, e)) /\ Spares(f, PressFret(f, e))
      BY <1>1, LeaveStringSpares, PrepareSpares, StartShiftSpares, PressFretSpares
    <3>2. h \in {LeaveString(f, e.string), PrepareNotes(f, e.due),
                 StartShift(f, e), PressFret(f, e)}
      BY <1>1, <1>3 DEF RunEvent, EventKinds
    <3> HIDE DEF h
    <3> QED
      BY <3>1, <3>2
  <2> HIDE DEF h
  <2>2. \A s \in Strings : Spared(g, h, s)
    BY <1>2, <1>3, <2>1 DEF Spares, Spared
  <2> QED
    BY <2>1, <2>2 DEF Spares, h, e, f
<1>4. CASE e.kind = "liftTouch"
  <2> DEFINE s == e.string
  <2>1. h = LiftTouch(f, s)
    BY <1>4 DEF RunEvent
  <2>2. /\ SparesOthers(f, h, s)
        /\ s \in Strings => Spared(f, h, s) \/ (f.strings[s].key = None /\ f.strings[s].released)
    BY <1>1, <2>1, LiftTouchSpares
  <2>3. s \in Strings => (Heard(f, s) => Heard(h, s))
    <3> DEFINE i == SetDamper(f, s, Free)
    <3>1. /\ WoodMoves(f, i, s)
          /\ s \in Strings => i.wood[s].rings <=> f.wood[s].rings
      BY <1>1, DamperMoves DEF Free, Flesh
    <3>2. h \in {f, i}
      BY <2>1 DEF LiftTouch
    <3> HIDE DEF i, h
    <3>3. i.strings = f.strings /\ i.events = f.events
      BY <3>1 DEF WoodMoves, PlayerFields
    <3> QED
      BY <3>1, <3>2, <3>3 DEF Heard, ForSomebody
  <2> HIDE DEF h, s
  <2>4. ASSUME NEW t \in Strings
        PROVE  \/ Spared(g, h, t)
               \/ /\ t = s /\ g.strings[t].key = None /\ g.strings[t].released
                  /\ Heard(g, t) => Heard(h, t)
    <3>1. Spared(g, f, t)
      BY <1>2, <1>4
    <3>2. CASE t # s
      BY <2>2, <3>1, <3>2 DEF SparesOthers, Spared
    <3>3. CASE t = s
      BY <1>1, <2>2, <2>3, <3>1, <3>3 DEF Spared
    <3> QED
      BY <3>2, <3>3
  <2> QED
    BY <1>4, <2>2, <2>4 DEF SparesOthers, s, h, e, f
<1>5. CASE e.kind = "strike"
  <2> DEFINE s == e.string
  <2>1. h = StrikeString(f, e)
    BY <1>5 DEF RunEvent
  <2>2. SparesOthers(f, h, s) /\ (s \in Strings => Safe(h, s) \/ f.strings[s].key = None)
    BY <1>1, <2>1, StrikeSpares
  <2> HIDE DEF h, s
  <2>3. ASSUME NEW t \in Strings
        PROVE  Spared(g, h, t) \/ (t = s /\ g.strings[t].key = None)
    <3>1. CASE t # s
      <4>1. Spared(g, f, t)
        BY <1>2, <3>1 DEF s
      <4> QED
        BY <2>2, <3>1, <4>1 DEF SparesOthers, Spared
    <3>2. CASE t = s
      BY <1>1, <2>2, <3>2 DEF Safe, Spared
    <3> QED
      BY <3>1, <3>2
  <2> QED
    BY <1>5, <2>2, <2>3 DEF SparesOthers, s, h, e, f
<1> QED
  BY <1>3, <1>4, <1>5

-----------------------------------------------------------------------------
(* The steps of the performer, and the theorems.                           *)

HandsInv == Whole(player) /\ plays \in Players

LEMMA NewPlayerIsSafe ==
    ASSUME NEW c
    PROVE  Whole(NewPlayer(c)) /\ \A s \in Strings : Safe(NewPlayer(c), s)
<1> DEFINE g == NewPlayer(c)
<1>1. /\ DOMAIN g = PlayerFields /\ g.strings = [s \in Strings |-> NewString]
      /\ g.wood = [s \in Strings |-> NewWood] /\ g.pending = <<>>
  BY DEF NewPlayer, PlayerFields
<1>2. QueuesFine(g)
  BY NewIsFine
<1> HIDE DEF g
<1>3. Fits(NewString, NewWood)
  BY DEF Fits, NewString, NewWood
<1>4. NewWood.rings = FALSE /\ NewString.released = FALSE /\ NewString.resting = FALSE
  BY DEF NewString, NewWood
<1>5. Whole(g)
  BY <1>1, <1>2, <1>3 DEF Whole, Shaped
<1>6. ASSUME NEW s \in Strings
      PROVE  Safe(g, s)
  <2>1. g.strings[s] = NewString /\ g.wood[s] = NewWood
    BY <1>1
  <2> QED
    BY <1>4, <2>1 DEF Safe, Heard, Lies, ForSomebody, UnderFlesh
<1> QED
  BY <1>5, <1>6 DEF g

LEMMA HandsInitially == Init => HandsInv
<1> SUFFICES ASSUME Init PROVE HandsInv
  OBVIOUS
<1>1. PICK c : player = NewPlayer(c)
  BY DEF Init
<1> QED
  BY <1>1, NewPlayerIsSafe DEF Init, HandsInv

LEMMA ResetIsSafe ==
    ASSUME Whole(player), Reset
    PROVE  Whole(player') /\ \A s \in Strings : Safe(player', s)
<1> DEFINE new == NewPlayer(player.controls)
<1>1. Whole(new) /\ \A s \in Strings : Safe(new, s)
  BY NewPlayerIsSafe
<1>2. player' = [new EXCEPT !.style = player.style, !.stroke = player.stroke]
  BY DEF Reset
<1> HIDE DEF new
<1>3. DOMAIN new = PlayerFields /\ QueuesFine(new) /\ new.pending \in Seq(Keys)
  BY <1>1 DEF Whole, Shaped
<1>4. /\ DOMAIN player' = DOMAIN new /\ player'.strings = new.strings
      /\ player'.wood = new.wood /\ player'.events = new.events
      /\ player'.pending = new.pending /\ Still(new, player')
  BY <1>2, <1>3 DEF PlayerFields, Still
<1>5. Spares(new, player')
  BY <1>1, <1>3, <1>4, StillKeeps, HandsUnmoved DEF Keeps
<1> QED
  BY <1>1, <1>5 DEF Spares, Spared, Safe

\* What a step may do to string s, whatever else it does.
Allowed(s) ==
    \/ Spared(player, player', s) \/ LatePick(s)
    \/ LateTouch(s) /\ (Heard(player, s) => Heard(player', s))
HandsStay == Whole(player') /\ \A s \in Strings : Allowed(s)

LEMMA SparedStays ==
    ASSUME Spares(player, player')
    PROVE  HandsStay
BY DEF Spares, HandsStay, Allowed

LEMMA StrokeStays ==
    ASSUME Whole(player), StrokeIfPending
    PROVE  HandsStay
<1>1. Spares(player, player')
  <2>1. CASE UNCHANGED player
    BY <2>1, SparesItself
  <2>2. ASSUME NEW up, NEW sounding, player' = StartStroke(player, up, sounding)
        PROVE  Spares(player, player')
    BY <2>2, StrokeSpares
  <2> QED
    BY <2>1, <2>2 DEF StrokeIfPending
<1> QED
  BY <1>1, SparedStays

LEMMA RunDueEventStays ==
    ASSUME Whole(player), RunDueEvent
    PROVE  HandsStay
<1> DEFINE e == Head(player.events)
<1>1. player.events # <<>> /\ phase = "events" /\ EventIsDue
  BY DEF RunDueEvent, EventIsDue
<1>2. player' = RunEvent([player EXCEPT !.events = Tail(@)], e)
  BY DEF RunDueEvent
<1>3. /\ Whole(player')
      /\ \A s \in Strings :
            \/ Spared(player, player', s)
            \/ e.kind = "strike" /\ e.string = s /\ player.strings[s].key = None
            \/ /\ e.kind = "liftTouch" /\ e.string = s
               /\ player.strings[s].key = None /\ player.strings[s].released
               /\ Heard(player, s) => Heard(player', s)
  BY <1>1, <1>2, RunEventSpares
<1> QED
  BY <1>1, <1>3 DEF HandsStay, Allowed, LatePick, LateTouch, Due

LEMMA HandsStep ==
    ASSUME HandsInv, [Next]_vars
    PROVE  HandsInv' /\ HandsStay
<1>0. Whole(player) /\ plays \in Players
  BY DEF HandsInv
<1> SUFFICES HandsStay /\ plays' = plays
  BY <1>0 DEF HandsInv, HandsStay
<1>1. ASSUME NEW k \in Keys \cup {Damp}, NoteOn(k)
      PROVE  HandsStay /\ plays' = plays
  <2>1. k \in AllKeys
    BY DEF AllKeys
  <2> QED
    BY <1>0, <1>1, <2>1, ReceiveNoteOnSpares, SparedStays DEF NoteOn, Calls
<1>2. ASSUME NEW k \in Keys \cup {Damp}, NoteOff(k)
      PROVE  HandsStay /\ plays' = plays
  <2>1. k \in AllKeys
    BY DEF AllKeys
  <2> QED
    BY <1>0, <1>2, <2>1, ReceiveSpares, SparedStays DEF NoteOff, Calls
<1>3. ASSUME NEW k \in plays.styles \cup plays.strokes, Keyswitch(k)
      PROVE  HandsStay /\ plays' = plays
  <2>1. k \in AllKeys
    BY <1>0, PlayersKeys
  <2> QED
    BY <1>0, <1>3, <2>1, ReceiveNoteOnSpares, SparedStays DEF Keyswitch, Calls
<1>4. ASSUME NEW on \in BOOLEAN, Sustain(on)
      PROVE  HandsStay /\ plays' = plays
  <2>1. (IF on THEN "down" ELSE "up") \in AllKeys
    BY DEF AllKeys
  <2> QED
    BY <1>0, <1>4, <2>1, ReceiveSpares, SparedStays DEF Sustain, Calls
<1>5. ASSUME NEW c \in plays.controls, SetControls(c)
      PROVE  HandsStay /\ plays' = plays
  BY <1>0, <1>5, ChooseControlsSpares, SparedStays DEF SetControls, Calls
<1>6. ASSUME AllNotesOff
      PROVE  HandsStay /\ plays' = plays
  BY <1>0, <1>6, SilenceSpares, SparedStays DEF AllNotesOff, Calls
<1>7. ASSUME Reset
      PROVE  HandsStay /\ plays' = plays
  <2>1. Whole(player') /\ \A s \in Strings : Safe(player', s)
    BY <1>0, <1>7, ResetIsSafe
  <2> QED
    BY <1>7, <2>1 DEF Reset, Calls, HandsStay, Allowed, Spared, Safe
<1>8. ASSUME BeginRender \/ MidiDone
      PROVE  HandsStay /\ plays' = plays
  BY <1>0, <1>8, StrokeStays DEF BeginRender, MidiDone
<1>9. ASSUME DispatchDue
      PROVE  HandsStay /\ plays' = plays
  BY <1>0, <1>9, OldestSpares, SparedStays DEF DispatchDue, MidiIsDue
<1>10. ASSUME RunDueEvent
       PROVE  HandsStay /\ plays' = plays
  BY <1>0, <1>10, RunDueEventStays DEF RunDueEvent
<1>11. ASSUME NEW ended, Tick(ended)
       PROVE  HandsStay /\ plays' = plays
  <2>1. Spares(player, player')
    BY <1>0, <1>11, TickSpares DEF Tick, EachString
  <2> QED
    BY <1>11, <2>1, SparedStays DEF Tick
<1>12. CASE UNCHANGED vars
  BY <1>0, <1>12, SparesItself, SparedStays DEF vars
<1> QED
  BY <1>1, <1>2, <1>3, <1>4, <1>5, <1>6, <1>7, <1>8, <1>9, <1>10, <1>11, <1>12 DEF Next

\* What the properties say of a string, and what the proof says of it.
LEMMA HandsAre ==
    ASSUME NEW s \in Strings
    PROVE  /\ SoundsForSomebody(s) <=> Heard(player, s)
           /\ SoundsForSomebody(s)' <=> Heard(player', s)
           /\ OneLies(s) <=> Lies(player, s)
           /\ OneLies(s)' <=> Lies(player', s)
<1>1. \A g : StrikeWaits(g, s) <=> s \in Picked(g.events)
  BY DEF StrikeWaits, Waiting, Picked
<1>2. SoundsForSomebody(s) <=> Heard(player, s)
  BY <1>1 DEF SoundsForSomebody, Heard, ForSomebody
<1>3. SoundsForSomebody(s)' <=> Heard(player', s)
  BY <1>1 DEF SoundsForSomebody, Heard, ForSomebody
<1>4. OneLies(s) <=> Lies(player, s)
  BY DEF OneLies, FleshLies, Lies, UnderFlesh
<1>5. OneLies(s)' <=> Lies(player', s)
  BY DEF OneLies, FleshLies, Lies, UnderFlesh
<1> QED
  BY <1>2, <1>3, <1>4, <1>5

\* Whoever plays and however hurriedly, with the lookahead or without, on every
\* neck and with queues of every size: no call, message, stroke, event or tick
\* leaves a string ringing that no key, pedal or coming pick holds, but a pick
\* that comes to a string let go since its stroke began.
THEOREM OnlyLatePicksLetStringsRing == Spec => OnlyLatePicksRingForNobody
<1>1. ASSUME HandsInv, [Next]_vars
      PROVE  [\A s \in Strings :
                SoundsForSomebody(s) => SoundsForSomebody(s)' \/ LatePick(s)]_vars
  <2>1. HandsStay
    BY <1>1, HandsStep
  <2>2. ASSUME NEW s \in Strings, SoundsForSomebody(s)
        PROVE  SoundsForSomebody(s)' \/ LatePick(s)
    BY <2>1, <2>2, HandsAre DEF HandsStay, Allowed, Spared
  <2> QED
    BY <2>2
<1>2. HandsInv /\ [Next]_vars => HandsInv'
  BY HandsStep
<1> QED
  BY <1>1, <1>2, HandsInitially, PTL DEF Spec, OnlyLatePicksRingForNobody

\* For the same players and necks: a finger that let go and the hand on a free
\* string stay there, never both on one, until the string is played, but for
\* such a late pick and for the end of a touch on a string let go since.
THEOREM OnlyLateGesturesLiftFlesh == Spec => OnlyTheLateLiftFlesh
<1>1. ASSUME HandsInv, [Next]_vars
      PROVE  [\A s \in Strings : OneLies(s) => OneLies(s)' \/ LatePick(s) \/ LateTouch(s)]_vars
  <2>1. HandsStay
    BY <1>1, HandsStep
  <2>2. ASSUME NEW s \in Strings, OneLies(s)
        PROVE  OneLies(s)' \/ LatePick(s) \/ LateTouch(s)
    BY <2>1, <2>2, HandsAre DEF HandsStay, Allowed, Spared
  <2> QED
    BY <2>2
<1>2. HandsInv /\ [Next]_vars => HandsInv'
  BY HandsStep
<1> QED
  BY <1>1, <1>2, HandsInitially, PTL DEF Spec, OnlyTheLateLiftFlesh

=============================================================================

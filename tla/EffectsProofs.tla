---------------------------- MODULE EffectsProofs ----------------------------
(***************************************************************************)
(* The way of the sound, for every size of the return's ring, every delay  *)
(* that fits it and every partition of the sound into blocks (AudioPath);  *)
(* and the gain block of the effects, for any amplifiers (FxGain).         *)
(*                                                                         *)
(* AudioPath's invariant says what a ring on its way holds: of the chunk   *)
(* that is rendered, so many samples have been heard and not come back     *)
(* yet; the others lie in the ring in order, each as old as its place      *)
(* says.  FxGain's says that a bank which is heard has no stale memory at  *)
(* all, heard or not, and that a block which is not heard is at rest.      *)
(***************************************************************************)
EXTENDS AudioPath, FxGain, TLAPS

Cells == 0 .. RingSize - 1
Age == Int \cup {Silence}
Ring == [cell : [Cells -> Age], write : Cells, read : Cells, available : Nat,
         hears : Age, since : 0 .. Old]

\* The cell of the k-th sample from the head.
At(r, k) == IF r.read + k < RingSize THEN r.read + k ELSE r.read + k - RingSize

\* What the k-th sample is: its age, or silence from before the reset.
Due(r, k) == IF r.since > Delay - 1 - k THEN Delay - 1 - k ELSE Silence

\* A ring with n samples in it, as they should be.
Holds(r, n) ==
    /\ r.available = n
    /\ r.write = At(r, n)
    /\ \A k \in 0 .. n - 1 : r.cell[At(r, k)] = Due(r, k)
    /\ r.since >= Delay - n
    /\ r.hears = IF r.since > Delay THEN Delay ELSE Silence

\* Samples of the chunk that were heard and have not come back.
Missing == CASE pc = "engine" -> done
             [] pc = "effects" -> chunk
             [] pc = "return" -> chunk - done
             [] OTHER -> 0

Counters ==
    /\ pc \in {"host", "engine", "effects", "return"}
    /\ todo \in Nat /\ chunk \in 0 .. Delay /\ done \in Nat
    /\ chunk <= todo
    /\ pc # "host" => done < chunk

PathInv ==
    /\ Counters
    /\ ring \in [Engines -> Ring]
    /\ \A e \in Active : Holds(ring[e], Delay - Missing)

-----------------------------------------------------------------------------
(* The ring                                                                *)

\* The lesser of two integers.
LEMMA MinOfTwo ==
    ASSUME NEW a \in Int, NEW b \in Int
    PROVE  Min({a, b}) = IF a <= b THEN a ELSE b
<1> DEFINE least == IF a <= b THEN a ELSE b
<1>1. least \in {a, b} /\ \A y \in {a, b} : least <= y
  OBVIOUS
<1>2. ASSUME NEW x \in {a, b}, \A y \in {a, b} : x <= y PROVE x = least
  BY <1>1, <1>2
<1> HIDE DEF least
<1>3. (CHOOSE x \in {a, b} : \A y \in {a, b} : x <= y) = least
  BY <1>1, <1>2
<1> QED
  BY <1>3 DEF Min, least

\* The sizes are numbers, and silence is no age.
LEMMA Sizes ==
    /\ RingSize \in Nat /\ Delay \in Nat /\ 0 < Delay /\ Delay < RingSize
    /\ Old = Delay + 1 /\ Scratch \in Nat /\ 0 < Scratch /\ Silence \notin Int
BY PathAssumption DEF Old

\* Going round the ring (feedbackWriteIndex_ and feedbackReadIndex_).
LEMMA StepIs ==
    ASSUME NEW i \in Cells
    PROVE  Step(i) = IF i + 1 = RingSize THEN 0 ELSE i + 1
BY Sizes DEF Step, Cells

\* An older age is an age; until it is too old to tell, it is one more.
LEMMA OlderIs ==
    ASSUME NEW a \in Age
    PROVE  /\ Older(a) \in Age
           /\ a = Silence => Older(a) = Silence
           /\ a \in Int /\ a <= Delay => Older(a) = a + 1
<1>1. CASE a = Silence
  BY <1>1, Sizes DEF Older, Age
<1>2. CASE a # Silence
  <2>1. a \in Int /\ Older(a) = Min({a + 1, Old})
    BY <1>2 DEF Older, Age
  <2>2. Min({a + 1, Old}) = IF a + 1 <= Old THEN a + 1 ELSE Old
    BY <2>1, Sizes, MinOfTwo
  <2> QED
    BY <1>2, <2>1, <2>2, Sizes DEF Age
<1> QED
  BY <1>1, <1>2

\* Time passes, nothing moves.
LEMMA WaitIs ==
    ASSUME NEW r \in Ring
    PROVE  /\ Wait(r) \in Ring
           /\ Wait(r).write = r.write /\ Wait(r).read = r.read
           /\ Wait(r).available = r.available /\ Wait(r).since = r.since
           /\ \A i \in Cells : Wait(r).cell[i] = Older(r.cell[i])
<1> DEFINE older == [i \in Cells |-> Older(r.cell[i])]
<1>1. older \in [Cells -> Age]
  BY OlderIs DEF Ring
<1>2. Wait(r) = [r EXCEPT !.cell = older]
  BY DEF Wait, Ring
<1>3. \A i \in Cells : older[i] = Older(r.cell[i])
  OBVIOUS
<1> HIDE DEF older
<1> QED
  BY <1>1, <1>2, <1>3 DEF Ring

\* The places of a ring: in it, and no two the same.
LEMMA Places ==
    ASSUME NEW r \in Ring, NEW k \in Cells
    PROVE  /\ At(r, k) \in Cells
           /\ At(r, 0) = r.read
           /\ \A j \in Cells : At(r, j) = At(r, k) => j = k
BY Sizes DEF At, Cells, Ring

\* A string hears the oldest sample of a ring, and the others come closer.
LEMMA HearKeeps ==
    ASSUME NEW r \in Ring, NEW n \in 1 .. Delay, Holds(r, n)
    PROVE  Hear(r) \in Ring /\ Holds(Hear(r), n - 1)
<1> DEFINE w == Wait(r)
           since == IF r.since + 1 <= Old THEN r.since + 1 ELSE Old
           h == Hear(r)
<1>0. /\ r.available = n /\ n # 0 /\ r.since \in 0 .. Old /\ r.read \in Cells
      /\ r.since \in Int /\ Old \in Int
  BY Sizes DEF Holds, Ring
<1>1. Min({r.since + 1, Old}) = since
  BY <1>0, MinOfTwo
<1>2. /\ w \in Ring /\ w.write = r.write /\ w.read = r.read /\ w.available = n
      /\ w.since = r.since
      /\ \A i \in Cells : w.cell[i] = Older(r.cell[i])
  BY <1>0, WaitIs
<1>3. h = [[w EXCEPT !.since = since] EXCEPT !.hears = w.cell[r.read],
               !.read = Step(r.read), !.available = n - 1]
  <2> HIDE DEF since
  <2> QED
    BY <1>0, <1>1, <1>2 DEF Hear, Ring
<1>4. since \in 0 .. Old /\ Step(r.read) \in Cells /\ n - 1 \in Nat
      /\ w.cell[r.read] \in Age
  BY <1>0, <1>2, StepIs, Sizes DEF Ring, Cells
<1>5. /\ h \in Ring
      /\ h.cell = w.cell /\ h.write = r.write /\ h.read = Step(r.read)
      /\ h.available = n - 1 /\ h.hears = w.cell[r.read] /\ h.since = since
  <2> HIDE DEF since, w, h
  <2> QED
    BY <1>2, <1>3, <1>4 DEF Ring
<1> HIDE DEF h, w
<1>6. \A k \in 0 .. RingSize - 2 : At(h, k) = At(r, k + 1)
  BY <1>0, <1>5, StepIs, Sizes DEF At, Cells
<1>7. \A k \in Cells : k < n => w.cell[At(r, k)] = Older(Due(r, k))
  BY <1>2, Places DEF Holds, Cells
<1>8. \A k \in Cells : k < n =>
         Older(Due(r, k)) = IF r.since > Delay - 1 - k THEN Delay - k ELSE Silence
  <2> TAKE k \in Cells
  <2> DEFINE age == Delay - 1 - k
  <2>1. age \in Int /\ age \in Age /\ Silence \in Age /\ age + 1 = Delay - k
        /\ (k < n => age <= Delay)
    BY Sizes DEF Age, Cells
  <2>2. Older(Silence) = Silence /\ (k < n => Older(age) = age + 1)
    <3> HIDE DEF age
    <3> QED
      BY <2>1, OlderIs
  <2>3. Due(r, k) = IF r.since > age THEN age ELSE Silence
    BY DEF Due
  <2> HIDE DEF age
  <2>4. (k < n) => Older(Due(r, k)) = IF r.since > age THEN Delay - k ELSE Silence
    BY <2>1, <2>2, <2>3
  <2> QED
    BY <2>4 DEF age
<1>9. h.write = At(h, n - 1)
  BY <1>5, <1>6, Sizes DEF Holds
<1>10. ASSUME NEW k \in 0 .. n - 2 PROVE h.cell[At(h, k)] = Due(h, k)
  <2>1. At(h, k) = At(r, k + 1) /\ k + 1 \in Cells /\ k + 1 < n
    BY <1>6, Sizes DEF Cells
  <2>2. h.cell[At(h, k)] = IF r.since > Delay - 1 - (k + 1) THEN Delay - (k + 1) ELSE Silence
    BY <1>5, <1>7, <1>8, <2>1
  <2> QED
    BY <1>0, <1>5, <2>2, Sizes DEF Due
<1>11. h.since >= Delay - (n - 1)
  BY <1>0, <1>5, Sizes DEF Holds
<1>12. h.hears = IF h.since > Delay THEN Delay ELSE Silence
  <2>1. 0 \in Cells /\ 0 < n /\ At(r, 0) = r.read
    BY Places, Sizes DEF Cells
  <2>2. h.hears = IF r.since > Delay - 1 - 0 THEN Delay - 0 ELSE Silence
    BY <1>5, <1>7, <1>8, <2>1
  <2> QED
    BY <1>0, <1>5, <2>2, Sizes
<1>13. Holds(h, n - 1)
  BY <1>5, <1>9, <1>10, <1>11, <1>12 DEF Holds
<1> QED
  BY <1>5, <1>13 DEF h

\* A sample comes back behind the others, as old as its place says.
LEMMA PushKeeps ==
    ASSUME NEW r \in Ring, NEW n \in 0 .. Delay - 1, Holds(r, n)
    PROVE  Push(r, Delay - 1 - n) \in Ring /\ Holds(Push(r, Delay - 1 - n), n + 1)
<1> DEFINE age == Delay - 1 - n
           p == Push(r, age)
<1>0. /\ r.available = n /\ n < RingSize /\ r.read \in Cells /\ r.since \in 0 .. Old
      /\ n \in Cells /\ n + 1 \in Nat /\ age \in Int /\ age \in Age
      /\ r.write = At(r, n) /\ r.write \in Cells /\ Step(r.write) \in Cells
  BY Sizes, StepIs DEF Holds, Ring, Cells, Age
<1>1. p = [[r EXCEPT !.cell[r.write] = age, !.write = Step(r.write)]
                                                  EXCEPT !.available = n + 1]
  <2> HIDE DEF age
  <2> QED
    BY <1>0 DEF Push, Ring
<1>2. /\ p \in Ring
      /\ p.cell = [r.cell EXCEPT ![r.write] = age]
      /\ p.write = Step(r.write) /\ p.read = r.read /\ p.available = n + 1
      /\ p.hears = r.hears /\ p.since = r.since
  <2> HIDE DEF age, p
  <2> QED
    BY <1>0, <1>1 DEF Ring
<1> HIDE DEF p
<1>3. \A k \in Cells : At(p, k) = At(r, k)
  BY <1>2 DEF At
<1>4. p.write = At(p, n + 1)
  BY <1>0, <1>2, StepIs, Sizes DEF At, Cells
<1>5. ASSUME NEW k \in 0 .. n PROVE p.cell[At(p, k)] = Due(p, k)
  <2>01. k \in Cells
    BY <1>0, Sizes DEF Cells
  <2>02. At(p, k) = At(r, k)
    BY <2>01, <1>3
  <2>03. At(r, k) \in Cells
    BY <2>01, Places
  <2>04. r.cell \in [Cells -> Age]
    BY DEF Ring
  <2>0. k \in Cells /\ At(p, k) = At(r, k) /\ At(r, k) \in Cells
        /\ r.cell \in [Cells -> Age]
    BY <2>01, <2>02, <2>03, <2>04
  <2>1. CASE k = n
    <3>1. p.cell[At(p, k)] = age
      BY <1>0, <1>2, <2>0, <2>1
    <3> QED
      BY <1>0, <1>2, <2>1, <3>1, Sizes DEF Holds, Due
  <2>2. CASE k # n
    <3>1. At(r, k) # r.write /\ k \in 0 .. n - 1
      BY <1>0, <2>0, <2>2, Places
    <3>2. p.cell[At(p, k)] = r.cell[At(r, k)]
      BY <1>2, <2>0, <3>1
    <3> QED
      BY <1>2, <3>1, <3>2 DEF Holds, Due
  <2> QED
    BY <2>1, <2>2
<1>6. p.since >= Delay - (n + 1) /\ p.hears = IF p.since > Delay THEN Delay ELSE Silence
  BY <1>0, <1>2, Sizes DEF Holds
<1>7. Holds(p, n + 1)
  BY <1>0, <1>2, <1>4, <1>5, <1>6 DEF Holds
<1> QED
  BY <1>2, <1>7 DEF p

\* The ring of a reset holds nothing but its lead-in of silence.
LEMMA FreshHolds == FreshRing \in Ring /\ Holds(FreshRing, Delay)
<1> DEFINE quiet == [i \in Cells |-> Silence]
<1>1. FreshRing = [cell |-> quiet, write |-> Delay, read |-> 0, available |-> Delay,
                   hears |-> Silence, since |-> 0]
  BY DEF FreshRing, Cells
<1>2. quiet \in [Cells -> Age] /\ \A i \in Cells : quiet[i] = Silence
  BY DEF Age
<1> HIDE DEF quiet
<1>3. FreshRing \in Ring
  BY <1>1, <1>2, Sizes DEF Ring, Cells, Age
<1>4. At(FreshRing, Delay) = Delay
  BY <1>1, Sizes DEF At
<1>5. ASSUME NEW k \in 0 .. Delay - 1
      PROVE  FreshRing.cell[At(FreshRing, k)] = Due(FreshRing, k)
  <2>1. At(FreshRing, k) = k /\ k \in Cells /\ ~(0 > Delay - 1 - k)
    BY <1>1, Sizes DEF At, Cells
  <2> QED
    BY <1>1, <1>2, <2>1 DEF Due
<1> QED
  BY <1>1, <1>3, <1>4, <1>5, Sizes DEF Holds

-----------------------------------------------------------------------------
(* The invariant                                                           *)

\* A chunk is no longer than the delay, and than what is left.
LEMMA ChunkIs ==
    ASSUME NEW n \in Nat
    PROVE  Chunk(n) \in 0 .. Delay /\ Chunk(n) <= n /\ (n # 0 => Chunk(n) # 0)
BY MinOfTwo, Sizes DEF Chunk

\* Between renders nothing is missing, and what the host changes about the
\* rings is to reset them (setEngineParameters, allSoundOff, reset).
LEMMA HostKeeps ==
    ASSUME PathInv, pc = "host", UNCHANGED <<pc, todo, chunk, done>>,
           ring' \in [Engines -> Ring],
           \A e \in Active' : ring'[e] = FreshRing \/ (e \in Active /\ ring'[e] = ring[e])
    PROVE  PathInv'
<1>1. Missing = 0 /\ Missing' = 0 /\ Delay - 0 = Delay
  BY Sizes DEF Missing
<1>2. ASSUME NEW e \in Active' PROVE Holds(ring'[e], Delay)
  BY <1>1, <1>2, FreshHolds DEF PathInv
<1>3. Counters'
  BY DEF PathInv, Counters
<1> QED
  BY <1>1, <1>2, <1>3 DEF PathInv

\* Every step keeps the invariant.
LEMMA PathInvKept == PathInv /\ [Next]_vars => PathInv'
<1> SUFFICES ASSUME PathInv, [Next]_vars PROVE PathInv'
  OBVIOUS
<1>0. /\ ring \in [Engines -> Ring] /\ Active \subseteq Engines
      /\ "second" \in Engines /\ Counters
  BY DEF PathInv, Active, Engines
<1>1. ASSUME NEW m, SetOutputMode(m) PROVE PathInv'
  <2>1. CASE m = "Double" /\ mode # "Double"
    <3>1. /\ ring' = [ring EXCEPT !["second"] = FreshRing]
          /\ UNCHANGED <<pc, todo, chunk, done>> /\ pc = "host"
      BY <1>1, <2>1 DEF SetOutputMode
    <3>2. Active = {"first"} /\ Active' \subseteq {"first", "second"}
      BY <2>1 DEF Active, Engines
    <3>3. ring' \in [Engines -> Ring]
      BY <1>0, <3>1, FreshHolds
    <3>4. \A e \in Active' : ring'[e] = FreshRing \/ (e \in Active /\ ring'[e] = ring[e])
      BY <1>0, <3>1, <3>2 DEF Engines
    <3> QED
      BY <3>1, <3>3, <3>4, HostKeeps
  <2>2. CASE ~(m = "Double" /\ mode # "Double")
    <3>1. ring' = ring /\ pc = "host" /\ mode' = m
          /\ UNCHANGED <<pc, todo, chunk, done>>
      BY <1>1, <2>2 DEF SetOutputMode
    <3>2. Active' \subseteq Active
      BY <2>2, <3>1 DEF Active, Engines
    <3> QED
      BY <1>0, <3>1, <3>2, HostKeeps
  <2> QED
    BY <2>1, <2>2
<1>2. ASSUME NEW on, SetEffectParameters(on) PROVE PathInv'
  <2>1. Active' = Active
    BY <1>2 DEF SetEffectParameters, Active
  <2> QED
    BY <1>0, <1>2, <2>1, HostKeeps DEF SetEffectParameters
<1>3. CASE AllSoundOff \/ Reset
  <2>1. /\ ring' = [e \in Engines |-> FreshRing]
        /\ pc = "host" /\ UNCHANGED <<pc, todo, chunk, done, mode>>
    BY <1>3 DEF AllSoundOff, Reset, ResetEngines
  <2>2. Active' = Active
    BY <2>1 DEF Active
  <2>3. ring' \in [Engines -> Ring] /\ \A e \in Active' : ring'[e] = FreshRing
    BY <1>0, <2>1, <2>2, FreshHolds
  <2> QED
    BY <2>1, <2>3, HostKeeps
<1>4. ASSUME NEW n \in 1 .. MaxBlock, Render(n) PROVE PathInv'
  <2>1. /\ pc = "host" /\ pc' = "engine" /\ todo' = n /\ chunk' = Chunk(n) /\ done' = 0
        /\ ring' = ring /\ Active' = Active
    BY <1>4 DEF Render, Active
  <2>2. n \in Nat /\ n # 0
    BY PathAssumption
  <2>3. Missing = 0 /\ Missing' = 0
    BY <2>1 DEF Missing
  <2>4. Counters'
    BY <2>1, <2>2, ChunkIs, Sizes DEF Counters
  <2> QED
    BY <2>1, <2>3, <2>4 DEF PathInv
<1>5. CASE Process
  <2>1. /\ pc = "engine"
        /\ ring' = [e \in Engines |-> IF e \in Active THEN Hear(ring[e]) ELSE Wait(ring[e])]
        /\ UNCHANGED <<todo, chunk, mode>> /\ Active' = Active
        /\ IF done + 1 = chunk THEN pc' = "effects" /\ done' = 0
           ELSE pc' = "engine" /\ done' = done + 1
    BY <1>5 DEF Process, Active
  <2>2. done < chunk /\ done \in Nat /\ chunk \in 0 .. Delay
    BY <1>0, <2>1 DEF Counters
  <2>3. Missing = done /\ Missing' = done + 1 /\ Delay - done \in 1 .. Delay
        /\ (Delay - done) - 1 = Delay - (done + 1)
    BY <2>1, <2>2, Sizes DEF Missing
  <2>4. Counters'
    BY <1>0, <2>1, <2>2, Sizes DEF Counters
  <2>5. ASSUME NEW e \in Active
        PROVE  Hear(ring[e]) \in Ring /\ Holds(Hear(ring[e]), Delay - (done + 1))
    <3>1. ring[e] \in Ring /\ Holds(ring[e], Delay - done)
      BY <1>0, <2>3 DEF PathInv
    <3> QED
      BY <2>3, <3>1, HearKeeps
  <2>6. ring' \in [Engines -> Ring]
    BY <1>0, <2>1, <2>5, WaitIs
  <2>7. \A e \in Active' : Holds(ring'[e], Delay - Missing')
    BY <1>0, <2>1, <2>3, <2>5
  <2> QED
    BY <2>4, <2>6, <2>7 DEF PathInv
<1>6. CASE ProcessEffects
  <2> DEFINE n == Min({chunk - done, Scratch})
  <2>1. /\ pc = "effects" /\ ring' = ring /\ UNCHANGED <<todo, chunk, mode>>
        /\ \/ pc' = "return" /\ done' = 0
           \/ pc' = "effects" /\ done + n # chunk /\ done' = done + n
    BY <1>6 DEF ProcessEffects
  <2>2. done < chunk /\ done \in Nat /\ chunk \in 0 .. Delay
    BY <1>0, <2>1 DEF Counters
  <2>3. n \in Nat /\ n <= chunk - done
    BY <2>2, MinOfTwo, Sizes
  <2> HIDE DEF n
  <2>4. Counters'
    BY <1>0, <2>1, <2>2, <2>3, Sizes DEF Counters
  <2>5. Missing = chunk /\ Missing' = chunk
    BY <2>1, <2>2, Sizes DEF Missing
  <2>6. Active' = Active
    BY <2>1 DEF Active
  <2> QED
    BY <2>1, <2>4, <2>5, <2>6 DEF PathInv
<1>7. CASE PushAcousticReturn
  <2> DEFINE age == chunk - 1 - done
             left == todo - chunk
  <2>1. /\ pc = "return" /\ mode' = mode /\ Active' = Active
        /\ ring' = [e \in Engines |-> IF e \in Active THEN Push(ring[e], age) ELSE ring[e]]
        /\ IF done + 1 < chunk THEN done' = done + 1 /\ UNCHANGED <<pc, todo, chunk>>
           ELSE /\ done' = 0 /\ todo' = left /\ chunk' = Chunk(left)
                /\ pc' = IF left = 0 THEN "host" ELSE "engine"
    BY <1>7 DEF PushAcousticReturn, Active
  <2>2. done < chunk /\ done \in Nat /\ chunk \in 0 .. Delay /\ left \in Nat /\ todo \in Nat
    BY <1>0, <2>1, Sizes DEF Counters
  <2>3. /\ Chunk(left) \in 0 .. Delay /\ Chunk(left) <= left
        /\ left # 0 => Chunk(left) # 0
    BY <2>2, ChunkIs
  <2> DEFINE n == Delay - (chunk - done)
  <2>4. n \in 0 .. Delay - 1 /\ Delay - 1 - n = age
    BY <2>2, Sizes
  <2>5. Missing = chunk - done
    BY <2>1 DEF Missing
  <2>6. Delay - Missing' = n + 1
    BY <2>1, <2>2, Sizes DEF Missing
  <2>7. Counters'
    <3> HIDE DEF left
    <3> QED
      BY <1>0, <2>1, <2>2, <2>3, Sizes DEF Counters
  <2> HIDE DEF n, age
  <2>8. ASSUME NEW e \in Active
        PROVE  Push(ring[e], age) \in Ring /\ Holds(Push(ring[e], age), n + 1)
    <3>1. ring[e] \in Ring /\ Holds(ring[e], n)
      BY <1>0, <2>5 DEF PathInv, n
    <3> QED
      BY <2>4, <3>1, PushKeeps
  <2>9. ring' \in [Engines -> Ring]
    BY <1>0, <2>1, <2>8
  <2>10. \A e \in Active' : Holds(ring'[e], Delay - Missing')
    BY <1>0, <2>1, <2>6, <2>8
  <2> QED
    BY <2>7, <2>9, <2>10 DEF PathInv
<1>8. CASE UNCHANGED vars
  <2>1. Active' = Active /\ Missing' = Missing
    BY <1>8 DEF vars, Active, Missing
  <2> QED
    BY <1>8, <2>1 DEF vars, PathInv, Counters
<1> QED
  BY <1>1, <1>2, <1>3, <1>4, <1>5, <1>6, <1>7, <1>8 DEF Next

LEMMA InitPath == Init => PathInv
<1> SUFFICES ASSUME Init PROVE PathInv
  OBVIOUS
<1>1. /\ pc = "host" /\ todo = 0 /\ chunk = 0 /\ done = 0
      /\ ring = [e \in Engines |-> FreshRing]
  BY DEF Init
<1>2. Missing = 0 /\ Delay - 0 = Delay /\ Active \subseteq Engines
  BY <1>1, Sizes DEF Missing, Active, Engines
<1> QED
  BY <1>1, <1>2, FreshHolds, Sizes DEF PathInv, Counters

\* Whatever the size of the ring and the delay, and however the host cuts the
\* sound into blocks, between any changes of Output, panics and resets: a string
\* hears what was rendered Delay samples ago ("the FIFO occupancy stays constant
\* across any block partition", ElectryEngine::pushAcousticReturn).
THEOREM ReturnIsConstant == Spec => []RoundTripIsConstant
<1>1. PathInv => RoundTripIsConstant
  BY DEF PathInv, Holds, RoundTripIsConstant
<1> QED
  BY <1>1, InitPath, PathInvKept, PTL DEF Spec

-----------------------------------------------------------------------------
(* The effects' fade.  On its way it is as far from its target as the      *)
(* samples that are left of it need, at a step that a fade of this length  *)
(* may have; and what has missed a part of the sound is not on its way.    *)

Effects == [wet : Int, target : Int, step : Int, remaining : Nat, enabled : BOOLEAN,
            memory : Memory, moves : SUBSET Int, heard : SUBSET Memory]

FadeKept(f) ==
    /\ f.wet \in 0 .. Full
    /\ f.target = IF f.enabled THEN Full ELSE 0
    /\ f.remaining <= RampLength
    /\ f.remaining = 0 => f.wet = f.target
    /\ f.remaining > 0 => /\ f.wet + f.remaining * f.step = f.target
                          /\ RampLength * f.step \in -Full .. Full
    /\ \A move \in f.moves : move * RampLength <= Full

MemoryKept(f) ==
    /\ f.memory = "stale" => f.wet = 0 /\ f.target = 0 /\ f.remaining = 0
    /\ "stale" \notin f.heard

Kept(f) == f \in Effects /\ FadeKept(f) /\ MemoryKept(f)

LEMMA FadeSizes ==
    /\ Full \in Nat \ {0} /\ Full \in Int /\ Full % RampLength = 0
    /\ RampLength \in Nat \ {0} /\ RampLength \in Nat /\ RampLength > 0
BY PathAssumption

\* A whole division undoes a multiplication.
LEMMA WholeDivision ==
    ASSUME NEW n \in Nat \ {0}, NEW a \in Int, a % n = 0
    PROVE  a \div n \in Int /\ n * (a \div n) = a
OBVIOUS

LEMMA MultipleDivided ==
    ASSUME NEW n \in Nat \ {0}, NEW q \in Int
    PROVE  (n * q) \div n = q
OBVIOUS

LEMMA WholeDifference ==
    ASSUME NEW n \in Nat \ {0}, NEW a \in Int, NEW b \in Int, a % n = 0, b % n = 0
    PROVE  (a - b) \div n \in Int /\ n * ((a - b) \div n) = a - b
<1> DEFINE q == a \div n
           r == b \div n
<1>1. q \in Int /\ r \in Int /\ n * q = a /\ n * r = b
  BY WholeDivision
<1> HIDE DEF q, r
<1>2. a - b = n * (q - r) /\ q - r \in Int
  BY <1>1
<1>3. (n * (q - r)) \div n = q - r
  BY <1>2, MultipleDivided
<1> QED
  BY <1>2, <1>3

\* A product has the sign of its factor, and grows with the other.
LEMMA Products ==
    ASSUME NEW a \in Int, NEW b \in Nat
    PROVE  /\ b * a \in Int
           /\ a >= 0 => b * a >= 0
           /\ a <= 0 => b * a <= 0
OBVIOUS

LEMMA GreaterOfTwo ==
    ASSUME NEW a \in Int, NEW b \in Int
    PROVE  Max({a, b}) = IF a >= b THEN a ELSE b
<1> DEFINE most == IF a >= b THEN a ELSE b
<1>1. most \in {a, b} /\ \A y \in {a, b} : most >= y
  OBVIOUS
<1>2. ASSUME NEW x \in {a, b}, \A y \in {a, b} : x >= y PROVE x = most
  BY <1>1, <1>2
<1> HIDE DEF most
<1>3. (CHOOSE x \in {a, b} : \A y \in {a, b} : x >= y) = most
  BY <1>1, <1>2
<1> QED
  BY <1>3 DEF Max, most

\* On its way the wet level stays between silence and all, and from a sample to
\* the next it moves by a step at most (processEffects).
LEMMA WetIs ==
    ASSUME NEW f \in Effects, FadeKept(f), f.remaining > 0, NEW i \in Nat
    PROVE  /\ WetAfter(f, i) \in 0 .. Full
           /\ i < f.remaining => /\ WetAfter(f, i) = f.wet + i * f.step
                                 /\ WetAfter(f, i) + (f.remaining - i) * f.step = f.target
           /\ i >= f.remaining => WetAfter(f, i) = f.target
<1>1. /\ f.wet \in Int /\ f.step \in Int /\ f.remaining \in Nat /\ f.target \in {0, Full}
      /\ f.wet \in 0 .. Full /\ f.wet + f.remaining * f.step = f.target
  BY FadeSizes DEF Effects, FadeKept
<1>2. CASE i < f.remaining
  <2>1. WetAfter(f, i) = f.wet + i * f.step
    BY <1>2 DEF WetAfter
  <2> DEFINE gone == i * f.step
             left == (f.remaining - i) * f.step
  <2>2. f.remaining - i \in Nat /\ f.wet + gone + left = f.target
    BY <1>1, <1>2
  <2>3. /\ gone \in Int /\ left \in Int
        /\ f.step >= 0 => gone >= 0 /\ left >= 0
        /\ f.step <= 0 => gone <= 0 /\ left <= 0
    BY <1>1, <2>2, Products
  <2> HIDE DEF gone, left
  <2>4. f.wet + gone \in 0 .. Full /\ f.wet + gone + left = f.target
    BY <1>1, <2>2, <2>3, FadeSizes
  <2>5. ~(i >= f.remaining)
    BY <1>1, <1>2
  <2> QED
    BY <2>1, <2>4, <2>5 DEF gone, left
<1>3. CASE ~(i < f.remaining)
  BY <1>1, <1>3, FadeSizes DEF WetAfter
<1> QED
  BY <1>2, <1>3

LEMMA MovesAreSteps ==
    ASSUME NEW f \in Effects, FadeKept(f), f.remaining > 0, NEW i \in Nat \ {0}
    PROVE  /\ Apart(WetAfter(f, i), WetAfter(f, i - 1)) \in Int
           /\ Apart(WetAfter(f, i), WetAfter(f, i - 1)) * RampLength <= Full
<1> DEFINE a == WetAfter(f, i)
           b == WetAfter(f, i - 1)
<1>1. i - 1 \in Nat /\ f.step \in Int /\ f.remaining \in Nat /\ f.wet \in Int
  BY DEF Effects
<1>2. a \in Int /\ b \in Int
  BY <1>1, WetIs, FadeSizes
<1>3. a - b = f.step \/ a - b = 0
  <2>1. CASE i < f.remaining
    <3>1. a = f.wet + i * f.step /\ b = f.wet + (i - 1) * f.step
      BY <1>1, <2>1, WetIs
    <3>2. i * f.step - (i - 1) * f.step = f.step
      BY <1>1
    <3> QED
      BY <1>1, <3>1, <3>2
  <2>2. CASE i = f.remaining
    <3>1. a = f.target /\ b + (f.remaining - (i - 1)) * f.step = f.target
      BY <1>1, <2>2, WetIs
    <3>2. (f.remaining - (i - 1)) * f.step = f.step
      BY <1>1, <2>2
    <3> QED
      BY <1>1, <1>2, <3>1, <3>2
  <2>3. CASE i > f.remaining
    BY <1>1, <1>2, <2>3, WetIs
  <2> QED
    BY <1>1, <2>1, <2>2, <2>3
<1> HIDE DEF a, b
<1>4. RampLength * f.step \in -Full .. Full
  BY DEF FadeKept
<1>5. Apart(a, b) \in {f.step, -f.step, 0}
  BY <1>1, <1>2, <1>3 DEF Apart
<1>6. /\ f.step * RampLength = RampLength * f.step
      /\ (-f.step) * RampLength = -(RampLength * f.step)
      /\ 0 * RampLength = 0
  BY <1>1, FadeSizes
<1> DEFINE product == RampLength * f.step
<1>7. product \in -Full .. Full
  BY <1>4
<1> HIDE DEF product
<1>8. /\ f.step * RampLength = product /\ (-f.step) * RampLength = -product
      /\ product <= Full /\ -product <= Full /\ 0 <= Full
  BY <1>6, <1>7, FadeSizes DEF product
<1>9. Apart(a, b) * RampLength <= Full
  BY <1>5, <1>6, <1>8
<1> QED
  BY <1>1, <1>5, <1>9 DEF a, b

-----------------------------------------------------------------------------
(* What happens to the effects                                             *)

\* Between two rounds nothing of the last one is kept.
LEMMA CleanKept ==
    ASSUME NEW f, Kept(f)
    PROVE  Kept([f EXCEPT !.heard = {}, !.moves = {}])
BY DEF Kept, Effects, FadeKept, MemoryKept

LEMMA CalmKept ==
    ASSUME NEW f, Kept(f)
    PROVE  Kept(Calm(f))
BY DEF Kept, Effects, FadeKept, MemoryKept, Calm, Memory

LEMMA FreshFxKept ==
    ASSUME NEW on \in BOOLEAN
    PROVE  Kept(FreshFx(on))
BY FadeSizes DEF Kept, Effects, FadeKept, MemoryKept, FreshFx, Memory

\* A switch of the effects starts a fade from where the last one is
\* (setEffectParameters); effects that come back from nothing come back at rest.
LEMMA SetEffectsKept ==
    ASSUME NEW f, Kept(f), NEW on \in BOOLEAN, (Full - f.wet) % RampLength = 0
    PROVE  Kept(SetEffects(f, on))
<1> DEFINE aim == IF on THEN Full ELSE 0
           step == (aim - f.wet) \div RampLength
           calm == IF on /\ f.wet = 0 /\ f.target = 0 THEN Calm(f) ELSE f
<1>1. f \in Effects /\ f.wet \in 0 .. Full /\ f.wet \in Int
  BY DEF Kept, FadeKept, Effects
<1>2. /\ Kept(calm) /\ calm.wet = f.wet /\ calm.target = f.target
      /\ calm.memory = "stale" => ~on
  BY CalmKept DEF Kept, Calm, MemoryKept, Effects, Memory
<1>3. CASE aim = f.target
  <2>1. SetEffects(f, on) = [calm EXCEPT !.enabled = on]
    BY <1>3 DEF SetEffects
  <2> HIDE DEF calm
  <2>2. f.target = IF on THEN Full ELSE 0
    BY <1>3
  <2> HIDE DEF aim
  <2> DEFINE g == [calm EXCEPT !.enabled = on]
  <2>3. /\ g \in Effects /\ g.enabled = on /\ g.wet = calm.wet /\ g.target = calm.target
        /\ g.step = calm.step /\ g.remaining = calm.remaining
        /\ g.memory = calm.memory /\ g.moves = calm.moves /\ g.heard = calm.heard
    BY <1>2 DEF Kept, Effects
  <2> HIDE DEF g
  <2> QED
    BY <1>2, <2>1, <2>2, <2>3 DEF g, Kept, FadeKept, MemoryKept
<1>4. CASE aim # f.target
  <2>1. step \in Int /\ RampLength * step = aim - f.wet
    <3> DEFINE up == Full - f.wet
    <3>0. up \in Int /\ up % RampLength = 0
      BY <1>1, FadeSizes
    <3>1. CASE on
      <4>1. aim - f.wet = up
        BY <3>1
      <4> HIDE DEF up, aim
      <4>2. up \div RampLength \in Int /\ RampLength * (up \div RampLength) = up
        BY <3>0, FadeSizes, WholeDivision, Zenon
      <4> QED
        BY <4>1, <4>2
    <3>2. CASE ~on
      <4>1. aim - f.wet = up - Full
        BY <1>1, <3>2, FadeSizes
      <4> HIDE DEF up, aim
      <4>2. /\ (up - Full) \div RampLength \in Int
            /\ RampLength * ((up - Full) \div RampLength) = up - Full
        BY <3>0, FadeSizes, WholeDifference, Zenon
      <4> QED
        BY <4>1, <4>2
    <3> QED
      BY <3>1, <3>2
  <2>2. aim \in 0 .. Full /\ aim - f.wet \in -Full .. Full
    BY <1>1, FadeSizes
  <2>3. SetEffects(f, on) = [calm EXCEPT !.enabled = on, !.target = aim,
                                 !.remaining = RampLength, !.step = step]
    BY <1>4 DEF SetEffects
  <2>4. calm.memory = "stale" => FALSE
    BY <1>2, <1>4 DEF Kept, MemoryKept, FadeKept
  <2>5. aim = IF on THEN Full ELSE 0
    OBVIOUS
  <2> HIDE DEF calm, step, aim
  <2>6. f.wet + RampLength * step = aim
    BY <1>1, <2>1, <2>2, FadeSizes
  <2>7. /\ RampLength \in Nat /\ RampLength > 0 /\ aim \in Int
    BY <2>2, FadeSizes
  <2>8. SetEffects(f, on) \in Effects
    BY <1>2, <2>1, <2>3, <2>7 DEF Kept, Effects
  <2>9. FadeKept(SetEffects(f, on))
    BY <1>1, <1>2, <2>1, <2>2, <2>3, <2>5, <2>6, <2>7 DEF Kept, Effects, FadeKept
  <2>10. MemoryKept(SetEffects(f, on))
    BY <1>2, <2>3, <2>4 DEF Kept, Effects, MemoryKept
  <2> QED
    BY <2>8, <2>9, <2>10 DEF Kept
<1> QED
  BY <1>3, <1>4

\* A round in which nothing fades.
LEMMA SteadyKept ==
    ASSUME NEW f, Kept(f), f.remaining = 0
    PROVE  Kept(Steady(f))
<1>1. f.wet = f.target /\ f.target \in {0, Full} /\ Full # 0
  BY FadeSizes DEF Kept, FadeKept
<1>2. Fed(f.memory) \in Memory /\ Skipped(f.memory) \in Memory
  BY DEF Kept, Effects, Memory, Fed, Skipped
<1>3. CASE f.wet = Full
  <2>1. Steady(f) = [f EXCEPT !.memory = Fed(f.memory), !.heard = {Fed(f.memory)}]
    BY <1>3 DEF Steady, Kept, Effects
  <2>2. Fed(f.memory) # "stale"
    BY <1>1, <1>3 DEF Kept, MemoryKept, Fed
  <2> DEFINE m == Fed(f.memory)
             g == [f EXCEPT !.memory = m, !.heard = {m}]
  <2> HIDE DEF m
  <2>3. /\ g \in Effects /\ g.memory = m /\ g.heard = {m}
        /\ g.wet = f.wet /\ g.target = f.target /\ g.step = f.step
        /\ g.remaining = f.remaining /\ g.enabled = f.enabled /\ g.moves = f.moves
    BY <1>2 DEF Kept, Effects, m
  <2> HIDE DEF g
  <2> QED
    BY <2>1, <2>2, <2>3 DEF g, m, Kept, FadeKept, MemoryKept
<1>4. CASE f.wet # Full
  BY <1>1, <1>2, <1>4 DEF Steady, Kept, Effects, FadeKept, MemoryKept
<1> QED
  BY <1>3, <1>4

\* A round of a fade.
LEMMA FadingKept ==
    ASSUME NEW f, Kept(f), f.remaining > 0, NEW n \in Nat \ {0}
    PROVE  Kept(Fading(f, n))
<1> DEFINE fed == Fed(f.memory)
           wet == WetAfter(f, n)
           left == IF n < f.remaining THEN f.remaining - n ELSE 0
           moves == {Apart(WetAfter(f, i), WetAfter(f, i - 1)) : i \in 1 .. n}
           listened == {m \in {fed} : \E i \in 1 .. n : WetAfter(f, i) > 0}
           faded == [f EXCEPT !.memory = fed, !.wet = wet, !.remaining = left,
                              !.moves = moves, !.heard = listened]
<1>1. f \in Effects /\ FadeKept(f) /\ f.remaining \in Nat /\ n \in Nat
  BY DEF Kept, Effects
<1>2. fed \in Memory /\ fed # "stale"
  BY <1>1 DEF Kept, Effects, MemoryKept, Memory, Fed
<1>3. moves \in SUBSET Int /\ \A move \in moves : move * RampLength <= Full
  <2>1. \A i \in 1 .. n : i \in Nat \ {0}
    OBVIOUS
  <2> QED
    BY <1>1, <2>1, MovesAreSteps
<1>4. /\ wet \in 0 .. Full
      /\ left = 0 => wet = f.target
      /\ left > 0 => wet + left * f.step = f.target
  BY <1>1, WetIs
<1>5. left \in Nat /\ left <= f.remaining
  BY <1>1
<1>6. Max({0, f.remaining - n}) = left
  <2>1. 0 \in Int /\ f.remaining - n \in Int
    BY <1>1
  <2>2. Max({0, f.remaining - n}) = IF 0 >= f.remaining - n THEN 0 ELSE f.remaining - n
    BY <2>1, GreaterOfTwo
  <2> QED
    BY <1>1, <2>2
<1>7. listened \in SUBSET Memory /\ "stale" \notin listened
  BY <1>2
<1>8. Fading(f, n) = IF faded.remaining = 0 /\ faded.wet = 0 THEN Calm(faded) ELSE faded
  <2>1. [f EXCEPT !.memory = fed, !.wet = wet, !.remaining = Max({0, @ - n}),
                  !.moves = moves, !.heard = listened] = faded
    <3> HIDE DEF fed, wet, left, moves, listened
    <3> QED
      BY <1>1, <1>6 DEF Effects
  <2> HIDE DEF faded
  <2> QED
    BY <2>1 DEF Fading
<1> HIDE DEF fed, wet, left, moves, listened
<1>9. /\ wet \in Int /\ left \in Nat /\ moves \in SUBSET Int /\ listened \in SUBSET Memory
      /\ fed \in Memory
  BY <1>2, <1>3, <1>4, <1>5, <1>7, FadeSizes
<1>10. /\ faded \in Effects
       /\ faded.wet = wet /\ faded.remaining = left /\ faded.moves = moves
       /\ faded.memory = fed /\ faded.heard = listened
       /\ faded.target = f.target /\ faded.step = f.step /\ faded.enabled = f.enabled
  BY <1>1, <1>9 DEF Effects
<1>13. FadeKept(faded) /\ MemoryKept(faded)
  <2> HIDE DEF faded
  <2>1. left <= RampLength /\ RampLength \in Nat
    BY <1>1, <1>5, FadeSizes DEF FadeKept
  <2> QED
    BY <1>1, <1>2, <1>3, <1>4, <1>5, <1>7, <1>10, <2>1 DEF FadeKept, MemoryKept
<1>12. Kept(faded)
  BY <1>10, <1>13 DEF Kept
<1> HIDE DEF faded
<1> QED
  BY <1>8, <1>12, CalmKept

-----------------------------------------------------------------------------
(* The shared path.  The first channel always runs, the second runs while  *)
(* the field is open and takes the first one's memory as it opens; the     *)
(* neck pickups start at rest when they are wanted again.                  *)

Paths == [coil : [Channels -> Memory], decimator : [Channels -> Memory],
          neck : Memory, wanted : BOOLEAN, linked : BOOLEAN, quiet : Nat,
          frozen : BOOLEAN, closes : BOOLEAN, heard : SUBSET Memory, right : Memory]

Whole(p) ==
    /\ p.coil[1] # "stale" /\ p.decimator[1] # "stale"
    /\ ~p.linked => p.coil[2] # "stale" /\ p.decimator[2] # "stale"
    /\ p.wanted => p.neck # "stale"
    /\ "stale" \notin p.heard

PathKept(p) ==
    /\ p \in Paths
    /\ Whole(p)
    /\ p.right = "stale" => p.closes

LEMMA MemoryIs ==
    /\ "rest" \in Memory /\ "true" \in Memory /\ "stale" \in Memory
    /\ 1 \in Channels /\ 2 \in Channels
    /\ \A m \in Memory : /\ Fed(m) \in Memory /\ Skipped(m) \in Memory
                         /\ m # "stale" => Fed(m) # "stale"
BY DEF Memory, Channels, Fed, Skipped

LEMMA FreshPathKept ==
    ASSUME NEW open \in BOOLEAN
    PROVE  PathKept(FreshPath(open))
BY MemoryIs DEF PathKept, Paths, Whole, FreshPath, Channels

\* What a channel that runs is fed stays whole (renderInternalSample).
LEMMA FeedIs ==
    ASSUME NEW p \in Paths, NEW f \in [Channels -> Memory],
           f[1] # "stale", ~p.linked => f[2] # "stale"
    PROVE  /\ Feed(p, f) \in [Channels -> Memory]
           /\ Feed(p, f)[1] # "stale"
           /\ ~p.linked => Feed(p, f)[2] # "stale"
<1>1. /\ 1 \in Running(p) /\ Running(p) \subseteq Channels
      /\ ~p.linked => 2 \in Running(p)
  BY DEF Running, Channels
<1>2. f[1] \in Memory /\ f[2] \in Memory
  BY MemoryIs
<1> QED
  BY <1>1, <1>2, MemoryIs DEF Feed

\* After a tick of path p the path is whole, and t says whether the field closed.
Ticked(p, t) ==
    /\ t \in Paths /\ Whole(t)
    /\ ~p.linked /\ t.linked => t.closes
    /\ t.right = p.right

\* The control tick (renderInternalSample): what opens, opens with a whole memory.
LEMMA TickKept ==
    ASSUME NEW p \in Paths, Whole(p), NEW wanted \in BOOLEAN, NEW open \in BOOLEAN
    PROVE  Ticked(p, Tick(p, wanted, open))
<1> DEFINE opened == IF p.linked /\ open THEN OpenField(p) ELSE p
           t == Tick(p, wanted, open)
<1>1. /\ opened \in Paths
      /\ opened.wanted = p.wanted /\ opened.linked = p.linked /\ opened.neck = p.neck
      /\ opened.heard = p.heard /\ opened.right = p.right
  BY MemoryIs DEF Paths, OpenField
<1>2. /\ opened.coil[1] # "stale" /\ opened.decimator[1] # "stale"
      /\ open => opened.coil[2] # "stale" /\ opened.decimator[2] # "stale"
  <2>1. CASE p.linked /\ open
    <3>1. /\ opened.coil = [p.coil EXCEPT ![2] = p.coil[1]]
          /\ opened.decimator = [p.decimator EXCEPT ![2] = p.decimator[1]]
      BY <2>1 DEF Paths, OpenField
    <3>2. p.coil \in [Channels -> Memory] /\ p.decimator \in [Channels -> Memory]
      BY DEF Paths
    <3> HIDE DEF opened
    <3> QED
      BY <3>1, <3>2, MemoryIs DEF Whole
  <2>2. CASE ~(p.linked /\ open)
    BY <2>2 DEF Whole
  <2> QED
    BY <2>1, <2>2
<1> DEFINE neck == IF wanted /\ ~p.wanted THEN "rest" ELSE opened.neck
           closes == ~p.linked /\ ~open
           shut == ~open
<1>3. t = [opened EXCEPT !.linked = shut, !.closes = closes, !.wanted = wanted,
                         !.neck = neck]
  <2> HIDE DEF opened
  <2> QED
    BY <1>1 DEF Tick, opened, Paths
<1>4. neck \in Memory /\ (wanted => neck # "stale")
  BY <1>1, MemoryIs DEF Whole, Paths
<1>5. closes \in BOOLEAN /\ shut \in BOOLEAN
  OBVIOUS
<1> HIDE DEF opened, neck, closes, shut
<1>6. /\ t \in Paths
      /\ t.coil = opened.coil /\ t.decimator = opened.decimator /\ t.heard = opened.heard
      /\ t.neck = neck /\ t.wanted = wanted /\ t.linked = shut /\ t.closes = closes
      /\ t.right = opened.right
  <2> HIDE DEF t
  <2> QED
    BY <1>1, <1>3, <1>4, <1>5 DEF Paths
<1> HIDE DEF t
<1>7. Whole(t)
  BY <1>1, <1>2, <1>4, <1>6 DEF Whole, shut
<1> QED
  BY <1>1, <1>6, <1>7 DEF t, shut, closes, Ticked

\* A step inside a phase keeps the path whole, and the field as it is.
Follows(p, w) ==
    /\ w \in Paths /\ Whole(w)
    /\ w.linked = p.linked /\ w.closes = p.closes /\ w.right = p.right

LEMMA CoilKept ==
    ASSUME NEW p \in Paths, Whole(p), NEW sounds \in BOOLEAN
    PROVE  Follows(p, Coil(p, sounds))
<1> DEFINE neck == IF ~sounds THEN p.neck
                   ELSE IF p.wanted THEN Fed(p.neck) ELSE Skipped(p.neck)
           coil == Feed(p, p.coil)
           w == Coil(p, sounds)
<1>1. neck \in Memory /\ (p.wanted => neck # "stale")
  BY MemoryIs DEF Paths, Whole
<1>2. /\ coil \in [Channels -> Memory] /\ coil[1] # "stale"
      /\ ~p.linked => coil[2] # "stale"
  <2>1. p.coil \in [Channels -> Memory]
    BY DEF Paths
  <2> QED
    BY <2>1, FeedIs DEF Whole
<1>3. w = [p EXCEPT !.neck = neck, !.coil = coil]
  BY DEF Coil
<1> HIDE DEF neck, coil, w
<1>4. /\ w \in Paths /\ w.coil = coil /\ w.neck = neck /\ w.decimator = p.decimator
      /\ w.linked = p.linked /\ w.wanted = p.wanted /\ w.heard = p.heard
      /\ w.closes = p.closes /\ w.right = p.right
  BY <1>1, <1>2, <1>3 DEF Paths
<1> QED
  BY <1>1, <1>2, <1>4 DEF Follows, Whole, w

LEMMA ListenKept ==
    ASSUME NEW p \in Paths, Whole(p), NEW sounds \in BOOLEAN
    PROVE  Follows(p, Listen(p, sounds))
<1> DEFINE more == p.heard \cup {m \in {p.neck} : sounds /\ p.wanted}
                           \cup {p.coil[c] : c \in Running(p)}
<1>1. Listen(p, sounds) = [p EXCEPT !.heard = more]
  BY DEF Listen
<1>2. Running(p) = IF p.linked THEN {1} ELSE {1, 2}
  BY DEF Running, Channels
<1>3. /\ p.coil[1] \in Memory /\ p.coil[2] \in Memory
      /\ p.neck \in Memory /\ p.heard \in SUBSET Memory
  BY MemoryIs DEF Paths
<1>4. more \in SUBSET Memory /\ "stale" \notin more
  BY <1>2, <1>3 DEF Whole
<1> HIDE DEF more
<1> QED
  BY <1>1, <1>4 DEF Follows, Paths, Whole

LEMMA WatchKept ==
    ASSUME NEW p \in Paths, Whole(p), NEW awake \in BOOLEAN
    PROVE  Follows(p, Watch(p, awake))
<1> DEFINE quiet == IF awake THEN 0 ELSE p.quiet + 1
           frozen == p.frozen /\ ~awake
<1>1. quiet \in Nat /\ frozen \in BOOLEAN
  BY DEF Paths
<1>2. Watch(p, awake) = [p EXCEPT !.quiet = quiet, !.frozen = frozen]
  BY DEF Watch
<1> HIDE DEF quiet, frozen
<1> QED
  BY <1>1, <1>2 DEF Follows, Paths, Whole

\* Idle, the path forgets all of it (freezeSharedPath).
LEMMA RestKept ==
    ASSUME NEW p \in Paths, Whole(p)
    PROVE  Follows(p, Rest(p))
<1> DEFINE rests == [c \in Channels |-> "rest"]
           f == Freeze(p)
<1>1. rests \in [Channels -> Memory] /\ rests[1] = "rest" /\ rests[2] = "rest"
  BY MemoryIs
<1>2. f = [p EXCEPT !.coil = rests, !.frozen = TRUE, !.quiet = 0, !.decimator = rests]
  BY DEF Freeze
<1> HIDE DEF rests, f
<1>3. /\ f \in Paths /\ f.coil = rests /\ f.decimator = rests
      /\ f.neck = p.neck /\ f.wanted = p.wanted /\ f.heard = p.heard
      /\ f.linked = p.linked /\ f.closes = p.closes /\ f.right = p.right
  BY <1>1, <1>2 DEF Paths
<1>4. Follows(p, f) /\ Follows(p, p)
  BY <1>1, <1>3 DEF Follows, Whole
<1> QED
  BY <1>4 DEF Rest, f

LEMMA DecimateKept ==
    ASSUME NEW p \in Paths, Whole(p)
    PROVE  Follows(p, Decimate(p))
<1> DEFINE d == Feed(p, p.decimator)
           w == [p EXCEPT !.decimator = d]
<1>1. p.decimator \in [Channels -> Memory]
  BY DEF Paths
<1>2. /\ d \in [Channels -> Memory] /\ d[1] # "stale"
      /\ ~p.linked => d[2] # "stale"
  BY <1>1, FeedIs DEF Whole
<1> HIDE DEF d
<1>3. /\ w \in Paths /\ w.decimator = d /\ w.coil = p.coil
      /\ w.neck = p.neck /\ w.wanted = p.wanted /\ w.heard = p.heard
      /\ w.linked = p.linked /\ w.closes = p.closes /\ w.right = p.right
  BY <1>2 DEF Paths
<1> HIDE DEF w
<1>4. Follows(p, w) /\ Follows(p, p)
  BY <1>2, <1>3 DEF Follows, Whole
<1> QED
  BY <1>4 DEF Decimate, w, d

\* Half a host sample.
LEMMA PhaseKept ==
    ASSUME NEW p \in Paths, Whole(p), NEW sounds \in BOOLEAN, NEW loud \in BOOLEAN
    PROVE  Follows(p, Phase(p, sounds, loud))
<1> DEFINE coiled == Coil(p, sounds)
           listened == Listen(coiled, sounds)
           awake == sounds \/ loud
           watched == Watch(listened, awake)
           rested == Rest(watched)
           decimated == Decimate(rested)
<1>0. awake \in BOOLEAN /\ Follows(p, p)
  BY DEF Follows
<1>1. Phase(p, sounds, loud) = IF ~sounds /\ p.frozen THEN p ELSE decimated
  BY DEF Phase
<1> HIDE DEF awake
<1>2. Follows(p, coiled)
  BY CoilKept
<1> HIDE DEF coiled
<1>3. Follows(coiled, listened)
  BY <1>2, ListenKept DEF Follows
<1> HIDE DEF listened
<1>4. Follows(listened, watched)
  BY <1>0, <1>3, WatchKept DEF Follows
<1> HIDE DEF watched
<1>5. Follows(watched, rested)
  BY <1>4, RestKept DEF Follows
<1> HIDE DEF rested
<1>6. Follows(rested, decimated)
  BY <1>5, DecimateKept DEF Follows
<1> HIDE DEF decimated
<1>7. Follows(p, decimated)
  BY <1>2, <1>3, <1>4, <1>5, <1>6 DEF Follows
<1> QED
  BY <1>0, <1>1, <1>7

\* A host sample: two of the engine's, with a tick before the first or not.
LEMMA RenderSampleKept ==
    ASSUME NEW p, PathKept(p), NEW ticks \in BOOLEAN,
           NEW wanted \in BOOLEAN, NEW open \in BOOLEAN,
           NEW sounds \in [1 .. 2 -> BOOLEAN], NEW loud \in [1 .. 2 -> BOOLEAN]
    PROVE  PathKept(RenderSample(p, ticks, wanted, open, sounds, loud))
<1> DEFINE begun == [p EXCEPT !.heard = {}, !.closes = FALSE, !.right = "rest"]
           ticked == IF ticks THEN Tick(begun, wanted, open) ELSE begun
           one == Phase(ticked, sounds[1], loud[1])
           two == Phase(one, sounds[2], loud[2])
           side == IF p.linked /\ two.linked THEN 1 ELSE 2
           r == RenderSample(p, ticks, wanted, open, sounds, loud)
<1>0. /\ sounds[1] \in BOOLEAN /\ sounds[2] \in BOOLEAN
      /\ loud[1] \in BOOLEAN /\ loud[2] \in BOOLEAN
  OBVIOUS
<1>1. p \in Paths /\ Whole(p)
  BY DEF PathKept
<1>2. /\ begun \in Paths /\ Whole(begun) /\ begun.linked = p.linked
      /\ begun.closes = FALSE /\ begun.right = "rest"
  BY <1>1, MemoryIs DEF Paths, Whole
<1> HIDE DEF begun
<1>3. /\ ticked \in Paths /\ Whole(ticked) /\ ticked.right = "rest"
      /\ ~p.linked /\ ticked.linked => ticked.closes
  <2>1. CASE ticks
    <3>1. Ticked(begun, Tick(begun, wanted, open))
      BY <1>2, TickKept
    <3>2. ticked = Tick(begun, wanted, open)
      BY <2>1
    <3> HIDE DEF ticked
    <3> QED
      BY <1>2, <3>1, <3>2 DEF Ticked
  <2>2. CASE ~ticks
    BY <1>2, <2>2
  <2> QED
    BY <2>1, <2>2
<1> HIDE DEF ticked
<1>4. /\ one \in Paths /\ Whole(one) /\ one.right = "rest"
      /\ one.linked = ticked.linked /\ one.closes = ticked.closes
  <2>1. Follows(ticked, one)
    BY <1>0, <1>3, PhaseKept
  <2> HIDE DEF one
  <2> QED
    BY <1>3, <2>1 DEF Follows
<1> HIDE DEF one
<1>5. /\ two \in Paths /\ Whole(two) /\ two.right = "rest"
      /\ two.linked = ticked.linked /\ two.closes = ticked.closes
  <2>1. Follows(one, two)
    BY <1>0, <1>4, PhaseKept
  <2> HIDE DEF two
  <2> QED
    BY <1>4, <2>1 DEF Follows
<1> HIDE DEF two
<1>6. r = IF one.frozen /\ two.frozen THEN two
          ELSE [two EXCEPT !.heard = @ \cup {two.decimator[1]},
                           !.right = two.decimator[side]]
  BY DEF RenderSample, begun, ticked, one, two
<1>7. CASE one.frozen /\ two.frozen
  BY <1>5, <1>6, <1>7 DEF PathKept
<1>8. CASE ~(one.frozen /\ two.frozen)
  <2> DEFINE more == two.heard \cup {two.decimator[1]}
             right == two.decimator[side]
  <2>1. /\ two.decimator[1] \in Memory /\ two.decimator[1] # "stale"
        /\ two.decimator[2] \in Memory
        /\ ~two.linked => two.decimator[2] # "stale"
    BY <1>5, MemoryIs DEF Paths, Whole
  <2>2. /\ right \in Memory
        /\ right = "stale" => two.closes
    BY <1>3, <1>5, <2>1
  <2>3. more \in SUBSET Memory /\ "stale" \notin more
    BY <1>5, <2>1 DEF Paths, Whole
  <2>4. r = [two EXCEPT !.heard = more, !.right = right]
    BY <1>5, <1>6, <1>8 DEF Paths
  <2> HIDE DEF more, right, r
  <2> QED
    BY <1>5, <2>2, <2>3, <2>4 DEF PathKept, Paths, Whole, r
<1> QED
  BY <1>7, <1>8

-----------------------------------------------------------------------------
(* The whole of it                                                         *)

SoundInv ==
    /\ PathInv
    /\ host \in Host
    /\ Kept(fx)
    /\ PathKept(path)

\* A round of the effects is a number of samples.
LEMMA RoundIs ==
    ASSUME Counters, pc = "effects"
    PROVE  Min({chunk - done, Scratch}) \in Nat \ {0}
<1>1. /\ chunk \in Int /\ done \in Int /\ chunk - done \in Int /\ chunk - done > 0
  BY Sizes DEF Counters
<1> QED
  BY <1>1, Sizes, MinOfTwo

LEMMA SoundInvKept == SoundInv /\ [Next]_vars => SoundInv'
<1> SUFFICES ASSUME SoundInv, [Next]_vars PROVE SoundInv'
  OBVIOUS
<1>0. PathInv' /\ Kept(fx) /\ PathKept(path)
  BY PathInvKept DEF SoundInv
<1>a. (mode = "Stereo") \in BOOLEAN
  OBVIOUS
<1>1. ASSUME NEW m \in host.modes, SetOutputMode(m) PROVE Kept(fx') /\ PathKept(path')
  BY <1>0, <1>1 DEF SetOutputMode
<1>2. ASSUME NEW on \in host.bypass, host.bypass \subseteq BOOLEAN, SetEffectParameters(on)
      PROVE  Kept(fx') /\ PathKept(path')
  BY <1>0, <1>2, SetEffectsKept DEF SetEffectParameters
<1>3. ASSUME AllSoundOff PROVE Kept(fx') /\ PathKept(path')
  BY <1>0, <1>3, <1>a, CalmKept, FreshPathKept DEF AllSoundOff, ResetEngines
<1>4. ASSUME Reset PROVE Kept(fx') /\ PathKept(path')
  <2>1. fx.enabled \in BOOLEAN
    BY <1>0 DEF Kept, Effects
  <2> QED
    BY <1>0, <1>4, <1>a, <2>1, FreshFxKept, FreshPathKept DEF Reset, ResetEngines
<1>5. ASSUME NEW n, Render(n) PROVE Kept(fx') /\ PathKept(path')
  BY <1>0, <1>5 DEF Render
<1>6. ASSUME Process PROVE Kept(fx') /\ PathKept(path')
  <2>1. fx' = fx
    BY <1>6 DEF Process
  <2>2. PICK ticks \in BOOLEAN, wanted \in BOOLEAN, open \in BOOLEAN,
             sounds \in [1 .. 2 -> BOOLEAN], loud \in [1 .. 2 -> BOOLEAN] :
             path' = RenderSample(path, ticks, wanted, open, sounds, loud)
    BY <1>6 DEF Process
  <2> QED
    BY <1>0, <2>1, <2>2, RenderSampleKept
<1>7. ASSUME ProcessEffects PROVE Kept(fx') /\ PathKept(path')
  <2> DEFINE n == Min({chunk - done, Scratch})
             clean == [fx EXCEPT !.heard = {}, !.moves = {}]
  <2>1. path' = path /\ pc = "effects"
        /\ fx' = IF fx.remaining = 0 THEN Steady(clean) ELSE Fading(clean, n)
    BY <1>7 DEF ProcessEffects
  <2>2. n \in Nat \ {0}
    BY <2>1, RoundIs DEF SoundInv, PathInv
  <2>3. Kept(clean) /\ clean.remaining = fx.remaining /\ clean.remaining \in Nat
    BY <1>0, CleanKept DEF Kept, Effects
  <2> HIDE DEF n, clean
  <2> QED
    BY <1>0, <2>1, <2>2, <2>3, SteadyKept, FadingKept
<1>8. ASSUME PushAcousticReturn PROVE Kept(fx') /\ PathKept(path')
  BY <1>0, <1>8 DEF PushAcousticReturn
<1>9. ASSUME UNCHANGED vars PROVE Kept(fx') /\ PathKept(path')
  BY <1>0, <1>9 DEF vars
<1>10. host.bypass \subseteq BOOLEAN
  BY DEF SoundInv, Host
<1>11. host' \in Host
  BY DEF SoundInv, Next, vars, SetOutputMode, SetEffectParameters, AllSoundOff, Reset,
         Render, Process, ProcessEffects, PushAcousticReturn
<1> QED
  BY <1>0, <1>1, <1>2, <1>3, <1>4, <1>5, <1>6, <1>7, <1>8, <1>9, <1>10, <1>11 DEF Next, SoundInv

LEMMA SoundInvHolds == Spec => []SoundInv
<1>1. Init => PathInv
  BY InitPath
<1>2. Init => SoundInv
  <2> SUFFICES ASSUME Init PROVE SoundInv
    OBVIOUS
  <2>1. host \in Host
    BY PathAssumption DEF Init
  <2>2. host.bypass \subseteq BOOLEAN
    BY <2>1 DEF Host
  <2>3. PICK on \in host.bypass : fx = FreshFx(on)
    BY DEF Init
  <2>4. (mode = "Stereo") \in BOOLEAN
    OBVIOUS
  <2>5. Kept(fx)
    BY <2>2, <2>3, FreshFxKept
  <2>6. PathKept(path)
    BY <2>4, FreshPathKept DEF Init
  <2> QED
    BY <1>1, <2>1, <2>5, <2>6 DEF SoundInv
<1> QED
  BY <1>2, SoundInvKept, PTL DEF Spec

\* Whatever the idle time after which the path freezes, the lengths of the blocks
\* and of a fade, and however the stereo field, the neck pickups, the bypass and
\* the notes come and go: nothing is heard of a filter that missed a part of the
\* sound that it remembers (renderInternalSample, freezeSharedPath and
\* ElectryPerformer::setEffectParameters).
THEOREM NothingStale == Spec => []NothingStaleIsHeard
<1>1. SoundInv => NothingStaleIsHeard
  BY DEF SoundInv, Kept, MemoryKept, PathKept, Whole, NothingStaleIsHeard
<1> QED
  BY <1>1, SoundInvHolds, PTL

\* Whatever a fade's length and the blocks, and however often the bypass is turned
\* around on its way: the wet level never moves by more in a sample than a fade of
\* its length needs, and it comes to rest where the control says
\* (ElectryPerformer::processEffects).
THEOREM BypassHasNoStep == Spec => []FadeHasNoStep
<1>1. SoundInv => FadeHasNoStep
  BY DEF SoundInv, Kept, FadeKept, FadeHasNoStep
<1> QED
  BY <1>1, SoundInvHolds, PTL

-----------------------------------------------------------------------------
(***************************************************************************)
(* The gain block.                                                         *)
(***************************************************************************)

Circuit == [filters : Memory, pedal : Memory, amps : [Models -> Memory]]
Bank == [circuits : [GainChannels -> Circuit], equal : BOOLEAN, behind : BOOLEAN,
         alike : BOOLEAN]

GainTypeOk ==
    /\ target \in Target
    /\ level \in Levels
    /\ bank \in [Banks -> Bank]
    /\ heard \in BOOLEAN

\* No stale memory in a circuit.
Unspoilt(c) == c.filters # "stale" /\ c.pedal # "stale" /\ \A m \in Models : c.amps[m] # "stale"

\* Nor in a bank, whose right channel may be its left one's.
Clean(b) == Unspoilt(Left(b)) /\ (~b.behind => Unspoilt(Right(b)))

\* The right channel is only taken from a left one with the same samples.
Twins(b) == /\ b.equal => b.alike
            /\ b.behind => b.equal

Rendered(b, l) == l.block > None /\ Weight(b, l.high) > None

GainInv ==
    /\ GainTypeOk
    /\ \A b \in Banks : Twins(bank[b])
    /\ level.block = None => bank = [b \in Banks |-> RestingBank]
    /\ \A b \in Banks : Rendered(b, level) => Clean(bank[b])
    /\ NoFrozenTail

-----------------------------------------------------------------------------
(* What one sample leaves of a bank.                                       *)

\* A bank at rest is clean, and its channels are the same.
LEMMA RestIsClean == RestingBank \in Bank /\ Clean(RestingBank) /\ Twins(RestingBank)
<1>1. Resting \in Circuit /\ Unspoilt(Resting)
  BY DEF Resting, Circuit, Memory, Unspoilt
<1> DEFINE both == [c \in GainChannels |-> Resting]
<1>2. both \in [GainChannels -> Circuit] /\ both["left"] = Resting /\ both["right"] = Resting
  BY <1>1 DEF GainChannels
<1>3. RestingBank = [circuits |-> both, equal |-> TRUE, behind |-> FALSE, alike |-> TRUE]
  BY DEF RestingBank
<1> HIDE DEF both
<1>4. QED
  BY <1>1, <1>2, <1>3 DEF Bank, Clean, Twins, Left, Right

\* Retiring models changes no flag, cleans nothing up that was not clean, and
\* leaves the retired ones at rest.
LEMMA Retired ==
    ASSUME NEW b \in Bank, NEW l \in Levels
    PROVE  LET r == Retire(b, l)
           IN /\ r \in Bank
              /\ r.equal = b.equal /\ r.behind = b.behind /\ r.alike = b.alike
              /\ Clean(b) => Clean(r)
              /\ l.amp # None =>
                   \A c \in GainChannels, m \in Models :
                      l.model[m] = None => r.circuits[c].amps[m] = "rest"
<1> DEFINE one(c) == RetireModels(b.circuits[c], l)
           both == [c \in GainChannels |-> one(c)]
<1>1. ASSUME NEW c \in GainChannels
      PROVE  /\ one(c) \in Circuit
             /\ Unspoilt(b.circuits[c]) => Unspoilt(one(c))
             /\ \A m \in Models : l.model[m] = None => one(c).amps[m] = "rest"
  <2> DEFINE amps == [m \in Models |-> IF l.model[m] = None THEN "rest"
                                       ELSE b.circuits[c].amps[m]]
  <2>1. b.circuits[c] \in Circuit
    BY DEF Bank
  <2>2. /\ amps \in [Models -> Memory]
        /\ \A m \in Models : l.model[m] = None => amps[m] = "rest"
        /\ Unspoilt(b.circuits[c]) => \A m \in Models : amps[m] # "stale"
    BY <2>1 DEF Circuit, Memory, Unspoilt
  <2>3. one(c) = [b.circuits[c] EXCEPT !.amps = amps]
    BY DEF RetireModels
  <2> HIDE DEF amps
  <2>4. QED
    BY <2>1, <2>2, <2>3 DEF Circuit, Unspoilt
<1>2. both \in [GainChannels -> Circuit] /\ \A c \in GainChannels : both[c] = one(c)
  BY <1>1
<1>3. CASE l.amp = None
  BY <1>3 DEF Retire
<1>4. CASE l.amp # None
  <2>1. Retire(b, l) = [b EXCEPT !.circuits = both]
    BY <1>4 DEF Retire
  <2> HIDE DEF both
  <2>2. /\ Retire(b, l) \in Bank
        /\ Retire(b, l).circuits = both
        /\ Retire(b, l).equal = b.equal
        /\ Retire(b, l).behind = b.behind
        /\ Retire(b, l).alike = b.alike
    BY <1>2, <2>1 DEF Bank
  <2> HIDE DEF one
  <2>3. Clean(b) => Clean(Retire(b, l))
    BY <1>1, <1>2, <2>2 DEF Clean, Left, Right, GainChannels
  <2>4. \A c \in GainChannels, m \in Models :
           l.model[m] = None => Retire(b, l).circuits[c].amps[m] = "rest"
    BY <1>1, <1>2, <2>2
  <2>5. QED
    BY <2>2, <2>3, <2>4
<1>5. QED
  BY <1>3, <1>4

\* A frame keeps a circuit whole whose models that are not heard are at rest.
LEMMA FrameKeeps ==
    ASSUME NEW c \in Circuit, NEW l \in Levels
    PROVE  /\ Frame(c, l) \in Circuit
           /\ /\ Unspoilt(c)
              /\ l.amp # None => \A m \in Models : l.model[m] = None => c.amps[m] = "rest"
              => Unspoilt(Frame(c, l))
<1>1. /\ c.filters \in Memory /\ c.pedal \in Memory /\ c.amps \in [Models -> Memory]
      /\ l.pedal \in Level /\ l.amp \in Level /\ l.model \in [Models -> Level]
  BY DEF Circuit, Levels
<1> DEFINE filters == Fed(c.filters)
           pedal == IF l.pedal > None THEN Fed(c.pedal) ELSE "rest"
           amps == [m \in Models |-> IF l.amp = None THEN "rest"
                                     ELSE IF l.model[m] > None THEN Fed(c.amps[m])
                                     ELSE Skipped(c.amps[m])]
<1>2. /\ filters \in Memory /\ pedal \in Memory /\ amps \in [Models -> Memory]
  BY <1>1 DEF Memory, Fed, Skipped
<1>3. Unspoilt(c) => filters # "stale" /\ pedal # "stale"
  BY DEF Unspoilt, Fed
<1>4. ASSUME Unspoilt(c), NEW m \in Models,
             l.amp # None => (l.model[m] = None => c.amps[m] = "rest")
      PROVE  amps[m] # "stale"
  <2>1. l.model[m] \in Level /\ c.amps[m] # "stale"
    BY <1>1, <1>4 DEF Unspoilt
  <2>2. QED
    BY <1>4, <2>1 DEF Fed, Skipped, Level, None, Part, All
<1>5. Frame(c, l) = [filters |-> filters, pedal |-> pedal, amps |-> amps]
  BY DEF Frame
<1> HIDE DEF filters, pedal, amps
<1>6. QED
  BY <1>2, <1>3, <1>4, <1>5 DEF Circuit, Unspoilt

\* A circuit of nothing but stale memory is a circuit.
LEMMA AllStale ==
    ASSUME NEW c \in Circuit
    PROVE  All3(LAMBDA m : "stale", c) \in Circuit
BY DEF All3, Circuit, Memory

\* One sample leaves a clean bank clean, whether the channels are computed
\* together or apart.
LEMMA RenderKeeps ==
    ASSUME NEW b \in Bank, NEW l \in Levels, NEW same \in BOOLEAN, Twins(b)
    PROVE  LET r == RenderBank(b, l, same)
           IN r \in Bank /\ Twins(r) /\ (Clean(b) => Clean(r))
<1> DEFINE ready == Retire(b, l)
<1>1. /\ ready \in Bank
      /\ ready.equal = b.equal /\ ready.behind = b.behind /\ ready.alike = b.alike
      /\ Clean(b) => Clean(ready)
      /\ l.amp # None =>
           \A c \in GainChannels, m \in Models :
              l.model[m] = None => ready.circuits[c].amps[m] = "rest"
  BY Retired
<1> HIDE DEF ready
<1>2. Left(ready) \in Circuit /\ Right(ready) \in Circuit
  BY <1>1 DEF Bank, Left, Right, GainChannels
<1>3. /\ Frame(Left(ready), l) \in Circuit
      /\ Clean(b) => Unspoilt(Frame(Left(ready), l))
  BY <1>1, <1>2, FrameKeeps DEF Clean, Left, GainChannels
<1>4. CASE b.equal /\ same
  <2> DEFINE frame == Frame(Left(ready), l)
             stale == All3(LAMBDA m : "stale", Right(ready))
             both == [left |-> frame, right |-> stale]
  <2>1. stale \in Circuit
    BY <1>2, AllStale
  <2>2. RenderBank(b, l, same) = [ready EXCEPT !.circuits = both, !.behind = TRUE]
    BY <1>4 DEF RenderBank, Shared, ready
  <2> HIDE DEF frame, stale
  <2>3. both \in [GainChannels -> Circuit] /\ both["left"] = frame
    BY <1>3, <2>1 DEF GainChannels, frame
  <2> HIDE DEF both
  <2>4. LET r == RenderBank(b, l, same)
        IN r \in Bank /\ r.circuits = both /\ r.equal = b.equal /\ r.behind = TRUE
           /\ r.alike = b.alike
    BY <1>1, <2>2, <2>3 DEF Bank
  <2>5. QED
    BY <1>3, <1>4, <2>3, <2>4 DEF Twins, Clean, Left, frame
<1>5. CASE ~(b.equal /\ same)
  <2> DEFINE right == IF ready.behind THEN LikeLeft(ready) ELSE Right(ready)
             begun == Frame(Left(ready), l)
             ended == Frame(right, l)
             both == [left |-> begun, right |-> ended]
  <2>1. right \in Circuit
    BY <1>2, AllStale DEF LikeLeft
  <2>2. Clean(b) => Unspoilt(right)
    BY <1>1 DEF Clean, Twins, LikeLeft
  <2>3. l.amp # None => \A m \in Models : l.model[m] = None => right.amps[m] = "rest"
    BY <1>1 DEF Twins, LikeLeft, Left, Right, GainChannels
  <2> HIDE DEF right
  <2>4. ended \in Circuit /\ (Clean(b) => Unspoilt(ended))
    BY <2>1, <2>2, <2>3, FrameKeeps
  <2> DEFINE alike == b.alike /\ same
             r == RenderBank(b, l, same)
  <2>5. r = [circuits |-> both, equal |-> FALSE, behind |-> FALSE, alike |-> alike]
    BY <1>5, Zenon DEF RenderBank, RenderedApart, ready, right
  <2> HIDE DEF begun, ended, alike, r
  <2>6. both \in [GainChannels -> Circuit] /\ both["left"] = begun /\ both["right"] = ended
    BY <1>3, <2>4 DEF GainChannels, begun
  <2> HIDE DEF both
  <2>7. alike \in BOOLEAN
    BY DEF alike, Bank
  <2>8. r \in Bank /\ r.circuits = both /\ r.equal = FALSE /\ r.behind = FALSE
    BY <2>5, <2>6, <2>7 DEF Bank
  <2>9. r \in Bank /\ Twins(r) /\ (Clean(b) => Clean(r))
    BY <1>3, <2>4, <2>6, <2>8 DEF Twins, Clean, Left, Right, begun
  <2>10. QED
    BY <2>9 DEF r
<1>6. QED
  BY <1>4, <1>5

\* A bank that is not rendered keeps its flags.
LEMMA IdleKeeps ==
    ASSUME NEW b \in Bank, Twins(b)
    PROVE  Idle(b) \in Bank /\ Twins(Idle(b))
<1> DEFINE one(c) == All3(Skipped, b.circuits[c])
           both == [c \in GainChannels |-> one(c)]
<1>1. ASSUME NEW c \in GainChannels
      PROVE  one(c) \in Circuit
  BY DEF Bank, All3, Skipped, Circuit, Memory
<1>2. both \in [GainChannels -> Circuit]
  BY <1>1
<1>3. Idle(b) = [b EXCEPT !.circuits = both]
  BY DEF Idle
<1> HIDE DEF both
<1>4. QED
  BY <1>2, <1>3 DEF Bank, Twins

\* Nothing stale is heard of a clean bank.
LEMMA CleanIsHeard ==
    ASSUME NEW b \in Bank, NEW l \in Levels, Clean(b), Twins(b)
    PROVE  "stale" \notin HeardOf(b, l)
<1>1. ASSUME NEW c \in Circuit, Unspoilt(c)
      PROVE  "stale" \notin Audible(c, l)
  BY <1>1 DEF Audible, Unspoilt
<1>2. Left(b) \in Circuit /\ Right(b) \in Circuit
  BY DEF Bank, Left, Right, GainChannels
<1> DEFINE right == IF b.behind THEN LikeLeft(b) ELSE Right(b)
<1>3. right \in Circuit /\ Unspoilt(right)
  BY <1>2 DEF Clean, Twins, LikeLeft
<1> HIDE DEF right
<1>4. HeardOf(b, l) = Audible(Left(b), l) \cup Audible(right, l)
  BY DEF HeardOf, right
<1>5. QED
  BY <1>1, <1>2, <1>3, <1>4 DEF Clean

-----------------------------------------------------------------------------
(* The invariant                                                           *)

\* The state that reset leaves has it.
LEMMA SettledInv ==
    ASSUME target \in Target, level = Settled, bank = [b \in Banks |-> RestingBank],
           heard = FALSE
    PROVE  GainInv
<1>1. Settled \in Levels /\ Settled.block = None
  BY DEF Settled, Levels, Level, Want, None, Part, All, Target
<1>2. QED
  BY <1>1, RestIsClean DEF GainInv, GainTypeOk, NoFrozenTail, Rendered, None

\* A bank that is rendered next is rendered now, comes back from rest, or the
\* whole block was at rest; so it is clean before it is clocked.
LEMMA ReturnsClean ==
    ASSUME GainInv, NEW next \in Smoothed, next.block > None
    PROVE  /\ next \in Levels
           /\ Returning(bank) \in [Banks -> Bank]
           /\ \A b \in Banks : Twins(Returning(bank)[b])
           /\ \A b \in Banks : Weight(b, next.high) > None => Clean(Returning(bank)[b])
<1> USE DEF GainInv, GainTypeOk
<1>1. /\ level.block \in Level /\ level.high \in Level /\ level.pedal \in Level
      /\ level.amp \in Level
      /\ target.distortion \in BOOLEAN /\ target.amp \in BOOLEAN /\ target.high \in BOOLEAN
  BY DEF Levels, Target
<1>2. ASSUME NEW x \in Level, NEW on \in BOOLEAN
      PROVE  Toward(x, Want(on)) \subseteq Level /\ Want(on) \in Level
  BY DEF Toward, Want, Level, None, Part, All
<1>3. next \in Levels
  BY <1>1, <1>2 DEF Smoothed, Levels
<1>4. /\ next.high \in Level
      /\ next.high \in IF level.block = None \/ next.block = None THEN {Want(target.high)}
                       ELSE Toward(level.high, Want(target.high))
  BY <1>3 DEF Smoothed, Levels
<1>5. ASSUME NEW b \in Banks
      PROVE  /\ Returning(bank)[b] \in {bank[b], RestingBank}
             /\ Weight(b, next.high) > None => Clean(Returning(bank)[b])
  <2>1. Returning(bank)[b] =
           IF \/ b = "high" /\ level.high = None /\ Want(target.high) = All
              \/ b = "standard" /\ level.high = All /\ Want(target.high) = None
           THEN RestingBank ELSE bank[b]
    BY DEF Returning
  <2>2. CASE Returning(bank)[b] = RestingBank
    BY <2>2, RestIsClean
  <2>3. CASE level.block = None
    BY <2>1, <2>3, RestIsClean
  <2>4. CASE /\ Returning(bank)[b] = bank[b] /\ level.block # None
             /\ Returning(bank)[b] # RestingBank
    <3>1. Weight(b, next.high) > None => Weight(b, level.high) > None
      BY <1>1, <1>4, <2>1, <2>4
         DEF Banks, Weight, Toward, Want, Level, None, Part, All
    <3>2. level.block > None
      BY <1>1, <2>4 DEF Level, None, Part, All
    <3>3. QED
      BY <2>4, <3>1, <3>2 DEF Rendered
  <2>5. QED
    BY <2>1, <2>2, <2>3, <2>4
<1>6. Returning(bank) \in [Banks -> Bank]
  <2>1. \A b \in Banks : Returning(bank)[b] \in Bank
    BY <1>5, RestIsClean
  <2>2. QED
    BY <2>1 DEF Returning
<1>7. QED
  BY <1>3, <1>5, <1>6, RestIsClean

\* A sample of an engaged block keeps the invariant (processInternal's render of
\* the banks its mix needs).
LEMMA SoundingInv ==
    ASSUME GainInv, target' = target, NEW next \in Smoothed, level' = next,
           NEW same \in BOOLEAN, Sounding(next, same)
    PROVE  GainInv'
<1> DEFINE clocked == Returning(bank)
           rendered == {b \in Banks : Weight(b, next.high) > None}
<1>1. next.block > None
  BY DEF Sounding
<1>2. /\ next \in Levels
      /\ clocked \in [Banks -> Bank]
      /\ \A b \in Banks : Twins(clocked[b])
      /\ \A b \in Banks : Weight(b, next.high) > None => Clean(clocked[b])
  BY <1>1, ReturnsClean
<1>3. /\ bank' = [b \in Banks |-> IF b \in rendered THEN RenderBank(clocked[b], next, same)
                                  ELSE Idle(clocked[b])]
      /\ heard' = ("stale" \in UNION {HeardOf(bank'[b], next) : b \in rendered})
  BY DEF Sounding
<1> HIDE DEF clocked
<1>4. ASSUME NEW b \in Banks
      PROVE  /\ bank'[b] \in Bank /\ Twins(bank'[b])
             /\ b \in rendered => Clean(bank'[b])
  <2>1. CASE b \in rendered
    BY <1>2, <1>3, <2>1, RenderKeeps
  <2>2. CASE b \notin rendered
    BY <1>2, <1>3, <2>2, IdleKeeps
  <2>3. QED
    BY <2>1, <2>2
<1>5. heard' = FALSE
  <2>1. ASSUME NEW b \in rendered
        PROVE  "stale" \notin HeardOf(bank'[b], next)
    BY <1>2, <1>4, CleanIsHeard
  <2>2. "stale" \notin UNION {HeardOf(bank'[b], next) : b \in rendered}
    BY <2>1
  <2> DEFINE stale == "stale" \in UNION {HeardOf(bank'[b], next) : b \in rendered}
  <2>3. heard' = stale /\ ~stale
    BY <1>3, <2>2
  <2> HIDE DEF stale
  <2>4. QED
    BY <2>3
<1>6. bank' \in [Banks -> Bank]
  BY <1>3, <1>4
<1>7. target' \in Target
  BY DEF GainInv, GainTypeOk
<1>8. GainTypeOk'
  BY <1>2, <1>5, <1>6, <1>7 DEF GainTypeOk
<1>9. \A b \in Banks : Rendered(b, level') => Clean(bank'[b])
  BY <1>4 DEF Rendered
<1>10. ~(level'.block = None)
  BY <1>1 DEF None
<1>11. QED
  BY <1>4, <1>5, <1>8, <1>9, <1>10 DEF GainInv, NoFrozenTail

\* And so does a sample at which the block is not heard: it is reset.
LEMMA SilentInv ==
    ASSUME GainInv, target' = target, NEW next \in Smoothed, level' = next, Silent(next)
    PROVE  GainInv'
<1> USE DEF GainInv, GainTypeOk
<1>1. next.block = None
  BY DEF Silent
<1>2. /\ level.block \in Level /\ level.high \in Level /\ level.pedal \in Level
      /\ level.amp \in Level
      /\ target.distortion \in BOOLEAN /\ target.amp \in BOOLEAN /\ target.high \in BOOLEAN
  BY DEF Levels, Target
<1>3. ASSUME NEW x \in Level, NEW on \in BOOLEAN
      PROVE  Toward(x, Want(on)) \subseteq Level /\ Want(on) \in Level
  BY DEF Toward, Want, Level, None, Part, All
<1>4. next \in Levels
  BY <1>2, <1>3 DEF Smoothed, Levels
<1>5. bank' = [b \in Banks |-> RestingBank] /\ heard' = FALSE
  BY DEF Silent
<1>6. QED
  BY <1>1, <1>4, <1>5, RestIsClean DEF NoFrozenTail, Rendered, None

\* Every step keeps the invariant, a change of the controls and a reset among
\* them.
LEMMA GainInvKept == GainInv /\ [GainNext]_gainVars => GainInv'
<1> SUFFICES ASSUME GainInv, [GainNext]_gainVars PROVE GainInv'
  OBVIOUS
<1>1. CASE \E control \in DOMAIN target : SetParameters(control)
  <2>1. target' \in Target /\ UNCHANGED <<level, bank, heard>>
    <3>1. PICK control \in DOMAIN target : SetParameters(control)
      BY <1>1
    <3>2. PICK to \in IF control = "model" THEN Models ELSE BOOLEAN :
             target' = [target EXCEPT ![control] = to]
      BY <3>1 DEF SetParameters
    <3>3. target \in Target /\ control \in {"distortion", "amp", "model", "high"}
      BY DEF GainInv, GainTypeOk, Target
    <3>4. target' \in Target
      BY <3>2, <3>3 DEF Target
    <3>5. QED
      BY <3>1, <3>4 DEF SetParameters
  <2>2. QED
    BY <2>1 DEF GainInv, GainTypeOk, NoFrozenTail
<1>2. CASE ResetGain
  <2>1. target' \in Target /\ heard' = FALSE /\ bank' = [b \in Banks |-> RestingBank]
    BY <1>2 DEF ResetGain, GainInv, GainTypeOk
  <2>2. level' = Settled' 
    BY <1>2 DEF ResetGain, Settled
  <2>3. QED
    <3>1. Settled' \in Levels /\ Settled'.block = None
      BY <2>1 DEF Settled, Levels, Level, Want, None, Part, All, Target
    <3>2. QED
      BY <2>1, <2>2, <3>1, RestIsClean DEF GainInv, GainTypeOk, NoFrozenTail, Rendered, None
<1>3. CASE \E same \in BOOLEAN : ProcessGain(same)
  <2>1. PICK same \in BOOLEAN : ProcessGain(same)
    BY <1>3
  <2>2. PICK next \in Smoothed : level' = next /\ (Sounding(next, same) \/ Silent(next))
    BY <2>1 DEF ProcessGain
  <2>3. target' = target
    BY <2>1 DEF ProcessGain
  <2>4. QED
    BY <2>2, <2>3, SoundingInv, SilentInv
<1>4. CASE UNCHANGED gainVars
  BY <1>4 DEF gainVars, GainInv, GainTypeOk, NoFrozenTail
<1>5. QED
  BY <1>1, <1>2, <1>3, <1>4 DEF GainNext

\* Whatever the amplifiers: no order of switching the pedal, the amplifier, its
\* model and the oversampling, in the middle of any fade and with channels that
\* part when they like, brings back the memory of an older sound
\* (ElectryFx::processInternal).
THEOREM NothingFrozen == GainSpec => []NoFrozenTail
<1>1. GainInit => GainInv
  BY SettledInv DEF GainInit
<1>2. GainInv => NoFrozenTail
  BY DEF GainInv
<1>3. QED
  BY <1>1, <1>2, GainInvKept, PTL DEF GainSpec
=============================================================================

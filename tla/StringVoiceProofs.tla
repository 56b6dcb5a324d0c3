------------------------- MODULE StringVoiceProofs -------------------------
(***************************************************************************)
(* What is heard of a string, for every length of a contact and of a       *)
(* crossfade, every way of picking and every time a pick may be under way: *)
(* the crossfade has its heads and fades them without a leap, the one hand *)
(* is on the string, and the stopping hand opens and closes by degrees.    *)
(*                                                                         *)
(* A sound voice is one whose crossfade has its heads and which is under   *)
(* the hand; each function of the module makes sound voices of sound ones. *)
(* What is heard of it rests on that, and on how the gain came to be.      *)
(***************************************************************************)
EXTENDS StringVoice, TLAPS

Styles == {"Sustain", "PalmMute", "Dead", "Hammer", "Slide"}
Gains == {"open", "part", "shut"}
Hands == {"none", "Sustain", "PalmMute", "Dead"}
Phases == {"contact", "release", "tail", Idle}
Heads == Nat \cup {None}

VoiceType ==
    [active : BOOLEAN, keyDown : BOOLEAN, sustained : BOOLEAN, releasing : BOOLEAN,
     note : Note \cup {NoNote}, style : Styles, damping : Hands,
     delay : Nat, pending : Styles \cup {"none"}, keepsRing : BOOLEAN,
     remaining : 0 .. Boundary, queued : BOOLEAN,
     live : Nat, source : Heads, frozen : Heads,
     phase : Phases, left : Nat,
     gain : Gains, restore : Nat, start : Gains, inHand : BOOLEAN]

\* BoundaryIsWhole, of any voice; and only what is heard in part has a queue.
WholeHeads(v) ==
    /\ (v.remaining > 0) <=> (v.source # None)
    /\ v.queued <=> (v.frozen # None)
    /\ v.queued => v.remaining > 0 /\ v.remaining < Boundary

PickWaits(v) == v.queued /\ v.delay > 0 => v.delay >= v.remaining

Bounded(v) == WholeHeads(v) /\ PickWaits(v)

\* OneHand, of any voice; and a pick that is on its way to a string under the
\* hand is one that leaves the string ringing, so the hand's moves reach it.
Handled(v, h) ==
    v.inHand => /\ v.active
                /\ v.damping = h /\ h # "none"
                /\ v.delay > 0 => v.keepsRing

Sound(v, h) == v \in VoiceType /\ Bounded(v) /\ Handled(v, h)

VoiceInv ==
    /\ hand \in Hands
    /\ pedal \in BOOLEAN
    /\ overtaken \in BOOLEAN
    /\ Sound(voice, hand)

-----------------------------------------------------------------------------
(* What the helpers return.                                                *)

LEMMA MaxOfTwo ==
    ASSUME NEW a \in Int, NEW b \in Int
    PROVE  /\ Max({a, b}) \in {a, b}
           /\ Max({a, b}) >= a /\ Max({a, b}) >= b
<1>1. \E x \in {a, b} : \A y \in {a, b} : x >= y
  <2>1. CASE a >= b
    BY <2>1
  <2>2. CASE ~(a >= b)
    BY <2>2
  <2>3. QED
    BY <2>1, <2>2
<1>2. Max({a, b}) \in {a, b} /\ \A y \in {a, b} : Max({a, b}) >= y
  BY <1>1 DEF Max
<1>3. QED
  BY <1>2

LEMMA SilentIsSound == ASSUME NEW h \in Hands PROVE Sound(Silent, h)
  BY VoiceAssumption DEF Phases, Sound, Bounded, WholeHeads, PickWaits, Handled, Silent, VoiceType, Styles, Gains, Hands,
     Heads, None, New, Idle, NoNote

LEMMA WholeIsAHand ==
    ASSUME NEW style \in Styles
    PROVE  Whole(style) \in Hands \ {"none"}
  BY DEF Whole, Styles, Hands

LEMMA ArrivesInTime ==
    ASSUME NEW v \in VoiceType, NEW n, NEW style, NEW delay \in Nat
    PROVE  /\ ArrivesIn(v, n, style, delay) \in Nat
           /\ ArrivesIn(v, n, style, delay) >= delay
           /\ WaitsForBoundary(v, n, style) =>
                 /\ v.remaining > 0
                 /\ ArrivesIn(v, n, style, delay) >= v.remaining
           /\ ~WaitsForBoundary(v, n, style) => ArrivesIn(v, n, style, delay) = delay
<1>1. v.remaining \in Nat
  BY VoiceAssumption DEF VoiceType
<1>2. QED
  BY <1>1, MaxOfTwo DEF ArrivesIn, WaitsForBoundary

-----------------------------------------------------------------------------
(* The notes.                                                              *)

\* Two voices have the same crossfade, and the same of everything the hand does.
SameHeads(v, w) ==
    /\ w.remaining = v.remaining /\ w.queued = v.queued
    /\ w.live = v.live /\ w.source = v.source /\ w.frozen = v.frozen

SamePick(v, w) ==
    /\ w.active = v.active /\ w.style = v.style /\ w.pending = v.pending
    /\ w.inHand = v.inHand /\ w.keepsRing = v.keepsRing /\ w.delay = v.delay

\* A voice with other heads is still a voice.
LEMMA QueuedTyped ==
    ASSUME NEW v \in VoiceType, NEW frozen \in Nat
    PROVE  [v EXCEPT !.queued = TRUE, !.frozen = frozen, !.live = New] \in VoiceType
  BY DEF VoiceType, Heads, New

LEMMA StartedTyped ==
    ASSUME NEW v \in VoiceType, NEW source \in Nat
    PROVE  [v EXCEPT !.remaining = Boundary, !.queued = FALSE,
                     !.source = source, !.live = New] \in VoiceType
<1>1. Boundary \in 0 .. Boundary
  BY VoiceAssumption
<1>2. QED
  BY <1>1 DEF VoiceType, Heads, New

\* Fitting the loop keeps the crossfade whole, but its caller still has to let
\* the pick wait for a fret that is queued.
LEMMA GeometryFits ==
    ASSUME NEW v \in VoiceType, NEW w \in VoiceType, WholeHeads(v), SameHeads(v, w),
           NEW refrets \in BOOLEAN, NEW delay \in Nat, NEW large \in BOOLEAN,
           hand \in Hands,
           NEW g, g = Geometry(v, w, refrets, delay, large)
    PROVE  /\ g \in VoiceType
           /\ WholeHeads(g)
           /\ SamePick(w, g)
           /\ g.queued => g.remaining = v.remaining
           /\ ~(refrets /\ Fading(v)) /\ ~v.queued => ~g.queued
           /\ v.active /\ delay > 0 /\ hand # "none" => g.damping = hand
<1> DEFINE placed == Placed(v, w, delay)
<1>1. placed \in VoiceType
  <2>1. w.style \in Styles
    BY DEF VoiceType
  <2>2. Whole(w.style) \in Hands
    BY <2>1, WholeIsAHand
  <2>3. QED
    BY <2>2 DEF VoiceType, Placed
<1>2. SameHeads(v, placed) /\ SamePick(w, placed)
  BY DEF VoiceType, SameHeads, SamePick, Placed
<1>3. v.active /\ delay > 0 /\ hand # "none" => placed.damping = hand
  BY DEF VoiceType, Placed
<1> HIDE DEF placed
<1>4. CASE refrets /\ Fading(v)
  <2> DEFINE kept == IF placed.frozen = None THEN v.live ELSE placed.frozen
  <2>1. g = [placed EXCEPT !.queued = TRUE, !.frozen = kept, !.live = New]
    BY <1>4 DEF Geometry, QueueRefret, placed
  <2>2. v.remaining > 0 /\ v.remaining < Boundary /\ v.live \in Nat
    BY <1>4, VoiceAssumption DEF Fading, VoiceType
  <2>3. kept \in Nat
    BY <1>1, <2>2 DEF VoiceType, Heads, None
  <2> HIDE DEF kept
  <2>4. g \in VoiceType
    BY <1>1, <2>1, <2>3, QueuedTyped
  <2>5. g.queued /\ g.remaining = placed.remaining /\ g.source = placed.source
    BY <1>1, <2>1 DEF VoiceType
  <2>6. g.frozen = kept /\ g.damping = placed.damping
    BY <1>1, <2>1 DEF VoiceType
  <2>7. SamePick(placed, g)
    BY <1>1, <2>1 DEF VoiceType, SamePick
  <2>8. SamePick(w, g)
    BY <1>2, <2>7 DEF SamePick
  <2>9. WholeHeads(g) /\ g.remaining = v.remaining
    BY <1>2, <2>2, <2>3, <2>5, <2>6 DEF WholeHeads, SameHeads, None
  <2>10. QED
    BY <1>3, <1>4, <2>4, <2>6, <2>8, <2>9
<1>5. CASE /\ ~(refrets /\ Fading(v))
           /\ refrets /\ (Unheard(v) \/ (v.remaining = 0 /\ ~large))
  <2> DEFINE source == IF v.remaining = 0 THEN v.live ELSE v.source
  <2>1. g = [placed EXCEPT !.remaining = Boundary, !.queued = FALSE,
                           !.source = source, !.live = New]
    BY <1>5 DEF Geometry, StartRefret, BeginRefretHandoff, placed
  <2>2. source \in Nat /\ ~v.queued
    BY <1>5, VoiceAssumption DEF Unheard, VoiceType, WholeHeads, Heads, None
  <2> HIDE DEF source
  <2>3. g \in VoiceType
    BY <1>1, <2>1, <2>2, StartedTyped
  <2>4. g.remaining = Boundary /\ ~g.queued /\ g.source = source
    BY <1>1, <2>1 DEF VoiceType
  <2>5. g.frozen = placed.frozen /\ g.damping = placed.damping
    BY <1>1, <2>1 DEF VoiceType
  <2>6. SamePick(placed, g)
    BY <1>1, <2>1 DEF VoiceType, SamePick
  <2>7. SamePick(w, g)
    BY <1>2, <2>6 DEF SamePick
  <2>8. g.frozen = None
    BY <1>2, <2>2, <2>5 DEF WholeHeads, SameHeads
  <2>9. WholeHeads(g)
    BY <2>2, <2>4, <2>8, VoiceAssumption DEF WholeHeads, None
  <2>10. QED
    BY <1>3, <2>3, <2>4, <2>5, <2>7, <2>9
<1>6. CASE /\ ~(refrets /\ Fading(v))
           /\ ~(refrets /\ (Unheard(v) \/ (v.remaining = 0 /\ ~large)))
  <2>1. g = placed \/ g = [placed EXCEPT !.live = New]
    BY <1>6 DEF Geometry, placed
  <2>2. g \in VoiceType
    BY <1>1, <2>1 DEF VoiceType, New
  <2>3. g.remaining = v.remaining /\ g.queued = v.queued /\ g.source = v.source
    BY <1>1, <1>2, <2>1 DEF VoiceType, SameHeads
  <2>4. g.frozen = v.frozen /\ g.damping = placed.damping
    BY <1>1, <1>2, <2>1 DEF VoiceType, SameHeads
  <2>5. SamePick(placed, g)
    BY <1>1, <2>1 DEF VoiceType, SamePick
  <2>6. SamePick(w, g)
    BY <1>2, <2>5 DEF SamePick
  <2>7. WholeHeads(g)
    BY <2>3, <2>4 DEF WholeHeads
  <2>8. QED
    BY <1>3, <1>6, <2>2, <2>3, <2>4, <2>6, <2>7
<1>7. QED
  BY <1>4, <1>5, <1>6

\* The note's new owner, and the pick that is sent.
Owned(v, n, style, gained, restored, started) ==
    [v EXCEPT !.active = TRUE, !.keyDown = TRUE, !.sustained = FALSE,
              !.releasing = FALSE, !.note = n, !.style = style,
              !.pending = "none",
              !.gain = gained, !.restore = restored, !.start = started]

Sent(v, delay, keeps) == [v EXCEPT !.delay = delay, !.keepsRing = keeps]

LEMMA OwnedTyped ==
    ASSUME NEW v \in VoiceType, NEW n \in Note \cup {NoNote}, NEW style \in Styles,
           NEW gained \in Gains, NEW restored \in Nat, NEW started \in Gains
    PROVE  LET w == Owned(v, n, style, gained, restored, started) IN
           /\ w \in VoiceType
           /\ SameHeads(v, w)
           /\ w.active /\ w.style = style /\ w.pending = "none"
           /\ w.inHand = v.inHand /\ w.delay = v.delay
<1> DEFINE w == Owned(v, n, style, gained, restored, started)
<1>1. w \in VoiceType
  BY DEF VoiceType, Owned
<1>2. SameHeads(v, w)
  BY DEF VoiceType, Owned, SameHeads
<1>3. w.active /\ w.style = style /\ w.pending = "none"
  BY DEF VoiceType, Owned
<1>4. w.inHand = v.inHand /\ w.delay = v.delay
  BY DEF VoiceType, Owned
<1>5. QED
  BY <1>1, <1>2, <1>3, <1>4

LEMMA SentTyped ==
    ASSUME NEW v \in VoiceType, NEW delay \in Nat, NEW keeps \in BOOLEAN
    PROVE  LET w == Sent(v, delay, keeps) IN
           /\ w \in VoiceType
           /\ SameHeads(v, w)
           /\ w.delay = delay /\ w.keepsRing = keeps
           /\ w.active = v.active /\ w.style = v.style
           /\ w.inHand = v.inHand /\ w.damping = v.damping
<1> DEFINE w == Sent(v, delay, keeps)
<1>1. w \in VoiceType
  BY DEF VoiceType, Sent
<1>2. SameHeads(v, w)
  BY DEF VoiceType, Sent, SameHeads
<1>3. w.delay = delay /\ w.keepsRing = keeps
  BY DEF VoiceType, Sent
<1>4. w.active = v.active /\ w.style = v.style
  BY DEF VoiceType, Sent
<1>5. w.inHand = v.inHand /\ w.damping = v.damping
  BY DEF VoiceType, Sent
<1>6. QED
  BY <1>1, <1>2, <1>3, <1>4, <1>5

\* A voice with the same heads is as whole.
LEMMA SameIsWhole ==
    ASSUME NEW v, NEW w, SameHeads(v, w), WholeHeads(v)
    PROVE  WholeHeads(w)
  BY DEF SameHeads, WholeHeads

\* A struck string is whole, and under the hand while its pick is on its way.
Strikes(s, style, delay) ==
    /\ s \in VoiceType /\ Bounded(s)
    /\ s.active /\ s.style = style
    /\ delay > 0 => Handled(s, hand)
    /\ delay = 0 <=> s.delay = 0

LEMMA StrikeFits ==
    ASSUME NEW v, Sound(v, hand), hand \in Hands,
           NEW n \in Note \cup {NoNote}, NEW style \in Styles,
           NEW delay \in Nat, NEW large \in BOOLEAN,
           WaitsForBoundary(v, n, style) => delay > 0,
           NEW s, s = Strike(v, n, style, delay, large)
    PROVE  Strikes(s, style, delay)
<1> DEFINE gained == IF Plectrum(style) THEN v.gain ELSE "open"
           restored == IF Plectrum(style) THEN v.restore ELSE 0
           started == IF Plectrum(style) THEN v.start ELSE "open"
           owned == Owned(v, n, style, gained, restored, started)
           refrets == Refrets(v, n, style)
           fitted == Geometry(v, owned, refrets, delay, large)
           waits == IF fitted.queued THEN Max({delay, fitted.remaining}) ELSE delay
           keeps == v.active /\ waits > 0
<1>1. v \in VoiceType /\ Bounded(v) /\ Handled(v, hand)
  BY DEF Sound
<1>2. s = Sent(fitted, waits, keeps)
  BY DEF Strike, Owned, Sent
<1>3. gained \in Gains /\ restored \in Nat /\ started \in Gains
  BY <1>1 DEF VoiceType, Gains
<1> HIDE DEF gained, restored, started
<1>4. /\ owned \in VoiceType /\ SameHeads(v, owned)
      /\ owned.active /\ owned.style = style /\ owned.inHand = v.inHand
  BY <1>1, <1>3, OwnedTyped
<1>5. refrets \in BOOLEAN
  BY <1>1 DEF Refrets, VoiceType
<1> HIDE DEF owned
<1>6. /\ fitted \in VoiceType /\ WholeHeads(fitted) /\ SamePick(owned, fitted)
      /\ ~(refrets /\ Fading(v)) /\ ~v.queued => ~fitted.queued
      /\ v.active /\ delay > 0 /\ hand # "none" => fitted.damping = hand
  BY <1>1, <1>4, <1>5, GeometryFits DEF Bounded
<1>7. fitted.active /\ fitted.style = style /\ fitted.inHand = v.inHand
  BY <1>4, <1>6 DEF SamePick
<1>8. fitted.remaining \in Nat /\ v.active \in BOOLEAN
  BY <1>1, <1>6, VoiceAssumption DEF VoiceType
<1>9. delay = 0 => ~fitted.queued
  <2> SUFFICES ASSUME ~WaitsForBoundary(v, n, style)
               PROVE  ~fitted.queued
    OBVIOUS
  <2>1. ~v.queued
    BY <1>1 DEF WaitsForBoundary, Bounded, WholeHeads
  <2>2. ~(refrets /\ Fading(v))
    <3>1. v.remaining \in Nat
      BY <1>1, VoiceAssumption DEF VoiceType
    <3>2. QED
      BY <3>1 DEF WaitsForBoundary, Fading
  <2>3. QED
    BY <1>6, <2>1, <2>2
<1> HIDE DEF fitted, refrets
<1>10. waits \in Nat /\ waits >= delay /\ (fitted.queued => waits >= fitted.remaining)
  <2>1. delay \in Int /\ fitted.remaining \in Int
    BY <1>8
  <2>2. /\ Max({delay, fitted.remaining}) \in {delay, fitted.remaining}
        /\ Max({delay, fitted.remaining}) >= delay
        /\ Max({delay, fitted.remaining}) >= fitted.remaining
    BY <2>1, MaxOfTwo, Zenon
  <2>3. QED
    BY <1>8, <2>2
<1>11. delay = 0 <=> waits = 0
  BY <1>9, <1>10
<1> HIDE DEF waits
<1>12. keeps \in BOOLEAN
  BY <1>8
<1> HIDE DEF keeps
<1>13. /\ s \in VoiceType /\ SameHeads(fitted, s)
       /\ s.delay = waits /\ s.keepsRing = keeps
       /\ s.active = fitted.active /\ s.style = fitted.style
       /\ s.inHand = fitted.inHand /\ s.damping = fitted.damping
  BY <1>2, <1>6, <1>10, <1>12, SentTyped
<1>14. Bounded(s)
  BY <1>6, <1>10, <1>13, SameIsWhole DEF Bounded, PickWaits, SameHeads
<1>15. delay > 0 => Handled(s, hand)
  BY <1>1, <1>6, <1>7, <1>10, <1>13 DEF Handled, keeps
<1>16. QED
  BY <1>7, <1>11, <1>13, <1>14, <1>15 DEF Strikes

\* The same note again, later.
LEMMA RepickFits ==
    ASSUME NEW v, Sound(v, hand), NEW style \in Styles, NEW delay \in Nat,
           v.queued => delay >= v.remaining
    PROVE  Sound(RepickLater(v, style, delay), hand)
<1> DEFINE r == RepickLater(v, style, delay)
<1>1. v \in VoiceType /\ Bounded(v) /\ Handled(v, hand)
  BY DEF Sound
<1>2. r \in VoiceType
  BY <1>1 DEF RepickLater, VoiceType
<1>3. SameHeads(v, r) /\ r.delay = delay
  BY <1>1 DEF RepickLater, VoiceType, SameHeads
<1>4. r.active = v.active /\ r.inHand = v.inHand /\ r.damping = v.damping
  BY <1>1 DEF RepickLater, VoiceType
<1>5. r.keepsRing <=> v.keepsRing \/ v.delay = 0
  BY <1>1 DEF RepickLater, VoiceType
<1>6. v.delay \in Nat
  BY <1>1 DEF VoiceType
<1> HIDE DEF r
<1>7. Bounded(r)
  BY <1>1, <1>3, SameIsWhole DEF Bounded, PickWaits, SameHeads
<1>8. Handled(r, hand)
  BY <1>1, <1>4, <1>5, <1>6 DEF Handled
<1>9. QED
  BY <1>2, <1>7, <1>8 DEF Sound, r

\* The next fret, whose pick waits for the crossfade that is heard.
Reserved(v, n) == [v EXCEPT !.keyDown = TRUE, !.sustained = FALSE,
                            !.releasing = FALSE, !.note = n]
SentAgain(v, delay, style) ==
    [v EXCEPT !.delay = delay, !.pending = style, !.keepsRing = TRUE]

LEMMA RefretFits ==
    ASSUME NEW v, Sound(v, hand), hand \in Hands, NEW n \in Note, NEW style \in Styles,
           NEW delay \in Nat, delay > 0, delay >= v.remaining
    PROVE  Sound(RefretLater(v, n, style, delay), hand)
<1> DEFINE owned == Reserved(v, n)
           refrets == Refrets(v, n, style)
           large == FALSE
           fitted == Geometry(v, owned, refrets, delay, large)
           r == SentAgain(fitted, delay, style)
<1>1. v \in VoiceType /\ Bounded(v) /\ Handled(v, hand)
  BY DEF Sound
<1>2. RefretLater(v, n, style, delay) = r
  BY DEF RefretLater, Reserved, SentAgain
<1>3. owned \in VoiceType
  BY <1>1 DEF Reserved, VoiceType
<1>4. SameHeads(v, owned) /\ owned.active = v.active /\ owned.inHand = v.inHand
  BY <1>1 DEF Reserved, VoiceType, SameHeads
<1>5. refrets \in BOOLEAN
  BY <1>1 DEF Refrets, VoiceType
<1> large \in BOOLEAN
  OBVIOUS
<1> HIDE DEF owned, refrets, large
<1>6. /\ fitted \in VoiceType /\ WholeHeads(fitted) /\ SamePick(owned, fitted)
      /\ fitted.queued => fitted.remaining = v.remaining
      /\ v.active /\ delay > 0 /\ hand # "none" => fitted.damping = hand
  BY <1>1, <1>3, <1>4, <1>5, GeometryFits DEF Bounded
<1> HIDE DEF fitted
<1>7. r \in VoiceType
  BY <1>6 DEF SentAgain, VoiceType
<1>8. SameHeads(fitted, r) /\ r.delay = delay /\ r.keepsRing
  BY <1>6 DEF SentAgain, VoiceType, SameHeads
<1>9. r.active = fitted.active /\ r.inHand = fitted.inHand /\ r.damping = fitted.damping
  BY <1>6 DEF SentAgain, VoiceType
<1> HIDE DEF r
<1>10. Bounded(r)
  BY <1>6, <1>8, SameIsWhole DEF Bounded, PickWaits, SameHeads
<1>11. Handled(r, hand)
  BY <1>1, <1>4, <1>6, <1>8, <1>9 DEF Handled, SamePick
<1>12. QED
  BY <1>2, <1>7, <1>10, <1>11 DEF Sound

-----------------------------------------------------------------------------
(* Contact, legato and release.                                            *)

Contacted(v, damping, inHand, restore, start, opened, phase, left) ==
    [v EXCEPT !.damping = damping, !.inHand = inHand, !.keepsRing = FALSE,
              !.restore = restore, !.start = start, !.gain = opened,
              !.phase = phase, !.left = left]

SameString(v, w) == w.active = v.active /\ w.style = v.style /\ w.delay = v.delay
Under(w, inHand, damping) == w.inHand = inHand /\ w.damping = damping
Follows(w, h) == w.inHand => w.damping = h /\ h # "none"

LEMMA ContactTyped ==
    ASSUME NEW v \in VoiceType, NEW damping \in Hands, NEW inHand, inHand \in BOOLEAN,
           NEW restore \in Nat, NEW start \in Gains, NEW opened \in Gains,
           NEW phase \in Phases, NEW left \in Nat
    PROVE  LET w == Contacted(v, damping, inHand, restore, start, opened, phase, left)
           IN /\ w \in VoiceType
              /\ SameHeads(v, w)
              /\ SameString(v, w)
              /\ Under(w, inHand, damping)
<1> DEFINE w == Contacted(v, damping, inHand, restore, start, opened, phase, left)
<1>1. w \in VoiceType
  BY DEF VoiceType, Contacted
<1>2. SameHeads(v, w)
  BY DEF VoiceType, SameHeads, Contacted
<1>3. SameString(v, w)
  BY DEF VoiceType, Contacted, SameString
<1>4. Under(w, inHand, damping)
  BY DEF VoiceType, Contacted, Under
<1>5. QED
  BY <1>1, <1>2, <1>3, <1>4

\* A contact leaves the crossfade alone and the string under the hand.
LEMMA ContactFits ==
    ASSUME NEW v \in VoiceType, hand \in Hands,
           NEW picked \in BOOLEAN, NEW keeps \in BOOLEAN, NEW newest \in BOOLEAN
    PROVE  LET w == StartExcitation(v, picked, keeps, newest)
               h == HandAfter(v.style, picked, newest)
           IN /\ w \in VoiceType
              /\ SameHeads(v, w)
              /\ SameString(v, w)
              /\ h \in Hands
              /\ Follows(w, h)
<1> DEFINE contact == IF picked THEN Max({Contact, v.remaining}) ELSE 0
           atOnce == OpensAtOnce(v.style, picked)
           restores == ~atOnce /\ keeps /\ v.gain # "open"
           damping == Damped(v, picked, newest)
           inHand == newest \/ (~picked /\ hand = "PalmMute")
           restore == IF restores THEN contact ELSE 0
           start == IF restores THEN v.gain ELSE "open"
           opened == IF atOnce THEN "open" ELSE v.gain
           phase == IF picked THEN "contact" ELSE "release"
           left == IF picked THEN contact ELSE Excitation
           h == HandAfter(v.style, picked, newest)
<1>1. StartExcitation(v, picked, keeps, newest)
        = Contacted(v, damping, inHand, restore, start, opened, phase, left)
  BY DEF StartExcitation, Contacted
<1>2. v.remaining \in Nat /\ v.style \in Styles /\ v.damping \in Hands /\ v.gain \in Gains
  BY VoiceAssumption DEF VoiceType
<1>3. contact \in Nat
  <2>1. Contact \in Nat /\ Contact \in Int /\ v.remaining \in Int
    BY <1>2, VoiceAssumption
  <2>2. Max({Contact, v.remaining}) \in {Contact, v.remaining}
    BY <2>1, MaxOfTwo, Zenon
  <2>3. QED
    BY <1>2, <2>1, <2>2
<1>4. Whole(v.style) \in Hands \ {"none"}
  BY <1>2, WholeIsAHand
<1>5. damping \in Hands
  BY <1>2, <1>4 DEF Damped, Hands
<1>6. inHand => damping = h /\ h # "none"
  BY <1>4 DEF Damped, HandAfter, MovesHand
<1>7. h \in Hands
  BY <1>4 DEF HandAfter
<1>8. /\ restore \in Nat /\ start \in Gains /\ opened \in Gains
      /\ phase \in Phases /\ left \in Nat
  BY <1>2, <1>3, VoiceAssumption DEF Gains, Phases
<1>9. inHand \in BOOLEAN
  OBVIOUS
<1> HIDE DEF contact, atOnce, restores, damping, inHand, restore, start, opened, phase, left, h
<1> DEFINE w == Contacted(v, damping, inHand, restore, start, opened, phase, left)
<1>10. /\ w \in VoiceType
       /\ SameHeads(v, w)
       /\ SameString(v, w) /\ Under(w, inHand, damping)
  BY <1>5, <1>8, <1>9, ContactTyped, Zenon
<1> HIDE DEF w
<1>11. StartExcitation(v, picked, keeps, newest) = w
  BY <1>1 DEF w
<1>12. QED
  BY <1>6, <1>7, <1>10, <1>11 DEF h, Under, Follows

\* A finger takes over the head that is heard.
Taken(v, n, style, live, pending) ==
    [v EXCEPT !.live = live, !.frozen = None, !.queued = FALSE,
              !.keyDown = TRUE, !.sustained = FALSE, !.releasing = FALSE,
              !.note = n, !.style = style, !.damping = Whole(style),
              !.pending = pending]

LEMMA LegatoFits ==
    ASSUME NEW v, Sound(v, hand), hand \in Hands, v.active,
           NEW n \in Note, NEW style \in Styles
    PROVE  /\ Sound(LegatoRetarget(v, n, style), HandAfter(style, FALSE, TRUE))
           /\ HandAfter(style, FALSE, TRUE) \in Hands
<1> DEFINE live == IF v.frozen = None THEN v.live ELSE v.frozen
           pending == IF v.delay > 0 /\ v.pending = "none" THEN v.style ELSE v.pending
           taken == Taken(v, n, style, live, pending)
           struck == StartExcitation(taken, FALSE, FALSE, TRUE)
           travels == v.delay > 0
           r == [struck EXCEPT !.keepsRing = travels]
           h == HandAfter(style, FALSE, TRUE)
<1>1. v \in VoiceType /\ Bounded(v) /\ v.delay \in Nat
  BY DEF Sound, VoiceType
<1>2. LegatoRetarget(v, n, style) = r
  BY DEF LegatoRetarget, Taken
<1>3. live \in Nat /\ pending \in Styles \cup {"none"} /\ Whole(style) \in Hands
  BY <1>1, WholeIsAHand DEF VoiceType, Heads
<1> HIDE DEF live, pending
<1>4. taken \in VoiceType
  BY <1>1, <1>3 DEF Taken, VoiceType, Heads
<1>5. /\ taken.remaining = v.remaining /\ taken.source = v.source
      /\ taken.frozen = None /\ ~taken.queued
  BY <1>1 DEF Taken, VoiceType
<1>6. taken.active = v.active /\ taken.style = style /\ taken.delay = v.delay
  BY <1>1 DEF Taken, VoiceType
<1> HIDE DEF taken
<1>7. /\ struck \in VoiceType /\ SameHeads(taken, struck)
      /\ SameString(taken, struck)
      /\ h \in Hands
      /\ Follows(struck, h)
  <2> DEFINE no == FALSE
             yes == TRUE
  <2>1. no \in BOOLEAN /\ yes \in BOOLEAN
    OBVIOUS
  <2>2. StartExcitation(taken, no, no, yes) = struck /\ HandAfter(taken.style, no, yes) = h
    BY <1>6
  <2> HIDE DEF no, yes, struck, h
  <2>3. QED
    <3>1. LET w == StartExcitation(taken, no, no, yes)
              k == HandAfter(taken.style, no, yes)
          IN /\ w \in VoiceType /\ SameHeads(taken, w) /\ SameString(taken, w)
             /\ k \in Hands /\ Follows(w, k)
      BY <1>4, <2>1, ContactFits, Zenon
    <3>2. QED
      BY <2>2, <3>1
<1> HIDE DEF struck, travels
<1>8. travels \in BOOLEAN
  BY DEF travels
<1>9. r \in VoiceType
  BY <1>7, <1>8 DEF VoiceType
<1>10. SameHeads(struck, r) /\ r.keepsRing = travels
  BY <1>7 DEF VoiceType, SameHeads
<1>11. /\ r.active = struck.active /\ r.delay = struck.delay
       /\ r.inHand = struck.inHand /\ r.damping = struck.damping
  BY <1>7 DEF VoiceType
<1> HIDE DEF r, h
<1>12. Bounded(r)
  BY <1>1, <1>5, <1>7, <1>10 DEF Bounded, WholeHeads, PickWaits, SameHeads
<1>13. Handled(r, h)
  BY <1>6, <1>7, <1>10, <1>11 DEF Handled, travels, Follows, SameString
<1>14. QED
  BY <1>2, <1>7, <1>9, <1>12, <1>13 DEF Sound, h

\* What leaves crossfade, pick and hand alone leaves a voice sound: keys that
\* come up, the contact's phases, the hand that stops the string.
SameCall(v, w) == SamePick(v, w) /\ w.damping = v.damping
SoundsOn(v, w) == w \in VoiceType /\ SameHeads(v, w) /\ SameCall(v, w)

LEMMA SoundsOnIsSound ==
    ASSUME NEW v, NEW w, NEW h, Sound(v, h), SoundsOn(v, w)
    PROVE  Sound(w, h)
  BY DEF Sound, SoundsOn, SameCall, SamePick, SameHeads, Bounded, WholeHeads,
         PickWaits, Handled

Lifted(v, keyDown, sustained) == [v EXCEPT !.keyDown = keyDown, !.sustained = sustained]

LEMMA LiftedFits ==
    ASSUME NEW v \in VoiceType, NEW keyDown, keyDown \in BOOLEAN,
           NEW sustained, sustained \in BOOLEAN
    PROVE  SoundsOn(v, Lifted(v, keyDown, sustained))
<1> DEFINE w == Lifted(v, keyDown, sustained)
<1>1. w \in VoiceType
  BY DEF Lifted, VoiceType
<1>2. SameHeads(v, w)
  BY DEF Lifted, VoiceType, SameHeads
<1>3. SameCall(v, w)
  BY DEF Lifted, VoiceType, SameCall, SamePick
<1>4. QED
  BY <1>1, <1>2, <1>3 DEF SoundsOn

Released(v, sustained) ==
    [v EXCEPT !.restore = 0, !.start = "open", !.delay = 0,
              !.pending = "none", !.keepsRing = FALSE,
              !.releasing = TRUE, !.sustained = sustained]

LEMMA ReleaseFits ==
    ASSUME NEW v, NEW h \in Hands, Sound(v, h)
    PROVE  Sound(Release(v), h)
<1> DEFINE sustained == v.sustained /\ v.releasing
           w == Released(v, sustained)
<1>1. v \in VoiceType /\ Bounded(v) /\ Handled(v, h)
  BY DEF Sound
<1>2. Release(v) = Silent \/ Release(v) = w
  BY <1>1 DEF Release, Released, VoiceType
<1>3. sustained \in BOOLEAN
  OBVIOUS
<1> HIDE DEF sustained
<1>4. w \in VoiceType
  BY <1>1, <1>3 DEF Released, VoiceType, Gains
<1>5. SameHeads(v, w) /\ w.delay = 0
  BY <1>1 DEF Released, VoiceType, SameHeads
<1>6. w.active = v.active /\ w.inHand = v.inHand /\ w.damping = v.damping
  BY <1>1 DEF Released, VoiceType
<1> HIDE DEF w
<1>7. Sound(w, h)
  BY <1>1, <1>4, <1>5, <1>6, SameIsWhole DEF Sound, Bounded, PickWaits, Handled
<1>8. QED
  BY <1>2, <1>7, SilentIsSound

-----------------------------------------------------------------------------
(* One sample.                                                             *)

Mixed(v, live, source, frozen) ==
    [v EXCEPT !.live = live, !.source = source, !.frozen = frozen]

LEMMA HeardFits ==
    ASSUME NEW v \in VoiceType, WholeHeads(v)
    PROVE  LET w == Heard(v) IN
           /\ w \in VoiceType
           /\ WholeHeads(w)
           /\ SameCall(v, w)
           /\ w.remaining = v.remaining /\ w.queued = v.queued
<1> DEFINE live == Mix(v).live
           source == IF v.source = None THEN None ELSE Mix(v).source
           frozen == IF v.frozen = None THEN None ELSE Mix(v).frozen
           w == Mixed(v, live, source, frozen)
<1>1. Heard(v) = w
  BY DEF Heard, Mixed
<1>2. v.remaining \in 0 .. Boundary /\ Boundary \in Nat /\ Boundary >= 4
  BY VoiceAssumption DEF VoiceType
<1>3. Mix(v).live \in Nat /\ Mix(v).source \in Nat /\ Mix(v).frozen \in Nat
  BY <1>2 DEF Mix, Full
<1>4. live \in Nat /\ source \in Heads /\ frozen \in Heads
  BY <1>3 DEF Heads
<1>5. (source = None <=> v.source = None) /\ (frozen = None <=> v.frozen = None)
  BY <1>3 DEF None
<1> HIDE DEF live, source, frozen
<1>6. w \in VoiceType
  BY <1>4 DEF Mixed, VoiceType
<1>7. w.source = source /\ w.frozen = frozen
  BY DEF Mixed, VoiceType
<1>8. w.remaining = v.remaining /\ w.queued = v.queued
  BY DEF Mixed, VoiceType
<1>9. SameCall(v, w)
  BY DEF Mixed, VoiceType, SameCall, SamePick
<1> HIDE DEF w
<1>10. WholeHeads(w)
  BY <1>5, <1>7, <1>8 DEF WholeHeads
<1>11. QED
  BY <1>1, <1>6, <1>8, <1>9, <1>10

LEMMA RestoredFits == ASSUME NEW v \in VoiceType PROVE SoundsOn(v, Restored(v))
<1>1. CASE v.restore = 0 \/ v.phase # "contact"
  BY <1>1 DEF Restored, SoundsOn, SameHeads, SameCall, SamePick
<1>2. CASE ~(v.restore = 0 \/ v.phase # "contact") /\ v.left <= 1
  <2> DEFINE w == [v EXCEPT !.gain = "open", !.restore = 0, !.start = "open"]
  <2>1. Restored(v) = w
    BY <1>2 DEF Restored
  <2>2. w \in VoiceType
    BY DEF VoiceType, Gains
  <2>3. SameHeads(v, w) /\ SameCall(v, w)
    BY DEF VoiceType, SameHeads, SameCall, SamePick
  <2>4. QED
    BY <2>1, <2>2, <2>3 DEF SoundsOn
<1>3. CASE ~(v.restore = 0 \/ v.phase # "contact") /\ ~(v.left <= 1)
  <2> DEFINE opened == IF v.left = v.restore THEN v.start ELSE "part"
             w == [v EXCEPT !.gain = opened]
  <2>1. Restored(v) = w
    BY <1>3 DEF Restored
  <2>2. opened \in Gains
    BY DEF VoiceType, Gains
  <2> HIDE DEF opened
  <2>3. w \in VoiceType
    BY <2>2 DEF VoiceType
  <2>4. SameHeads(v, w) /\ SameCall(v, w)
    BY DEF VoiceType, SameHeads, SameCall, SamePick
  <2>5. QED
    BY <2>1, <2>3, <2>4 DEF SoundsOn
<1>4. QED
  BY <1>1, <1>2, <1>3

LEMMA ExcitedFits == ASSUME NEW v \in VoiceType PROVE SoundsOn(v, Excited(v))
<1>0. v.left \in Nat /\ v.phase \in Phases
  BY DEF VoiceType
<1>1. CASE v.phase = Idle
  BY <1>1 DEF Excited, SoundsOn, SameHeads, SameCall, SamePick
<1>2. CASE v.phase # Idle
  <2> DEFINE phase == IF v.left > 1 THEN v.phase ELSE NextPhase[v.phase]
             left == IF v.left > 1 THEN v.left - 1
                     ELSE IF v.phase = "tail" THEN 0 ELSE Excitation
             w == [v EXCEPT !.phase = phase, !.left = left]
  <2>1. Excited(v) = w
    <3>1. CASE v.left > 1
      <4>1. Excited(v) = [v EXCEPT !.left = v.left - 1]
        BY <1>2, <3>1 DEF Excited
      <4>2. w = [v EXCEPT !.phase = v.phase, !.left = v.left - 1]
        BY <3>1
      <4>3. [v EXCEPT !.phase = v.phase] = v
        BY DEF VoiceType
      <4>4. w = [[v EXCEPT !.phase = v.phase] EXCEPT !.left = v.left - 1]
        BY <4>2
      <4>5. QED
        BY <4>1, <4>3, <4>4
    <3>2. CASE ~(v.left > 1)
      BY <1>2, <3>2 DEF Excited
    <3>3. QED
      BY <3>1, <3>2
  <2>2. phase \in Phases
    BY <1>0, <1>2 DEF Phases, NextPhase
  <2>3. left \in Nat
    BY <1>0, VoiceAssumption
  <2> HIDE DEF phase, left
  <2>4. w \in VoiceType
    BY <2>2, <2>3 DEF VoiceType
  <2>5. SameHeads(v, w) /\ SameCall(v, w)
    BY DEF VoiceType, SameHeads, SameCall, SamePick
  <2>6. QED
    BY <2>1, <2>4, <2>5 DEF SoundsOn
<1>3. QED
  BY <1>1, <1>2

LEMMA StoppedFits ==
    ASSUME NEW v \in VoiceType, NEW w \in Stopped(v)
    PROVE  SoundsOn(v, w)
<1>1. CASE ~v.releasing
  BY <1>1 DEF Stopped, SoundsOn, SameHeads, SameCall, SamePick
<1>2. CASE v.releasing
  <2>1. PICK g \in Gains : w = [v EXCEPT !.gain = g]
    BY <1>2 DEF Stopped, Gains, VoiceType
  <2>2. w \in VoiceType
    BY <2>1 DEF VoiceType
  <2>3. SameHeads(v, w) /\ SameCall(v, w)
    BY <2>1 DEF VoiceType, SameHeads, SameCall, SamePick
  <2>4. QED
    BY <2>2, <2>3 DEF SoundsOn
<1>3. QED
  BY <1>1, <1>2

\* The crossfade is one sample nearer its end; where it ends, what was queued
\* begins and waits for nothing any more.
LEMMA FadedFits ==
    ASSUME NEW v \in VoiceType, WholeHeads(v)
    PROVE  LET w == Faded(v) IN
           /\ w \in VoiceType
           /\ WholeHeads(w)
           /\ SameCall(v, w)
           /\ w.queued => v.queued /\ w.remaining = v.remaining - 1
<1>0. v.remaining \in 0 .. Boundary /\ Boundary \in Nat /\ Boundary >= 4
  BY VoiceAssumption DEF VoiceType
<1>1. CASE v.remaining = 0
  <2>1. Faded(v) = v /\ ~v.queued
    BY <1>1 DEF Faded, WholeHeads
  <2>2. QED
    BY <2>1 DEF SameCall, SamePick
<1>2. CASE v.remaining > 1
  <2> DEFINE less == v.remaining - 1
             w == [v EXCEPT !.remaining = less]
  <2>1. Faded(v) = w
    BY <1>0, <1>2 DEF Faded
  <2>2. less \in 0 .. Boundary /\ less > 0 /\ less < Boundary
    BY <1>0, <1>2
  <2> HIDE DEF less
  <2>3. w \in VoiceType
    BY <2>2 DEF VoiceType
  <2>4. w.remaining = less
    BY DEF VoiceType
  <2>5. w.queued = v.queued /\ w.source = v.source /\ w.frozen = v.frozen
    BY DEF VoiceType
  <2>6. SameCall(v, w)
    BY DEF VoiceType, SameCall, SamePick
  <2> HIDE DEF w
  <2>7. WholeHeads(w)
    BY <1>0, <1>2, <2>2, <2>4, <2>5 DEF WholeHeads
  <2>8. QED
    BY <2>1, <2>3, <2>4, <2>5, <2>6, <2>7 DEF less
<1>3. CASE v.remaining = 1 /\ v.queued
  <2> DEFINE w == [v EXCEPT !.remaining = Boundary, !.queued = FALSE,
                            !.source = v.frozen, !.frozen = None]
  <2>1. Faded(v) = w
    BY <1>3 DEF Faded, BeginRefretHandoff
  <2>2. v.frozen \in Heads /\ v.frozen # None /\ Boundary \in 0 .. Boundary
    BY <1>0, <1>3 DEF WholeHeads, VoiceType
  <2>3. w \in VoiceType
    BY <2>2 DEF VoiceType, Heads
  <2>4. w.remaining = Boundary /\ ~w.queued /\ w.source = v.frozen /\ w.frozen = None
    BY DEF VoiceType
  <2>5. SameCall(v, w)
    BY DEF VoiceType, SameCall, SamePick
  <2> HIDE DEF w
  <2>6. WholeHeads(w)
    BY <1>0, <2>2, <2>4 DEF WholeHeads
  <2>7. QED
    BY <2>1, <2>3, <2>4, <2>5, <2>6
<1>4. CASE v.remaining = 1 /\ ~v.queued
  <2> DEFINE w == [v EXCEPT !.remaining = 0, !.source = None, !.frozen = None]
  <2>1. Faded(v) = w
    BY <1>4 DEF Faded
  <2>2. 0 \in 0 .. Boundary
    BY <1>0
  <2>3. w \in VoiceType
    BY <2>2 DEF VoiceType, Heads
  <2>4. w.remaining = 0 /\ ~w.queued /\ w.source = None /\ w.frozen = None
    BY <1>4 DEF VoiceType
  <2>5. SameCall(v, w)
    BY DEF VoiceType, SameCall, SamePick
  <2> HIDE DEF w
  <2>6. WholeHeads(w)
    BY <2>4 DEF WholeHeads
  <2>7. QED
    BY <2>1, <2>3, <2>4, <2>5, <2>6
<1>5. QED
  BY <1>0, <1>1, <1>2, <1>3, <1>4

\* What a sample leaves of a voice before its pick moves on.
LEMMA RenderedFits ==
    ASSUME NEW v \in VoiceType, WholeHeads(v),
           NEW w \in Stopped(Faded(Excited(Restored(Heard(v)))))
    PROVE  /\ w \in VoiceType
           /\ WholeHeads(w)
           /\ SameCall(v, w)
           /\ w.queued => v.queued /\ w.remaining = v.remaining - 1
<1> DEFINE a == Heard(v)
           b == Restored(a)
           c == Excited(b)
           d == Faded(c)
<1>1. /\ a \in VoiceType /\ WholeHeads(a) /\ SameCall(v, a)
      /\ a.remaining = v.remaining /\ a.queued = v.queued
  BY HeardFits
<1> HIDE DEF a
<1>2. SoundsOn(a, b)
  BY <1>1, RestoredFits
<1> HIDE DEF b
<1>3. SoundsOn(b, c)
  BY <1>2, ExcitedFits DEF SoundsOn
<1> HIDE DEF c
<1>4. c \in VoiceType /\ WholeHeads(c) /\ SameCall(v, c)
  BY <1>1, <1>2, <1>3 DEF SoundsOn, SameHeads, WholeHeads, SameCall, SamePick
<1>5. c.remaining = v.remaining /\ c.queued = v.queued
  BY <1>1, <1>2, <1>3 DEF SoundsOn, SameHeads
<1>6. /\ d \in VoiceType /\ WholeHeads(d) /\ SameCall(c, d)
      /\ d.queued => c.queued /\ d.remaining = c.remaining - 1
  BY <1>4, FadedFits
<1>7. w \in Stopped(d)
  BY DEF a, b, c
<1> HIDE DEF d
<1>8. SoundsOn(d, w)
  BY <1>6, <1>7, StoppedFits
<1>9. w \in VoiceType /\ WholeHeads(w)
  BY <1>6, <1>8 DEF SoundsOn, SameHeads, WholeHeads
<1>10. SameCall(v, w)
  BY <1>4, <1>6, <1>8 DEF SoundsOn, SameCall, SamePick
<1>11. w.queued => v.queued /\ w.remaining = v.remaining - 1
  BY <1>5, <1>6, <1>8 DEF SoundsOn, SameHeads
<1>12. QED
  BY <1>9, <1>10, <1>11

\* A pick that lands now leaves the string under the hand.
LEMMA LandedFits ==
    ASSUME NEW v \in VoiceType, WholeHeads(v), v.delay = 0, v.active, hand \in Hands,
           NEW picked, picked \in BOOLEAN, NEW keeps, keeps \in BOOLEAN,
           NEW newest, newest \in BOOLEAN
    PROVE  LET w == StartExcitation(v, picked, keeps, newest)
               h == HandAfter(v.style, picked, newest)
           IN Sound(w, h) /\ h \in Hands /\ w.style = v.style /\ w.delay = 0
<1> DEFINE w == StartExcitation(v, picked, keeps, newest)
           h == HandAfter(v.style, picked, newest)
<1>1. /\ w \in VoiceType /\ SameHeads(v, w) /\ SameString(v, w)
      /\ h \in Hands /\ Follows(w, h)
  BY ContactFits, Zenon
<1> HIDE DEF w, h
<1>2. w.style = v.style /\ w.delay = 0 /\ w.active
  BY <1>1 DEF SameString
<1>3. Bounded(w)
  BY <1>1, <1>2, SameIsWhole DEF Bounded, PickWaits
<1>4. Handled(w, h)
  BY <1>1, <1>2 DEF Handled, Follows
<1>5. QED
  BY <1>1, <1>2, <1>3, <1>4 DEF Sound, w, h

LEMMA ArrivedFits ==
    ASSUME NEW v, Sound(v, hand), v.delay = 0, v.active,
           hand \in Hands, overtaken \in BOOLEAN, NEW large \in BOOLEAN
    PROVE  LET w == Arrived(v, large)
               h == IF w.delay = 0 THEN HandAfter(w.style, Plectrum(w.style), ~overtaken)
                    ELSE hand
           IN Sound(w, h) /\ h \in Hands
<1> DEFINE newest == ~overtaken
           keeps == v.keepsRing
           w == Arrived(v, large)
           h == IF w.delay = 0 THEN HandAfter(w.style, Plectrum(w.style), newest) ELSE hand
<1>1. v \in VoiceType /\ WholeHeads(v) /\ Handled(v, hand)
  BY DEF Sound, Bounded
<1>2. newest \in BOOLEAN /\ keeps \in BOOLEAN
  BY <1>1 DEF VoiceType
<1>3. CASE v.pending = "none"
  <2> DEFINE picked == Plectrum(v.style)
  <2>1. w = StartExcitation(v, picked, keeps, newest)
    BY <1>3 DEF Arrived
  <2>2. picked \in BOOLEAN
    BY DEF Plectrum
  <2> HIDE DEF picked, newest, keeps, w
  <2>3. LET x == StartExcitation(v, picked, keeps, newest)
            k == HandAfter(v.style, picked, newest)
        IN Sound(x, k) /\ k \in Hands /\ x.style = v.style /\ x.delay = 0
    BY <1>1, <1>2, <2>2, LandedFits
  <2>4. QED
    BY <2>1, <2>3 DEF picked, newest, w
<1>4. CASE v.pending # "none"
  <2> DEFINE style == v.pending
             delay == ArrivesIn(v, v.note, style, 0)
             strike == Strike(v, v.note, style, delay, large)
             struck == Lifted(strike, v.keyDown, v.sustained)
             picked == Plectrum(style)
  <2>1. w = IF struck.delay > 0 THEN struck
            ELSE StartExcitation(struck, picked, keeps, newest)
    BY <1>4 DEF Arrived, Lifted
  <2>2. style \in Styles /\ v.note \in Note \cup {NoNote} /\ v.remaining \in Nat
    BY <1>1, <1>4, VoiceAssumption DEF VoiceType
  <2>3. delay \in Nat /\ (WaitsForBoundary(v, v.note, style) => delay > 0)
    BY <1>1, <2>2, ArrivesInTime
  <2> HIDE DEF delay, style
  <2>4. /\ strike \in VoiceType /\ Bounded(strike)
        /\ strike.active /\ strike.style = style
        /\ delay > 0 => Handled(strike, hand)
        /\ delay = 0 => strike.delay = 0
    <3> DEFINE note == v.note
    <3>1. note \in Note \cup {NoNote} /\ (WaitsForBoundary(v, note, style) => delay > 0)
      BY <2>2, <2>3
    <3> HIDE DEF note
    <3>2. strike = Strike(v, note, style, delay, large)
      BY DEF note
    <3> HIDE DEF strike
    <3>3. Strikes(strike, style, delay)
      BY <2>2, <2>3, <3>1, <3>2, StrikeFits, Zenon
    <3>4. QED
      BY <3>3 DEF Strikes
  <2> HIDE DEF strike
  <2>5. SoundsOn(strike, struck)
    BY <1>1, <2>4, LiftedFits DEF VoiceType
  <2> HIDE DEF struck, style, picked, w, keeps, newest
  <2>6. CASE struck.delay > 0
    <3>1. Sound(strike, hand)
      BY <2>3, <2>4, <2>5, <2>6 DEF Sound, SoundsOn, SameCall, SamePick
    <3>2. Sound(struck, hand)
      BY <2>5, <3>1, SoundsOnIsSound
    <3>3. QED
      BY <2>1, <2>6, <3>2 DEF w, newest
  <2>7. CASE ~(struck.delay > 0)
    <3>1. struck \in VoiceType /\ WholeHeads(struck) /\ struck.active /\ struck.style = style
      BY <2>4, <2>5, SameIsWhole DEF SoundsOn, SameCall, SamePick, Bounded
    <3>2. struck.delay = 0
      BY <2>7, <3>1 DEF VoiceType
    <3>3. picked \in BOOLEAN
      BY DEF picked, Plectrum
    <3>4. LET x == StartExcitation(struck, picked, keeps, newest)
              k == HandAfter(struck.style, picked, newest)
          IN Sound(x, k) /\ k \in Hands /\ x.style = struck.style /\ x.delay = 0
      BY <1>2, <3>1, <3>2, <3>3, LandedFits
    <3>5. QED
      BY <2>1, <2>7, <3>1, <3>4 DEF picked, w, newest
  <2>8. QED
    BY <2>6, <2>7
<1>5. QED
  BY <1>3, <1>4

-----------------------------------------------------------------------------
(* The calls and the sample keep the invariant.                            *)

LEMMA NoteOnKeeps ==
    ASSUME VoiceInv, NEW n \in Note, NEW style \in Style, NEW delay \in Travel,
           NEW same \in BOOLEAN, NoteOn(n, style, delay, same)
    PROVE  VoiceInv'
<1>1. voice \in VoiceType /\ Bounded(voice) /\ Handled(voice, hand) /\ hand \in Hands
  BY DEF VoiceInv, Sound
<1>2. style \in Styles /\ delay \in Nat /\ voice.remaining \in Nat
  BY <1>1, VoiceAssumption DEF Styles, VoiceType
<1>3. /\ pedal' = pedal /\ overtaken' = overtaken
      /\ pedal \in BOOLEAN /\ overtaken \in BOOLEAN
  BY DEF NoteOn, NoteOnLater, NoteOnQueued, NoteOnTravels, NoteOnLands, NoteOnLegato,
         Becomes, VoiceInv
<1> DEFINE arrives == ArrivesIn(voice, n, style, delay)
<1>4. /\ arrives \in Nat /\ arrives >= delay
      /\ WaitsForBoundary(voice, n, style) =>
            voice.remaining > 0 /\ arrives >= voice.remaining
  BY <1>1, <1>2, ArrivesInTime
<1>5. CASE NoteOnLater(n, style, delay, same)
  <2>1. voice' = RepickLater(voice, style, arrives) /\ hand' = hand
    BY <1>5 DEF NoteOnLater, Becomes
  <2> HIDE DEF arrives
  <2>2. voice.queued => arrives >= voice.remaining
    BY <1>1, <1>4 DEF WaitsForBoundary, Bounded, WholeHeads
  <2>3. Sound(voice', hand')
    BY <1>1, <1>2, <1>4, <2>1, <2>2, RepickFits DEF Sound
  <2>4. QED
    BY <1>1, <1>3, <2>1, <2>3 DEF VoiceInv
<1>6. CASE NoteOnQueued(n, style, delay, same)
  <2>1. /\ voice' = RefretLater(voice, n, style, arrives) /\ hand' = hand
        /\ WaitsForBoundary(voice, n, style)
    BY <1>6 DEF NoteOnQueued, Becomes
  <2> HIDE DEF arrives
  <2>2. arrives > 0 /\ arrives >= voice.remaining
    BY <1>2, <1>4, <2>1
  <2>3. Sound(voice', hand')
    BY <1>1, <1>2, <1>4, <2>1, <2>2, RefretFits DEF Sound
  <2>4. QED
    BY <1>1, <1>3, <2>1, <2>3 DEF VoiceInv
<1>7. CASE \E large \in Leap(voice) : NoteOnTravels(n, style, delay, same, large)
  <2>1. PICK large \in BOOLEAN : NoteOnTravels(n, style, delay, same, large)
    BY <1>7 DEF Leap
  <2>2. voice' = Strike(voice, n, style, delay, large) /\ hand' = hand /\ delay > 0
    BY <2>1 DEF NoteOnTravels, Becomes
  <2>3. voice' \in VoiceType /\ Bounded(voice') /\ Handled(voice', hand)
    BY <1>1, <1>2, <2>2, StrikeFits DEF Sound, Strikes
  <2>4. QED
    BY <1>1, <1>3, <2>2, <2>3 DEF VoiceInv, Sound
<1>8. CASE \E large \in Leap(voice) : delay = 0 /\ NoteOnLands(n, style, same, large)
  <2>1. PICK large \in BOOLEAN : NoteOnLands(n, style, same, large)
    BY <1>8 DEF Leap
  <2> DEFINE now == 0
             newest == TRUE
             picked == Plectrum(style)
             keeps == voice.active
             struck == Strike(voice, n, style, now, large)
  <2>2. /\ voice' = StartExcitation(struck, picked, keeps, newest)
        /\ hand' = HandAfter(style, picked, newest)
        /\ ~WaitsForBoundary(voice, n, style)
    BY <2>1 DEF NoteOnLands, Becomes
  <2>3. now \in Nat /\ newest \in BOOLEAN /\ picked \in BOOLEAN /\ keeps \in BOOLEAN
    BY <1>1 DEF Plectrum, VoiceType
  <2> HIDE DEF newest, picked, keeps, struck
  <2>4. /\ struck \in VoiceType /\ Bounded(struck)
        /\ struck.active /\ struck.style = style /\ struck.delay = 0
    <3>1. struck = Strike(voice, n, style, now, large)
      BY DEF struck
    <3> HIDE DEF now
    <3>2. now = 0
      BY DEF now
    <3>3. QED
      BY <1>1, <1>2, <2>2, <2>3, <3>1, <3>2, StrikeFits DEF Sound, Strikes
  <2>5. LET w == StartExcitation(struck, picked, keeps, newest)
            h == HandAfter(struck.style, picked, newest)
        IN Sound(w, h) /\ h \in Hands /\ w.style = struck.style /\ w.delay = 0
    BY <1>1, <2>3, <2>4, LandedFits DEF Bounded
  <2>6. QED
    BY <1>3, <2>2, <2>4, <2>5 DEF VoiceInv
<1>9. CASE delay = 0 /\ NoteOnLegato(n, style, same)
  <2>1. /\ voice.active
        /\ voice' = LegatoRetarget(voice, n, style)
        /\ hand' = HandAfter(style, FALSE, TRUE)
    BY <1>9 DEF NoteOnLegato, Legato, Becomes
  <2>2. Sound(voice', hand') /\ hand' \in Hands
    BY <1>1, <1>2, <2>1, LegatoFits DEF Sound
  <2>3. QED
    BY <1>3, <2>2 DEF VoiceInv
<1>10. QED
  BY <1>5, <1>6, <1>7, <1>8, <1>9 DEF NoteOn

LEMMA LiftsKeep ==
    ASSUME VoiceInv, NoteOff \/ AllNotesOff \/ \E down \in BOOLEAN : SetSustainPedal(down)
    PROVE  VoiceInv'
<1>1. voice \in VoiceType /\ Sound(voice, hand) /\ hand \in Hands
  BY DEF VoiceInv, Sound
<1>2. overtaken' = overtaken /\ overtaken \in BOOLEAN /\ hand' = hand /\ pedal' \in BOOLEAN
  BY DEF NoteOff, AllNotesOff, SetSustainPedal, Becomes, VoiceInv
<1>3. \A k, s \in BOOLEAN : Sound(Lifted(voice, k, s), hand)
  BY <1>1, LiftedFits, SoundsOnIsSound
<1>4. CASE NoteOff
  <2>1. [voice EXCEPT !.keyDown = FALSE] = Lifted(voice, FALSE, voice.sustained)
    <3>1. [voice EXCEPT !.keyDown = FALSE]
            = [voice EXCEPT !.keyDown = FALSE, !.sustained = voice.sustained]
      BY <1>1 DEF VoiceType
    <3>2. QED
      BY <3>1 DEF Lifted
  <2>2. \/ voice' = Lifted(voice, FALSE, TRUE)
        \/ voice' = Release(Lifted(voice, FALSE, voice.sustained))
    BY <1>4, <2>1 DEF NoteOff, Becomes, Lifted
  <2>3. voice.sustained \in BOOLEAN
    BY <1>1 DEF VoiceType
  <2>4. Sound(voice', hand)
    BY <1>1, <1>3, <2>2, <2>3, ReleaseFits
  <2>5. QED
    BY <1>1, <1>2, <2>4 DEF VoiceInv
<1>5. CASE AllNotesOff
  <2>1. voice' = Release(Lifted(voice, FALSE, FALSE))
    BY <1>5 DEF AllNotesOff, Becomes, Lifted
  <2>2. QED
    BY <1>1, <1>2, <1>3, <2>1, ReleaseFits DEF VoiceInv
<1>6. CASE \E down \in BOOLEAN : SetSustainPedal(down)
  <2>1. PICK down \in BOOLEAN : SetSustainPedal(down)
    BY <1>6
  <2> DEFINE left == IF ~down /\ voice.active /\ voice.sustained /\ ~voice.keyDown
                     THEN Release(voice) ELSE voice
             stays == left.sustained /\ down
  <2>2. voice' = [left EXCEPT !.sustained = stays]
    BY <2>1 DEF SetSustainPedal, Becomes
  <2>3. Sound(left, hand)
    BY <1>1, ReleaseFits
  <2> HIDE DEF left
  <2>4. left \in VoiceType /\ stays \in BOOLEAN
    BY <2>3 DEF Sound
  <2> HIDE DEF stays
  <2>5. SoundsOn(left, voice')
    <3>1. voice' \in VoiceType
      BY <2>2, <2>4 DEF VoiceType
    <3>2. SameHeads(left, voice')
      BY <2>2, <2>4 DEF VoiceType, SameHeads
    <3>3. SameCall(left, voice')
      BY <2>2, <2>4 DEF VoiceType, SameCall, SamePick
    <3>4. QED
      BY <3>1, <3>2, <3>3 DEF SoundsOn
  <2>6. Sound(voice', hand)
    BY <2>3, <2>5, SoundsOnIsSound
  <2>7. QED
    BY <1>1, <1>2, <2>6 DEF VoiceInv
<1>7. QED
  BY <1>4, <1>5, <1>6

\* The hand comes to what rings under it, and to nothing else.
LEMMA OtherStringKeeps ==
    ASSUME VoiceInv, NEW style \in Style, NEW later \in BOOLEAN, OtherString(style, later)
    PROVE  VoiceInv'
<1>1. /\ voice \in VoiceType /\ Bounded(voice) /\ Handled(voice, hand)
      /\ hand \in Hands /\ style \in Styles
  BY VoiceAssumption DEF VoiceInv, Sound, Styles
<1>2. overtaken' = later /\ pedal' = pedal /\ pedal \in BOOLEAN
  BY DEF OtherString, VoiceInv
<1>3. hand' \in Hands /\ (hand' # hand => hand' # "none")
  BY <1>1, WholeIsAHand DEF OtherString, HandAfter
<1> DEFINE comes == /\ hand # "none" /\ hand' # hand
                    /\ voice.active /\ (voice.delay = 0 \/ voice.keepsRing)
<1>4. CASE comes
  <2>1. voice' = [voice EXCEPT !.damping = hand', !.inHand = TRUE]
    BY <1>4 DEF OtherString
  <2>2. voice' \in VoiceType
    BY <1>1, <1>3, <2>1 DEF VoiceType
  <2>3. SameHeads(voice, voice') /\ voice'.delay = voice.delay
    BY <1>1, <2>1 DEF VoiceType, SameHeads
  <2>4. /\ voice'.active = voice.active /\ voice'.keepsRing = voice.keepsRing
        /\ voice'.damping = hand'
    BY <1>1, <2>1 DEF VoiceType
  <2>5. Bounded(voice')
    BY <1>1, <2>3 DEF Bounded, WholeHeads, PickWaits, SameHeads
  <2>6. Handled(voice', hand')
    BY <1>1, <1>3, <1>4, <2>3, <2>4 DEF Handled, VoiceType
  <2>7. QED
    BY <1>2, <1>3, <2>2, <2>5, <2>6 DEF VoiceInv, Sound
<1>5. CASE ~comes
  <2>1. voice' = voice
    BY <1>5 DEF OtherString
  <2>2. voice.delay \in Nat
    BY <1>1 DEF VoiceType
  <2>3. Handled(voice, hand')
    BY <1>1, <1>5, <2>2 DEF Handled
  <2>4. QED
    BY <1>1, <1>2, <1>3, <2>1, <2>3 DEF VoiceInv, Sound
<1>6. QED
  BY <1>4, <1>5

LEMMA RenderVoiceKeeps ==
    ASSUME VoiceInv, RenderVoice
    PROVE  VoiceInv'
<1>1. /\ voice \in VoiceType /\ Bounded(voice) /\ Handled(voice, hand)
      /\ hand \in Hands /\ overtaken \in BOOLEAN
  BY DEF VoiceInv, Sound
<1>2. overtaken' = FALSE /\ pedal' = pedal /\ pedal \in BOOLEAN /\ voice.active
  BY DEF RenderVoice, VoiceInv
<1>3. PICK v \in Stopped(Faded(Excited(Restored(Heard(voice))))) :
         \/ /\ voice' = [v EXCEPT !.delay = Max({0, @ - 1})]
            /\ v.delay # 1 /\ hand' = hand
         \/ \E large \in BOOLEAN :
               LET w == Arrived([v EXCEPT !.delay = 0], large)
               IN /\ v.delay = 1 /\ voice' = w
                  /\ hand' = IF w.delay = 0
                             THEN HandAfter(w.style, Plectrum(w.style), ~overtaken)
                             ELSE hand
  BY DEF RenderVoice, Leap
<1>4. /\ v \in VoiceType /\ WholeHeads(v) /\ SameCall(voice, v)
      /\ v.queued => voice.queued /\ v.remaining = voice.remaining - 1
  BY <1>1, RenderedFits DEF Bounded
<1>5. /\ v.delay = voice.delay /\ v.delay \in Nat /\ v.active
      /\ voice.remaining \in Nat
  BY <1>1, <1>2, <1>4, VoiceAssumption DEF SameCall, SamePick, VoiceType
<1>6. Handled(v, hand)
  BY <1>1, <1>4 DEF Handled, SameCall, SamePick
<1>7. CASE v.delay # 1 /\ voice' = [v EXCEPT !.delay = Max({0, @ - 1})] /\ hand' = hand
  <2> DEFINE delay == Max({0, v.delay - 1})
  <2>1. delay = IF v.delay = 0 THEN 0 ELSE v.delay - 1
    <3>1. 0 \in Int /\ v.delay - 1 \in Int
      BY <1>5
    <3>2. /\ Max({0, v.delay - 1}) \in {0, v.delay - 1}
          /\ Max({0, v.delay - 1}) >= 0 /\ Max({0, v.delay - 1}) >= v.delay - 1
      BY <3>1, MaxOfTwo, Zenon
    <3>3. QED
      BY <1>5, <3>2
  <2>2. voice' = [v EXCEPT !.delay = delay]
    BY <1>7
  <2> HIDE DEF delay
  <2>3. delay \in Nat
    BY <1>5, <2>1
  <2>4. voice' \in VoiceType
    BY <1>4, <2>2, <2>3 DEF VoiceType
  <2>5. SameHeads(v, voice') /\ voice'.delay = delay
    BY <1>4, <2>2 DEF VoiceType, SameHeads
  <2>6. /\ voice'.active = v.active /\ voice'.inHand = v.inHand
        /\ voice'.damping = v.damping /\ voice'.keepsRing = v.keepsRing
    BY <1>4, <2>2 DEF VoiceType
  <2>7. Bounded(voice')
    <3>1. WholeHeads(voice')
      BY <1>4, <2>5, SameIsWhole
    <3>2. PickWaits(voice')
      BY <1>1, <1>4, <1>5, <2>1, <2>5 DEF Bounded, PickWaits, SameHeads
    <3>3. QED
      BY <3>1, <3>2 DEF Bounded
  <2>8. Handled(voice', hand)
    BY <1>5, <1>6, <2>1, <2>5, <2>6 DEF Handled
  <2>9. QED
    BY <1>1, <1>2, <1>7, <2>4, <2>7, <2>8 DEF VoiceInv, Sound
<1>8. CASE \E large \in BOOLEAN :
              LET w == Arrived([v EXCEPT !.delay = 0], large)
              IN /\ v.delay = 1 /\ voice' = w
                 /\ hand' = IF w.delay = 0
                            THEN HandAfter(w.style, Plectrum(w.style), ~overtaken)
                            ELSE hand
  <2> DEFINE u == [v EXCEPT !.delay = 0]
  <2>1. u \in VoiceType
    BY <1>4 DEF VoiceType
  <2>2. SameHeads(v, u) /\ u.delay = 0
    BY <1>4 DEF VoiceType, SameHeads
  <2>3. /\ u.active = v.active /\ u.inHand = v.inHand
        /\ u.damping = v.damping /\ u.keepsRing = v.keepsRing
    BY <1>4 DEF VoiceType
  <2> HIDE DEF u
  <2>4. Sound(u, hand)
    BY <1>4, <1>6, <2>1, <2>2, <2>3, SameIsWhole DEF Sound, Bounded, PickWaits, Handled
  <2>5. PICK large \in BOOLEAN :
           LET w == Arrived(u, large)
           IN /\ voice' = w
              /\ hand' = IF w.delay = 0
                         THEN HandAfter(w.style, Plectrum(w.style), ~overtaken)
                         ELSE hand
    BY <1>8 DEF u
  <2>6. Sound(voice', hand') /\ hand' \in Hands
    BY <1>1, <1>5, <2>2, <2>3, <2>4, <2>5, ArrivedFits
  <2>7. QED
    BY <1>2, <2>6 DEF VoiceInv
<1>9. QED
  BY <1>3, <1>7, <1>8

LEMMA VoiceInvKept == Spec => []VoiceInv
<1>1. Init => VoiceInv
  BY SilentIsSound DEF Init, VoiceInv, Hands
<1>2. VoiceInv /\ [Next]_vars => VoiceInv'
  <2> SUFFICES ASSUME VoiceInv, [Next]_vars PROVE VoiceInv'
    OBVIOUS
  <2>1. CASE \E n \in Note, style \in Style, delay \in Travel,
                same \in (IF voice.active THEN BOOLEAN ELSE {FALSE}) :
                NoteOn(n, style, delay, same)
    BY <2>1, NoteOnKeeps
  <2>2. CASE NoteOff \/ AllNotesOff \/ \E down \in BOOLEAN : SetSustainPedal(down)
    BY <2>2, LiftsKeep
  <2>3. CASE \E style \in Style, later \in BOOLEAN : OtherString(style, later)
    BY <2>3, OtherStringKeeps
  <2>4. CASE Retire \/ Recover \/ Reset
    BY <2>4, SilentIsSound DEF Retire, Recover, Reset, Becomes, VoiceInv, Hands
  <2>5. CASE RenderVoice
    BY <2>5, RenderVoiceKeeps
  <2>6. CASE UNCHANGED vars
    BY <2>6 DEF vars, VoiceInv
  <2>7. QED
    BY <2>1, <2>2, <2>3, <2>4, <2>5, <2>6 DEF Next, Call
<1>3. QED
  BY <1>1, <1>2, PTL DEF Spec

-----------------------------------------------------------------------------
(* The stopping hand and the heads.                                        *)
(*                                                                         *)
(* A gain that is not open belongs to a string that is stopped, whose pick *)
(* is on its way and lets it ring, or whose contact opens it.  The heads   *)
(* that are heard add up, and each is as loud as the next sample wants it, *)
(* but for a step of the crossfade.                                        *)

SameContact(v, w) ==
    /\ w.gain = v.gain /\ w.restore = v.restore /\ w.start = v.start
    /\ w.phase = v.phase /\ w.left = v.left

Restoring(v) ==
    v.restore > 0 => /\ v.phase = "contact" /\ ~v.releasing
                     /\ v.restore >= 4 /\ v.left \in 1 .. v.restore

Opening(v) ==
    /\ ~v.active => /\ v.gain = "open" /\ v.restore = 0 /\ ~v.releasing
                    /\ v.delay = 0 /\ v.remaining = 0
    /\ v.delay > 0 /\ ~v.keepsRing => v.gain = "open" /\ v.restore = 0 /\ ~v.releasing
    /\ v.delay > 0 /\ v.releasing => v.pending # "none"
    /\ ~v.releasing /\ v.delay = 0 /\ v.gain # "open" => v.restore > 0
    /\ Restoring(v)

Other(v) == IF v.frozen = None THEN v.live ELSE v.frozen

Levels(v) ==
    IF v.remaining = 0 THEN v.live = Full
    ELSE /\ v.source + Other(v) = Full
         /\ v.source - v.remaining \in -2 .. 0
         /\ v.remaining = Boundary => v.source = Full
         /\ v.frozen # None => v.live = 0

Near(a, b) == {a, b} # {"open", "shut"}

\* The gain of the next sample.
NextGain(v) ==
    IF v.restore = 0 \/ v.phase # "contact" THEN v.gain
    ELSE IF v.left <= 1 THEN "open"
    ELSE IF v.left = v.restore THEN v.start ELSE "part"

Gentle(v, g) == Near(g, v.gain) /\ Near(g, NextGain(v))

HeardInv ==
    /\ VoiceInv
    /\ Opening(voice)
    /\ ~voice.active => "head" \in breaks /\ "gain" \in breaks
    /\ voice.active /\ "head" \notin breaks => Levels(voice)
    /\ voice.active /\ "gain" \notin breaks => Gentle(voice, gain)

LEMMA NextGainIs ==
    ASSUME NEW v \in VoiceType
    PROVE  Restored(v).gain = NextGain(v)
  BY DEF VoiceType, Restored, NextGain

\* With the same heads, or the same contact, the same is heard.
LEMMA SameLevels ==
    ASSUME NEW v, NEW w, SameHeads(v, w), Levels(v)
    PROVE  Levels(w)
  BY DEF SameHeads, Levels, Other

LEMMA SameGentle ==
    ASSUME NEW v, NEW w, NEW g, SameContact(v, w), Gentle(v, g)
    PROVE  Gentle(w, g)
  BY DEF SameContact, Gentle, NextGain

-----------------------------------------------------------------------------
(* What the functions do to them.                                          *)

\* Fitting the loop leaves the contact alone.
Stays(v, w) == SameContact(v, w) /\ w.releasing = v.releasing

LEMMA GeometryContact ==
    ASSUME NEW v \in VoiceType, NEW w \in VoiceType,
           NEW refrets \in BOOLEAN, NEW delay \in Nat, NEW large \in BOOLEAN
    PROVE  Stays(w, Geometry(v, w, refrets, delay, large))
<1> DEFINE damping == IF v.active /\ delay > 0 /\ hand # "none"
                      THEN hand ELSE Whole(w.style)
           placed == [w EXCEPT !.damping = damping]
           kept == IF placed.frozen = None THEN v.live ELSE placed.frozen
           source == IF v.remaining = 0 THEN v.live ELSE v.source
           queued == [placed EXCEPT !.queued = TRUE, !.frozen = kept, !.live = New]
           started == [placed EXCEPT !.remaining = Boundary, !.queued = FALSE,
                                     !.source = source, !.live = New]
           leapt == [placed EXCEPT !.live = New]
           g == Geometry(v, w, refrets, delay, large)
<1>1. g \in {placed, queued, started, leapt}
  BY DEF Geometry, Placed, QueueRefret, StartRefret, BeginRefretHandoff
<1>2. Stays(w, placed)
  BY DEF VoiceType, Stays, SameContact
<1>3. Stays(w, queued)
  BY DEF VoiceType, Stays, SameContact
<1>4. Stays(w, started)
  BY DEF VoiceType, Stays, SameContact
<1>5. Stays(w, leapt)
  BY DEF VoiceType, Stays, SameContact
<1> HIDE DEF placed, queued, started, leapt, g
<1>6. Stays(w, g)
  BY <1>1, <1>2, <1>3, <1>4, <1>5
<1>7. QED
  BY <1>6 DEF g

\* What was heard is heard on, if the head does not leap.
LEMMA GeometryLevels ==
    ASSUME NEW v \in VoiceType, NEW w \in VoiceType, WholeHeads(v), SameHeads(v, w),
           NEW refrets \in BOOLEAN, NEW delay \in Nat, NEW large \in BOOLEAN,
           Levels(v), v.remaining = 0 => ~large
    PROVE  Levels(Geometry(v, w, refrets, delay, large))
<1> DEFINE damping == IF v.active /\ delay > 0 /\ hand # "none"
                      THEN hand ELSE Whole(w.style)
           placed == [w EXCEPT !.damping = damping]
           kept == Other(v)
           source == IF v.remaining = 0 THEN v.live ELSE v.source
           queued == [placed EXCEPT !.queued = TRUE, !.frozen = kept, !.live = New]
           started == [placed EXCEPT !.remaining = Boundary, !.queued = FALSE,
                                     !.source = source, !.live = New]
           g == Geometry(v, w, refrets, delay, large)
<1>0. /\ v.remaining \in 0 .. Boundary /\ Boundary \in Nat /\ Boundary >= 4
      /\ v.live \in Nat /\ v.frozen \in Nat \cup {None} /\ v.source \in Nat \cup {None}
  BY VoiceAssumption DEF VoiceType, Heads
<1>1. SameHeads(v, placed)
  BY DEF VoiceType, SameHeads
<1>2. placed.frozen = v.frozen
  BY <1>1 DEF SameHeads
<1>3. CASE refrets /\ Fading(v)
  <2>1. g = queued
    BY <1>2, <1>3 DEF Geometry, Placed, QueueRefret, Other
  <2>2. /\ queued.remaining = placed.remaining /\ queued.source = placed.source
        /\ queued.frozen = kept /\ queued.live = New
    BY DEF VoiceType
  <2>3. v.remaining > 0 /\ v.remaining < Boundary
    BY <1>0, <1>3 DEF Fading
  <2>4. kept \in Nat /\ kept # None
    BY <1>0 DEF Other, None
  <2> HIDE DEF queued, placed, g
  <2>5. queued.remaining = v.remaining /\ queued.source = v.source
    BY <1>1, <2>2 DEF SameHeads
  <2>6. Other(queued) = Other(v)
    BY <2>2, <2>4 DEF Other
  <2>7. Levels(queued)
    BY <2>2, <2>3, <2>5, <2>6 DEF Levels, New
  <2>8. QED
    BY <2>1, <2>7 DEF g
<1>4. CASE ~(refrets /\ Fading(v)) /\ refrets /\ (Unheard(v) \/ (v.remaining = 0 /\ ~large))
  <2>1. g = started
    BY <1>4 DEF Geometry, Placed, StartRefret, BeginRefretHandoff
  <2>2. /\ started.remaining = Boundary /\ started.source = source
        /\ started.frozen = placed.frozen /\ started.live = New
    BY DEF VoiceType
  <2>3. v.frozen = None
    BY <1>0, <1>4 DEF Unheard, WholeHeads
  <2>4. source = Full
    BY <1>0, <1>4 DEF Unheard, Levels
  <2> HIDE DEF started, placed, g, source
  <2>5. Other(started) = 0 /\ started.source = Full /\ started.frozen = None
    BY <1>2, <2>2, <2>3, <2>4 DEF Other, New
  <2>6. Levels(started)
    BY <1>0, <2>2, <2>5 DEF Levels, Full
  <2>7. QED
    BY <2>1, <2>6 DEF g
<1>5. CASE /\ ~(refrets /\ Fading(v))
           /\ ~(refrets /\ (Unheard(v) \/ (v.remaining = 0 /\ ~large)))
  <2>1. g = placed
    BY <1>5 DEF Geometry, Placed
  <2> HIDE DEF placed
  <2>2. QED
    BY <1>1, <2>1, SameLevels DEF g
<1>6. QED
  BY <1>3, <1>4, <1>5

\* A struck string keeps what is heard of it and what stops it; a finger lets go.
Struck(v, style, s) ==
    /\ s.active /\ ~s.releasing /\ s.pending = "none"
    /\ s.keepsRing = (v.active /\ s.delay > 0)
    /\ s.phase = v.phase /\ s.left = v.left
    /\ IF Plectrum(style) THEN s.gain = v.gain /\ s.restore = v.restore /\ s.start = v.start
       ELSE s.gain = "open" /\ s.restore = 0

LEMMA OwnedStops ==
    ASSUME NEW v \in VoiceType, NEW n, NEW style, NEW gained, NEW restored, NEW started
    PROVE  LET w == Owned(v, n, style, gained, restored, started) IN
           /\ w.gain = gained /\ w.restore = restored /\ w.start = started
           /\ w.phase = v.phase /\ w.left = v.left /\ ~w.releasing
  BY DEF VoiceType, Owned

LEMMA SentStops ==
    ASSUME NEW v \in VoiceType, NEW delay, NEW keeps
    PROVE  LET w == Sent(v, delay, keeps) IN Stays(v, w) /\ w.pending = v.pending
  BY DEF VoiceType, Sent, Stays, SameContact

LEMMA StrikeIs ==
    ASSUME NEW v, Sound(v, hand), hand \in Hands,
           NEW n \in Note \cup {NoNote}, NEW style \in Styles,
           NEW delay \in Nat, NEW large \in BOOLEAN,
           NEW s, s = Strike(v, n, style, delay, large)
    PROVE  /\ Struck(v, style, s)
           /\ Levels(v) /\ (v.remaining = 0 => ~large) => Levels(s)
<1> DEFINE gained == IF Plectrum(style) THEN v.gain ELSE "open"
           restored == IF Plectrum(style) THEN v.restore ELSE 0
           started == IF Plectrum(style) THEN v.start ELSE "open"
           owned == Owned(v, n, style, gained, restored, started)
           refrets == Refrets(v, n, style)
           fitted == Geometry(v, owned, refrets, delay, large)
           waits == IF fitted.queued THEN Max({delay, fitted.remaining}) ELSE delay
           keeps == v.active /\ waits > 0
<1>1. v \in VoiceType /\ WholeHeads(v)
  BY DEF Sound, Bounded
<1>2. s = Sent(fitted, waits, keeps)
  BY DEF Strike, Owned, Sent
<1>3. gained \in Gains /\ restored \in Nat /\ started \in Gains
  BY <1>1 DEF VoiceType, Gains
<1>4. /\ owned.gain = gained /\ owned.restore = restored /\ owned.start = started
      /\ owned.phase = v.phase /\ owned.left = v.left /\ ~owned.releasing
  <2> HIDE DEF gained, restored, started
  <2> QED
    BY <1>1, OwnedStops
<1>5. refrets \in BOOLEAN
  BY <1>1 DEF Refrets, VoiceType
<1>6. owned \in VoiceType /\ SameHeads(v, owned) /\ owned.active /\ owned.pending = "none"
  <2> HIDE DEF gained, restored, started
  <2> QED
    BY <1>1, <1>3, OwnedTyped
<1> HIDE DEF owned, gained, restored, started, refrets
<1>7. /\ fitted \in VoiceType /\ SamePick(owned, fitted)
  BY <1>1, <1>5, <1>6, GeometryFits
<1>8. Stays(owned, fitted)
  BY <1>1, <1>5, <1>6, GeometryContact
<1>9. Levels(v) /\ (v.remaining = 0 => ~large) => Levels(fitted)
  BY <1>1, <1>5, <1>6, GeometryLevels
<1>10. waits \in Nat /\ keeps \in BOOLEAN
  <2>1. fitted.remaining \in Nat /\ delay \in Int /\ fitted.remaining \in Int
    BY <1>7, VoiceAssumption DEF VoiceType
  <2> HIDE DEF fitted
  <2>2. Max({delay, fitted.remaining}) \in {delay, fitted.remaining}
    BY <2>1, MaxOfTwo, Zenon
  <2>3. QED
    BY <1>1, <2>1, <2>2 DEF VoiceType
<1> HIDE DEF fitted, waits
<1>11. Stays(fitted, s) /\ s.pending = fitted.pending
  <2> HIDE DEF keeps
  <2> QED
    BY <1>2, <1>7, SentStops
<1>12. /\ SameHeads(fitted, s) /\ s.delay = waits /\ s.keepsRing = keeps
       /\ s.active = fitted.active
  <2> HIDE DEF keeps
  <2> QED
    BY <1>2, <1>7, <1>10, SentTyped
<1>13. Struck(v, style, s)
  BY <1>4, <1>6, <1>7, <1>8, <1>11, <1>12
  DEF Struck, SamePick, Stays, SameContact, gained, restored, started, keeps
<1>14. QED
  BY <1>9, <1>12, <1>13, SameLevels

\* A contact opens the string: at once, or from the gain that it has.
Freed(v, picked, w) ==
    /\ Opening(w)
    /\ ~OpensAtOnce(v.style, picked) => w.gain = v.gain /\ NextGain(w) = v.gain
    /\ w.gain \in {"open", v.gain}

LEMMA ContactFrees ==
    ASSUME NEW v \in VoiceType, v.active, v.delay = 0, ~v.releasing,
           NEW picked \in BOOLEAN, NEW keeps \in BOOLEAN, NEW newest \in BOOLEAN,
           v.gain # "open" /\ ~OpensAtOnce(v.style, picked) => keeps
    PROVE  Freed(v, picked, StartExcitation(v, picked, keeps, newest))
<1> DEFINE contact == IF picked THEN Max({Contact, v.remaining}) ELSE 0
           atOnce == OpensAtOnce(v.style, picked)
           restores == ~atOnce /\ keeps /\ v.gain # "open"
           damping == Damped(v, picked, newest)
           inHand == newest \/ (~picked /\ hand = "PalmMute")
           restore == IF restores THEN contact ELSE 0
           start == IF restores THEN v.gain ELSE "open"
           opened == IF atOnce THEN "open" ELSE v.gain
           phase == IF picked THEN "contact" ELSE "release"
           left == IF picked THEN contact ELSE Excitation
           w == Contacted(v, damping, inHand, restore, start, opened, phase, left)
<1>1. StartExcitation(v, picked, keeps, newest) = w
  BY DEF StartExcitation, Contacted
<1>2. picked => contact \in Nat /\ contact >= 4
  <2>1. Contact \in Int /\ v.remaining \in Int /\ v.remaining \in Nat /\ Contact >= 4
    BY VoiceAssumption DEF VoiceType
  <2>2. /\ Max({Contact, v.remaining}) \in {Contact, v.remaining}
        /\ Max({Contact, v.remaining}) >= Contact
    BY <2>1, MaxOfTwo, Zenon
  <2>3. QED
    BY <2>1, <2>2, VoiceAssumption
<1>3. restores => picked
  BY DEF OpensAtOnce
<1> HIDE DEF contact, damping, inHand
<1>4. /\ w.gain = opened /\ w.restore = restore /\ w.start = start
      /\ w.phase = phase /\ w.left = left
      /\ ~w.releasing /\ ~w.keepsRing /\ w.active /\ w.delay = 0
  <2> HIDE DEF restore, start, opened, phase, left
  <2>1. /\ w.gain = opened /\ w.restore = restore /\ w.start = start
        /\ w.phase = phase /\ w.left = left
        /\ w.releasing = v.releasing /\ w.pending = v.pending /\ ~w.keepsRing
        /\ w.active = v.active /\ w.delay = v.delay
    BY DEF VoiceType, Contacted
  <2>2. QED
    BY <2>1
<1> HIDE DEF w
<1>5. CASE restores
  <2>1. /\ w.gain = v.gain /\ w.restore = contact /\ w.start = v.gain
        /\ w.phase = "contact" /\ w.left = contact
    BY <1>3, <1>4, <1>5
  <2>2. Restoring(w)
    BY <1>2, <1>3, <1>4, <1>5, <2>1 DEF Restoring
  <2>3. Opening(w)
    BY <1>2, <1>3, <1>4, <1>5, <2>1, <2>2 DEF Opening
  <2>4. NextGain(w) = v.gain
    BY <1>2, <1>3, <1>5, <2>1 DEF NextGain
  <2>5. QED
    BY <1>1, <2>1, <2>3, <2>4 DEF Freed
<1>6. CASE ~restores
  <2>1. w.gain = opened /\ w.restore = 0
    BY <1>4, <1>6
  <2>2. w.gain = "open" \/ (~atOnce /\ w.gain = v.gain)
    BY <2>1
  <2>3. w.gain = "open"
    BY <1>6, <2>2
  <2>4. Opening(w)
    BY <1>4, <2>1, <2>3 DEF Opening, Restoring
  <2>5. NextGain(w) = w.gain
    BY <2>1 DEF NextGain
  <2>6. QED
    BY <1>1, <2>1, <2>3, <2>4, <2>5 DEF Freed
<1>7. QED
  BY <1>5, <1>6

\* What a call carries over to the next sample, but for what it starts anew.
Carries(v, w, more, g) ==
    /\ Opening(w)
    /\ w.active /\ v.active =>
          /\ "head" \notin more /\ Levels(v) => Levels(w)
          /\ "gain" \notin more /\ Gentle(v, g) => Gentle(w, g)

\* The same note again.
LEMMA RepickCarries ==
    ASSUME NEW v \in VoiceType, Opening(v), v.active,
           NEW style \in Styles, NEW delay \in Nat, delay > 0, NEW more, NEW g
    PROVE  Carries(v, RepickLater(v, style, delay), more, g)
<1> DEFINE r == RepickLater(v, style, delay)
           rings == v.keepsRing \/ v.delay = 0
<1>1. SameContact(v, r) /\ SameHeads(v, r)
  BY DEF VoiceType, SameContact, SameHeads, RepickLater
<1>2. r.releasing = v.releasing /\ r.active /\ r.delay = delay /\ r.pending = style
  BY DEF VoiceType, RepickLater
<1>3. r.keepsRing <=> (v.keepsRing \/ v.delay = 0)
  <2>1. r = [v EXCEPT !.keyDown = TRUE, !.sustained = FALSE, !.delay = delay,
                      !.pending = style, !.keepsRing = rings]
    BY DEF RepickLater, VoiceType
  <2> HIDE DEF rings
  <2>2. [v EXCEPT !.keyDown = TRUE, !.sustained = FALSE, !.delay = delay,
                  !.pending = style, !.keepsRing = rings].keepsRing = rings
    BY DEF VoiceType
  <2>3. QED
    BY <2>1, <2>2 DEF rings
<1> HIDE DEF r
<1>4. v.delay \in Nat /\ v.keepsRing \in BOOLEAN /\ style # "none"
  BY DEF VoiceType, Styles
<1>5. Restoring(r)
  BY <1>1, <1>2 DEF Opening, Restoring, SameContact
<1>6. Opening(r)
  BY <1>1, <1>2, <1>3, <1>4, <1>5 DEF Opening, SameContact
<1>7. QED
  BY <1>1, <1>6, SameLevels, SameGentle DEF Carries, r

\* Another note, whose pick waits for the crossfade that is heard.
LEMMA RefretCarries ==
    ASSUME NEW v, Sound(v, hand), hand \in Hands, Opening(v), v.active,
           NEW n \in Note, NEW style \in Styles,
           NEW delay \in Nat, delay > 0, NEW more, NEW g
    PROVE  Carries(v, RefretLater(v, n, style, delay), more, g)
<1> DEFINE owned == Reserved(v, n)
           refrets == Refrets(v, n, style)
           large == FALSE
           fitted == Geometry(v, owned, refrets, delay, large)
           r == SentAgain(fitted, delay, style)
<1>1. v \in VoiceType /\ WholeHeads(v)
  BY DEF Sound, Bounded
<1>2. RefretLater(v, n, style, delay) = r
  BY DEF RefretLater, Reserved, SentAgain
<1>3. owned \in VoiceType
  BY <1>1 DEF Reserved, VoiceType
<1>4. SameHeads(v, owned) /\ SameContact(v, owned) /\ ~owned.releasing /\ owned.active
  BY <1>1 DEF Reserved, VoiceType, SameHeads, SameContact
<1>5. refrets \in BOOLEAN /\ large \in BOOLEAN /\ ~large
  BY <1>1 DEF Refrets, VoiceType
<1> HIDE DEF owned, refrets, large
<1>6. fitted \in VoiceType /\ SamePick(owned, fitted)
  BY <1>1, <1>3, <1>4, <1>5, GeometryFits
<1>7. Stays(owned, fitted)
  BY <1>1, <1>3, <1>5, GeometryContact
<1>8. Levels(v) => Levels(fitted)
  BY <1>1, <1>3, <1>4, <1>5, GeometryLevels
<1> HIDE DEF fitted
<1>9. SameContact(fitted, r) /\ SameHeads(fitted, r)
  BY <1>6 DEF SentAgain, VoiceType, SameContact, SameHeads
<1>10. /\ r.releasing = fitted.releasing /\ r.active = fitted.active
       /\ r.delay = delay /\ r.pending = style /\ r.keepsRing
  BY <1>6 DEF SentAgain, VoiceType
<1> HIDE DEF r
<1>11. SameContact(v, r) /\ ~r.releasing /\ r.active
  BY <1>4, <1>6, <1>7, <1>9, <1>10 DEF SameContact, Stays, SamePick
<1>12. Opening(r)
  BY <1>10, <1>11 DEF Opening, Restoring, SameContact
<1>13. Levels(v) => Levels(r)
  BY <1>8, <1>9, SameLevels
<1>14. QED
  BY <1>2, <1>11, <1>12, <1>13, SameGentle DEF Carries

\* A note whose pick is on its way.
LEMMA TravelCarries ==
    ASSUME NEW v, Sound(v, hand), hand \in Hands, Opening(v),
           NEW n \in Note, NEW style \in Styles, Plectrum(style),
           NEW delay \in Nat, delay > 0, NEW large \in BOOLEAN, NEW g,
           NEW s, s = Strike(v, n, style, delay, large), s.delay > 0
    PROVE  Carries(v, s, LeapsIn(v, large), g)
<1>1. v \in VoiceType /\ v.active \in BOOLEAN
  BY DEF Sound, VoiceType
<1>2. /\ Struck(v, style, s)
      /\ Levels(v) /\ (v.remaining = 0 => ~large) => Levels(s)
  BY StrikeIs
<1>3. SameContact(v, s) /\ ~s.releasing /\ s.active
      /\ (s.keepsRing <=> v.active)
  BY <1>1, <1>2 DEF SameContact, Struck
<1>4. Opening(s)
  BY <1>3 DEF Opening, Restoring, SameContact
<1>5. v.active /\ "head" \notin LeapsIn(v, large) => (v.remaining = 0 => ~large)
  BY DEF LeapsIn
<1>6. QED
  BY <1>2, <1>3, <1>4, <1>5, SameGentle DEF Carries

\* A note whose pick, or finger, is there.
LEMMA LandCarries ==
    ASSUME NEW v, Sound(v, hand), hand \in Hands,
           NEW n \in Note \cup {NoNote}, NEW style \in Styles, NEW large \in BOOLEAN, NEW g,
           NEW now \in Nat,
           NEW s \in VoiceType, s = Strike(v, n, style, now, large),
           s.delay = 0, s.style = style,
           NEW picked \in BOOLEAN, picked = Plectrum(style),
           NEW keeps \in BOOLEAN, NEW newest \in BOOLEAN,
           v.gain # "open" => keeps
    PROVE  LET more == OpensIn(style, picked) \cup LeapsIn(v, large)
           IN Carries(v, StartExcitation(s, picked, keeps, newest), more, g)
<1> DEFINE w == StartExcitation(s, picked, keeps, newest)
<1>1. v \in VoiceType
  BY DEF Sound
<1>2. /\ Struck(v, style, s)
      /\ Levels(v) /\ (v.remaining = 0 => ~large) => Levels(s)
  BY StrikeIs
<1>3. s.active /\ ~s.releasing /\ (s.gain # "open" => s.gain = v.gain)
      /\ (picked => s.gain = v.gain)
  BY <1>2 DEF Struck
<1>4. Freed(s, picked, w)
  BY <1>3, ContactFrees
<1>5. SameHeads(s, w)
  BY ContactFits
<1> HIDE DEF w
<1>6. Levels(s) => Levels(w)
  BY <1>5, SameLevels
<1>7. v.active /\ "head" \notin LeapsIn(v, large) => (v.remaining = 0 => ~large)
  BY DEF LeapsIn
<1>8. ASSUME "gain" \notin OpensIn(style, picked), Gentle(v, g)
      PROVE  Gentle(w, g)
  <2>1. ~OpensAtOnce(style, picked) /\ picked
    BY <1>8 DEF OpensIn, OpensAtOnce
  <2>2. w.gain = v.gain /\ NextGain(w) = v.gain
    BY <1>3, <1>4, <2>1 DEF Freed
  <2>3. QED
    BY <1>8, <2>2 DEF Gentle
<1>9. QED
  BY <1>2, <1>4, <1>6, <1>7, <1>8 DEF Carries, Freed, w

\* A finger that takes over the string.
LEMMA LegatoCarries ==
    ASSUME NEW v, Sound(v, hand), hand \in Hands, v.active,
           NEW n \in Note, NEW style \in Styles, NEW g
    PROVE  Carries(v, LegatoRetarget(v, n, style), OpensIn(style, FALSE), g)
<1> DEFINE live == IF v.frozen = None THEN v.live ELSE v.frozen
           pending == IF v.delay > 0 /\ v.pending = "none" THEN v.style ELSE v.pending
           taken == Taken(v, n, style, live, pending)
           damping == Damped(taken, FALSE, TRUE)
           w == Contacted(taken, damping, TRUE, 0, "open", "open", "release", Excitation)
           travels == v.delay > 0
           r == [w EXCEPT !.keepsRing = travels]
<1>1. v \in VoiceType /\ WholeHeads(v)
  BY DEF Sound, Bounded
<1>2. LegatoRetarget(v, n, style) = r
  BY DEF LegatoRetarget, Taken, StartExcitation, Contacted, OpensAtOnce
<1>3. /\ live \in Nat /\ pending \in Styles \cup {"none"}
      /\ Whole(style) \in Hands /\ Whole(style) # "none"
  BY <1>1, WholeIsAHand DEF VoiceType, Heads
<1> HIDE DEF live, pending
<1>4. taken \in VoiceType
  BY <1>1, <1>3 DEF Taken, VoiceType, Heads
<1>5. /\ taken.remaining = v.remaining /\ taken.source = v.source
      /\ taken.frozen = None /\ taken.live = live
  BY <1>1 DEF Taken, VoiceType
<1>6. taken.active /\ ~taken.releasing /\ taken.delay = v.delay /\ taken.style = style
  BY <1>1 DEF Taken, VoiceType
<1>7. damping \in Hands
  BY <1>3, <1>6 DEF Damped, MovesHand
<1> HIDE DEF taken, damping
<1>8. w \in VoiceType
  BY <1>4, <1>7, VoiceAssumption DEF Contacted, VoiceType, Gains, Phases
<1>9. SameHeads(taken, w)
  BY <1>4 DEF Contacted, VoiceType, SameHeads
<1>10. /\ w.gain = "open" /\ w.restore = 0
       /\ ~w.releasing /\ w.active /\ w.delay = v.delay
  BY <1>4, <1>6 DEF Contacted, VoiceType
<1> HIDE DEF w, travels
<1>11. SameHeads(w, r)
  BY <1>8 DEF VoiceType, SameHeads
<1>12. /\ r.gain = "open" /\ r.restore = 0
       /\ ~r.releasing /\ r.active
  BY <1>8, <1>10 DEF VoiceType
<1> HIDE DEF r
<1>13. Opening(r)
  BY <1>12 DEF Opening, Restoring
<1>14. Levels(v) => Levels(taken)
  BY <1>1, <1>5 DEF Levels, Other, WholeHeads, live
<1>15. Levels(v) => Levels(r)
  BY <1>9, <1>11, <1>14, SameLevels
<1>16. "gain" \in OpensIn(style, FALSE)
  BY DEF OpensIn, OpensAtOnce
<1>17. QED
  BY <1>2, <1>13, <1>15, <1>16 DEF Carries

\* A key or a pedal that comes up, and the hand that comes over.
SameSound(v, w) ==
    /\ SameHeads(v, w) /\ Stays(v, w)
    /\ w.active = v.active /\ w.delay = v.delay
    /\ w.pending = v.pending /\ w.keepsRing = v.keepsRing

LEMMA SameCarries ==
    ASSUME NEW v, NEW w, NEW more, NEW g, Opening(v), SameSound(v, w)
    PROVE  Carries(v, w, more, g)
<1>1. Opening(w)
  BY DEF Opening, Restoring, SameSound, Stays, SameContact, SameHeads
<1>2. QED
  BY <1>1, SameLevels, SameGentle DEF Carries, SameSound, Stays

LEMMA LiftedSounds ==
    ASSUME NEW v \in VoiceType, NEW keyDown, NEW sustained
    PROVE  SameSound(v, Lifted(v, keyDown, sustained))
<1> DEFINE w == Lifted(v, keyDown, sustained)
<1>1. SameHeads(v, w)
  BY DEF Lifted, VoiceType, SameHeads
<1>2. Stays(v, w)
  BY DEF Lifted, VoiceType, Stays, SameContact
<1>3. /\ w.active = v.active /\ w.delay = v.delay
      /\ w.pending = v.pending /\ w.keepsRing = v.keepsRing
  BY DEF Lifted, VoiceType
<1>4. QED
  BY <1>1, <1>2, <1>3 DEF SameSound

LEMMA SilentOpens == Opening(Silent) /\ ~Silent.active
  BY DEF Opening, Restoring, Silent

LEMMA ReleaseCarries ==
    ASSUME NEW v \in VoiceType, v.active, NEW more, NEW g
    PROVE  Carries(v, Release(v), more, g)
<1> DEFINE sustained == v.sustained /\ v.releasing
           w == Released(v, sustained)
<1>1. Release(v) = Silent \/ Release(v) = w
  BY DEF Release, Released, VoiceType
<1> HIDE DEF sustained
<1>2. SameHeads(v, w)
  BY DEF Released, VoiceType, SameHeads
<1>3. /\ w.gain = v.gain /\ w.restore = 0 /\ w.releasing /\ w.delay = 0 /\ w.active
  BY DEF Released, VoiceType
<1> HIDE DEF w
<1>4. Opening(w)
  BY <1>3 DEF Opening, Restoring
<1>5. NextGain(w) = v.gain
  BY <1>3 DEF NextGain
<1>6. Carries(v, w, more, g)
  BY <1>2, <1>3, <1>4, <1>5, SameLevels DEF Carries, Gentle
<1>7. Carries(v, Silent, more, g)
  BY SilentOpens DEF Carries
<1>8. QED
  BY <1>1, <1>6, <1>7

-----------------------------------------------------------------------------
(* A sample goes on as it was heard.                                       *)

\* The heads are as loud as the last sample mixed them.
Exact(v) ==
    IF v.remaining = 0 THEN v.live = Full
    ELSE /\ v.source = v.remaining - 1
         /\ Other(v) = Boundary - v.remaining
         /\ v.frozen # None => v.live = 0

LEMMA HeardSounds ==
    ASSUME NEW v \in VoiceType, WholeHeads(v)
    PROVE  Exact(Heard(v)) /\ Stays(v, Heard(v))
<1> DEFINE live == Mix(v).live
           source == IF v.source = None THEN None ELSE Mix(v).source
           frozen == IF v.frozen = None THEN None ELSE Mix(v).frozen
           w == Mixed(v, live, source, frozen)
<1>1. Heard(v) = w
  BY DEF Heard, Mixed
<1>2. v.remaining \in 0 .. Boundary /\ Boundary \in Nat /\ Boundary >= 4
  BY VoiceAssumption DEF VoiceType
<1>3. v.remaining = 0 => live = Full
  BY DEF Mix
<1>4. v.remaining # 0 =>
         /\ source = v.remaining - 1
         /\ frozen = IF v.frozen = None THEN None ELSE Boundary - v.remaining
         /\ live = IF v.frozen = None THEN Boundary - v.remaining ELSE 0
  BY <1>2 DEF Mix, WholeHeads
<1> HIDE DEF live, source, frozen
<1>5. /\ w.live = live /\ w.source = source /\ w.frozen = frozen
      /\ w.remaining = v.remaining
  BY DEF Mixed, VoiceType
<1>6. Stays(v, w)
  BY DEF Mixed, VoiceType, Stays, SameContact
<1> HIDE DEF w
<1>7. Exact(w)
  BY <1>2, <1>3, <1>4, <1>5 DEF Exact, Other, None
<1>8. QED
  BY <1>1, <1>6, <1>7

\* A crossfade's step, its end and the next one's begin.
LEMMA FadedSounds ==
    ASSUME NEW v \in VoiceType, WholeHeads(v), Exact(v)
    PROVE  Levels(Faded(v)) /\ Stays(v, Faded(v))
<1>0. /\ v.remaining \in 0 .. Boundary /\ Boundary \in Nat /\ Boundary >= 4
      /\ v.live \in Nat
  BY VoiceAssumption DEF VoiceType
<1>1. CASE v.remaining = 0
  BY <1>1 DEF Faded, Exact, Levels, Stays, SameContact
<1>2. CASE v.remaining > 1
  <2> DEFINE less == v.remaining - 1
             w == [v EXCEPT !.remaining = less]
  <2>1. Faded(v) = w
    BY <1>0, <1>2 DEF Faded
  <2> HIDE DEF less
  <2>2. /\ w.remaining = less /\ w.source = v.source
        /\ w.live = v.live /\ w.frozen = v.frozen
    BY DEF VoiceType
  <2>3. Stays(v, w)
    BY DEF VoiceType, Stays, SameContact
  <2> HIDE DEF w
  <2>4. Levels(w)
    BY <1>0, <1>2, <2>2 DEF Levels, Exact, Other, Full, less
  <2>5. QED
    BY <2>1, <2>3, <2>4
<1>3. CASE v.remaining = 1 /\ v.queued
  <2> DEFINE w == [v EXCEPT !.remaining = Boundary, !.queued = FALSE,
                            !.source = v.frozen, !.frozen = None]
  <2>1. Faded(v) = w
    BY <1>3 DEF Faded, BeginRefretHandoff
  <2>2. w.remaining = Boundary /\ w.source = v.frozen /\ w.live = v.live /\ w.frozen = None
    BY DEF VoiceType
  <2>3. Stays(v, w)
    BY DEF VoiceType, Stays, SameContact
  <2> HIDE DEF w
  <2>4. Levels(w)
    BY <1>0, <1>3, <2>2 DEF Levels, Exact, Other, Full, WholeHeads
  <2>5. QED
    BY <2>1, <2>3, <2>4
<1>4. CASE v.remaining = 1 /\ ~v.queued
  <2> DEFINE w == [v EXCEPT !.remaining = 0, !.source = None, !.frozen = None]
  <2>1. Faded(v) = w
    BY <1>4 DEF Faded
  <2>2. w.remaining = 0 /\ w.live = v.live
    BY DEF VoiceType
  <2>3. Stays(v, w)
    BY DEF VoiceType, Stays, SameContact
  <2> HIDE DEF w
  <2>4. Levels(w)
    BY <1>0, <1>4, <2>2 DEF Levels, Exact, Other, Full, WholeHeads
  <2>5. QED
    BY <2>1, <2>3, <2>4
<1>5. QED
  BY <1>0, <1>1, <1>2, <1>3, <1>4

\* The contact opens, step by step.
LEMMA RestoredSounds ==
    ASSUME NEW v \in VoiceType, Restoring(v)
    PROVE  LET w == Restored(v) IN
           /\ w.gain = NextGain(v) /\ w.releasing = v.releasing
           /\ w.phase = v.phase /\ w.left = v.left
           /\ w.restore > 0 => /\ w.restore = v.restore /\ w.start = v.start /\ v.left > 1
                               /\ w.gain = IF v.left = v.restore THEN v.start ELSE "part"
           /\ w.restore = 0 => w.gain = (IF v.restore = 0 THEN v.gain ELSE "open")
<1>0. v.restore \in Nat /\ v.left \in Nat
  BY DEF VoiceType
<1>1. CASE v.restore = 0
  BY <1>1 DEF Restored, NextGain
<1>2. CASE v.restore > 0 /\ v.left <= 1
  <2> DEFINE w == [v EXCEPT !.gain = "open", !.restore = 0, !.start = "open"]
  <2>1. Restored(v) = w
    BY <1>2 DEF Restored, Restoring
  <2>2. /\ w.gain = "open" /\ w.restore = 0 /\ w.releasing = v.releasing
        /\ w.phase = v.phase /\ w.left = v.left
    BY DEF VoiceType
  <2>3. QED
    BY <1>2, <2>1, <2>2 DEF NextGain, Restoring
<1>3. CASE v.restore > 0 /\ v.left > 1
  <2> DEFINE opened == IF v.left = v.restore THEN v.start ELSE "part"
             w == [v EXCEPT !.gain = opened]
  <2>1. Restored(v) = w /\ NextGain(v) = opened
    BY <1>0, <1>3 DEF Restored, NextGain, Restoring
  <2> HIDE DEF opened
  <2>2. /\ w.gain = opened /\ w.restore = v.restore /\ w.start = v.start
        /\ w.releasing = v.releasing /\ w.phase = v.phase /\ w.left = v.left
    BY DEF VoiceType
  <2>3. QED
    BY <1>3, <2>1, <2>2 DEF opened
<1>4. QED
  BY <1>0, <1>1, <1>2, <1>3

LEMMA ExcitedSounds ==
    ASSUME NEW v \in VoiceType
    PROVE  LET w == Excited(v) IN
           /\ w.gain = v.gain /\ w.restore = v.restore /\ w.start = v.start
           /\ w.releasing = v.releasing
           /\ v.phase = "contact" /\ v.left > 1 =>
                 w.phase = "contact" /\ w.left = v.left - 1
<1>1. CASE v.phase = Idle
  BY <1>1 DEF Excited, Idle
<1>2. CASE v.phase # Idle /\ v.left > 1
  <2> DEFINE less == v.left - 1
             w == [v EXCEPT !.left = less]
  <2>1. Excited(v) = w
    BY <1>2 DEF Excited
  <2>2. /\ w.gain = v.gain /\ w.restore = v.restore /\ w.start = v.start
        /\ w.releasing = v.releasing /\ w.phase = v.phase /\ w.left = less
    BY DEF VoiceType
  <2>3. QED
    BY <2>1, <2>2
<1>3. CASE v.phase # Idle /\ ~(v.left > 1)
  <2> DEFINE phase == NextPhase[v.phase]
             left == IF v.phase = "tail" THEN 0 ELSE Excitation
             w == [v EXCEPT !.phase = phase, !.left = left]
  <2>1. Excited(v) = w
    BY <1>3 DEF Excited
  <2> HIDE DEF phase, left
  <2>2. /\ w.gain = v.gain /\ w.restore = v.restore /\ w.start = v.start
        /\ w.releasing = v.releasing
    BY DEF VoiceType
  <2>3. QED
    BY <1>3, <2>1, <2>2
<1>4. QED
  BY <1>1, <1>2, <1>3

\* The hand that stops the string closes by degrees.
LEMMA StoppedSounds ==
    ASSUME NEW v \in VoiceType, NEW w \in Stopped(v)
    PROVE  /\ w.releasing = v.releasing
           /\ w.restore = v.restore /\ w.start = v.start
           /\ w.phase = v.phase /\ w.left = v.left
           /\ Near(v.gain, w.gain) /\ (~v.releasing => w.gain = v.gain)
<1>1. CASE ~v.releasing
  BY <1>1 DEF Stopped, Near
<1>2. CASE v.releasing
  <2>1. PICK g \in IF v.gain = "open" THEN {"part"} ELSE {v.gain, "shut"} :
           w = [v EXCEPT !.gain = g]
    BY <1>2 DEF Stopped
  <2>2. /\ w.gain = g /\ w.restore = v.restore /\ w.start = v.start
        /\ w.releasing = v.releasing /\ w.phase = v.phase /\ w.left = v.left
    BY <2>1 DEF VoiceType
  <2>3. Near(v.gain, g)
    BY <2>1 DEF Near
  <2>4. QED
    BY <1>2, <2>2, <2>3
<1>3. QED
  BY <1>1, <1>2

LEMMA RenderedSounds ==
    ASSUME NEW v \in VoiceType, WholeHeads(v), v.active, Opening(v),
           NEW w \in Stopped(Faded(Excited(Restored(Heard(v)))))
    PROVE  Opening(w) /\ Levels(w) /\ Gentle(w, NextGain(v))
<1> DEFINE a == Heard(v)
           b == Restored(a)
           c == Excited(b)
           d == Faded(c)
           g == NextGain(v)
<1>1. /\ a \in VoiceType /\ WholeHeads(a) /\ Exact(a) /\ Stays(v, a)
  BY HeardFits, HeardSounds
<1>2. Restoring(a) /\ NextGain(a) = g
  BY <1>1 DEF Opening, Restoring, Stays, SameContact, NextGain
<1> HIDE DEF a, g
<1>3. SoundsOn(a, b)
  BY <1>1, RestoredFits
<1>4. /\ b.gain = g /\ b.releasing = a.releasing
      /\ b.phase = a.phase /\ b.left = a.left
      /\ b.restore > 0 => /\ b.restore = a.restore /\ b.start = a.start /\ a.left > 1
                          /\ b.gain = IF a.left = a.restore THEN a.start ELSE "part"
      /\ b.restore = 0 => b.gain = (IF a.restore = 0 THEN a.gain ELSE "open")
  BY <1>1, <1>2, RestoredSounds
<1> HIDE DEF b
<1>5. SoundsOn(b, c)
  BY <1>3, ExcitedFits DEF SoundsOn
<1>6. /\ c.gain = b.gain /\ c.restore = b.restore /\ c.start = b.start
      /\ c.releasing = b.releasing
      /\ b.phase = "contact" /\ b.left > 1 => c.phase = "contact" /\ c.left = b.left - 1
  BY <1>3, ExcitedSounds DEF SoundsOn
<1> HIDE DEF c
<1>7. c \in VoiceType /\ WholeHeads(c) /\ Exact(c)
  BY <1>1, <1>3, <1>5 DEF SoundsOn, SameHeads, WholeHeads, Exact, Other
<1>8. d \in VoiceType /\ Levels(d) /\ Stays(c, d)
  BY <1>7, FadedFits, FadedSounds
<1>9. w \in Stopped(d)
  BY DEF a, b, c
<1> HIDE DEF d
<1>10. SoundsOn(d, w)
  BY <1>8, <1>9, StoppedFits
<1>11. /\ w.releasing = d.releasing
       /\ w.restore = d.restore /\ w.start = d.start
       /\ w.phase = d.phase /\ w.left = d.left
       /\ Near(d.gain, w.gain) /\ (~d.releasing => w.gain = d.gain)
  BY <1>8, <1>9, StoppedSounds
<1>12. /\ w \in VoiceType
       /\ w.active = v.active /\ w.pending = v.pending
       /\ w.keepsRing = v.keepsRing /\ w.delay = v.delay
  BY RenderedFits DEF SameCall, SamePick
<1>13. Levels(w)
  BY <1>8, <1>10, SameLevels DEF SoundsOn
<1>14. /\ w.releasing = v.releasing /\ Near(g, w.gain)
       /\ ~v.releasing => w.gain = g
       /\ w.restore = b.restore /\ b.restore \in Nat /\ a.left \in Nat /\ a.restore \in Nat
  BY <1>1, <1>3, <1>4, <1>6, <1>8, <1>11 DEF Stays, SameContact, VoiceType, SoundsOn
<1>15. CASE b.restore = 0
  <2>1. v.restore = 0 => g = v.gain
    BY DEF g, NextGain
  <2>2. v.restore > 0 => g = "open" /\ ~v.releasing
    BY <1>1, <1>4, <1>15 DEF Opening, Restoring, Stays, SameContact
  <2>3. v.restore \in Nat /\ v.delay \in Nat
    BY DEF VoiceType
  <2>4. Opening(w)
    BY <1>12, <1>14, <1>15, <2>1, <2>2, <2>3 DEF Opening, Restoring
  <2>5. NextGain(w) = w.gain
    BY <1>14, <1>15 DEF NextGain
  <2>6. QED
    BY <1>13, <1>14, <2>4, <2>5 DEF Gentle, g
<1>16. CASE b.restore > 0
  <2>1. /\ a.left > 1 /\ a.restore >= 4 /\ a.left <= a.restore /\ ~a.releasing
        /\ a.phase = "contact" /\ b.restore = a.restore
    BY <1>2, <1>4, <1>14, <1>16 DEF Restoring
  <2>2. /\ w.phase = "contact" /\ w.left = a.left - 1
        /\ w.restore = a.restore /\ w.gain = g /\ ~w.releasing
    BY <1>1, <1>4, <1>6, <1>8, <1>11, <1>14, <2>1 DEF Stays, SameContact
  <2>3. Restoring(w)
    BY <1>14, <2>1, <2>2 DEF Restoring
  <2>4. a.restore = v.restore /\ v.restore > 0 /\ v.delay \in Nat
    BY <1>1, <1>14, <1>16, <2>1 DEF Stays, SameContact, VoiceType
  <2>5. Opening(w)
    BY <1>12, <2>1, <2>2, <2>3, <2>4 DEF Opening
  <2>6. g = IF a.left = a.restore THEN a.start ELSE "part"
    BY <1>4, <1>16
  <2>7. Near(g, NextGain(w))
    <3>1. CASE a.left = 2
      <4>1. g = "part"
        BY <2>1, <2>6, <3>1
      <4>2. QED
        BY <4>1 DEF Near
    <3>2. CASE a.left # 2
      <4>1. NextGain(w) = "part"
        BY <1>14, <2>1, <2>2, <3>2 DEF NextGain
      <4>2. QED
        BY <4>1 DEF Near
    <3>3. QED
      BY <3>1, <3>2
  <2>8. QED
    BY <1>13, <1>14, <2>5, <2>7 DEF Gentle, g
<1>17. QED
  BY <1>14, <1>15, <1>16

\* The pick arrives: nothing is left for it to wait for.
LEMMA ArrivedCarries ==
    ASSUME NEW v, Sound(v, hand), hand \in Hands, overtaken \in BOOLEAN,
           v.delay = 0, v.active, ~v.queued,
           v.pending = "none" => ~v.releasing,
           ~v.keepsRing => v.gain = "open",
           NEW large \in BOOLEAN, NEW g, NEW w, w = Arrived(v, large)
    PROVE  /\ w.delay = 0 /\ w.active
           /\ Carries(v, w, OpensIn(w.style, Plectrum(w.style)) \cup LeapsIn(v, large), g)
<1> DEFINE newest == ~overtaken
           keeps == v.keepsRing
<1>1. v \in VoiceType /\ WholeHeads(v)
  BY DEF Sound, Bounded
<1>2. newest \in BOOLEAN /\ keeps \in BOOLEAN /\ (v.gain # "open" => keeps)
  BY <1>1 DEF VoiceType
<1>3. CASE v.pending = "none"
  <2> DEFINE picked == Plectrum(v.style)
  <2>1. w = StartExcitation(v, picked, keeps, newest)
    BY <1>3 DEF Arrived
  <2>2. picked \in BOOLEAN
    BY DEF Plectrum
  <2> HIDE DEF picked, newest, keeps
  <2>3. Freed(v, picked, w)
    BY <1>1, <1>2, <1>3, <2>1, <2>2, ContactFrees
  <2>4. SameHeads(v, w) /\ SameString(v, w)
    BY <1>1, <1>2, <2>1, <2>2, ContactFits
  <2>5. w.delay = 0 /\ w.active /\ w.style = v.style
    BY <2>4 DEF SameString
  <2>6. ASSUME "gain" \notin OpensIn(v.style, picked), Gentle(v, g)
        PROVE  Gentle(w, g)
    <3>1. ~OpensAtOnce(v.style, picked)
      BY <2>6 DEF OpensIn
    <3>2. w.gain = v.gain /\ NextGain(w) = v.gain
      BY <2>3, <3>1 DEF Freed
    <3>3. QED
      BY <2>6, <3>2 DEF Gentle
  <2>7. QED
    BY <2>3, <2>4, <2>5, <2>6, SameLevels DEF Carries, Freed, picked
<1>4. CASE v.pending # "none"
  <2> DEFINE style == v.pending
             note == v.note
             now == ArrivesIn(v, note, style, 0)
             strike == Strike(v, note, style, now, large)
             struck == Lifted(strike, v.keyDown, v.sustained)
             picked == Plectrum(style)
  <2>1. w = IF struck.delay > 0 THEN struck
            ELSE StartExcitation(struck, picked, keeps, newest)
    BY <1>4 DEF Arrived, Lifted
  <2>2. style \in Styles /\ note \in Note \cup {NoNote}
    BY <1>1, <1>4 DEF VoiceType
  <2>3. ~WaitsForBoundary(v, note, style)
    BY DEF WaitsForBoundary, Refrets
  <2>4. now = 0
    BY <1>1, <2>3, ArrivesInTime
  <2>5. picked \in BOOLEAN /\ v.keyDown \in BOOLEAN /\ v.sustained \in BOOLEAN
    BY <1>1 DEF Plectrum, VoiceType
  <2> HIDE DEF now, style, note
  <2>6. /\ strike \in VoiceType /\ strike.style = style /\ strike.delay = 0
    BY <1>1, <2>2, <2>3, <2>4, StrikeFits DEF Strikes
  <2>7. /\ Struck(v, style, strike)
        /\ Levels(v) /\ (v.remaining = 0 => ~large) => Levels(strike)
    BY <2>2, <2>4, StrikeIs
  <2> HIDE DEF strike
  <2>8. SoundsOn(strike, struck) /\ SameSound(strike, struck)
    BY <2>5, <2>6, LiftedFits, LiftedSounds
  <2> HIDE DEF struck, picked, newest, keeps
  <2>9. /\ struck \in VoiceType /\ struck.style = style /\ struck.delay = 0
        /\ struck.active /\ ~struck.releasing
        /\ struck.gain # "open" => struck.gain = v.gain
        /\ picked => struck.gain = v.gain
    BY <2>6, <2>7, <2>8
    DEF SoundsOn, SameSound, SameCall, SamePick, Stays, SameContact, Struck, picked
  <2>10. w = StartExcitation(struck, picked, keeps, newest)
    BY <2>1, <2>9
  <2>11. Freed(struck, picked, w)
    BY <1>2, <2>5, <2>9, <2>10, ContactFrees
  <2>12. SameHeads(struck, w) /\ SameString(struck, w)
    BY <1>2, <2>5, <2>9, <2>10, ContactFits
  <2>13. w.delay = 0 /\ w.active /\ w.style = style
    BY <2>9, <2>12 DEF SameString
  <2>14. Levels(strike) => Levels(w)
    BY <2>8, <2>12, SameLevels DEF SameSound
  <2>15. v.active /\ "head" \notin LeapsIn(v, large) => (v.remaining = 0 => ~large)
    BY DEF LeapsIn
  <2>16. ASSUME "gain" \notin OpensIn(style, picked), Gentle(v, g)
         PROVE  Gentle(w, g)
    <3>1. ~OpensAtOnce(style, picked) /\ picked
      BY <2>16 DEF OpensIn, OpensAtOnce
    <3>2. w.gain = v.gain /\ NextGain(w) = v.gain
      BY <2>9, <2>11, <3>1 DEF Freed
    <3>3. QED
      BY <2>16, <3>2 DEF Gentle
  <2>17. QED
    BY <2>7, <2>11, <2>13, <2>14, <2>15, <2>16 DEF Carries, Freed, picked
<1>5. QED
  BY <1>3, <1>4

-----------------------------------------------------------------------------
(* The calls and the sample keep it.                                       *)

LEMMA BecomesKeeps ==
    ASSUME HeardInv, VoiceInv', NEW w, NEW more, Becomes(w, more),
           Carries(voice, w, more, gain)
    PROVE  HeardInv'
  BY DEF HeardInv, Becomes, Carries

LEMMA NoteOnHeard ==
    ASSUME HeardInv, NEW n \in Note, NEW style \in Style, NEW delay \in Travel,
           NEW same \in BOOLEAN, NoteOn(n, style, delay, same)
    PROVE  HeardInv'
<1>1. VoiceInv /\ VoiceInv'
  BY NoteOnKeeps DEF HeardInv
<1>2. /\ voice \in VoiceType /\ Sound(voice, hand) /\ hand \in Hands
      /\ WholeHeads(voice) /\ Opening(voice)
  BY DEF HeardInv, VoiceInv, Sound, Bounded
<1>3. style \in Styles /\ delay \in Nat /\ voice.remaining \in Nat
  BY <1>2, VoiceAssumption DEF Styles, VoiceType
<1> DEFINE arrives == ArrivesIn(voice, n, style, delay)
<1>4. /\ arrives \in Nat /\ arrives >= delay
      /\ WaitsForBoundary(voice, n, style) =>
            voice.remaining > 0 /\ arrives >= voice.remaining
  BY <1>2, <1>3, ArrivesInTime
<1>5. CASE NoteOnLater(n, style, delay, same)
  <2>1. /\ Becomes(RepickLater(voice, style, arrives), {})
        /\ arrives > 0 /\ voice.active
    BY <1>5 DEF NoteOnLater, Repicked
  <2> HIDE DEF arrives
  <2>2. Carries(voice, RepickLater(voice, style, arrives), {}, gain)
    BY <1>2, <1>3, <1>4, <2>1, RepickCarries
  <2>3. QED
    BY <1>1, <2>1, <2>2, BecomesKeeps
<1>6. CASE NoteOnQueued(n, style, delay, same)
  <2>1. /\ Becomes(RefretLater(voice, n, style, arrives), {})
        /\ WaitsForBoundary(voice, n, style)
    BY <1>6 DEF NoteOnQueued
  <2> HIDE DEF arrives
  <2>2. arrives > 0 /\ voice.active
    BY <1>2, <1>3, <1>4, <2>1 DEF Opening
  <2>3. Carries(voice, RefretLater(voice, n, style, arrives), {}, gain)
    BY <1>2, <1>3, <1>4, <2>2, RefretCarries
  <2>4. QED
    BY <1>1, <2>1, <2>3, BecomesKeeps
<1>7. CASE \E large \in Leap(voice) : NoteOnTravels(n, style, delay, same, large)
  <2>1. PICK large \in BOOLEAN : NoteOnTravels(n, style, delay, same, large)
    BY <1>7 DEF Leap
  <2> DEFINE s == Strike(voice, n, style, delay, large)
  <2>2. Becomes(s, LeapsIn(voice, large)) /\ delay > 0 /\ ~WaitsForBoundary(voice, n, style)
    BY <2>1 DEF NoteOnTravels
  <2>3. Plectrum(style)
    BY <2>2 DEF NoteOn
  <2>4. s \in VoiceType /\ s.delay # 0
    BY <1>2, <1>3, <2>2, StrikeFits DEF Strikes
  <2> HIDE DEF s
  <2>5. Carries(voice, s, LeapsIn(voice, large), gain)
    <3>1. s.delay > 0
      BY <1>3, <2>2, <2>4 DEF VoiceType
    <3>2. QED
      BY <1>2, <1>3, <2>2, <2>3, <3>1, TravelCarries DEF s
  <2>6. QED
    BY <1>1, <2>2, <2>5, BecomesKeeps
<1>8. CASE \E large \in Leap(voice) : delay = 0 /\ NoteOnLands(n, style, same, large)
  <2>1. PICK large \in BOOLEAN : NoteOnLands(n, style, same, large)
    BY <1>8 DEF Leap
  <2> DEFINE now == 0
             newest == TRUE
             picked == Plectrum(style)
             keeps == voice.active
             s == Strike(voice, n, style, now, large)
             more == OpensIn(style, picked) \cup LeapsIn(voice, large)
             w == StartExcitation(s, picked, keeps, newest)
  <2>2. Becomes(w, more) /\ ~WaitsForBoundary(voice, n, style)
    BY <2>1 DEF NoteOnLands
  <2>3. now \in Nat /\ newest \in BOOLEAN /\ picked \in BOOLEAN /\ keeps \in BOOLEAN
    BY <1>2 DEF Plectrum, VoiceType
  <2>4. s \in VoiceType /\ s.style = style /\ s.delay = 0
    <3>1. s = Strike(voice, n, style, now, large)
      OBVIOUS
    <3>2. now = 0
      OBVIOUS
    <3> HIDE DEF now, s
    <3>3. QED
      BY <1>2, <1>3, <2>2, <2>3, <3>1, <3>2, StrikeFits DEF Strikes
  <2>5. voice.gain # "open" => keeps
    BY <1>2 DEF Opening
  <2> HIDE DEF newest, keeps, now
  <2>6. Carries(voice, w, more, gain)
    <3>1. s = Strike(voice, n, style, now, large) /\ picked = Plectrum(style)
      OBVIOUS
    <3> HIDE DEF s, picked
    <3>2. QED
      BY <1>2, <1>3, <2>3, <2>4, <2>5, <3>1, LandCarries
  <2> HIDE DEF w, more
  <2>7. QED
    BY <1>1, <2>2, <2>6, BecomesKeeps
<1>9. CASE delay = 0 /\ NoteOnLegato(n, style, same)
  <2>1. voice.active /\ Becomes(LegatoRetarget(voice, n, style), OpensIn(style, FALSE))
    BY <1>9 DEF NoteOnLegato, Legato
  <2>2. Carries(voice, LegatoRetarget(voice, n, style), OpensIn(style, FALSE), gain)
    BY <1>2, <1>3, <2>1, LegatoCarries
  <2>3. QED
    BY <1>1, <2>1, <2>2, BecomesKeeps
<1>10. QED
  BY <1>5, <1>6, <1>7, <1>8, <1>9 DEF NoteOn

LEMMA LiftsHeard ==
    ASSUME HeardInv, NoteOff \/ AllNotesOff \/ \E down \in BOOLEAN : SetSustainPedal(down)
    PROVE  HeardInv'
<1>1. VoiceInv /\ VoiceInv' /\ voice \in VoiceType /\ Opening(voice)
  BY LiftsKeep DEF HeardInv, VoiceInv, Sound
<1>2. ASSUME NEW keyDown, NEW sustained, keyDown \in BOOLEAN, sustained \in BOOLEAN
      PROVE  /\ Carries(voice, Lifted(voice, keyDown, sustained), {}, gain)
             /\ voice.active =>
                   Carries(voice, Release(Lifted(voice, keyDown, sustained)), {}, gain)
  <2> DEFINE l == Lifted(voice, keyDown, sustained)
  <2>1. l \in VoiceType /\ SameSound(voice, l)
    BY <1>1, <1>2, LiftedFits, LiftedSounds DEF SoundsOn
  <2> HIDE DEF l
  <2>2. Carries(voice, l, {}, gain)
    BY <1>1, <2>1, SameCarries
  <2>3. voice.active => Carries(l, Release(l), {}, gain) /\ l.active
    BY <2>1, ReleaseCarries DEF SameSound
  <2>4. voice.active => Carries(voice, Release(l), {}, gain)
    BY <2>2, <2>3 DEF Carries
  <2>5. QED
    BY <2>2, <2>4 DEF l
<1>3. CASE NoteOff
  <2> DEFINE sustained == voice.sustained
             w == IF pedal THEN [voice EXCEPT !.keyDown = FALSE, !.sustained = TRUE]
                  ELSE Release([voice EXCEPT !.keyDown = FALSE])
  <2>1. [voice EXCEPT !.keyDown = FALSE] = Lifted(voice, FALSE, sustained)
    <3>1. [voice EXCEPT !.keyDown = FALSE]
            = [voice EXCEPT !.keyDown = FALSE, !.sustained = voice.sustained]
      BY <1>1 DEF VoiceType
    <3>2. QED
      BY <3>1 DEF Lifted
  <2>2. w = Lifted(voice, FALSE, TRUE) \/ w = Release(Lifted(voice, FALSE, sustained))
    BY <2>1 DEF Lifted
  <2>3. sustained \in BOOLEAN
    BY <1>1 DEF VoiceType
  <2>4. Becomes(w, {}) /\ voice.active
    BY <1>3 DEF NoteOff
  <2> HIDE DEF w, sustained
  <2>5. Carries(voice, w, {}, gain)
    BY <1>2, <2>2, <2>3, <2>4
  <2>6. QED
    BY <1>1, <2>4, <2>5, BecomesKeeps
<1>4. CASE AllNotesOff
  <2> DEFINE w == Release(Lifted(voice, FALSE, FALSE))
  <2>1. Becomes(w, {}) /\ voice.active
    BY <1>4 DEF AllNotesOff, Lifted
  <2>2. Carries(voice, w, {}, gain)
    BY <1>2, <2>1
  <2> HIDE DEF w
  <2>3. QED
    BY <1>1, <2>1, <2>2, BecomesKeeps
<1>5. CASE \E down \in BOOLEAN : SetSustainPedal(down)
  <2>1. PICK down \in BOOLEAN : SetSustainPedal(down)
    BY <1>5
  <2> DEFINE left == IF ~down /\ voice.active /\ voice.sustained /\ ~voice.keyDown
                     THEN Release(voice) ELSE voice
             stays == left.sustained /\ down
             keyDown == left.keyDown
             w == [left EXCEPT !.sustained = stays]
  <2>2. Becomes(w, {})
    BY <2>1 DEF SetSustainPedal
  <2>3. SameSound(voice, voice)
    BY DEF SameSound, Stays, SameContact, SameHeads
  <2>4. Carries(voice, left, {}, gain)
    BY <1>1, <2>3, ReleaseCarries, SameCarries
  <2>5. left \in VoiceType
    BY <1>1, ReleaseFits DEF VoiceInv, Sound
  <2> HIDE DEF left
  <2>6. w = Lifted(left, keyDown, stays)
    <3> HIDE DEF stays
    <3>1. [left EXCEPT !.sustained = stays]
            = [left EXCEPT !.keyDown = left.keyDown, !.sustained = stays]
      BY <2>5 DEF VoiceType
    <3>2. QED
      BY <3>1 DEF Lifted
  <2> HIDE DEF stays, keyDown, w
  <2>7. SameSound(left, w)
    BY <2>5, <2>6, LiftedSounds
  <2>8. Opening(left)
    BY <2>4 DEF Carries
  <2>9. Carries(left, w, {}, gain)
    BY <2>7, <2>8, SameCarries
  <2>10. w.active = left.active
    BY <2>7 DEF SameSound
  <2>11. Carries(voice, w, {}, gain)
    BY <2>4, <2>9, <2>10 DEF Carries
  <2>12. QED
    BY <1>1, <2>2, <2>11, BecomesKeeps
<1>6. QED
  BY <1>3, <1>4, <1>5

LEMMA OtherStringHeard ==
    ASSUME HeardInv, NEW style \in Style, NEW later \in BOOLEAN, OtherString(style, later)
    PROVE  HeardInv'
<1>1. VoiceInv /\ VoiceInv' /\ voice \in VoiceType /\ Opening(voice)
  BY OtherStringKeeps DEF HeardInv, VoiceInv, Sound
<1>2. gain' = gain /\ breaks' = breaks
  BY DEF OtherString
<1>3. SameSound(voice, voice')
  <2>1. voice' = voice \/ voice' = [voice EXCEPT !.damping = hand', !.inHand = TRUE]
    BY DEF OtherString
  <2>2. CASE voice' = voice
    BY <2>2 DEF SameSound, Stays, SameContact, SameHeads
  <2>3. CASE voice' = [voice EXCEPT !.damping = hand', !.inHand = TRUE]
    <3>1. SameHeads(voice, voice')
      BY <1>1, <2>3 DEF VoiceType, SameHeads
    <3>2. Stays(voice, voice')
      BY <1>1, <2>3 DEF VoiceType, Stays, SameContact
    <3>3. /\ voice'.active = voice.active /\ voice'.delay = voice.delay
          /\ voice'.pending = voice.pending /\ voice'.keepsRing = voice.keepsRing
      BY <1>1, <2>3 DEF VoiceType
    <3>4. QED
      BY <3>1, <3>2, <3>3 DEF SameSound
  <2>4. QED
    BY <2>1, <2>2, <2>3
<1>4. Carries(voice, voice', {}, gain) /\ voice'.active = voice.active
  BY <1>1, <1>3, SameCarries DEF SameSound
<1>5. QED
  BY <1>1, <1>2, <1>4 DEF HeardInv, Carries

LEMMA SilenceHeard ==
    ASSUME HeardInv, Retire \/ Recover \/ Reset
    PROVE  HeardInv'
<1>1. VoiceInv'
  BY SilentIsSound DEF HeardInv, Retire, Recover, Reset, Becomes, VoiceInv, Hands
<1>2. Becomes(Silent, {})
  BY DEF Retire, Recover, Reset
<1>3. Carries(voice, Silent, {}, gain)
  BY SilentOpens DEF Carries
<1>4. QED
  BY <1>1, <1>2, <1>3, BecomesKeeps

LEMMA RenderVoiceHeard ==
    ASSUME HeardInv, RenderVoice
    PROVE  HeardInv'
<1>1. VoiceInv /\ VoiceInv' /\ Opening(voice)
  BY RenderVoiceKeeps DEF HeardInv
<1>2. /\ voice \in VoiceType /\ Bounded(voice) /\ WholeHeads(voice) /\ Handled(voice, hand)
      /\ hand \in Hands /\ overtaken \in BOOLEAN
  BY <1>1 DEF VoiceInv, Sound, Bounded
<1>3. voice.active /\ gain' = NextGain(voice)
  BY <1>2, NextGainIs DEF RenderVoice
<1>4. PICK v \in Stopped(Faded(Excited(Restored(Heard(voice))))) :
         \/ /\ voice' = [v EXCEPT !.delay = Max({0, @ - 1})]
            /\ v.delay # 1
         \/ \E large \in BOOLEAN :
               LET w == Arrived([v EXCEPT !.delay = 0], large)
                   lands == w.delay = 0
               IN /\ v.delay = 1 /\ voice' = w
                  /\ breaks' = LeapsIn(v, large) \cup
                         (IF lands THEN OpensIn(w.style, Plectrum(w.style)) ELSE {})
  BY DEF RenderVoice, Leap
<1>5. /\ v \in VoiceType /\ WholeHeads(v) /\ SameCall(voice, v)
      /\ v.queued => voice.queued /\ v.remaining = voice.remaining - 1
  BY <1>2, RenderedFits
<1>6. Opening(v) /\ Levels(v) /\ Gentle(v, gain')
  BY <1>1, <1>2, <1>3, RenderedSounds
<1>7. /\ v.delay = voice.delay /\ v.delay \in Nat /\ v.active
      /\ voice.remaining \in Nat /\ v.keepsRing \in BOOLEAN
  BY <1>2, <1>3, <1>5, VoiceAssumption DEF SameCall, SamePick, VoiceType
<1>8. CASE v.delay # 1 /\ voice' = [v EXCEPT !.delay = Max({0, @ - 1})]
  <2> DEFINE delay == Max({0, v.delay - 1})
  <2>1. delay = IF v.delay = 0 THEN 0 ELSE v.delay - 1
    <3>1. 0 \in Int /\ v.delay - 1 \in Int
      BY <1>7
    <3>2. /\ Max({0, v.delay - 1}) \in {0, v.delay - 1}
          /\ Max({0, v.delay - 1}) >= 0 /\ Max({0, v.delay - 1}) >= v.delay - 1
      BY <3>1, MaxOfTwo, Zenon
    <3>3. QED
      BY <1>7, <3>2
  <2>2. voice' = [v EXCEPT !.delay = delay]
    BY <1>8
  <2> HIDE DEF delay
  <2>3. SameHeads(v, voice') /\ voice'.delay = delay
    BY <1>5, <2>2 DEF VoiceType, SameHeads
  <2>4. Stays(v, voice')
    BY <1>5, <2>2 DEF VoiceType, Stays, SameContact
  <2>5. /\ voice'.active = v.active /\ voice'.pending = v.pending
        /\ voice'.keepsRing = v.keepsRing
    BY <1>5, <2>2 DEF VoiceType
  <2>6. delay > 0 <=> v.delay > 0
    BY <1>7, <1>8, <2>1
  <2>7. delay = 0 <=> v.delay = 0
    BY <1>7, <1>8, <2>1
  <2>8. Opening(voice')
    BY <1>6, <1>7, <2>3, <2>4, <2>5, <2>6, <2>7
    DEF Opening, Restoring, Stays, SameContact
  <2>9. Levels(voice') /\ Gentle(voice', gain')
    BY <1>6, <2>3, <2>4, SameLevels, SameGentle DEF Stays
  <2>10. QED
    BY <1>1, <1>7, <2>5, <2>8, <2>9 DEF HeardInv
<1>9. CASE \E large \in BOOLEAN :
              LET w == Arrived([v EXCEPT !.delay = 0], large)
                  lands == w.delay = 0
              IN /\ v.delay = 1 /\ voice' = w
                 /\ breaks' = LeapsIn(v, large) \cup
                        (IF lands THEN OpensIn(w.style, Plectrum(w.style)) ELSE {})
  <2> DEFINE u == [v EXCEPT !.delay = 0]
  <2>1. u \in VoiceType
    BY <1>5 DEF VoiceType
  <2>2. SameHeads(v, u) /\ u.delay = 0
    BY <1>5 DEF VoiceType, SameHeads
  <2>3. /\ u.active = v.active /\ u.inHand = v.inHand
        /\ u.damping = v.damping /\ u.keepsRing = v.keepsRing /\ u.pending = v.pending
    BY <1>5 DEF VoiceType
  <2>4. Stays(v, u)
    BY <1>5 DEF VoiceType, Stays, SameContact
  <2> HIDE DEF u
  <2>5. PICK large \in BOOLEAN :
           LET w == Arrived(u, large)
               lands == w.delay = 0
           IN /\ v.delay = 1 /\ voice' = w
              /\ breaks' = LeapsIn(v, large) \cup
                     (IF lands THEN OpensIn(w.style, Plectrum(w.style)) ELSE {})
    BY <1>9 DEF u
  <2>6. Handled(v, hand)
    BY <1>2, <1>5 DEF Handled, SameCall, SamePick
  <2>7. Sound(u, hand)
    BY <1>5, <2>1, <2>2, <2>3, <2>6, SameIsWhole DEF Sound, Bounded, PickWaits, Handled
  <2>8. ~u.queued
    <3>1. v.queued => v.remaining > 0
      BY <1>5 DEF WholeHeads
    <3>2. voice.queued => voice.remaining <= 1
      BY <1>2, <1>7, <2>5 DEF Bounded, PickWaits
    <3>3. QED
      BY <1>5, <1>7, <2>2, <3>1, <3>2 DEF SameHeads
  <2>9. u.pending = "none" => ~u.releasing
    BY <1>6, <2>3, <2>4, <2>5 DEF Opening, Stays
  <2>10. ~u.keepsRing => u.gain = "open"
    BY <1>6, <2>3, <2>4, <2>5 DEF Opening, Stays, SameContact
  <2> DEFINE w == Arrived(u, large)
             more == OpensIn(w.style, Plectrum(w.style)) \cup LeapsIn(u, large)
  <2>11. w.delay = 0 /\ w.active /\ Carries(u, w, more, gain')
    <3>1. w = Arrived(u, large) /\ u.active /\ u.delay = 0
      BY <1>7, <2>2, <2>3
    <3>2. QED
      BY <1>2, <2>7, <2>8, <2>9, <2>10, <3>1, ArrivedCarries
  <2>12. LeapsIn(u, large) = LeapsIn(v, large)
    BY <2>2, <2>3 DEF LeapsIn, SameHeads
  <2>13. voice' = w /\ breaks' = more
    BY <2>5, <2>11, <2>12
  <2> HIDE DEF w, more
  <2>14. Levels(u) /\ Gentle(u, gain') /\ u.active
    BY <1>6, <1>7, <2>2, <2>3, <2>4, SameLevels, SameGentle DEF Stays
  <2>15. QED
    BY <1>1, <2>11, <2>13, <2>14 DEF HeardInv, Carries
<1>10. QED
  BY <1>4, <1>8, <1>9

LEMMA HeardInvKept == Spec => []HeardInv
<1>1. Init => HeardInv
  BY SilentIsSound, SilentOpens DEF Init, HeardInv, VoiceInv, Hands
<1>2. HeardInv /\ [Next]_vars => HeardInv'
  <2> SUFFICES ASSUME HeardInv, [Next]_vars PROVE HeardInv'
    OBVIOUS
  <2>1. CASE \E n \in Note, style \in Style, delay \in Travel,
                same \in (IF voice.active THEN BOOLEAN ELSE {FALSE}) :
                NoteOn(n, style, delay, same)
    BY <2>1, NoteOnHeard
  <2>2. CASE NoteOff \/ AllNotesOff \/ \E down \in BOOLEAN : SetSustainPedal(down)
    BY <2>2, LiftsHeard
  <2>3. CASE \E style \in Style, later \in BOOLEAN : OtherString(style, later)
    BY <2>3, OtherStringHeard
  <2>4. CASE Retire \/ Recover \/ Reset
    BY <2>4, SilenceHeard
  <2>5. CASE RenderVoice
    BY <2>5, RenderVoiceHeard
  <2>6. CASE UNCHANGED vars
    BY <2>6 DEF vars, HeardInv, VoiceInv
  <2>7. QED
    BY <2>1, <2>2, <2>3, <2>4, <2>5, <2>6 DEF Next, Call
<1>3. QED
  BY <1>1, <1>2, PTL DEF Spec

-----------------------------------------------------------------------------
(* The theorems.                                                           *)

\* Every crossfade has the head it comes from, every fret that is queued behind
\* it the head it goes to meanwhile, and no pick lands before that is over
\* (configureGeometry, renderVoice), for all lengths of contact and crossfade.
THEOREM BoundaryStaysWhole == Spec => []BoundaryIsWhole
<1>1. VoiceInv => BoundaryIsWhole
  BY DEF VoiceInv, Sound, Bounded, WholeHeads, PickWaits, BoundaryIsWhole
<1>2. QED
  BY <1>1, VoiceInvKept, PTL

\* What the one picking hand does to the strings it does to this one, whichever
\* string moved it last and whatever pick is still on its way (startExcitation).
THEOREM OneHandPlays == Spec => []OneHand
<1>1. VoiceInv => OneHand
  BY DEF VoiceInv, Sound, Handled, OneHand
<1>2. QED
  BY <1>1, VoiceInvKept, PTL

\* Whatever notes, fingers and releases come, of the heads that are heard none
\* is dropped and none leaps (configureGeometry, beginRefretHandoff,
\* renderVoice): the weights add up to one, and each goes on as loud as it was
\* but for a step of the crossfade, for crossfades of every length.
THEOREM FretsDoNotClick == Spec => []NothingClicks
<1>1. HeardInv => NothingClicks
  <2> SUFFICES ASSUME HeardInv, voice.active, "head" \notin breaks
               PROVE  /\ Level(voice.live) + Level(voice.source) + Level(voice.frozen) = Full
                      /\ \A role \in {"live", "source", "frozen"} :
                            Apart(Level(voice[role]), Mix(voice)[role]) <= 1
    BY DEF NothingClicks
  <2>1. /\ voice.live \in Nat /\ voice.source \in Heads /\ voice.frozen \in Heads
        /\ voice.remaining \in 0 .. Boundary /\ Boundary \in Nat /\ Boundary >= 4
    BY VoiceAssumption DEF HeardInv, VoiceInv, Sound, VoiceType
  <2>2. WholeHeads(voice) /\ Levels(voice)
    BY DEF HeardInv, VoiceInv, Sound, Bounded
  <2>3. CASE voice.remaining = 0
    <3>1. voice.source = None /\ voice.frozen = None /\ voice.live = Full
      BY <2>2, <2>3 DEF WholeHeads, Levels
    <3>2. Mix(voice) = [live |-> Full, source |-> 0, frozen |-> 0]
      BY <2>3 DEF Mix
    <3>3. QED
      BY <2>1, <3>1, <3>2 DEF Level, Apart, None, Full
  <2>4. CASE voice.remaining > 0 /\ voice.frozen = None
    <3>1. /\ voice.source \in Nat /\ voice.source + voice.live = Full
          /\ voice.source - voice.remaining \in -2 .. 0
      BY <2>1, <2>2, <2>4 DEF WholeHeads, Levels, Other, Heads
    <3>2. Mix(voice) = [source |-> voice.remaining - 1, frozen |-> 0,
                        live |-> Boundary - voice.remaining]
      BY <2>4 DEF Mix
    <3>3. /\ Level(voice.live) = voice.live /\ Level(voice.source) = voice.source
          /\ Level(voice.frozen) = 0
      BY <2>1, <2>4, <3>1 DEF Level, None
    <3>4. Apart(Level(voice["source"]), Mix(voice)["source"]) <= 1
      BY <2>1, <3>1, <3>2, <3>3 DEF Apart
    <3>5. Apart(Level(voice["live"]), Mix(voice)["live"]) <= 1
      BY <2>1, <3>1, <3>2, <3>3 DEF Apart, Full
    <3>6. Apart(Level(voice["frozen"]), Mix(voice)["frozen"]) <= 1
      BY <3>2, <3>3 DEF Apart
    <3>7. QED
      BY <2>1, <3>1, <3>3, <3>4, <3>5, <3>6
  <2>5. CASE voice.remaining > 0 /\ voice.frozen # None
    <3>1. /\ voice.source \in Nat /\ voice.frozen \in Nat /\ voice.live = 0
          /\ voice.source + voice.frozen = Full
          /\ voice.source - voice.remaining \in -2 .. 0
      BY <2>1, <2>2, <2>5 DEF WholeHeads, Levels, Other, Heads
    <3>2. Mix(voice) = [source |-> voice.remaining - 1, live |-> 0,
                        frozen |-> Boundary - voice.remaining]
      BY <2>5 DEF Mix
    <3>3. /\ Level(voice.live) = 0 /\ Level(voice.source) = voice.source
          /\ Level(voice.frozen) = voice.frozen
      BY <2>1, <2>5, <3>1 DEF Level, None
    <3>4. Apart(Level(voice["source"]), Mix(voice)["source"]) <= 1
      BY <2>1, <3>1, <3>2, <3>3 DEF Apart
    <3>5. Apart(Level(voice["frozen"]), Mix(voice)["frozen"]) <= 1
      BY <2>1, <3>1, <3>2, <3>3 DEF Apart, Full
    <3>6. Apart(Level(voice["live"]), Mix(voice)["live"]) <= 1
      BY <3>2, <3>3 DEF Apart
    <3>7. QED
      BY <2>1, <3>1, <3>3, <3>4, <3>5, <3>6
  <2>6. QED
    BY <2>1, <2>3, <2>4, <2>5
<1>2. QED
  BY <1>1, HeardInvKept, PTL

\* The stopping hand never lets the string go, nor stops it, within one sample
\* where a pick or a release is to do so by degrees (startExcitation,
\* renderVoice), for contacts of every length that is not under four samples.
THEOREM HandMovesGently == Spec => []StopOpensGently
<1>1. HeardInv => StopOpensGently
  <2> SUFFICES ASSUME HeardInv, voice.active, "gain" \notin breaks
               PROVE  {gain, Restored(voice).gain} # {"open", "shut"}
    BY DEF StopOpensGently
  <2>1. voice \in VoiceType /\ Near(gain, NextGain(voice))
    BY DEF HeardInv, VoiceInv, Sound, Gentle
  <2>2. QED
    BY <2>1, NextGainIs DEF Near
<1>2. QED
  BY <1>1, HeardInvKept, PTL

\* A note that was played and not released is not under an earlier note's
\* stopping hand once its contact is over, however often the note was taken
\* again before the pick reached the string (startVoice, startExcitation).
THEOREM PlayedStaysOpen == Spec => []PlayedStringIsOpen
<1>1. HeardInv => PlayedStringIsOpen
  BY DEF HeardInv, Opening, Restoring, PlayedStringIsOpen
<1>2. QED
  BY <1>1, HeardInvKept, PTL
=============================================================================

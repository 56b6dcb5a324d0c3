---------------------------- MODULE StringVoice ----------------------------
(***************************************************************************)
(* One string of ElectryEngine, sample by sample: the pick that is on its  *)
(* way to it, the crossfade from the fret that sounds to the next one, the *)
(* pick's contact and the hand that stops the string (startVoice,          *)
(* legatoRetarget, beginVoiceRelease, startExcitation, renderVoice).       *)
(*                                                                         *)
(* A head is a place where the string's loop is read and the filters that  *)
(* belong to it: the live one, the one a crossfade comes from              *)
(* (refretSource), and the one it was going to when the next fret was      *)
(* queued behind it (refretFrozenDestination).  Of a head the model keeps  *)
(* how loud it was in the last sample: one that glides is still the same   *)
(* head, one that jumps is another and was not heard.  Of the stopping     *)
(* hand's gain it keeps whether it is open, shut or in between.            *)
(***************************************************************************)
EXTENDS Integers, FiniteSetsExt

CONSTANTS
    Note,       \* the notes this string can play
    Style,      \* the ways it is played that are tried
    Contact,    \* samples a pick stays on the string (plectrumContactSamples)
    Boundary,   \* samples of a crossfade between two frets, another pick's contact
    Excitation, \* samples of a pick's release, and of its tail
    Travel      \* the times a pick may still be on its way

ASSUME VoiceAssumption ==
    /\ Style \subseteq {"Sustain", "PalmMute", "Dead", "Hammer", "Slide"}
    /\ Contact \in Nat /\ Contact >= 4
    /\ Boundary \in Nat /\ Boundary >= 4
    /\ Excitation \in Nat /\ Excitation > 0
    /\ Travel \subseteq Nat /\ 0 \in Travel

None == -1                     \* no such head
New == 0                       \* a head that was not heard
Full == Boundary - 1           \* a head's weight when nothing else is heard
NoNote == "none"
Idle == "idle"

VARIABLES
    voice,     \* the string
    pedal,     \* sustainPedalDown_
    hand,      \* what the picking hand does to every string; "none" before it plays
    overtaken, \* in this very sample a later stroke landed on another string
    gain,      \* history: the stopping hand's gain in the last sample
    breaks     \* history: what the code means to start anew in the next one

vars == <<voice, pedal, hand, overtaken, gain, breaks>>

\* The styles as the picking hand knows them (wholeHandStyle).
Whole(style) == IF style \in {"PalmMute", "Dead"} THEN style ELSE "Sustain"

\* Whether a note of its own is picked (plectrumContacts): a hammered one is not,
\* and neither is any that a finger only moves to.
Plectrum(style) == style # "Hammer"

Silent ==
    [active |-> FALSE, keyDown |-> FALSE, sustained |-> FALSE, releasing |-> FALSE,
     note |-> NoNote, style |-> "Sustain", damping |-> "Sustain",
     delay |-> 0, pending |-> "none", keepsRing |-> FALSE,
     remaining |-> 0, queued |-> FALSE,
     live |-> New, source |-> None, frozen |-> None,
     phase |-> Idle, left |-> 0,
     gain |-> "open", restore |-> 0, start |-> "open", inHand |-> FALSE]

-----------------------------------------------------------------------------
(* What is heard                                                           *)

\* The crossfade has been heard in part; or not at all yet.
Fading(v) == v.remaining \in 1 .. Boundary - 1
Unheard(v) == v.remaining = Boundary

\* How loud each head is in the next sample: a crossfade goes from its source to
\* the queued fret's predecessor, if there is one, and to the live head if not.
Mix(v) ==
    IF v.remaining = 0 THEN [live |-> Full, source |-> 0, frozen |-> 0]
    ELSE [source |-> v.remaining - 1,
          frozen |-> IF v.frozen = None THEN 0 ELSE Boundary - v.remaining,
          live   |-> IF v.frozen = None THEN Boundary - v.remaining ELSE 0]

\* After a sample each head was as loud as the sample mixed it.
Heard(v) ==
    [v EXCEPT !.live = Mix(v).live,
              !.source = IF @ = None THEN None ELSE Mix(v).source,
              !.frozen = IF @ = None THEN None ELSE Mix(v).frozen]

-----------------------------------------------------------------------------
(* The contact with the string                                             *)

\* Whether this contact moves the picking hand: a finger leaves a palm where it
\* is, and of two strokes of one sample the later one counts.
MovesHand(picked, newest) == newest /\ (picked \/ hand # "PalmMute")

HandAfter(style, picked, newest) ==
    IF MovesHand(picked, newest) THEN Whole(style) ELSE hand

Damped(v, picked, newest) ==
    IF MovesHand(picked, newest) THEN Whole(v.style)
    ELSE IF ~picked /\ hand = "PalmMute" THEN "PalmMute"
    ELSE v.damping

\* A finger and a palm take the stopping hand away at once; a pick on a string
\* that goes on ringing takes it away in the course of its contact.
OpensAtOnce(style, picked) == ~picked \/ style = "PalmMute"

StartExcitationAtOnce(v, picked, keeps, newest) ==
    [v EXCEPT !.damping = Damped(v, picked, newest),
              !.inHand = newest \/ (~picked /\ hand = "PalmMute"),
              !.keepsRing = FALSE, !.restore = 0, !.start = "open", !.gain = "open",
              !.phase = IF picked THEN "contact" ELSE "release",
              !.left = IF picked THEN Contact ELSE Excitation]

StartExcitation(v, picked, keeps, newest) ==
    LET contact == IF picked THEN Max({Contact, v.remaining}) ELSE 0
        atOnce == OpensAtOnce(v.style, picked)
        restores == ~atOnce /\ keeps /\ v.gain # "open"
    IN [v EXCEPT !.damping = Damped(v, picked, newest),
                 !.inHand = newest \/ (~picked /\ hand = "PalmMute"),
                 !.keepsRing = FALSE,
                 !.restore = IF restores THEN contact ELSE 0,
                 !.start = IF restores THEN v.gain ELSE "open",
                 !.gain = IF atOnce THEN "open" ELSE @,
                 !.phase = IF picked THEN "contact" ELSE "release",
                 !.left = IF picked THEN contact ELSE Excitation]

-----------------------------------------------------------------------------
(* startVoice                                                              *)

\* A note that is picked at another fret of a string that is in use.
Refrets(v, n, style) == v.active /\ v.note # n /\ Plectrum(style)

\* The pick has to wait until the crossfade that is heard has ended.
WaitsForBoundary(v, n, style) ==
    v.remaining > 0 /\ (v.queued \/ (Refrets(v, n, style) /\ Fading(v)))

ArrivesIn(v, n, style, delay) ==
    IF WaitsForBoundary(v, n, style) THEN Max({delay, v.remaining}) ELSE delay

\* A crossfade begins, from a head that is heard.
BeginRefretHandoff(v, source) ==
    [v EXCEPT !.remaining = Boundary, !.queued = FALSE, !.source = source]

\* Until a later pick comes the string stays under the hand that is on it.
Placed(v, w, delay) ==
    [w EXCEPT !.damping = IF v.active /\ delay > 0 /\ hand # "none"
                          THEN hand ELSE Whole(w.style)]

\* The fret that was next is kept, as what the crossfade that is heard goes to.
QueueRefret(w, heard) ==
    [w EXCEPT !.queued = TRUE,
              !.frozen = IF @ = None THEN heard ELSE @,
              !.live = New]

\* A fret that nothing was heard of yet makes way, its source stays.
StartRefret(v, w) ==
    [BeginRefretHandoff(w, IF v.remaining = 0 THEN v.live ELSE v.source)
        EXCEPT !.live = New]

GeometryUnqueued(v, w, refrets, delay, large) ==
    LET placed == Placed(v, w, delay)
    IN IF refrets /\ (v.remaining > 0 \/ ~large)
       THEN [BeginRefretHandoff(placed, v.live) EXCEPT !.live = New]
       ELSE IF v.remaining = 0 /\ large THEN [placed EXCEPT !.live = New]
       ELSE placed

\* The loop is fitted to the note (configureGeometry).  v is the voice before,
\* w the voice with the note's new owner; a large leap lets the head jump.
Geometry(v, w, refrets, delay, large) ==
    LET placed == Placed(v, w, delay)
    IN IF refrets /\ Fading(v) THEN QueueRefret(placed, v.live)
       ELSE IF refrets /\ (Unheard(v) \/ (v.remaining = 0 /\ ~large))
            THEN StartRefret(v, placed)
       ELSE IF v.remaining = 0 /\ large THEN [placed EXCEPT !.live = New]
       ELSE placed

RepickLaterForgetting(v, style, delay) ==
    [v EXCEPT !.keyDown = TRUE, !.sustained = FALSE,
              !.delay = delay, !.pending = style,
              !.keepsRing = v.delay = 0]

\* The same note again, later: the string goes on as it is until the pick comes.
RepickLater(v, style, delay) ==
    [v EXCEPT !.keyDown = TRUE, !.sustained = FALSE,
              !.delay = delay, !.pending = style,
              !.keepsRing = @ \/ v.delay = 0]

\* The next fret is taken, its pick waits behind the crossfade that is heard.
RefretLater(v, n, style, delay) ==
    LET owned == [v EXCEPT !.keyDown = TRUE, !.sustained = FALSE,
                           !.releasing = FALSE, !.note = n]
    IN [Geometry(v, owned, Refrets(v, n, style), delay, FALSE)
           EXCEPT !.delay = delay, !.pending = style, !.keepsRing = TRUE]

\* The note takes the string; its pick lands now, or is on its way.
Strike(v, n, style, delay, large) ==
    LET owned == [v EXCEPT !.active = TRUE, !.keyDown = TRUE, !.sustained = FALSE,
                           !.releasing = FALSE, !.note = n, !.style = style,
                           !.pending = "none",
                           !.gain = IF Plectrum(style) THEN @ ELSE "open",
                           !.restore = IF Plectrum(style) THEN @ ELSE 0,
                           !.start = IF Plectrum(style) THEN @ ELSE "open"]
        fitted == Geometry(v, owned, Refrets(v, n, style), delay, large)
        waits == IF fitted.queued THEN Max({delay, fitted.remaining}) ELSE delay
    IN [fitted EXCEPT !.delay = waits, !.keepsRing = v.active /\ waits > 0]

-----------------------------------------------------------------------------
(* legatoRetarget and beginVoiceRelease                                    *)

LegatoRetargetQueued(v, n, style) ==
    LET travels == v.delay > 0
        taken == [v EXCEPT !.live = IF v.frozen = None THEN @ ELSE v.frozen,
                           !.frozen = None,
                           !.keyDown = TRUE, !.sustained = FALSE, !.releasing = FALSE,
                           !.note = n, !.style = style, !.damping = Whole(style),
                           !.pending = IF travels /\ @ = "none" THEN v.style ELSE @]
    IN [StartExcitation(taken, FALSE, FALSE, TRUE) EXCEPT !.keepsRing = travels]

\* A finger takes over the head that is heard; a pick on its way stays so.
LegatoRetarget(v, n, style) ==
    LET travels == v.delay > 0
        taken == [v EXCEPT !.live = IF v.frozen = None THEN @ ELSE v.frozen,
                           !.frozen = None, !.queued = FALSE,
                           !.keyDown = TRUE, !.sustained = FALSE, !.releasing = FALSE,
                           !.note = n, !.style = style, !.damping = Whole(style),
                           !.pending = IF travels /\ @ = "none" THEN v.style ELSE @]
    IN [StartExcitation(taken, FALSE, FALSE, TRUE) EXCEPT !.keepsRing = travels]

\* A pick on its way is cancelled; a string that only waited for it is silent.
Release(v) ==
    LET cancelled == [v EXCEPT !.restore = 0, !.start = "open", !.delay = 0,
                               !.pending = "none", !.keepsRing = FALSE]
    IN IF v.delay > 0 /\ ~v.keepsRing THEN Silent
       ELSE [cancelled EXCEPT !.releasing = TRUE, !.sustained = @ /\ v.releasing]

-----------------------------------------------------------------------------
(* The calls                                                               *)

\* A call changes the voice and, where it is said so, starts something anew; a
\* silenced string starts anew in all.
Becomes(v, more) ==
    /\ voice' = v
    /\ breaks' = breaks \cup more \cup (IF v.active THEN {} ELSE {"head", "gain"})
    /\ UNCHANGED <<overtaken, gain>>

OpensIn(style, picked) == IF OpensAtOnce(style, picked) THEN {"gain"} ELSE {}
Leap(v) == IF v.active /\ v.remaining = 0 THEN BOOLEAN ELSE {FALSE}
LeapsIn(v, large) == IF v.active /\ v.remaining = 0 /\ large THEN {"head"} ELSE {}

\* A Note On or a repick takes this string.  "same": by the player who has it
\* (one MPE member's note is another identity); "large": a leap of more than a
\* quarter of the string's length.
Repicked(n, same) == voice.active /\ voice.note = n /\ same
Legato(n, style, same) == style \in {"Hammer", "Slide"} /\ voice.active /\ voice.note # n /\ same

NoteOnLater(n, style, delay, same) ==
    /\ Repicked(n, same) /\ ArrivesIn(voice, n, style, delay) > 0
    /\ Becomes(RepickLater(voice, style, ArrivesIn(voice, n, style, delay)), {})
    /\ UNCHANGED hand

NoteOnQueued(n, style, delay, same) ==
    /\ ~Repicked(n, same) /\ ~Legato(n, style, same) /\ WaitsForBoundary(voice, n, style)
    /\ Becomes(RefretLater(voice, n, style, ArrivesIn(voice, n, style, delay)), {})
    /\ UNCHANGED hand

NoteOnTravels(n, style, delay, same, large) ==
    /\ ~Repicked(n, same) /\ ~Legato(n, style, same)
    /\ ~WaitsForBoundary(voice, n, style) /\ delay > 0
    /\ Becomes(Strike(voice, n, style, delay, large), LeapsIn(voice, large))
    /\ UNCHANGED hand

NoteOnLands(n, style, same, large) ==
    /\ ~Legato(n, style, same) /\ ~WaitsForBoundary(voice, n, style)
    /\ Becomes(StartExcitation(Strike(voice, n, style, 0, large), Plectrum(style),
                               voice.active, TRUE),
               OpensIn(style, Plectrum(style)) \cup LeapsIn(voice, large))
    /\ hand' = HandAfter(style, Plectrum(style), TRUE)

NoteOnLegato(n, style, same) ==
    /\ Legato(n, style, same)
    /\ Becomes(LegatoRetarget(voice, n, style), OpensIn(style, FALSE))
    /\ hand' = HandAfter(style, FALSE, TRUE)

NoteOn(n, style, delay, same) ==
    /\ \/ NoteOnLater(n, style, delay, same)
       \/ NoteOnQueued(n, style, delay, same)
       \/ \E large \in Leap(voice) : NoteOnTravels(n, style, delay, same, large)
       \/ \E large \in Leap(voice) : delay = 0 /\ NoteOnLands(n, style, same, large)
       \/ delay = 0 /\ NoteOnLegato(n, style, same)
    /\ Plectrum(style) \/ delay = 0
    /\ UNCHANGED pedal

NoteOff ==
    /\ voice.active /\ voice.keyDown
    /\ Becomes(IF pedal THEN [voice EXCEPT !.keyDown = FALSE, !.sustained = TRUE]
                        ELSE Release([voice EXCEPT !.keyDown = FALSE]), {})
    /\ UNCHANGED <<pedal, hand>>

\* All notes off; also a member channel that moves to another string.
AllNotesOff ==
    /\ voice.active
    /\ Becomes(Release([voice EXCEPT !.keyDown = FALSE, !.sustained = FALSE]), {})
    /\ UNCHANGED <<pedal, hand>>

SetSustainPedal(down) ==
    /\ pedal # down
    /\ pedal' = down
    /\ LET left == IF ~down /\ voice.active /\ voice.sustained /\ ~voice.keyDown
                   THEN Release(voice) ELSE voice
       IN Becomes([left EXCEPT !.sustained = @ /\ down], {})
    /\ UNCHANGED hand

OtherStringSkipping(style, later) ==
    /\ later => voice.delay = 1
    /\ hand' = HandAfter(style, Plectrum(style), TRUE)
    /\ voice' = IF hand # "none" /\ hand' # hand /\ voice.active /\ voice.delay = 0
                THEN [voice EXCEPT !.damping = hand', !.inHand = TRUE] ELSE voice
    /\ overtaken' = later
    /\ UNCHANGED <<pedal, gain, breaks>>

\* Another string is picked: the hand comes to this one too, unless its own
\* pick is still to strike it afresh.
OtherString(style, later) ==
    /\ later => voice.delay = 1
    /\ hand' = HandAfter(style, Plectrum(style), TRUE)
    /\ voice' = IF /\ hand # "none" /\ hand' # hand
                   /\ voice.active /\ (voice.delay = 0 \/ voice.keepsRing)
                THEN [voice EXCEPT !.damping = hand', !.inHand = TRUE] ELSE voice
    /\ overtaken' = later
    /\ UNCHANGED <<pedal, gain, breaks>>

\* Nothing is left to hear of the string (updateVoiceControl).
Retire ==
    /\ voice.active /\ voice.phase = Idle /\ voice.delay = 0
    /\ Becomes(Silent, {})
    /\ UNCHANGED <<pedal, hand>>

\* A sample that is no number silences the string.
Recover ==
    /\ voice.active
    /\ Becomes(Silent, {})
    /\ UNCHANGED <<pedal, hand>>

Reset ==
    /\ Becomes(Silent, {})
    /\ pedal' = FALSE
    /\ hand' = "none"

-----------------------------------------------------------------------------
(* One sample (renderVoice)                                                *)

\* The stopping hand opens in the course of the contact.
Restored(v) ==
    IF v.restore = 0 \/ v.phase # "contact" THEN v
    ELSE IF v.left <= 1 THEN [v EXCEPT !.gain = "open", !.restore = 0, !.start = "open"]
    ELSE [v EXCEPT !.gain = IF v.left = v.restore THEN v.start ELSE "part"]

NextPhase == [contact |-> "release", release |-> "tail", tail |-> Idle]

Excited(v) ==
    IF v.phase = Idle THEN v
    ELSE IF v.left > 1 THEN [v EXCEPT !.left = @ - 1]
    ELSE [v EXCEPT !.phase = NextPhase[@],
                   !.left = IF v.phase = "tail" THEN 0 ELSE Excitation]

\* A crossfade ends; a fret that was queued behind it begins the next one.
Faded(v) ==
    IF v.remaining = 0 THEN v
    ELSE IF v.remaining > 1 THEN [v EXCEPT !.remaining = @ - 1]
    ELSE IF v.queued THEN [BeginRefretHandoff(v, v.frozen) EXCEPT !.frozen = None]
    ELSE [v EXCEPT !.remaining = 0, !.source = None, !.frozen = None]

\* The hand that stops the string closes.
Stopped(v) ==
    IF ~v.releasing THEN {v}
    ELSE {[v EXCEPT !.gain = g] : g \in IF v.gain = "open" THEN {"part"} ELSE {v.gain, "shut"}}

\* The pick arrives: the one that was put by, with its own style, or the note's.
Arrived(v, large) ==
    LET keeps == v.keepsRing
        delay == ArrivesIn(v, v.note, v.pending, 0)
        struck == [Strike(v, v.note, v.pending, delay, large)
                      EXCEPT !.keyDown = v.keyDown, !.sustained = v.sustained]
    IN IF v.pending = "none" THEN StartExcitation(v, Plectrum(v.style), keeps, ~overtaken)
       ELSE IF struck.delay > 0 THEN struck
       ELSE StartExcitation(struck, Plectrum(v.pending), keeps, ~overtaken)

RenderVoice ==
    /\ voice.active
    /\ gain' = Restored(voice).gain
    /\ \E v \in Stopped(Faded(Excited(Restored(Heard(voice))))) :
          \/ /\ v.delay # 1
             /\ voice' = [v EXCEPT !.delay = Max({0, @ - 1})]
             /\ breaks' = {}
             /\ UNCHANGED hand
          \/ \E large \in IF v.pending = "none" THEN {FALSE} ELSE Leap(v) :
                LET w == Arrived([v EXCEPT !.delay = 0], large)
                    lands == w.delay = 0
                IN /\ v.delay = 1
                   /\ voice' = w
                   /\ breaks' = LeapsIn(v, large) \cup
                          (IF lands THEN OpensIn(w.style, Plectrum(w.style)) ELSE {})
                   /\ hand' = IF lands THEN HandAfter(w.style, Plectrum(w.style), ~overtaken)
                              ELSE hand
    /\ overtaken' = FALSE
    /\ UNCHANGED pedal

-----------------------------------------------------------------------------
(* The string                                                              *)

Init ==
    /\ voice = Silent
    /\ pedal = FALSE
    /\ hand = "none"
    /\ overtaken = FALSE
    /\ gain = "open"
    /\ breaks = {"head", "gain"}

\* Calls come between two samples.
Call ==
    \/ \E n \in Note, style \in Style, delay \in Travel,
          same \in (IF voice.active THEN BOOLEAN ELSE {FALSE}) :
          NoteOn(n, style, delay, same)
    \/ NoteOff
    \/ AllNotesOff
    \/ \E down \in BOOLEAN : SetSustainPedal(down)
    \/ \E style \in Style, later \in BOOLEAN : OtherString(style, later)
    \/ Retire
    \/ Recover
    \/ Reset

Next == (~overtaken /\ Call) \/ RenderVoice

Spec == Init /\ [][Next]_vars

-----------------------------------------------------------------------------
(* Properties                                                              *)

Apart(a, b) == IF a > b THEN a - b ELSE b - a
Level(weight) == IF weight = None THEN 0 ELSE weight

\* Frets change without a click: of the heads that were heard none is dropped,
\* and each goes on as loud as it was, by no more than a crossfade's step, in
\* whatever order notes, fingers and releases come ("a second fret cannot
\* replace a partly heard two-tap mixture with one tap", configureGeometry).
\* A leap too far for a crossfade, and a string from silence, are to jump.
NothingClicks ==
    voice.active /\ "head" \notin breaks =>
        /\ Level(voice.live) + Level(voice.source) + Level(voice.frozen) = Full
        /\ \A role \in {"live", "source", "frozen"} :
              Apart(Level(voice[role]), Mix(voice)[role]) <= 1

\* The stopping hand neither lets a string go nor stops it within a sample: an
\* old note that is struck again opens through the pick's contact, and one that
\* ends closes by degrees.  Palms and fingers open at once, as is said of them.
StopOpensGently ==
    voice.active /\ "gain" \notin breaks =>
        {gain, Restored(voice).gain} # {"open", "shut"}

\* A note that was played and not released rings freely once its contact is
\* over: no stopping hand of an earlier note stays on the string, however often
\* the note was taken again before the pick reached it.
PlayedStringIsOpen ==
    voice.active /\ ~voice.releasing /\ voice.delay = 0 /\ voice.phase # "contact"
        => voice.gain = "open"

\* A crossfade has the head it comes from, a queued fret has the head the
\* crossfade before it goes to, and its pick does not land before that ends.
BoundaryIsWhole ==
    /\ (voice.remaining > 0) <=> (voice.source # None)
    /\ voice.queued <=> (voice.frozen # None)
    /\ voice.queued => voice.remaining > 0
    /\ voice.queued /\ voice.delay > 0 => voice.delay >= voice.remaining

\* There is one picking hand: whatever it does to the strings it does to this
\* one, also while the next pick is on its way to what still rings ("moves the
\* one shared hand").  Not to a string whose own pick lost to a later stroke of
\* the same sample: that one follows from the hand's next change on.
OneHand == voice.inHand => voice.damping = hand
=============================================================================

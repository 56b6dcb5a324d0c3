-------------------------- MODULE ElectryPerformer --------------------------
(***************************************************************************)
(* ElectryPerformer: the playing logic between the processor's events and  *)
(* the guitars.  It interprets keyswitches (HOLD or LATCH), solo keys and  *)
(* held gestures, and mirrors the performance onto a second guitar, the    *)
(* Double, which is fed notes only while Double is the output mode.        *)
(*                                                                         *)
(* A guitar is what the performer tells it: its latches and, per sounding  *)
(* pitch, the Note Ons it got since it was last cleared less the Note Offs.*)
(* Which string takes a note is StringOwnership's subject.                 *)
(***************************************************************************)
EXTENDS Naturals, FiniteSetsExt, SequencesExt

CONSTANTS PlayStyles, Sustain,     \* play styles, and an engine's default one
          PickStyles, DownStroke,  \* pick styles, and an engine's default one
          Strings,                 \* strings with a solo key
          Gestures,                \* the held gestures, vibrato and tremolo
          PlayableNotes, GapNotes, \* written keys that play, and unassigned ones
          Shift,                   \* written key minus sounding pitch
          MaxDown                  \* bound: keys the players hold at one time

ASSUME StyleAssumption == Sustain \in PlayStyles /\ DownStroke \in PickStyles
ASSUME KeyAssumption ==  \* a written key has one meaning
    /\ PlayStyles \intersect (Strings \union Gestures) = {}
    /\ Strings \intersect Gestures = {}
    /\ (PlayStyles \union Strings \union Gestures)
          \intersect (PlayableNotes \union GapNotes) = {}
ASSUME NoteAssumption ==
    /\ Shift \in Nat
    /\ PlayableNotes \subseteq {n \in Nat : n >= Shift}
    /\ GapNotes \subseteq Nat \ PlayableNotes

VARIABLES hold,          \* play-style keys act while held (HOLD), or latch
          pick, base,    \* the requested pick style and base play style
          effective,     \* the play style now in force
          styleOwners, styleOrder, \* held style keys: counts, oldest first
          soloOwners, latchedSolo, \* held solo keys, and the LATCH mask
          mask,          \* the solo mask now in force
          gestureOwners, \* held gesture keys
          pedal, double, \* sustain pedal; Double is the output mode
          main, second,  \* the two guitars
          down           \* the players' fingers: keys physically down

keyVars == <<styleOwners, styleOrder, soloOwners, latchedSolo, gestureOwners>>
vars == <<hold, pick, base, effective, keyVars, mask, pedal, double,
          main, second, down>>

Keys == PlayStyles \union Strings \union Gestures \union PlayableNotes
        \union GapNotes

EngineNote(n) == n - Shift
EngineNotes == {EngineNote(n) : n \in PlayableNotes}

NoOwners(S) == [k \in S |-> 0]

-----------------------------------------------------------------------------
(* What one call does to a guitar.                                         *)

Styled(g, s) == [g EXCEPT !.play = s]
Soloed(g, m) == [g EXCEPT !.solo = m]
Pedalled(g, d) == [g EXCEPT !.pedal = d]
Gestured(g, x, on) == [g EXCEPT !.gesture[x] = on]
Struck(g, n) == [g EXCEPT !.keys[EngineNote(n)] = @ + 1]
Lifted(g, n) == [g EXCEPT !.keys[EngineNote(n)] = IF @ = 0 THEN 0 ELSE @ - 1]
Hushed(g) == [g EXCEPT !.keys = NoOwners(EngineNotes)]

\* An engine reset forgets everything but the two gestures.
ResetGuitar(g) ==
    [Hushed(g) EXCEPT !.pick = DownStroke, !.play = Sustain,
                      !.solo = {}, !.pedal = FALSE]

\* A reset guitar told its latches again.
Relatched(g, p, s, m) ==
    [ResetGuitar(g) EXCEPT !.pick = p, !.play = s, !.solo = m]

-----------------------------------------------------------------------------
(* The performer's own bookkeeping.                                        *)

LatestHeld(order) == IF order = <<>> THEN base ELSE Last(order)

ApplyPlayStyle(s) ==
    /\ effective' = s
    /\ main' = Styled(main, s)
    /\ second' = Styled(second, s)

ApplySoloStringMask(m) ==
    /\ mask' = m
    /\ main' = Soloed(main, m)
    /\ second' = IF double THEN Soloed(second, m) ELSE second

\* A style and a mask at once, as HOLD, release and reset apply them.
ApplyBoth(s, m) ==
    /\ effective' = s
    /\ mask' = m
    /\ main' = Styled(Soloed(main, m), s)
    /\ second' = Styled(IF double THEN Soloed(second, m) ELSE second, s)

HeldSolo(owners) == {x \in Strings : owners[x] > 0}

PressKey(k) ==
    /\ MapThenSumSet(LAMBDA x : down[x], Keys) < MaxDown
    /\ down' = [down EXCEPT ![k] = @ + 1]

LiftKey(k) ==
    /\ down[k] > 0
    /\ down' = [down EXCEPT ![k] = @ - 1]

Init ==
    /\ hold = FALSE
    /\ pick = DownStroke /\ base = Sustain /\ effective = Sustain
    /\ styleOwners = NoOwners(PlayStyles) /\ styleOrder = <<>>
    /\ soloOwners = NoOwners(Strings) /\ latchedSolo = {} /\ mask = {}
    /\ gestureOwners = NoOwners(Gestures)
    /\ pedal = FALSE /\ double = FALSE
    /\ main = [pick |-> DownStroke, play |-> Sustain, solo |-> {},
               pedal |-> FALSE, gesture |-> [x \in Gestures |-> FALSE],
               keys |-> NoOwners(EngineNotes)]
    /\ second = main
    /\ down = NoOwners(Keys)

-----------------------------------------------------------------------------
(* Keyswitches.                                                            *)

PressPickStyle(p) ==
    /\ pick' = p
    /\ main' = [main EXCEPT !.pick = p]
    /\ second' = [second EXCEPT !.pick = p]
    /\ UNCHANGED <<hold, base, effective, keyVars, mask, pedal, double, down>>

PressStyleHeld(s) ==
    /\ hold
    /\ PressKey(s)
    /\ styleOwners' = [styleOwners EXCEPT ![s] = @ + 1]
    /\ styleOrder' = Append(RemoveFirst(styleOrder, s), s)
    /\ ApplyPlayStyle(s)
    /\ UNCHANGED <<hold, pick, base, soloOwners, latchedSolo, gestureOwners,
                   mask, pedal, double>>

PressStyleLatched(s) ==
    /\ ~hold
    /\ PressKey(s)
    /\ base' = s
    /\ ApplyPlayStyle(s)
    /\ UNCHANGED <<hold, pick, keyVars, mask, pedal, double>>

\* Mutant: the base returns even while an older key is still held.
LiftStyleToBase(s) ==
    /\ hold /\ styleOwners[s] > 0
    /\ LiftKey(s)
    /\ styleOwners' = [styleOwners EXCEPT ![s] = @ - 1]
    /\ styleOrder' = IF styleOwners[s] = 1 THEN RemoveFirst(styleOrder, s)
                     ELSE styleOrder
    /\ ApplyPlayStyle(base)
    /\ UNCHANGED <<hold, pick, base, soloOwners, latchedSolo, gestureOwners,
                   mask, pedal, double>>

\* In HOLD, the newest key still held takes over, or else the base style.
LiftStyleHeld(s) ==
    /\ hold /\ styleOwners[s] > 0
    /\ LiftKey(s)
    /\ styleOwners' = [styleOwners EXCEPT ![s] = @ - 1]
    /\ styleOrder' = IF styleOwners[s] = 1 THEN RemoveFirst(styleOrder, s)
                     ELSE styleOrder
    /\ ApplyPlayStyle(LatestHeld(styleOrder'))
    /\ UNCHANGED <<hold, pick, base, soloOwners, latchedSolo, gestureOwners,
                   mask, pedal, double>>

\* A click on the strip selects the base under whatever keys are held.
ClickStyle(s) ==
    /\ base' = s
    /\ IF hold /\ styleOrder # <<>>
       THEN UNCHANGED <<effective, main, second>>
       ELSE ApplyPlayStyle(s)
    /\ UNCHANGED <<hold, pick, keyVars, mask, pedal, double, down>>

PressSoloHeld(x) ==
    /\ hold
    /\ PressKey(x)
    /\ soloOwners' = [soloOwners EXCEPT ![x] = @ + 1]
    /\ ApplySoloStringMask(HeldSolo(soloOwners'))
    /\ UNCHANGED <<hold, pick, base, effective, styleOwners, styleOrder,
                   latchedSolo, gestureOwners, pedal, double>>

PressSoloLatched(x) ==
    /\ ~hold
    /\ PressKey(x)
    /\ latchedSolo' = SymDiff(latchedSolo, {x})
    /\ ApplySoloStringMask(latchedSolo')
    /\ UNCHANGED <<hold, pick, base, effective, styleOwners, styleOrder,
                   soloOwners, gestureOwners, pedal, double>>

LiftSoloHeld(x) ==
    /\ hold /\ soloOwners[x] > 0
    /\ LiftKey(x)
    /\ soloOwners' = [soloOwners EXCEPT ![x] = @ - 1]
    /\ ApplySoloStringMask(HeldSolo(soloOwners'))
    /\ UNCHANGED <<hold, pick, base, effective, styleOwners, styleOrder,
                   latchedSolo, gestureOwners, pedal, double>>

ClearSolo ==
    /\ soloOwners' = NoOwners(Strings)
    /\ latchedSolo' = {}
    /\ ApplySoloStringMask({})
    /\ UNCHANGED <<hold, pick, base, effective, styleOwners, styleOrder,
                   gestureOwners, pedal, double, down>>

\* The release of a keyswitch that counts for nothing now: LATCH mode, or a
\* key pressed before its owners were cleared.
LiftForgottenKey(k) ==
    /\ LiftKey(k)
    /\ \/ k \in PlayStyles /\ (~hold \/ styleOwners[k] = 0)
       \/ k \in Strings /\ (~hold \/ soloOwners[k] = 0)
       \/ k \in Gestures /\ gestureOwners[k] = 0
    /\ UNCHANGED <<hold, pick, base, effective, keyVars, mask, pedal, double,
                   main, second>>

PressGesture(x) ==
    /\ PressKey(x)
    /\ gestureOwners' = [gestureOwners EXCEPT ![x] = @ + 1]
    /\ main' = Gestured(main, x, TRUE)
    /\ second' = Gestured(second, x, TRUE)
    /\ UNCHANGED <<hold, pick, base, effective, styleOwners, styleOrder,
                   soloOwners, latchedSolo, mask, pedal, double>>

LiftGesture(x) ==
    /\ gestureOwners[x] > 0
    /\ LiftKey(x)
    /\ gestureOwners' = [gestureOwners EXCEPT ![x] = @ - 1]
    /\ main' = Gestured(main, x, gestureOwners'[x] > 0)
    /\ second' = Gestured(second, x, gestureOwners'[x] > 0)
    /\ UNCHANGED <<hold, pick, base, effective, styleOwners, styleOrder,
                   soloOwners, latchedSolo, mask, pedal, double>>

-----------------------------------------------------------------------------
(* Notes and controllers.                                                  *)

\* The second guitar hears Note Ons only in Double, and Note Offs always.
PressNote(n) ==
    /\ PressKey(n)
    /\ main' = Struck(main, n)
    /\ second' = IF double THEN Struck(second, n) ELSE second
    /\ UNCHANGED <<hold, pick, base, effective, keyVars, mask, pedal, double>>

LiftNote(n) ==
    /\ LiftKey(n)
    /\ main' = Lifted(main, n)
    /\ second' = Lifted(second, n)
    /\ UNCHANGED <<hold, pick, base, effective, keyVars, mask, pedal, double>>

PressGap(n) ==
    /\ PressKey(n)
    /\ UNCHANGED <<hold, pick, base, effective, keyVars, mask, pedal, double,
                   main, second>>

\* Mutant: the unassigned key's number goes to the engines as it is.
LiftGapThrough(n) ==
    /\ LiftKey(n)
    /\ main' = IF n \in EngineNotes THEN Lifted(main, n + Shift) ELSE main
    /\ second' = IF n \in EngineNotes THEN Lifted(second, n + Shift)
                 ELSE second
    /\ UNCHANGED <<hold, pick, base, effective, keyVars, mask, pedal, double>>

\* An unassigned key owns no note, whatever pitch its number happens to be.
LiftGap(n) ==
    /\ LiftKey(n)
    /\ UNCHANGED <<hold, pick, base, effective, keyVars, mask, pedal, double,
                   main, second>>

SetSustainPedal(d) ==
    /\ pedal' = d
    /\ main' = Pedalled(main, d)
    /\ second' = Pedalled(second, d)
    /\ UNCHANGED <<hold, pick, base, effective, keyVars, mask, double, down>>

\* Mutant: the solo mask is not told to the second guitar on entry.
SetOutputModeUnsoloed(d) ==
    /\ double' = d
    /\ second' = IF d /\ ~double
                 THEN Pedalled(Relatched(second, main.pick, main.play, {}),
                               pedal)
                 ELSE second
    /\ UNCHANGED <<hold, pick, base, effective, keyVars, mask, pedal, main,
                   down>>

\* Entering Double relatches the second guitar instead of cloning notes.
SetOutputMode(d) ==
    /\ double' = d
    /\ second' = IF d /\ ~double
                 THEN Pedalled(Relatched(second, main.pick, main.play,
                                         main.solo), pedal)
                 ELSE second
    /\ UNCHANGED <<hold, pick, base, effective, keyVars, mask, pedal, main,
                   down>>

\* Mutant: the keys held in the mode that ends are not forgotten.
SetPlayStyleKeysHoldKeeping(h) ==
    /\ h # hold
    /\ hold' = h
    /\ ApplyBoth(base, {})
    /\ UNCHANGED <<pick, base, keyVars, pedal, double, down>>

\* Mutant: the latched solo strings survive the switch to HOLD and back.
SetPlayStyleKeysHoldLatched(h) ==
    /\ h # hold
    /\ hold' = h
    /\ styleOwners' = NoOwners(PlayStyles) /\ styleOrder' = <<>>
    /\ soloOwners' = NoOwners(Strings)
    /\ ApplyBoth(base, {})
    /\ UNCHANGED <<pick, base, latchedSolo, gestureOwners, pedal, double, down>>

-----------------------------------------------------------------------------
(* Mode switch, releases and resets.                                       *)

SetPlayStyleKeysHold(h) ==
    /\ h # hold
    /\ hold' = h
    /\ styleOwners' = NoOwners(PlayStyles) /\ styleOrder' = <<>>
    /\ soloOwners' = NoOwners(Strings) /\ latchedSolo' = {}
    /\ ApplyBoth(base, {})
    /\ UNCHANGED <<pick, base, gestureOwners, pedal, double, down>>

\* All Notes Off, first half: keys that act while held are let go.
ReleasePerformanceKeys ==
    /\ styleOwners' = NoOwners(PlayStyles) /\ styleOrder' = <<>>
    /\ soloOwners' = IF hold THEN NoOwners(Strings) ELSE soloOwners
    /\ latchedSolo' = IF hold THEN {} ELSE latchedSolo
    /\ gestureOwners' = NoOwners(Gestures)
    /\ effective' = base
    /\ mask' = IF hold THEN {} ELSE mask
    /\ LET Release(g, solo) ==
             [Styled(g, base) EXCEPT !.solo = solo,
                                     !.gesture = [x \in Gestures |-> FALSE]]
       IN  /\ main' = Release(main, IF hold THEN {} ELSE main.solo)
           /\ second' = Release(second, IF hold /\ double THEN {}
                                        ELSE second.solo)
    /\ UNCHANGED <<hold, pick, base, pedal, double, down>>

\* All Notes Off, second half.
ReleasePlayableNotes ==
    /\ main' = Hushed(main)
    /\ second' = Hushed(second)
    /\ UNCHANGED <<hold, pick, base, effective, keyVars, mask, pedal, double,
                   down>>

\* All Sound Off clears the sound and keeps the performance.
AllSoundOff ==
    /\ effective' = main.play
    /\ main' = Pedalled(Relatched(main, main.pick, main.play, mask), pedal)
    /\ second' = Pedalled(Relatched(second, main.pick, main.play, mask), pedal)
    /\ UNCHANGED <<hold, pick, base, keyVars, mask, pedal, double, down>>

\* Reset to the latches a host or the processor passes.
Reset(p, s) ==
    /\ pick' = p /\ base' = s /\ effective' = s
    /\ styleOwners' = NoOwners(PlayStyles) /\ styleOrder' = <<>>
    /\ soloOwners' = NoOwners(Strings) /\ latchedSolo' = {} /\ mask' = {}
    /\ gestureOwners' = NoOwners(Gestures)
    /\ pedal' = FALSE
    /\ LET Quiet(g) == [Relatched(g, p, s, {}) EXCEPT
                            !.gesture = [x \in Gestures |-> FALSE]]
       IN  main' = Quiet(main) /\ second' = Quiet(second)
    /\ UNCHANGED <<hold, double, down>>

Keyswitch ==
    \/ \E p \in PickStyles : PressPickStyle(p)
    \/ \E s \in PlayStyles : \/ PressStyleHeld(s) \/ PressStyleLatched(s)
                             \/ LiftStyleHeld(s) \/ ClickStyle(s)
    \/ \E x \in Strings : \/ PressSoloHeld(x) \/ PressSoloLatched(x)
                          \/ LiftSoloHeld(x)
    \/ ClearSolo
    \/ \E x \in Gestures : PressGesture(x) \/ LiftGesture(x)
    \/ \E k \in Keys : LiftForgottenKey(k)

Play ==
    \/ \E n \in PlayableNotes : PressNote(n) \/ LiftNote(n)
    \/ \E n \in GapNotes : PressGap(n) \/ LiftGap(n)
    \/ \E d \in BOOLEAN : SetSustainPedal(d) \/ SetOutputMode(d)

Clear ==
    \/ \E h \in BOOLEAN : SetPlayStyleKeysHold(h)
    \/ ReleasePerformanceKeys
    \/ ReleasePlayableNotes
    \/ AllSoundOff
    \/ \E p \in PickStyles, s \in PlayStyles : Reset(p, s)

Next == Keyswitch \/ Play \/ Clear

Spec == Init /\ [][Next]_vars

-----------------------------------------------------------------------------
(* Properties.                                                             *)

\* The style in force is the newest key still held, or the saved base, over
\* every mode switch, All Notes Off, click and reset (latestHeldPlayStyle,
\* applyPlayStyle).
StyleIsLatestOrBase ==
    /\ ToSet(styleOrder) = {s \in PlayStyles : styleOwners[s] > 0}
    /\ ~hold => styleOrder = <<>>
    /\ effective = LatestHeld(styleOrder)

\* The solo mask the strings obey is the held solo keys in HOLD and the
\* latched toggles in LATCH, and never a leftover of the other mode
\* (computeHeldSoloStringMask, setPlayStyleKeysHold).
SoloMaskIsOwned ==
    /\ mask = IF hold THEN HeldSolo(soloOwners) ELSE latchedSolo
    /\ main.solo = mask

\* No style, solo string, gesture or note is counted more often than a
\* finger is down for it: once the players let go of everything, nothing
\* stays held, however the modes were switched and cleared meanwhile.
NoPhantomKeys ==
    /\ \A s \in PlayStyles : styleOwners[s] <= down[s]
    /\ \A x \in Strings : soloOwners[x] <= down[x]
    /\ \A x \in Gestures : gestureOwners[x] <= down[x]
    /\ \A n \in PlayableNotes : main.keys[EngineNote(n)] <= down[n]

\* The two guitars play one performance: styles, pedal and gestures always
\* agree, and in Double the solo mask does (setEngineParameters relatches
\* what the second guitar missed while Double was off).
GuitarsAgree ==
    /\ \A g \in {main, second} :
          /\ g.pick = pick /\ g.play = effective /\ g.pedal = pedal
          /\ \A x \in Gestures : g.gesture[x] <=> gestureOwners[x] > 0
    /\ double => second.solo = main.solo

\* The second guitar never holds a note the first does not, so no Note Off
\* can silence one player and leave the other ringing.
TheDoubleHoldsNoMore ==
    \A n \in EngineNotes : second.keys[n] <= main.keys[n]

\* A held note goes only with its own key or with everything: no other key
\* whose number happens to be its sounding pitch releases it (noteOff's
\* remark on the unassigned written keys).
OnlyItsOwnKeyLifts ==
    [][\A n \in PlayableNotes :
          main'.keys[EngineNote(n)] < main.keys[EngineNote(n)]
             => \/ down'[n] < down[n]
                \/ main'.keys = NoOwners(EngineNotes)]_vars
=============================================================================

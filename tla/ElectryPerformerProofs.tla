----------------------- MODULE ElectryPerformerProofs ------------------------
(***************************************************************************)
(* The performer's promises for every set of styles, strings, gestures and *)
(* notes, and for any number of fingers: nothing is held that no finger    *)
(* holds, the solo mask is owned, the two guitars play one performance,    *)
(* and a held note goes only with its own key.                             *)
(***************************************************************************)
EXTENDS ElectryPerformer, SequenceTheorems, TLAPS

(***************************************************************************)
(* What the proofs need of the state's shape.  It says nothing of the      *)
(* styles in force or of the bound on the fingers.                         *)
(***************************************************************************)
IsGuitar(g) ==
    /\ g = [pick |-> g.pick, play |-> g.play, solo |-> g.solo,
            pedal |-> g.pedal, gesture |-> g.gesture, keys |-> g.keys]
    /\ g.gesture \in [Gestures -> BOOLEAN]
    /\ g.keys \in [EngineNotes -> Nat]

OwnersCounted ==
    /\ styleOwners \in [PlayStyles -> Nat]
    /\ soloOwners \in [Strings -> Nat]
    /\ gestureOwners \in [Gestures -> Nat]
    /\ down \in [Keys -> Nat]

Shape == IsGuitar(main) /\ IsGuitar(second) /\ OwnersCounted

-----------------------------------------------------------------------------
(***************************************************************************)
(* What each call leaves of a guitar.                                      *)
(***************************************************************************)

\* Setting a latch changes that latch and nothing else.
LEMMA StyledFields ==
    ASSUME NEW g, IsGuitar(g), NEW s
    PROVE Styled(g, s) = [pick |-> g.pick, play |-> s, solo |-> g.solo,
              pedal |-> g.pedal, gesture |-> g.gesture, keys |-> g.keys]
BY DEF IsGuitar, Styled

\* Neither does the solo mask.
LEMMA SoloedFields ==
    ASSUME NEW g, IsGuitar(g), NEW m
    PROVE Soloed(g, m) = [pick |-> g.pick, play |-> g.play, solo |-> m,
              pedal |-> g.pedal, gesture |-> g.gesture, keys |-> g.keys]
BY DEF IsGuitar, Soloed

\* Nor the pedal.
LEMMA PedalledFields ==
    ASSUME NEW g, IsGuitar(g), NEW d
    PROVE Pedalled(g, d) = [pick |-> g.pick, play |-> g.play, solo |-> g.solo,
              pedal |-> d, gesture |-> g.gesture, keys |-> g.keys]
BY DEF IsGuitar, Pedalled

\* A gesture key moves that gesture alone.
LEMMA GesturedFields ==
    ASSUME NEW g, IsGuitar(g), NEW x \in Gestures, NEW on \in BOOLEAN
    PROVE /\ Gestured(g, x, on) = [pick |-> g.pick, play |-> g.play,
                 solo |-> g.solo, pedal |-> g.pedal,
                 gesture |-> [g.gesture EXCEPT ![x] = on], keys |-> g.keys]
          /\ IsGuitar(Gestured(g, x, on))
BY DEF IsGuitar, Gestured

\* Hushing lets every note go and nothing else.
LEMMA HushedFields ==
    ASSUME NEW g, IsGuitar(g)
    PROVE Hushed(g) = [pick |-> g.pick, play |-> g.play, solo |-> g.solo,
              pedal |-> g.pedal, gesture |-> g.gesture,
              keys |-> NoOwners(EngineNotes)]
BY DEF IsGuitar, Hushed

\* A reset keeps the gestures and lets every note go.
LEMMA ResetFields ==
    ASSUME NEW g, IsGuitar(g), NEW p, NEW s, NEW m
    PROVE Relatched(g, p, s, m) = [pick |-> p, play |-> s, solo |-> m,
              pedal |-> FALSE, gesture |-> g.gesture,
              keys |-> NoOwners(EngineNotes)]
<1> DEFINE silent == NoOwners(EngineNotes)
           h == [pick |-> g.pick, play |-> g.play, solo |-> g.solo,
                 pedal |-> g.pedal, gesture |-> g.gesture, keys |-> silent]
<1> HIDE DEF silent
<1>1. Relatched(g, p, s, m) =
        [[h EXCEPT !.pick = DownStroke, !.play = Sustain, !.solo = {},
                   !.pedal = FALSE]
           EXCEPT !.pick = p, !.play = s, !.solo = m]
  BY HushedFields DEF Relatched, ResetGuitar, silent
<1>2. Relatched(g, p, s, m) =
        [pick |-> p, play |-> s, solo |-> m, pedal |-> FALSE,
         gesture |-> g.gesture, keys |-> silent]
  BY <1>1
<1> QED
  BY <1>2 DEF silent

\* A playable key sounds one of the guitar's pitches.
LEMMA EngineNoteInRange ==
    ASSUME NEW n \in PlayableNotes PROVE EngineNote(n) \in EngineNotes
BY DEF EngineNotes

\* Two written keys never sound the same pitch.
LEMMA EngineNoteInjective ==
    ASSUME NEW m \in PlayableNotes, NEW n \in PlayableNotes,
           EngineNote(m) = EngineNote(n)
    PROVE m = n
BY NoteAssumption DEF EngineNote

\* A Note On counts one more at that pitch.
LEMMA StruckFields ==
    ASSUME NEW g, IsGuitar(g), NEW n \in PlayableNotes
    PROVE Struck(g, n) = [pick |-> g.pick, play |-> g.play, solo |-> g.solo,
              pedal |-> g.pedal, gesture |-> g.gesture,
              keys |-> [g.keys EXCEPT ![EngineNote(n)] = @ + 1]]
BY EngineNoteInRange DEF IsGuitar, Struck

\* A Note Off counts one less there, and never below none.
LEMMA LiftedFields ==
    ASSUME NEW g, IsGuitar(g), NEW n \in PlayableNotes
    PROVE Lifted(g, n) = [pick |-> g.pick, play |-> g.play, solo |-> g.solo,
              pedal |-> g.pedal, gesture |-> g.gesture,
              keys |-> [g.keys EXCEPT ![EngineNote(n)] =
                            IF @ = 0 THEN 0 ELSE @ - 1]]
BY EngineNoteInRange DEF IsGuitar, Lifted

\* No held note, no held gesture.
LEMMA SilentHand ==
    /\ NoOwners(EngineNotes) \in [EngineNotes -> Nat]
    /\ [x \in Gestures |-> FALSE] \in [Gestures -> BOOLEAN]
BY DEF NoOwners

\* A guitar stays a guitar, whatever it is told.
LEMMA LatchesKeepGuitar ==
    ASSUME NEW g, IsGuitar(g), NEW p, NEW s, NEW m, NEW d
    PROVE /\ IsGuitar(Styled(g, s))
          /\ IsGuitar(Soloed(g, m))
          /\ IsGuitar(Pedalled(g, d))
          /\ IsGuitar(Hushed(g))
          /\ IsGuitar(Relatched(g, p, s, m))
<1>1. g.gesture \in [Gestures -> BOOLEAN] /\ g.keys \in [EngineNotes -> Nat]
  BY DEF IsGuitar
<1>2. IsGuitar(Styled(g, s))
  BY <1>1, StyledFields DEF IsGuitar
<1>3. IsGuitar(Soloed(g, m))
  BY <1>1, SoloedFields DEF IsGuitar
<1>4. IsGuitar(Pedalled(g, d))
  BY <1>1, PedalledFields DEF IsGuitar
<1>5. IsGuitar(Hushed(g))
  BY <1>1, HushedFields, SilentHand DEF IsGuitar
<1>6. IsGuitar(Relatched(g, p, s, m))
  BY <1>1, ResetFields, SilentHand DEF IsGuitar
<1> QED
  BY <1>2, <1>3, <1>4, <1>5, <1>6

\* So does one that is played.
LEMMA NotesKeepGuitar ==
    ASSUME NEW g, IsGuitar(g), NEW n \in PlayableNotes
    PROVE IsGuitar(Struck(g, n)) /\ IsGuitar(Lifted(g, n))
<1>1. g.gesture \in [Gestures -> BOOLEAN] /\ g.keys \in [EngineNotes -> Nat]
  BY DEF IsGuitar
<1>2. [g.keys EXCEPT ![EngineNote(n)] = @ + 1] \in [EngineNotes -> Nat]
  BY <1>1, EngineNoteInRange
<1>3. [g.keys EXCEPT ![EngineNote(n)] = IF @ = 0 THEN 0 ELSE @ - 1]
        \in [EngineNotes -> Nat]
  BY <1>1, EngineNoteInRange
<1>4. IsGuitar(Struck(g, n))
  BY <1>1, <1>2, StruckFields DEF IsGuitar
<1>5. IsGuitar(Lifted(g, n))
  BY <1>1, <1>3, LiftedFields DEF IsGuitar
<1> QED
  BY <1>4, <1>5

\* And one whose keys are released or that is reset.
LEMMA ReleaseKeepsGuitar ==
    ASSUME NEW g, IsGuitar(g), NEW s, NEW m
    PROVE LET released == [Styled(g, s) EXCEPT !.solo = m,
                               !.gesture = [x \in Gestures |-> FALSE]]
          IN  /\ released = [pick |-> g.pick, play |-> s, solo |-> m,
                             pedal |-> g.pedal,
                             gesture |-> [x \in Gestures |-> FALSE],
                             keys |-> g.keys]
              /\ IsGuitar(released)
<1> DEFINE open == [x \in Gestures |-> FALSE]
           released == [Styled(g, s) EXCEPT !.solo = m, !.gesture = open]
           h == [pick |-> g.pick, play |-> s, solo |-> g.solo,
                 pedal |-> g.pedal, gesture |-> g.gesture, keys |-> g.keys]
<1>1. released = [h EXCEPT !.solo = m, !.gesture = open]
  BY StyledFields
<1>2. released = [pick |-> g.pick, play |-> s, solo |-> m, pedal |-> g.pedal,
                  gesture |-> open, keys |-> g.keys]
  <2> HIDE DEF open, released
  <2> QED
    BY <1>1
<1>3. g.keys \in [EngineNotes -> Nat]
  BY DEF IsGuitar
<1>4. IsGuitar(released)
  <2> HIDE DEF released
  <2> QED
    BY <1>2, <1>3, SilentHand DEF IsGuitar
<1> QED
  BY <1>2, <1>4

\* A full reset opens the gestures too.
LEMMA QuietKeepsGuitar ==
    ASSUME NEW g, IsGuitar(g), NEW p, NEW s
    PROVE LET quiet == [Relatched(g, p, s, {}) EXCEPT
                            !.gesture = [x \in Gestures |-> FALSE]]
          IN  /\ quiet = [pick |-> p, play |-> s, solo |-> {},
                          pedal |-> FALSE,
                          gesture |-> [x \in Gestures |-> FALSE],
                          keys |-> NoOwners(EngineNotes)]
              /\ IsGuitar(quiet)
<1> DEFINE open == [x \in Gestures |-> FALSE]
           silent == NoOwners(EngineNotes)
           quiet == [Relatched(g, p, s, {}) EXCEPT !.gesture = open]
           h == [pick |-> p, play |-> s, solo |-> {}, pedal |-> FALSE,
                 gesture |-> g.gesture, keys |-> silent]
<1>1. quiet = [h EXCEPT !.gesture = open]
  BY ResetFields
<1>2. quiet = [pick |-> p, play |-> s, solo |-> {}, pedal |-> FALSE,
               gesture |-> open, keys |-> silent]
  <2> HIDE DEF open, silent, quiet
  <2> QED
    BY <1>1
<1>3. IsGuitar(quiet)
  <2> HIDE DEF quiet
  <2> QED
    BY <1>2, SilentHand DEF IsGuitar
<1> QED
  BY <1>2, <1>3

-----------------------------------------------------------------------------
\* The performer's counters and both guitars keep their shape.
THEOREM ShapeKept == Spec => []Shape
<1>1. Init => Shape
  <2>1. Init => OwnersCounted
    BY DEF Init, OwnersCounted, NoOwners
  <2>2. Init => IsGuitar(main) /\ IsGuitar(second)
    BY SilentHand DEF Init, IsGuitar
  <2> QED
    BY <2>1, <2>2 DEF Shape
<1>2. Shape /\ [Next]_vars => Shape'
  <2> SUFFICES ASSUME Shape, [Next]_vars PROVE Shape'
    OBVIOUS
  <2>0. /\ IsGuitar(main) /\ IsGuitar(second) /\ OwnersCounted
        /\ main.gesture \in [Gestures -> BOOLEAN]
        /\ main.keys \in [EngineNotes -> Nat]
        /\ second.gesture \in [Gestures -> BOOLEAN]
        /\ second.keys \in [EngineNotes -> Nat]
    BY DEF Shape, IsGuitar
  <2> USE <2>0 DEF Shape, keyVars
  <2>1. ASSUME NEW p \in PickStyles, PressPickStyle(p) PROVE Shape'
    BY <2>1 DEF PressPickStyle, OwnersCounted, IsGuitar
  <2>2. ASSUME NEW k \in Keys, PressKey(k)
        PROVE down' \in [Keys -> Nat]
    BY <2>2 DEF PressKey, OwnersCounted
  <2>3. ASSUME NEW k \in Keys, LiftKey(k)
        PROVE down' \in [Keys -> Nat]
    BY <2>3 DEF LiftKey, OwnersCounted
  <2>4. ASSUME NEW s, ApplyPlayStyle(s)
        PROVE IsGuitar(main)' /\ IsGuitar(second)'
    BY <2>4, LatchesKeepGuitar DEF ApplyPlayStyle
  <2>5. ASSUME NEW m, ApplySoloStringMask(m)
        PROVE IsGuitar(main)' /\ IsGuitar(second)'
    BY <2>5, LatchesKeepGuitar DEF ApplySoloStringMask
  <2>6. ASSUME NEW s \in PlayStyles, PressStyleHeld(s) PROVE Shape'
    <3>1. IsGuitar(main)' /\ IsGuitar(second)'
      BY <2>6, <2>4 DEF PressStyleHeld
    <3>2. down' \in [Keys -> Nat]
      BY <2>6, <2>2 DEF PressStyleHeld, Keys
    <3>3. styleOwners' \in [PlayStyles -> Nat]
      BY <2>6 DEF PressStyleHeld, OwnersCounted
    <3> QED
      BY <2>6, <3>1, <3>2, <3>3 DEF PressStyleHeld, OwnersCounted
  <2>7. ASSUME NEW s \in PlayStyles, PressStyleLatched(s) PROVE Shape'
    BY <2>7, <2>2, <2>4 DEF PressStyleLatched, OwnersCounted, Keys
  <2>8. ASSUME NEW s \in PlayStyles, LiftStyleHeld(s) PROVE Shape'
    BY <2>8, <2>3, <2>4 DEF LiftStyleHeld, OwnersCounted, Keys
  <2>9. ASSUME NEW s \in PlayStyles, ClickStyle(s) PROVE Shape'
    BY <2>9, <2>4 DEF ClickStyle, OwnersCounted
  <2>10. ASSUME NEW x \in Strings, PressSoloHeld(x) PROVE Shape'
    BY <2>10, <2>2, <2>5 DEF PressSoloHeld, OwnersCounted, Keys
  <2>11. ASSUME NEW x \in Strings, PressSoloLatched(x) PROVE Shape'
    BY <2>11, <2>2, <2>5 DEF PressSoloLatched, OwnersCounted, Keys
  <2>12. ASSUME NEW x \in Strings, LiftSoloHeld(x) PROVE Shape'
    BY <2>12, <2>3, <2>5 DEF LiftSoloHeld, OwnersCounted, Keys
  <2>13. CASE ClearSolo
    BY <2>13, <2>5 DEF ClearSolo, OwnersCounted, NoOwners
  <2>14. ASSUME NEW x \in Gestures, PressGesture(x) PROVE Shape'
    <3>1. IsGuitar(main)' /\ IsGuitar(second)'
      BY <2>14, GesturedFields DEF PressGesture
    <3>2. down' \in [Keys -> Nat]
      BY <2>14, <2>2 DEF PressGesture, Keys
    <3>3. gestureOwners' \in [Gestures -> Nat]
      BY <2>14 DEF PressGesture, OwnersCounted
    <3> QED
      BY <2>14, <3>1, <3>2, <3>3 DEF PressGesture, OwnersCounted
  <2>15. ASSUME NEW x \in Gestures, LiftGesture(x) PROVE Shape'
    <3> DEFINE on == gestureOwners'[x] > 0
    <3>0. /\ on \in BOOLEAN
          /\ main' = Gestured(main, x, on) /\ second' = Gestured(second, x, on)
      BY <2>15 DEF LiftGesture
    <3>1. IsGuitar(main)' /\ IsGuitar(second)'
      <4> HIDE DEF on
      <4> QED
        BY <3>0, GesturedFields
    <3>2. down' \in [Keys -> Nat]
      BY <2>15, <2>3 DEF LiftGesture, Keys
    <3>3. gestureOwners' \in [Gestures -> Nat]
      BY <2>15 DEF LiftGesture, OwnersCounted
    <3> QED
      BY <2>15, <3>1, <3>2, <3>3 DEF LiftGesture, OwnersCounted
  <2>16. ASSUME NEW k \in Keys, LiftForgottenKey(k) PROVE Shape'
    BY <2>16, <2>3 DEF LiftForgottenKey, OwnersCounted
  <2>17. ASSUME NEW n \in PlayableNotes, PressNote(n) PROVE Shape'
    BY <2>17, <2>2, NotesKeepGuitar
    DEF PressNote, OwnersCounted, Keys
  <2>18. ASSUME NEW n \in PlayableNotes, LiftNote(n) PROVE Shape'
    BY <2>18, <2>3, NotesKeepGuitar
    DEF LiftNote, OwnersCounted, Keys
  <2>19. ASSUME NEW n \in GapNotes, PressGap(n) \/ LiftGap(n) PROVE Shape'
    BY <2>19, <2>2, <2>3 DEF PressGap, LiftGap, OwnersCounted, Keys
  <2>20. ASSUME NEW d \in BOOLEAN, SetSustainPedal(d) PROVE Shape'
    BY <2>20, LatchesKeepGuitar DEF SetSustainPedal, OwnersCounted
  <2>21. ASSUME NEW g, IsGuitar(g), NEW p, NEW s, NEW m, NEW d
         PROVE IsGuitar(Pedalled(Relatched(g, p, s, m), d))
    BY <2>21, LatchesKeepGuitar
  <2>22. ASSUME NEW d \in BOOLEAN, SetOutputMode(d) PROVE Shape'
    BY <2>22, <2>21 DEF SetOutputMode, OwnersCounted
  <2>23. ASSUME NEW h \in BOOLEAN, SetPlayStyleKeysHold(h) PROVE Shape'
    BY <2>23, LatchesKeepGuitar
    DEF SetPlayStyleKeysHold, ApplyBoth, OwnersCounted, NoOwners
  <2>24. CASE ReleasePerformanceKeys
    BY <2>24, ReleaseKeepsGuitar
    DEF ReleasePerformanceKeys, OwnersCounted, NoOwners
  <2>25. CASE ReleasePlayableNotes
    BY <2>25, LatchesKeepGuitar
    DEF ReleasePlayableNotes, OwnersCounted
  <2>26. CASE AllSoundOff
    BY <2>26, <2>21 DEF AllSoundOff, OwnersCounted
  <2>27. ASSUME NEW p \in PickStyles, NEW s \in PlayStyles, Reset(p, s)
         PROVE Shape'
    BY <2>27, QuietKeepsGuitar
    DEF Reset, OwnersCounted, NoOwners
  <2>28. CASE UNCHANGED vars
    BY <2>28 DEF vars, OwnersCounted
  <2> QED
    BY <2>1, <2>6, <2>7, <2>8, <2>9, <2>10, <2>11, <2>12, <2>13, <2>14, <2>15,
       <2>16, <2>17, <2>18, <2>19, <2>20, <2>22, <2>23, <2>24, <2>25, <2>26,
       <2>27, <2>28
    DEF Next, Keyswitch, Play, Clear
<1> QED
  BY <1>1, <1>2, PTL DEF Spec

-----------------------------------------------------------------------------
(***************************************************************************)
(* Steps and held notes: a step strikes a note, lifts one, silences every  *)
(* note, or leaves the first guitar's notes and their fingers alone.       *)
(***************************************************************************)
NotesKept ==
    /\ main'.keys = main.keys
    /\ second'.keys \in {second.keys, NoOwners(EngineNotes)}
    /\ \A n \in PlayableNotes : down'[n] = down[n]

NotesSilenced ==
    /\ main'.keys = NoOwners(EngineNotes)
    /\ second'.keys = NoOwners(EngineNotes)
    /\ \A n \in PlayableNotes : down'[n] = down[n]

\* No keyswitch, controller or mode switch releases a single note.
LEMMA StepsAndNotes ==
    ASSUME Shape, [Next]_vars
    PROVE \/ NotesKept \/ NotesSilenced
          \/ \E n \in PlayableNotes : PressNote(n) \/ LiftNote(n)
<1>0. IsGuitar(main) /\ IsGuitar(second) /\ down \in [Keys -> Nat]
  BY DEF Shape, OwnersCounted
<1>1. ASSUME NEW k \in Keys, k \notin PlayableNotes, PressKey(k) \/ LiftKey(k)
      PROVE \A n \in PlayableNotes : down'[n] = down[n]
  <2>1. CASE PressKey(k)
    BY <1>0, <1>1, <2>1 DEF PressKey, Keys
  <2>2. CASE LiftKey(k)
    BY <1>0, <1>1, <2>2 DEF LiftKey, Keys
  <2> QED
    BY <1>1, <2>1, <2>2
<1>2. /\ PlayStyles \intersect PlayableNotes = {}
      /\ Strings \intersect PlayableNotes = {}
      /\ Gestures \intersect PlayableNotes = {}
      /\ GapNotes \intersect PlayableNotes = {}
  BY KeyAssumption, NoteAssumption
<1>3. ASSUME NEW g, IsGuitar(g), NEW s, NEW m
      PROVE /\ Styled(g, s).keys = g.keys
            /\ Soloed(g, m).keys = g.keys
            /\ Styled(Soloed(g, m), s).keys = g.keys
            /\ Pedalled(g, s).keys = g.keys
  BY <1>3, StyledFields, SoloedFields, PedalledFields, LatchesKeepGuitar
<1>4. ASSUME NEW g, IsGuitar(g), NEW p, NEW s, NEW m, NEW d
      PROVE Pedalled(Relatched(g, p, s, m), d).keys = NoOwners(EngineNotes)
  BY <1>4, ResetFields, PedalledFields, LatchesKeepGuitar
<1> USE DEF keyVars, NotesKept
<1>5. ASSUME NEW s, ApplyPlayStyle(s)
      PROVE main'.keys = main.keys /\ second'.keys = second.keys
  BY <1>0, <1>3, <1>5 DEF ApplyPlayStyle
<1>6. ASSUME NEW m, ApplySoloStringMask(m)
      PROVE main'.keys = main.keys /\ second'.keys = second.keys
  BY <1>0, <1>3, <1>6 DEF ApplySoloStringMask
<1>7. ASSUME NEW p \in PickStyles, PressPickStyle(p) PROVE NotesKept
  BY <1>0, <1>7 DEF PressPickStyle, IsGuitar
<1>8. ASSUME NEW s \in PlayStyles,
             \/ PressStyleHeld(s) \/ PressStyleLatched(s)
             \/ LiftStyleHeld(s) \/ ClickStyle(s)
      PROVE NotesKept
  <2>1. CASE PressStyleHeld(s)
    BY <2>1, <1>1, <1>2, <1>5 DEF PressStyleHeld, Keys
  <2>2. CASE PressStyleLatched(s)
    BY <2>2, <1>1, <1>2, <1>5 DEF PressStyleLatched, Keys
  <2>3. CASE LiftStyleHeld(s)
    BY <2>3, <1>1, <1>2, <1>5 DEF LiftStyleHeld, Keys
  <2>4. CASE ClickStyle(s)
    BY <2>4, <1>5 DEF ClickStyle
  <2> QED
    BY <1>8, <2>1, <2>2, <2>3, <2>4
<1>9. ASSUME NEW x \in Strings,
             PressSoloHeld(x) \/ PressSoloLatched(x) \/ LiftSoloHeld(x)
      PROVE NotesKept
  <2>1. CASE PressSoloHeld(x)
    BY <2>1, <1>1, <1>2, <1>6 DEF PressSoloHeld, Keys
  <2>2. CASE PressSoloLatched(x)
    BY <2>2, <1>1, <1>2, <1>6 DEF PressSoloLatched, Keys
  <2>3. CASE LiftSoloHeld(x)
    BY <2>3, <1>1, <1>2, <1>6 DEF LiftSoloHeld, Keys
  <2> QED
    BY <1>9, <2>1, <2>2, <2>3
<1>10. CASE ClearSolo
  BY <1>10, <1>6 DEF ClearSolo
<1>11. ASSUME NEW x \in Gestures, PressGesture(x) \/ LiftGesture(x)
       PROVE NotesKept
  <2>1. \A n \in PlayableNotes : down'[n] = down[n]
    BY <1>11, <1>1, <1>2 DEF PressGesture, LiftGesture, Keys
  <2>2. PICK on : /\ main' = Gestured(main, x, on)
                  /\ second' = Gestured(second, x, on)
    BY <1>11 DEF PressGesture, LiftGesture
  <2> QED
    BY <1>0, <2>1, <2>2 DEF Gestured, IsGuitar
<1>12. ASSUME NEW k \in Keys, LiftForgottenKey(k) PROVE NotesKept
  BY <1>12, <1>1, <1>2 DEF LiftForgottenKey
<1>13. ASSUME NEW n \in GapNotes, PressGap(n) \/ LiftGap(n) PROVE NotesKept
  BY <1>13, <1>1, <1>2 DEF PressGap, LiftGap, Keys
<1>14. ASSUME NEW d \in BOOLEAN, SetSustainPedal(d) PROVE NotesKept
  BY <1>0, <1>3, <1>14 DEF SetSustainPedal
<1>15. ASSUME NEW d \in BOOLEAN, SetOutputMode(d) PROVE NotesKept
  BY <1>0, <1>4, <1>15 DEF SetOutputMode
<1>16. ASSUME NEW h \in BOOLEAN, SetPlayStyleKeysHold(h) PROVE NotesKept
  BY <1>0, <1>3, <1>16 DEF SetPlayStyleKeysHold, ApplyBoth
<1>17. CASE ReleasePerformanceKeys
  <2>1. ASSUME NEW g, IsGuitar(g), NEW m
        PROVE [Styled(g, base) EXCEPT !.solo = m,
                   !.gesture = [x \in Gestures |-> FALSE]].keys = g.keys
    <3> DEFINE open == [x \in Gestures |-> FALSE]
               released == [Styled(g, base) EXCEPT !.solo = m, !.gesture = open]
    <3>1. released = [pick |-> g.pick, play |-> base, solo |-> m,
                      pedal |-> g.pedal, gesture |-> open, keys |-> g.keys]
      BY <2>1, ReleaseKeepsGuitar
    <3>2. released.keys = g.keys
      <4> HIDE DEF released
      <4> QED
        BY <3>1
    <3> QED
      BY <3>2
  <2>2. main'.keys = main.keys
    BY <1>0, <1>17, <2>1 DEF ReleasePerformanceKeys
  <2>3. second'.keys = second.keys
    BY <1>0, <1>17, <2>1 DEF ReleasePerformanceKeys
  <2> QED
    BY <1>17, <2>2, <2>3 DEF ReleasePerformanceKeys
<1>18. CASE ReleasePlayableNotes
  BY <1>0, <1>18, HushedFields DEF ReleasePlayableNotes, NotesSilenced
<1>19. CASE AllSoundOff
  BY <1>0, <1>4, <1>19 DEF AllSoundOff, NotesSilenced
<1>20. ASSUME NEW p \in PickStyles, NEW s \in PlayStyles, Reset(p, s)
       PROVE NotesSilenced
  <2>1. ASSUME NEW g, IsGuitar(g)
        PROVE [Relatched(g, p, s, {}) EXCEPT
                   !.gesture = [x \in Gestures |-> FALSE]].keys
                = NoOwners(EngineNotes)
    <3> DEFINE open == [x \in Gestures |-> FALSE]
               quiet == [Relatched(g, p, s, {}) EXCEPT !.gesture = open]
    <3>1. quiet = [pick |-> p, play |-> s, solo |-> {}, pedal |-> FALSE,
                   gesture |-> open, keys |-> NoOwners(EngineNotes)]
      BY <2>1, QuietKeepsGuitar
    <3>2. quiet.keys = NoOwners(EngineNotes)
      <4> HIDE DEF quiet
      <4> QED
        BY <3>1
    <3> QED
      BY <3>2
  <2> QED
    BY <1>0, <1>20, <2>1 DEF Reset, NotesSilenced
<1>21. CASE UNCHANGED vars
  BY <1>21 DEF vars
<1> QED
  BY <1>7, <1>8, <1>9, <1>10, <1>11, <1>12, <1>13, <1>14, <1>15, <1>16, <1>17,
     <1>18, <1>19, <1>20, <1>21
  DEF Next, Keyswitch, Play, Clear

-----------------------------------------------------------------------------
\* What a struck note adds, on a guitar that hears it.
LEMMA StruckKeys ==
    ASSUME NEW g, IsGuitar(g), NEW n \in PlayableNotes
    PROVE Struck(g, n).keys = [g.keys EXCEPT ![EngineNote(n)] = @ + 1]
BY StruckFields, NotesKeepGuitar

\* What a lifted note takes.
LEMMA LiftedKeys ==
    ASSUME NEW g, IsGuitar(g), NEW n \in PlayableNotes
    PROVE Lifted(g, n).keys =
              [g.keys EXCEPT ![EngineNote(n)] = IF @ = 0 THEN 0 ELSE @ - 1]
BY LiftedFields, NotesKeepGuitar

\* For any tuning and any number of fingers, the second guitar never holds a
\* note the first does not: Note Ons reach it in Double, Note Offs always.
THEOREM DoubleHoldsNoMore == Spec => []TheDoubleHoldsNoMore
<1>1. Init => TheDoubleHoldsNoMore
  BY DEF Init, TheDoubleHoldsNoMore, NoOwners
<1>2. Shape /\ TheDoubleHoldsNoMore /\ [Next]_vars => TheDoubleHoldsNoMore'
  <2> SUFFICES ASSUME Shape, TheDoubleHoldsNoMore, [Next]_vars,
                      NEW n \in EngineNotes
               PROVE second'.keys[n] <= main'.keys[n]
    BY DEF TheDoubleHoldsNoMore
  <2>0. /\ IsGuitar(main) /\ IsGuitar(second)
        /\ main.keys \in [EngineNotes -> Nat]
        /\ second.keys \in [EngineNotes -> Nat]
        /\ second.keys[n] <= main.keys[n]
    BY DEF Shape, IsGuitar, TheDoubleHoldsNoMore
  <2>1. CASE NotesKept
    BY <2>0, <2>1 DEF NotesKept, NoOwners
  <2>2. CASE NotesSilenced
    BY <2>2 DEF NotesSilenced, NoOwners
  <2>3. ASSUME NEW m \in PlayableNotes, PressNote(m)
        PROVE second'.keys[n] <= main'.keys[n]
    <3>1. main'.keys = [main.keys EXCEPT ![EngineNote(m)] = @ + 1]
      BY <2>0, <2>3, StruckKeys DEF PressNote
    <3>2. \/ second'.keys = [second.keys EXCEPT ![EngineNote(m)] = @ + 1]
          \/ second'.keys = second.keys
      BY <2>0, <2>3, StruckKeys DEF PressNote
    <3> QED
      BY <2>0, <3>1, <3>2, EngineNoteInRange
  <2>4. ASSUME NEW m \in PlayableNotes, LiftNote(m)
        PROVE second'.keys[n] <= main'.keys[n]
    <3>1. main'.keys = [main.keys EXCEPT ![EngineNote(m)] =
                            IF @ = 0 THEN 0 ELSE @ - 1]
      BY <2>0, <2>4, LiftedKeys DEF LiftNote
    <3>2. second'.keys = [second.keys EXCEPT ![EngineNote(m)] =
                              IF @ = 0 THEN 0 ELSE @ - 1]
      BY <2>0, <2>4, LiftedKeys DEF LiftNote
    <3> QED
      BY <2>0, <3>1, <3>2, EngineNoteInRange
  <2> QED
    BY StepsAndNotes, <2>1, <2>2, <2>3, <2>4
<1> QED
  BY <1>1, <1>2, ShapeKept, PTL DEF Spec

\* For any tuning, a held note goes only with its own written key or with
\* every note: the key whose number is its sounding pitch leaves it alone.
THEOREM OwnKeyLifts == Spec => OnlyItsOwnKeyLifts
<1>1. ASSUME Shape, [Next]_vars, NEW n \in PlayableNotes,
             main'.keys[EngineNote(n)] < main.keys[EngineNote(n)]
      PROVE down'[n] < down[n] \/ main'.keys = NoOwners(EngineNotes)
  <2>0. /\ IsGuitar(main) /\ down \in [Keys -> Nat] /\ n \in Keys
        /\ main.keys \in [EngineNotes -> Nat]
        /\ EngineNote(n) \in EngineNotes
    BY <1>1, EngineNoteInRange DEF Shape, OwnersCounted, IsGuitar, Keys
  <2>1. CASE NotesKept
    BY <1>1, <2>0, <2>1 DEF NotesKept
  <2>2. CASE NotesSilenced
    BY <2>2 DEF NotesSilenced
  <2>3. ASSUME NEW m \in PlayableNotes, PressNote(m) PROVE FALSE
    <3>1. main'.keys = [main.keys EXCEPT ![EngineNote(m)] = @ + 1]
      BY <2>0, <2>3, StruckKeys DEF PressNote
    <3> QED
      BY <1>1, <2>0, <3>1, EngineNoteInRange
  <2>4. ASSUME NEW m \in PlayableNotes, LiftNote(m) PROVE down'[n] < down[n]
    <3>1. main'.keys = [main.keys EXCEPT ![EngineNote(m)] =
                            IF @ = 0 THEN 0 ELSE @ - 1]
      BY <2>0, <2>4, LiftedKeys DEF LiftNote
    <3>2. EngineNote(m) = EngineNote(n)
      BY <1>1, <2>0, <3>1, EngineNoteInRange
    <3>3. m = n
      BY <3>2, EngineNoteInjective
    <3> QED
      BY <2>0, <2>4, <3>3 DEF LiftNote, LiftKey
  <2> QED
    BY <1>1, StepsAndNotes, <2>1, <2>2, <2>3, <2>4
<1>2. Shape /\ [Next]_vars =>
        [\A n \in PlayableNotes :
            main'.keys[EngineNote(n)] < main.keys[EngineNote(n)]
               => \/ down'[n] < down[n]
                  \/ main'.keys = NoOwners(EngineNotes)]_vars
  BY <1>1
<1> QED
  BY <1>2, ShapeKept, PTL DEF Spec, OnlyItsOwnKeyLifts

(***************************************************************************)
(* NoPhantomKeys is not inductive: in LATCH the release of a key gives     *)
(* nothing back, so LATCH must own nothing, whatever HOLD left behind.     *)
(***************************************************************************)
LatchOwnsNothing ==
    ~hold => /\ \A s \in PlayStyles : styleOwners[s] = 0
             /\ \A x \in Strings : soloOwners[x] = 0

\* The keyswitch half of NoPhantomKeys.
KeyswitchesOwned ==
    /\ \A s \in PlayStyles : styleOwners[s] <= down[s]
    /\ \A x \in Strings : soloOwners[x] <= down[x]
    /\ \A x \in Gestures : gestureOwners[x] <= down[x]

\* Every step that lifts a key gives back the owner it counted.
LEMMA StepsAndKeyswitches ==
    ASSUME Shape, LatchOwnsNothing, KeyswitchesOwned, [Next]_vars
    PROVE KeyswitchesOwned'
<1>0. /\ styleOwners \in [PlayStyles -> Nat]
      /\ soloOwners \in [Strings -> Nat]
      /\ gestureOwners \in [Gestures -> Nat]
      /\ down \in [Keys -> Nat]
      /\ PlayStyles \subseteq Keys /\ Strings \subseteq Keys
      /\ Gestures \subseteq Keys
      /\ PlayableNotes \subseteq Keys /\ GapNotes \subseteq Keys
  BY DEF Shape, OwnersCounted, Keys
<1>1. /\ PlayStyles \intersect (Strings \union Gestures) = {}
      /\ Strings \intersect Gestures = {}
      /\ (PlayStyles \union Strings \union Gestures)
            \intersect (PlayableNotes \union GapNotes) = {}
  BY KeyAssumption
<1> USE <1>0 DEF KeyswitchesOwned, keyVars
<1>2. ASSUME NEW k \in Keys, PressKey(k)
      PROVE \A j \in Keys : down'[j] = IF j = k THEN down[j] + 1 ELSE down[j]
  BY <1>2 DEF PressKey
<1>3. ASSUME NEW k \in Keys, LiftKey(k)
      PROVE \A j \in Keys : down'[j] = IF j = k THEN down[j] - 1 ELSE down[j]
  BY <1>3 DEF LiftKey
<1>4. ASSUME NEW s \in PlayStyles,
             PressStyleHeld(s) \/ PressStyleLatched(s)
      PROVE KeyswitchesOwned'
  <2>1. \A j \in Keys : down'[j] = IF j = s THEN down[j] + 1 ELSE down[j]
    BY <1>2, <1>4 DEF PressStyleHeld, PressStyleLatched
  <2>2. \/ styleOwners' = [styleOwners EXCEPT ![s] = @ + 1]
        \/ styleOwners' = styleOwners
    BY <1>4 DEF PressStyleHeld, PressStyleLatched
  <2>3. UNCHANGED <<soloOwners, gestureOwners>>
    BY <1>4 DEF PressStyleHeld, PressStyleLatched
  <2> QED
    BY <2>1, <2>2, <2>3
<1>5. ASSUME NEW s \in PlayStyles, LiftStyleHeld(s) PROVE KeyswitchesOwned'
  <2>1. \A j \in Keys : down'[j] = IF j = s THEN down[j] - 1 ELSE down[j]
    BY <1>3, <1>5 DEF LiftStyleHeld
  <2>2. styleOwners' = [styleOwners EXCEPT ![s] = @ - 1] /\ styleOwners[s] > 0
    BY <1>5 DEF LiftStyleHeld
  <2>3. UNCHANGED <<soloOwners, gestureOwners>>
    BY <1>5 DEF LiftStyleHeld
  <2> QED
    BY <1>1, <2>1, <2>2, <2>3
<1>6. ASSUME NEW x \in Strings, PressSoloHeld(x) \/ PressSoloLatched(x)
      PROVE KeyswitchesOwned'
  <2>1. \A j \in Keys : down'[j] = IF j = x THEN down[j] + 1 ELSE down[j]
    BY <1>2, <1>6 DEF PressSoloHeld, PressSoloLatched
  <2>2. \/ soloOwners' = [soloOwners EXCEPT ![x] = @ + 1]
        \/ soloOwners' = soloOwners
    BY <1>6 DEF PressSoloHeld, PressSoloLatched
  <2>3. UNCHANGED <<styleOwners, gestureOwners>>
    BY <1>6 DEF PressSoloHeld, PressSoloLatched
  <2> QED
    BY <2>1, <2>2, <2>3
<1>7. ASSUME NEW x \in Strings, LiftSoloHeld(x) PROVE KeyswitchesOwned'
  <2>1. \A j \in Keys : down'[j] = IF j = x THEN down[j] - 1 ELSE down[j]
    BY <1>3, <1>7 DEF LiftSoloHeld
  <2>2. soloOwners' = [soloOwners EXCEPT ![x] = @ - 1] /\ soloOwners[x] > 0
    BY <1>7 DEF LiftSoloHeld
  <2>3. UNCHANGED <<styleOwners, gestureOwners>>
    BY <1>7 DEF LiftSoloHeld
  <2> QED
    BY <1>1, <2>1, <2>2, <2>3
<1>8. ASSUME NEW x \in Gestures, PressGesture(x) PROVE KeyswitchesOwned'
  <2>1. \A j \in Keys : down'[j] = IF j = x THEN down[j] + 1 ELSE down[j]
    BY <1>2, <1>8 DEF PressGesture
  <2>2. gestureOwners' = [gestureOwners EXCEPT ![x] = @ + 1]
    BY <1>8 DEF PressGesture
  <2>3. UNCHANGED <<styleOwners, soloOwners>>
    BY <1>8 DEF PressGesture
  <2> QED
    BY <2>1, <2>2, <2>3
<1>9. ASSUME NEW x \in Gestures, LiftGesture(x) PROVE KeyswitchesOwned'
  <2>1. \A j \in Keys : down'[j] = IF j = x THEN down[j] - 1 ELSE down[j]
    BY <1>3, <1>9 DEF LiftGesture
  <2>2. /\ gestureOwners' = [gestureOwners EXCEPT ![x] = @ - 1]
        /\ gestureOwners[x] > 0
    BY <1>9 DEF LiftGesture
  <2>3. UNCHANGED <<styleOwners, soloOwners>>
    BY <1>9 DEF LiftGesture
  <2> QED
    BY <1>1, <2>1, <2>2, <2>3
<1>10. ASSUME NEW k \in Keys, LiftForgottenKey(k) PROVE KeyswitchesOwned'
  <2>1. \A j \in Keys : down'[j] = IF j = k THEN down[j] - 1 ELSE down[j]
    BY <1>3, <1>10 DEF LiftForgottenKey
  <2>2. /\ down[k] > 0
        /\ UNCHANGED <<styleOwners, soloOwners, gestureOwners>>
    BY <1>10 DEF LiftForgottenKey, LiftKey
  <2>3. \/ k \in PlayStyles /\ styleOwners[k] = 0
        \/ k \in Strings /\ soloOwners[k] = 0
        \/ k \in Gestures /\ gestureOwners[k] = 0
    BY <1>10 DEF LiftForgottenKey, LatchOwnsNothing
  <2> QED
    BY <1>1, <2>1, <2>2, <2>3
<1>11. ASSUME NEW n \in PlayableNotes \union GapNotes,
              PressNote(n) \/ LiftNote(n) \/ PressGap(n) \/ LiftGap(n)
       PROVE KeyswitchesOwned'
  <2>1. \A j \in Keys : down'[j] = down[j] \/ j = n
    BY <1>2, <1>3, <1>11 DEF PressNote, LiftNote, PressGap, LiftGap
  <2>2. UNCHANGED <<styleOwners, soloOwners, gestureOwners>>
    BY <1>11 DEF PressNote, LiftNote, PressGap, LiftGap
  <2> QED
    BY <1>1, <2>1, <2>2
<1>12. ASSUME /\ styleOwners' \in {styleOwners, NoOwners(PlayStyles)}
              /\ soloOwners' \in {soloOwners, NoOwners(Strings)}
              /\ gestureOwners' \in {gestureOwners, NoOwners(Gestures)}
              /\ down' = down
       PROVE KeyswitchesOwned'
  BY <1>12 DEF NoOwners
<1>13. ASSUME \/ \E p \in PickStyles : PressPickStyle(p)
              \/ \E s \in PlayStyles : ClickStyle(s)
              \/ ClearSolo
              \/ \E d \in BOOLEAN : SetSustainPedal(d) \/ SetOutputMode(d)
       PROVE KeyswitchesOwned'
  BY <1>12, <1>13
  DEF PressPickStyle, ClickStyle, ClearSolo, SetSustainPedal, SetOutputMode
<1>14. CASE Clear
  BY <1>12, <1>14
  DEF Clear, SetPlayStyleKeysHold, ReleasePerformanceKeys,
      ReleasePlayableNotes, AllSoundOff, Reset
<1>15. CASE UNCHANGED vars
  BY <1>12, <1>15 DEF vars
<1> QED
  BY <1>4, <1>5, <1>6, <1>7, <1>8, <1>9, <1>10, <1>11, <1>13, <1>14, <1>15
  DEF Next, Keyswitch, Play

\* LATCH owns nothing after any step (setPlayStyleKeysHold forgets the keys
\* of the mode that ends).
LEMMA StepsAndLatch ==
    ASSUME LatchOwnsNothing, [Next]_vars
    PROVE LatchOwnsNothing'
<1> USE DEF LatchOwnsNothing, keyVars
<1>1. ASSUME NEW s \in PlayStyles,
             \/ PressStyleHeld(s) \/ PressStyleLatched(s)
             \/ LiftStyleHeld(s) \/ ClickStyle(s)
      PROVE LatchOwnsNothing'
  BY <1>1 DEF PressStyleHeld, PressStyleLatched, LiftStyleHeld, ClickStyle
<1>2. ASSUME NEW x \in Strings,
             PressSoloHeld(x) \/ PressSoloLatched(x) \/ LiftSoloHeld(x)
      PROVE LatchOwnsNothing'
  BY <1>2 DEF PressSoloHeld, PressSoloLatched, LiftSoloHeld
<1>3. ASSUME \/ \E p \in PickStyles : PressPickStyle(p)
             \/ \E x \in Gestures : PressGesture(x) \/ LiftGesture(x)
             \/ \E k \in Keys : LiftForgottenKey(k)
             \/ Play
             \/ UNCHANGED vars
      PROVE LatchOwnsNothing'
  <2>1. UNCHANGED <<hold, styleOwners, soloOwners>>
    BY <1>3 DEF PressPickStyle, PressGesture, LiftGesture, LiftForgottenKey,
                Play, PressNote, LiftNote, PressGap, LiftGap, SetSustainPedal,
                SetOutputMode, vars
  <2> QED
    BY <2>1
<1>4. CASE ClearSolo
  BY <1>4 DEF ClearSolo, NoOwners
<1>5. CASE Clear
  BY <1>5 DEF Clear, SetPlayStyleKeysHold, ReleasePerformanceKeys,
      ReleasePlayableNotes, AllSoundOff, Reset, NoOwners
<1> QED
  BY <1>1, <1>2, <1>3, <1>4, <1>5 DEF Next, Keyswitch

\* A sounding pitch is never counted more often than its key is down.
LEMMA StepsAndFingers ==
    ASSUME Shape, [Next]_vars, NEW n \in PlayableNotes,
           main.keys[EngineNote(n)] <= down[n]
    PROVE main'.keys[EngineNote(n)] <= down'[n]
<1>0. /\ EngineNote(n) \in EngineNotes /\ n \in Keys /\ IsGuitar(main)
      /\ down \in [Keys -> Nat] /\ main.keys \in [EngineNotes -> Nat]
  BY EngineNoteInRange DEF Keys, OwnersCounted, Shape, IsGuitar
<1>1. CASE NotesKept
  BY <1>0, <1>1 DEF NotesKept
<1>2. CASE NotesSilenced
  BY <1>0, <1>2 DEF NotesSilenced, NoOwners
<1>3. ASSUME NEW m \in PlayableNotes, PressNote(m)
      PROVE main'.keys[EngineNote(n)] <= down'[n]
  <2>1. main'.keys = [main.keys EXCEPT ![EngineNote(m)] = @ + 1]
    BY <1>0, <1>3, StruckKeys DEF PressNote
  <2>2. down' = [down EXCEPT ![m] = @ + 1]
    BY <1>3 DEF PressNote, PressKey
  <2>3. EngineNote(m) = EngineNote(n) => m = n
    BY EngineNoteInjective
  <2> QED
    BY <1>0, <2>1, <2>2, <2>3
<1>4. ASSUME NEW m \in PlayableNotes, LiftNote(m)
      PROVE main'.keys[EngineNote(n)] <= down'[n]
  <2>1. main'.keys = [main.keys EXCEPT ![EngineNote(m)] =
                          IF @ = 0 THEN 0 ELSE @ - 1]
    BY <1>0, <1>4, LiftedKeys DEF LiftNote
  <2>2. down' = [down EXCEPT ![m] = @ - 1] /\ down[m] > 0
    BY <1>4 DEF LiftNote, LiftKey
  <2>3. EngineNote(m) = EngineNote(n) <=> m = n
    BY EngineNoteInjective
  <2> QED
    BY <1>0, <2>1, <2>2, <2>3
<1> QED
  BY StepsAndNotes, <1>1, <1>2, <1>3, <1>4

\* For any styles, strings, gestures and notes, no count ever exceeds the
\* fingers down, over every mode switch, release and reset.
THEOREM NoPhantoms == Spec => []NoPhantomKeys
<1>1. Init => NoPhantomKeys /\ LatchOwnsNothing
  BY EngineNoteInRange
  DEF Init, NoPhantomKeys, LatchOwnsNothing, NoOwners, Keys
<1>2. Shape /\ LatchOwnsNothing /\ NoPhantomKeys /\ [Next]_vars
        => NoPhantomKeys' /\ LatchOwnsNothing'
  BY StepsAndKeyswitches, StepsAndLatch, StepsAndFingers
  DEF NoPhantomKeys, KeyswitchesOwned
<1> QED
  BY <1>1, <1>2, ShapeKept, PTL DEF Spec

-----------------------------------------------------------------------------
\* Where a guitar's solo mask comes from after each call.
LEMMA SoloAfter ==
    ASSUME NEW g, IsGuitar(g), NEW p, NEW s, NEW m, NEW d
    PROVE /\ Styled(g, s).solo = g.solo
          /\ Soloed(g, m).solo = m
          /\ Styled(Soloed(g, m), s).solo = m
          /\ Pedalled(g, d).solo = g.solo
          /\ Hushed(g).solo = g.solo
          /\ Pedalled(Relatched(g, p, s, m), d).solo = m
<1>1. IsGuitar(Soloed(g, m)) /\ IsGuitar(Relatched(g, p, s, m))
  BY LatchesKeepGuitar
<1>2. Styled(g, s).solo = g.solo /\ Soloed(g, m).solo = m
  BY StyledFields, SoloedFields
<1>3. Styled(Soloed(g, m), s).solo = m
  BY <1>1, <1>2, StyledFields
<1>4. Pedalled(g, d).solo = g.solo /\ Hushed(g).solo = g.solo
  BY PedalledFields, HushedFields
<1>5. Relatched(g, p, s, m).solo = m
  BY ResetFields
<1>6. Pedalled(Relatched(g, p, s, m), d).solo = Relatched(g, p, s, m).solo
  BY <1>1, PedalledFields
<1> QED
  BY <1>2, <1>3, <1>4, <1>5, <1>6

\* For any strings and any number of fingers, the mask the first guitar obeys
\* is the held solo keys in HOLD and the latched toggles in LATCH.
THEOREM SoloMaskOwned == Spec => []SoloMaskIsOwned
<1>0. HeldSolo(NoOwners(Strings)) = {}
  BY DEF HeldSolo, NoOwners
<1>1. Init => SoloMaskIsOwned
  BY DEF Init, SoloMaskIsOwned
<1>2. Shape /\ SoloMaskIsOwned /\ [Next]_vars => SoloMaskIsOwned'
  <2> SUFFICES ASSUME Shape, SoloMaskIsOwned, [Next]_vars
               PROVE SoloMaskIsOwned'
    OBVIOUS
  <2>0. IsGuitar(main)
    BY DEF Shape
  <2> USE DEF SoloMaskIsOwned, keyVars
  <2>1. ASSUME main'.solo = main.solo,
               UNCHANGED <<hold, mask, soloOwners, latchedSolo>>
        PROVE SoloMaskIsOwned'
    BY <2>1 DEF HeldSolo
  <2>2. ASSUME NEW s, ApplyPlayStyle(s) PROVE main'.solo = main.solo
    BY <2>0, <2>2, SoloAfter DEF ApplyPlayStyle
  <2>3. ASSUME NEW m, ApplySoloStringMask(m)
        PROVE main'.solo = m /\ mask' = m
    BY <2>0, <2>3, SoloAfter DEF ApplySoloStringMask
  <2>4. ASSUME NEW p \in PickStyles, PressPickStyle(p) PROVE SoloMaskIsOwned'
    BY <2>0, <2>1, <2>4 DEF PressPickStyle, IsGuitar
  <2>5. ASSUME NEW s \in PlayStyles,
               \/ PressStyleHeld(s) \/ PressStyleLatched(s)
               \/ LiftStyleHeld(s) \/ ClickStyle(s)
        PROVE SoloMaskIsOwned'
    <3>1. UNCHANGED <<hold, mask, soloOwners, latchedSolo>>
      BY <2>5 DEF PressStyleHeld, PressStyleLatched, LiftStyleHeld, ClickStyle,
                  ApplyPlayStyle
    <3>2. main'.solo = main.solo
      BY <2>2, <2>5
      DEF PressStyleHeld, PressStyleLatched, LiftStyleHeld, ClickStyle
    <3> QED
      BY <2>1, <3>1, <3>2
  <2>6. ASSUME NEW x \in Strings,
               PressSoloHeld(x) \/ PressSoloLatched(x) \/ LiftSoloHeld(x)
        PROVE SoloMaskIsOwned'
    BY <2>3, <2>6 DEF PressSoloHeld, PressSoloLatched, LiftSoloHeld, HeldSolo
  <2>7. CASE ClearSolo
    BY <1>0, <2>3, <2>7 DEF ClearSolo, HeldSolo
  <2>8. ASSUME NEW x \in Gestures, PressGesture(x) \/ LiftGesture(x)
        PROVE SoloMaskIsOwned'
    <3>1. PICK on : main' = Gestured(main, x, on)
      BY <2>8 DEF PressGesture, LiftGesture
    <3>2. main'.solo = main.solo
      BY <2>0, <3>1 DEF Gestured, IsGuitar
    <3> QED
      BY <2>1, <2>8, <3>2 DEF PressGesture, LiftGesture
  <2>9. ASSUME NEW n \in PlayableNotes, PressNote(n) \/ LiftNote(n)
        PROVE SoloMaskIsOwned'
    <3>1. Struck(main, n).solo = main.solo /\ Lifted(main, n).solo = main.solo
      BY <2>0, StruckFields, LiftedFields
    <3> QED
      BY <2>1, <2>9, <3>1 DEF PressNote, LiftNote
  <2>10. ASSUME \/ \E k \in Keys : LiftForgottenKey(k)
                \/ \E n \in GapNotes : PressGap(n) \/ LiftGap(n)
                \/ \E d \in BOOLEAN : SetOutputMode(d)
                \/ UNCHANGED vars
         PROVE SoloMaskIsOwned'
    BY <2>1, <2>10 DEF LiftForgottenKey, PressGap, LiftGap, SetOutputMode, vars
  <2>11. ASSUME NEW d \in BOOLEAN, SetSustainPedal(d) PROVE SoloMaskIsOwned'
    BY <2>0, <2>1, <2>11, SoloAfter DEF SetSustainPedal
  <2>12. ASSUME NEW h \in BOOLEAN, SetPlayStyleKeysHold(h)
         PROVE SoloMaskIsOwned'
    <3>1. main'.solo = {} /\ mask' = {} /\ latchedSolo' = {}
      BY <2>0, <2>12, SoloAfter DEF SetPlayStyleKeysHold, ApplyBoth
    <3> QED
      BY <1>0, <2>12, <3>1 DEF SetPlayStyleKeysHold, HeldSolo
  <2>13. CASE ReleasePerformanceKeys
    <3> DEFINE open == [x \in Gestures |-> FALSE]
               solo == IF hold THEN {} ELSE main.solo
               released == [Styled(main, base) EXCEPT !.solo = solo,
                                                      !.gesture = open]
    <3>1. main' = released
      BY <2>13 DEF ReleasePerformanceKeys
    <3>2. released = [pick |-> main.pick, play |-> base, solo |-> solo,
                      pedal |-> main.pedal, gesture |-> open,
                      keys |-> main.keys]
      BY <2>0, ReleaseKeepsGuitar
    <3>3. main'.solo = solo
      <4> HIDE DEF released, solo
      <4> QED
        BY <3>1, <3>2
    <3> QED
      BY <1>0, <2>13, <3>3 DEF ReleasePerformanceKeys, HeldSolo
  <2>14. CASE ReleasePlayableNotes
    BY <2>0, <2>1, <2>14, SoloAfter DEF ReleasePlayableNotes
  <2>15. CASE AllSoundOff
    BY <2>0, <2>1, <2>15, SoloAfter DEF AllSoundOff
  <2>16. ASSUME NEW p \in PickStyles, NEW s \in PlayStyles, Reset(p, s)
         PROVE SoloMaskIsOwned'
    <3> DEFINE open == [x \in Gestures |-> FALSE]
               quiet == [Relatched(main, p, s, {}) EXCEPT !.gesture = open]
    <3>1. main' = quiet
      BY <2>16 DEF Reset
    <3>2. quiet = [pick |-> p, play |-> s, solo |-> {}, pedal |-> FALSE,
                   gesture |-> open, keys |-> NoOwners(EngineNotes)]
      BY <2>0, QuietKeepsGuitar
    <3>3. main'.solo = {}
      <4> HIDE DEF quiet
      <4> QED
        BY <3>1, <3>2
    <3> QED
      BY <1>0, <2>16, <3>3 DEF Reset, HeldSolo
  <2> QED
    BY <2>4, <2>5, <2>6, <2>7, <2>8, <2>9, <2>10, <2>11, <2>12, <2>13, <2>14,
       <2>15, <2>16
    DEF Next, Keyswitch, Play, Clear
<1> QED
  BY <1>1, <1>2, ShapeKept, PTL DEF Spec

-----------------------------------------------------------------------------
(***************************************************************************)
(* One performance on two guitars.                                         *)
(***************************************************************************)

\* A guitar plays what the performer has in force.
Agrees(g) ==
    /\ g.pick = pick /\ g.play = effective /\ g.pedal = pedal
    /\ \A x \in Gestures : g.gesture[x] <=> gestureOwners[x] > 0

\* What each call leaves of a guitar besides its notes.
LEMMA LatchesAfter ==
    ASSUME NEW g, IsGuitar(g), NEW p, NEW s, NEW m, NEW d
    PROVE /\ Styled(g, s).pick = g.pick /\ Styled(g, s).play = s
          /\ Styled(g, s).pedal = g.pedal /\ Styled(g, s).gesture = g.gesture
          /\ Soloed(g, m).pick = g.pick /\ Soloed(g, m).play = g.play
          /\ Soloed(g, m).pedal = g.pedal /\ Soloed(g, m).gesture = g.gesture
          /\ Pedalled(g, d).pick = g.pick /\ Pedalled(g, d).play = g.play
          /\ Pedalled(g, d).pedal = d /\ Pedalled(g, d).gesture = g.gesture
          /\ Hushed(g).pick = g.pick /\ Hushed(g).play = g.play
          /\ Hushed(g).pedal = g.pedal /\ Hushed(g).gesture = g.gesture
          /\ Pedalled(Relatched(g, p, s, m), d).pick = p
          /\ Pedalled(Relatched(g, p, s, m), d).play = s
          /\ Pedalled(Relatched(g, p, s, m), d).pedal = d
          /\ Pedalled(Relatched(g, p, s, m), d).gesture = g.gesture
<1>1. IsGuitar(Relatched(g, p, s, m))
  BY LatchesKeepGuitar
<1>2. /\ Relatched(g, p, s, m).pick = p /\ Relatched(g, p, s, m).play = s
      /\ Relatched(g, p, s, m).gesture = g.gesture
  BY ResetFields
<1>3. /\ Pedalled(Relatched(g, p, s, m), d).pick = Relatched(g, p, s, m).pick
      /\ Pedalled(Relatched(g, p, s, m), d).play = Relatched(g, p, s, m).play
      /\ Pedalled(Relatched(g, p, s, m), d).pedal = d
      /\ Pedalled(Relatched(g, p, s, m), d).gesture = Relatched(g, p, s, m).gesture
  BY <1>1, PedalledFields
<1>4. /\ Styled(g, s).pick = g.pick /\ Styled(g, s).play = s
      /\ Styled(g, s).pedal = g.pedal /\ Styled(g, s).gesture = g.gesture
  BY StyledFields
<1>5. /\ Soloed(g, m).pick = g.pick /\ Soloed(g, m).play = g.play
      /\ Soloed(g, m).pedal = g.pedal /\ Soloed(g, m).gesture = g.gesture
  BY SoloedFields
<1>6. /\ Pedalled(g, d).pick = g.pick /\ Pedalled(g, d).play = g.play
      /\ Pedalled(g, d).pedal = d /\ Pedalled(g, d).gesture = g.gesture
  BY PedalledFields
<1>7. /\ Hushed(g).pick = g.pick /\ Hushed(g).play = g.play
      /\ Hushed(g).pedal = g.pedal /\ Hushed(g).gesture = g.gesture
  BY HushedFields
<1> QED
  BY <1>2, <1>3, <1>4, <1>5, <1>6, <1>7

\* A note moves no latch.
LEMMA NotesKeepLatches ==
    ASSUME NEW g, IsGuitar(g), NEW n \in PlayableNotes
    PROVE \A h \in {Struck(g, n), Lifted(g, n)} :
             /\ h.pick = g.pick /\ h.play = g.play /\ h.solo = g.solo
             /\ h.pedal = g.pedal /\ h.gesture = g.gesture
<1>1. /\ Struck(g, n).pick = g.pick /\ Struck(g, n).play = g.play
      /\ Struck(g, n).solo = g.solo
      /\ Struck(g, n).pedal = g.pedal /\ Struck(g, n).gesture = g.gesture
  BY StruckFields
<1>2. /\ Lifted(g, n).pick = g.pick /\ Lifted(g, n).play = g.play
      /\ Lifted(g, n).solo = g.solo
      /\ Lifted(g, n).pedal = g.pedal /\ Lifted(g, n).gesture = g.gesture
  BY LiftedFields
<1> QED
  BY <1>1, <1>2

\* What a guitar is once its performance keys are released.
LEMMA ReleasedFields ==
    ASSUME NEW g, IsGuitar(g), NEW s, NEW m
    PROVE LET released == [Styled(g, s) EXCEPT !.solo = m,
                               !.gesture = [x \in Gestures |-> FALSE]]
          IN  /\ released.pick = g.pick /\ released.play = s
              /\ released.solo = m /\ released.pedal = g.pedal
              /\ released.gesture = [x \in Gestures |-> FALSE]
<1> DEFINE open == [x \in Gestures |-> FALSE]
           released == [Styled(g, s) EXCEPT !.solo = m, !.gesture = open]
<1>1. released = [pick |-> g.pick, play |-> s, solo |-> m, pedal |-> g.pedal,
                  gesture |-> open, keys |-> g.keys]
  BY ReleaseKeepsGuitar
<1>2. /\ released.pick = g.pick /\ released.play = s /\ released.solo = m
      /\ released.pedal = g.pedal /\ released.gesture = open
  <2> HIDE DEF released, open
  <2> QED
    BY <1>1
<1> QED
  BY <1>2

\* For any styles, strings and gestures, through Double on and off in any state
\* of the performance: the two guitars play one performance, and in Double
\* they solo the same strings.
THEOREM OnePerformance == Spec => []GuitarsAgree
<1>0. GuitarsAgree <=> /\ Agrees(main) /\ Agrees(second)
                       /\ double => second.solo = main.solo
  BY DEF GuitarsAgree, Agrees
<1>00. GuitarsAgree' <=> /\ Agrees(main)' /\ Agrees(second)'
                         /\ double' => second'.solo = main'.solo
  BY DEF GuitarsAgree, Agrees
<1>1. ASSUME Init PROVE GuitarsAgree
  <2>1. /\ main.pick = pick /\ main.play = effective /\ main.pedal = pedal
        /\ main.solo = {} /\ second = main
    BY <1>1 DEF Init
  <2>2. main.gesture = [x \in Gestures |-> FALSE]
    BY <1>1 DEF Init
  <2>3. \A x \in Gestures : ~(gestureOwners[x] > 0)
    BY <1>1 DEF Init, NoOwners
  <2>4. Agrees(main) /\ Agrees(second)
    BY <2>1, <2>2, <2>3 DEF Agrees
  <2> QED
    BY <1>0, <2>1, <2>4
<1>2. Shape /\ GuitarsAgree /\ [Next]_vars => GuitarsAgree'
  <2> SUFFICES ASSUME Shape, GuitarsAgree, [Next]_vars PROVE GuitarsAgree'
    OBVIOUS
  <2>0. /\ IsGuitar(main) /\ IsGuitar(second)
        /\ Agrees(main) /\ Agrees(second)
        /\ double => second.solo = main.solo
        /\ gestureOwners \in [Gestures -> Nat]
    BY <1>0 DEF Shape, OwnersCounted
  <2> USE DEF keyVars
  <2>1. ASSUME NEW s, ApplyPlayStyle(s),
               UNCHANGED <<pick, pedal, gestureOwners, double>>
        PROVE GuitarsAgree'
    BY <1>00, <2>0, <2>1, LatchesAfter, SoloAfter DEF ApplyPlayStyle, Agrees
  <2>2. ASSUME NEW m, ApplySoloStringMask(m),
               UNCHANGED <<pick, effective, pedal, gestureOwners, double>>
        PROVE GuitarsAgree'
    BY <1>00, <2>0, <2>2, LatchesAfter, SoloAfter DEF ApplySoloStringMask, Agrees
  <2>3. ASSUME NEW p \in PickStyles, PressPickStyle(p) PROVE GuitarsAgree'
    <3>1. ASSUME NEW g, IsGuitar(g)
          PROVE [g EXCEPT !.pick = p] =
                  [pick |-> p, play |-> g.play, solo |-> g.solo,
                   pedal |-> g.pedal, gesture |-> g.gesture, keys |-> g.keys]
      BY <3>1 DEF IsGuitar
    <3>2. /\ main' = [pick |-> p, play |-> main.play, solo |-> main.solo,
                      pedal |-> main.pedal, gesture |-> main.gesture,
                      keys |-> main.keys]
          /\ second' = [pick |-> p, play |-> second.play, solo |-> second.solo,
                        pedal |-> second.pedal, gesture |-> second.gesture,
                        keys |-> second.keys]
      BY <2>0, <2>3, <3>1 DEF PressPickStyle
    <3> QED
      BY <1>00, <2>0, <2>3, <3>2 DEF PressPickStyle, Agrees
  <2>4. ASSUME NEW s \in PlayStyles,
               \/ PressStyleHeld(s) \/ PressStyleLatched(s)
               \/ LiftStyleHeld(s) \/ ClickStyle(s)
        PROVE GuitarsAgree'
    <3>1. UNCHANGED <<pick, pedal, gestureOwners, double>>
      BY <2>4 DEF PressStyleHeld, PressStyleLatched, LiftStyleHeld, ClickStyle
    <3>2. (\E t : ApplyPlayStyle(t)) \/ UNCHANGED <<effective, main, second>>
      BY <2>4 DEF PressStyleHeld, PressStyleLatched, LiftStyleHeld, ClickStyle
    <3>3. CASE UNCHANGED <<effective, main, second>>
      BY <1>00, <2>0, <3>1, <3>3 DEF Agrees
    <3> QED
      BY <2>1, <3>1, <3>2, <3>3
  <2>5. ASSUME \/ \E x \in Strings : \/ PressSoloHeld(x) \/ PressSoloLatched(x)
                                     \/ LiftSoloHeld(x)
               \/ ClearSolo
        PROVE GuitarsAgree'
    <3>1. /\ \E m : ApplySoloStringMask(m)
          /\ UNCHANGED <<pick, effective, pedal, gestureOwners, double>>
      BY <2>5 DEF PressSoloHeld, PressSoloLatched, LiftSoloHeld, ClearSolo
    <3> QED
      BY <2>2, <3>1
  <2>6. ASSUME NEW x \in Gestures, PressGesture(x) \/ LiftGesture(x)
        PROVE GuitarsAgree'
    <3> DEFINE on == gestureOwners'[x] > 0
    <3>1. /\ on \in BOOLEAN
          /\ main' = Gestured(main, x, on) /\ second' = Gestured(second, x, on)
          /\ \A y \in Gestures \ {x} : gestureOwners'[y] = gestureOwners[y]
          /\ UNCHANGED <<pick, effective, pedal, double>>
      <4>1. CASE PressGesture(x)
        <5>1. gestureOwners'[x] > 0
          BY <2>0, <4>1 DEF PressGesture
        <5>2. on = TRUE
          BY <5>1
        <5> HIDE DEF on
        <5> QED
          BY <2>0, <4>1, <5>2 DEF PressGesture
      <4>2. CASE LiftGesture(x)
        BY <2>0, <4>2 DEF LiftGesture
      <4> QED
        BY <2>6, <4>1, <4>2
    <3> HIDE DEF on
    <3>2. ASSUME NEW g, IsGuitar(g), Agrees(g), NEW h, h = Gestured(g, x, on)
          PROVE /\ h.pick = pick /\ h.play = effective /\ h.pedal = pedal
                /\ h.solo = g.solo
                /\ h.gesture[x] = on
                /\ \A y \in Gestures \ {x} : h.gesture[y] = g.gesture[y]
      <4>1. g.gesture \in [Gestures -> BOOLEAN]
        BY <3>2 DEF IsGuitar
      <4>2. h = [pick |-> g.pick, play |-> g.play, solo |-> g.solo,
                 pedal |-> g.pedal, gesture |-> [g.gesture EXCEPT ![x] = on],
                 keys |-> g.keys]
        BY <3>1, <3>2, GesturedFields
      <4>3. /\ [g.gesture EXCEPT ![x] = on][x] = on
            /\ \A y \in Gestures \ {x} :
                  [g.gesture EXCEPT ![x] = on][y] = g.gesture[y]
        BY <4>1
      <4>4. /\ h.pick = g.pick /\ h.play = g.play /\ h.pedal = g.pedal
            /\ h.solo = g.solo /\ h.gesture = [g.gesture EXCEPT ![x] = on]
        BY <4>2
      <4> QED
        BY <3>2, <4>3, <4>4 DEF Agrees
    <3>3. /\ main'.solo = main.solo /\ second'.solo = second.solo
          /\ \A h \in {main', second'} :
                /\ h.pick = pick /\ h.play = effective /\ h.pedal = pedal
                /\ h.gesture[x] = on
                /\ \A y \in Gestures \ {x} : h.gesture[y] <=> gestureOwners[y] > 0
      BY <2>0, <3>1, <3>2 DEF Agrees
    <3>4. ASSUME NEW h \in {main', second'}, NEW y \in Gestures
          PROVE h.gesture[y] <=> gestureOwners'[y] > 0
      <4>1. CASE y = x
        BY <3>3, <4>1 DEF on
      <4>2. CASE y # x
        BY <3>1, <3>3, <4>2
      <4> QED
        BY <4>1, <4>2
    <3> QED
      BY <1>00, <2>0, <3>1, <3>3, <3>4 DEF Agrees
  <2>7. ASSUME NEW n \in PlayableNotes, PressNote(n) \/ LiftNote(n)
        PROVE GuitarsAgree'
    <3>1. /\ main' \in {Struck(main, n), Lifted(main, n)}
          /\ second' \in {Struck(second, n), Lifted(second, n), second}
          /\ UNCHANGED <<pick, effective, pedal, gestureOwners, double>>
      BY <2>7 DEF PressNote, LiftNote
    <3>2. \A h \in {main', second'} :
             /\ h.pick = pick /\ h.play = effective /\ h.pedal = pedal
             /\ \A x \in Gestures : h.gesture[x] <=> gestureOwners[x] > 0
      BY <2>0, <3>1, NotesKeepLatches DEF Agrees
    <3>3. main'.solo = main.solo /\ second'.solo = second.solo
      BY <2>0, <3>1, NotesKeepLatches
    <3> QED
      BY <1>00, <2>0, <3>1, <3>2, <3>3 DEF Agrees
  <2>8. ASSUME \/ \E k \in Keys : LiftForgottenKey(k)
               \/ \E n \in GapNotes : PressGap(n) \/ LiftGap(n)
               \/ UNCHANGED vars
        PROVE GuitarsAgree'
    <3>1. UNCHANGED <<pick, effective, pedal, gestureOwners, double, main, second>>
      BY <2>8 DEF LiftForgottenKey, PressGap, LiftGap, vars
    <3> QED
      BY <1>00, <2>0, <3>1 DEF Agrees
  <2>9. ASSUME NEW d \in BOOLEAN, SetSustainPedal(d) PROVE GuitarsAgree'
    BY <1>00, <2>0, <2>9, LatchesAfter, SoloAfter DEF SetSustainPedal, Agrees
  <2>10. ASSUME NEW d \in BOOLEAN, SetOutputMode(d) PROVE GuitarsAgree'
    <3>1. UNCHANGED <<pick, effective, pedal, gestureOwners, main>> /\ double' = d
      BY <2>10 DEF SetOutputMode
    <3>2. CASE d /\ ~double
      <4>1. second' = Pedalled(Relatched(second, main.pick, main.play, main.solo), pedal)
        BY <2>10, <3>2 DEF SetOutputMode
      <4> QED
        BY <1>00, <2>0, <3>1, <4>1, LatchesAfter, SoloAfter DEF Agrees
    <3>3. CASE ~(d /\ ~double)
      <4>1. second' = second /\ (double' => double)
        BY <2>10, <3>3 DEF SetOutputMode
      <4> QED
        BY <1>00, <2>0, <3>1, <4>1 DEF Agrees
    <3> QED
      BY <3>2, <3>3
  <2>11. ASSUME NEW h \in BOOLEAN, SetPlayStyleKeysHold(h) PROVE GuitarsAgree'
    <3>1. /\ main' = Styled(Soloed(main, {}), base)
          /\ second' = Styled(IF double THEN Soloed(second, {}) ELSE second, base)
          /\ effective' = base
          /\ UNCHANGED <<pick, pedal, gestureOwners, double>>
      BY <2>11 DEF SetPlayStyleKeysHold, ApplyBoth
    <3>2. IsGuitar(Soloed(main, {})) /\ IsGuitar(Soloed(second, {}))
      BY <2>0, LatchesKeepGuitar
    <3> QED
      BY <1>00, <2>0, <3>1, <3>2, LatchesAfter, SoloAfter DEF Agrees
  <2>12. CASE ReleasePerformanceKeys
    <3> DEFINE open == [x \in Gestures |-> FALSE]
               one == IF hold THEN {} ELSE main.solo
               other == IF hold /\ double THEN {} ELSE second.solo
               first == [Styled(main, base) EXCEPT !.solo = one, !.gesture = open]
               double2 == [Styled(second, base) EXCEPT !.solo = other, !.gesture = open]
    <3>1. /\ main' = first /\ second' = double2
          /\ effective' = base /\ gestureOwners' = NoOwners(Gestures)
          /\ UNCHANGED <<pick, pedal, double>>
      BY <2>12 DEF ReleasePerformanceKeys
    <3>2. /\ first.pick = main.pick /\ first.play = base /\ first.solo = one
          /\ first.pedal = main.pedal /\ first.gesture = open
      BY <2>0, ReleasedFields
    <3>2b. /\ double2.pick = second.pick /\ double2.play = base
           /\ double2.solo = other
           /\ double2.pedal = second.pedal /\ double2.gesture = open
      BY <2>0, ReleasedFields
    <3>3. double => one = other
      BY <2>0
    <3>4. \A x \in Gestures : ~open[x] /\ ~(gestureOwners'[x] > 0)
      BY <3>1 DEF NoOwners
    <3> HIDE DEF first, double2, open, one, other
    <3>5. /\ \A h \in {main', second'} :
               h.pick = pick /\ h.play = base /\ h.pedal = pedal /\ h.gesture = open
          /\ main'.solo = one /\ second'.solo = other
      BY <2>0, <3>1, <3>2, <3>2b DEF Agrees
    <3> QED
      BY <1>00, <3>1, <3>3, <3>4, <3>5 DEF Agrees
  <2>13. CASE ReleasePlayableNotes
    BY <1>00, <2>0, <2>13, LatchesAfter, SoloAfter DEF ReleasePlayableNotes, Agrees
  <2>14. CASE AllSoundOff
    BY <1>00, <2>0, <2>14, LatchesAfter, SoloAfter DEF AllSoundOff, Agrees
  <2>15. ASSUME NEW p \in PickStyles, NEW s \in PlayStyles, Reset(p, s)
         PROVE GuitarsAgree'
    <3> DEFINE open == [x \in Gestures |-> FALSE]
               Quiet(g) == [Relatched(g, p, s, {}) EXCEPT !.gesture = open]
               still == [pick |-> p, play |-> s, solo |-> {}, pedal |-> FALSE,
                         gesture |-> open, keys |-> NoOwners(EngineNotes)]
    <3>1. /\ main' = Quiet(main) /\ second' = Quiet(second)
          /\ pick' = p /\ effective' = s /\ pedal' = FALSE
          /\ gestureOwners' = NoOwners(Gestures)
      BY <2>15 DEF Reset
    <3>2. Quiet(main) = still /\ Quiet(second) = still
      BY <2>0, QuietKeepsGuitar
    <3>3. \A x \in Gestures : ~open[x] /\ ~(gestureOwners'[x] > 0)
      BY <3>1 DEF NoOwners
    <3> HIDE DEF Quiet, open
    <3>4. \A h \in {main', second'} :
             h.pick = p /\ h.play = s /\ h.pedal = FALSE /\ h.gesture = open /\ h.solo = {}
      BY <3>1, <3>2
    <3> QED
      BY <1>00, <3>1, <3>3, <3>4 DEF Agrees
  <2> QED
    BY <2>3, <2>4, <2>5, <2>6, <2>7, <2>8, <2>9, <2>10, <2>11, <2>12, <2>13,
       <2>14, <2>15
    DEF Next, Keyswitch, Play, Clear
<1> QED
  BY <1>1, <1>2, ShapeKept, PTL DEF Spec

-----------------------------------------------------------------------------
(***************************************************************************)
(* The order of the held style keys: each key once, the newest last.       *)
(***************************************************************************)
Once(q) == \A i, j \in 1 .. Len(q) : q[i] = q[j] => i = j

\* What a sequence is without its k-th element.
LEMMA RemoveAtIs ==
    ASSUME NEW S, NEW q \in Seq(S), NEW k \in 1 .. Len(q)
    PROVE  /\ RemoveAt(q, k) \in Seq(S)
           /\ Len(RemoveAt(q, k)) = Len(q) - 1
           /\ \A j \in 1 .. k - 1 : RemoveAt(q, k)[j] = q[j]
           /\ \A j \in k .. Len(q) - 1 : RemoveAt(q, k)[j] = q[j + 1]
<1> DEFINE a == SubSeq(q, 1, k - 1)
           b == SubSeq(q, k + 1, Len(q))
<1>1. Len(q) \in Nat /\ \A i \in 1 .. Len(q) : q[i] \in S
  BY LenProperties, ElementOfSeq
<1>2. /\ a \in Seq(S) /\ Len(a) = k - 1
      /\ \A i \in 1 .. k - 1 : a[i] = q[i]
  <2>1. 1 \in Int /\ k - 1 \in Int /\ \A i \in 1 .. k - 1 : q[i] \in S
    BY <1>1
  <2>2. /\ a \in Seq(S)
        /\ Len(a) = IF 1 <= k - 1 THEN (k - 1) - 1 + 1 ELSE 0
        /\ \A i \in 1 .. (k - 1) - 1 + 1 : a[i] = q[1 + i - 1]
    BY <2>1, SubSeqProperties
  <2> QED
    BY <1>1, <2>2
<1>3. /\ b \in Seq(S) /\ Len(b) = Len(q) - k
      /\ \A i \in 1 .. Len(q) - k : b[i] = q[k + i]
  <2>1. k + 1 \in Int /\ Len(q) \in Int /\ \A i \in k + 1 .. Len(q) : q[i] \in S
    BY <1>1
  <2>2. /\ b \in Seq(S)
        /\ Len(b) = IF k + 1 <= Len(q) THEN Len(q) - (k + 1) + 1 ELSE 0
        /\ \A i \in 1 .. Len(q) - (k + 1) + 1 : b[i] = q[(k + 1) + i - 1]
    BY <2>1, SubSeqProperties
  <2> QED
    BY <1>1, <2>2
<1> HIDE DEF a, b
<1>4. /\ a \o b \in Seq(S) /\ Len(a \o b) = Len(a) + Len(b)
      /\ \A i \in 1 .. Len(a) + Len(b) :
            (a \o b)[i] = IF i <= Len(a) THEN a[i] ELSE b[i - Len(a)]
  BY <1>2, <1>3, ConcatProperties, Zenon
<1>5. RemoveAt(q, k) = a \o b
  BY DEF RemoveAt, a, b
<1>6. \A j \in 1 .. k - 1 : (a \o b)[j] = q[j]
  BY <1>1, <1>2, <1>3, <1>4
<1>7. ASSUME NEW j \in k .. Len(q) - 1
      PROVE  (a \o b)[j] = q[j + 1]
  <2>1. /\ j \in 1 .. Len(a) + Len(b) /\ ~(j <= Len(a))
        /\ j - Len(a) \in 1 .. Len(q) - k /\ k + (j - Len(a)) = j + 1
    BY <1>1, <1>2, <1>3
  <2>2. (a \o b)[j] = b[j - Len(a)]
    BY <1>4, <2>1
  <2>3. b[j - Len(a)] = q[k + (j - Len(a))]
    BY <1>3, <2>1
  <2> QED
    BY <2>1, <2>2, <2>3
<1> QED
  BY <1>1, <1>2, <1>3, <1>4, <1>5, <1>6, <1>7

\* RemoveFirst takes the one place of an element out.
LEMMA RemoveFirstIs ==
    ASSUME NEW S, NEW q \in Seq(S), Once(q), NEW k \in 1 .. Len(q)
    PROVE  RemoveFirst(q, q[k]) = RemoveAt(q, k)
<1>1. {i \in 1 .. Len(q) : q[i] = q[k]} = {k}
  BY DEF Once
<1>2. k \in Int
  BY LenProperties
<1>3. Min({k}) = k
  BY <1>2 DEF Min
<1>4. SelectInSeq(q, LAMBDA v : v = q[k]) = k
  BY <1>1, <1>3 DEF SelectInSeq
<1> QED
  BY <1>4 DEF RemoveFirst

LEMMA AbsentStays ==
    ASSUME NEW q, NEW e, ~\E i \in 1 .. Len(q) : q[i] = e
    PROVE  RemoveFirst(q, e) = q
BY DEF RemoveFirst

\* A key that is taken out of the order leaves the others in it.
LEMMA OrderWithout ==
    ASSUME NEW S, NEW q \in Seq(S), Once(q), NEW e
    PROVE  /\ RemoveFirst(q, e) \in Seq(S)
           /\ Once(RemoveFirst(q, e))
           /\ ToSet(RemoveFirst(q, e)) = ToSet(q) \ {e}
<1>0. Len(q) \in Nat /\ DOMAIN q = 1 .. Len(q)
  BY LenProperties
<1>1. CASE ~\E i \in 1 .. Len(q) : q[i] = e
  <2>1. RemoveFirst(q, e) = q
    BY <1>1, AbsentStays
  <2>2. e \notin ToSet(q)
    BY <1>0, <1>1 DEF ToSet
  <2> QED
    BY <2>1, <2>2
<1>2. ASSUME NEW k \in 1 .. Len(q), q[k] = e
      PROVE  /\ RemoveFirst(q, e) \in Seq(S)
             /\ Once(RemoveFirst(q, e))
             /\ ToSet(RemoveFirst(q, e)) = ToSet(q) \ {e}
  <2> DEFINE r == RemoveAt(q, k)
  <2>1. RemoveFirst(q, e) = r
    BY <1>2, RemoveFirstIs
  <2>2. /\ r \in Seq(S) /\ Len(r) = Len(q) - 1
        /\ \A j \in 1 .. k - 1 : r[j] = q[j]
        /\ \A j \in k .. Len(q) - 1 : r[j] = q[j + 1]
    BY RemoveAtIs
  <2>3. DOMAIN r = 1 .. Len(q) - 1
    BY <2>2, LenProperties
  <2> HIDE DEF r
  <2>4. ASSUME NEW i \in 1 .. Len(r), NEW j \in 1 .. Len(r), r[i] = r[j]
        PROVE  i = j
    <3>1. /\ i < k => i \in 1 .. k - 1 /\ i \in 1 .. Len(q)
          /\ ~(i < k) => i \in k .. Len(q) - 1 /\ i + 1 \in 1 .. Len(q)
          /\ j < k => j \in 1 .. k - 1 /\ j \in 1 .. Len(q)
          /\ ~(j < k) => j \in k .. Len(q) - 1 /\ j + 1 \in 1 .. Len(q)
      BY <1>0, <2>2
    <3>2. CASE i < k /\ j < k
      BY <2>2, <2>4, <3>1, <3>2 DEF Once
    <3>3. CASE i < k /\ ~(j < k)
      <4>1. q[i] = q[j + 1]
        BY <2>2, <2>4, <3>1, <3>3
      <4>2. i = j + 1
        BY <3>1, <3>3, <4>1 DEF Once
      <4> QED
        BY <3>1, <3>3, <4>2
    <3>4. CASE ~(i < k) /\ j < k
      <4>1. q[i + 1] = q[j]
        BY <2>2, <2>4, <3>1, <3>4
      <4>2. i + 1 = j
        BY <3>1, <3>4, <4>1 DEF Once
      <4> QED
        BY <3>1, <3>4, <4>2
    <3>5. CASE ~(i < k) /\ ~(j < k)
      <4>1. q[i + 1] = q[j + 1]
        BY <2>2, <2>4, <3>1, <3>5
      <4>2. i + 1 = j + 1
        BY <3>1, <3>5, <4>1 DEF Once
      <4> QED
        BY <4>2
    <3> QED
      BY <3>2, <3>3, <3>4, <3>5
  <2>5. ASSUME NEW x \in ToSet(r)
        PROVE  x \in ToSet(q) \ {e}
    <3>1. PICK j \in 1 .. Len(q) - 1 : x = r[j]
      BY <2>3 DEF ToSet
    <3>2. CASE j < k
      <4>1. j \in 1 .. k - 1 /\ j \in 1 .. Len(q) /\ j # k
        BY <1>0, <3>2
      <4>2. x = q[j] /\ q[j] # q[k]
        BY <2>2, <3>1, <4>1 DEF Once
      <4> QED
        BY <1>0, <1>2, <4>1, <4>2 DEF ToSet
    <3>3. CASE ~(j < k)
      <4>1. j \in k .. Len(q) - 1 /\ j + 1 \in 1 .. Len(q) /\ j + 1 # k
        BY <1>0, <3>3
      <4>2. x = q[j + 1] /\ q[j + 1] # q[k]
        BY <2>2, <3>1, <4>1 DEF Once
      <4> QED
        BY <1>0, <1>2, <4>1, <4>2 DEF ToSet
    <3> QED
      BY <3>2, <3>3
  <2>6. ASSUME NEW x \in ToSet(q) \ {e}
        PROVE  x \in ToSet(r)
    <3>1. PICK j \in 1 .. Len(q) : x = q[j]
      BY <1>0 DEF ToSet
    <3>2. CASE j < k
      <4>1. j \in 1 .. k - 1 /\ j \in 1 .. Len(q) - 1
        BY <1>0, <3>2
      <4> QED
        BY <2>2, <2>3, <3>1, <4>1 DEF ToSet
    <3>3. CASE j > k
      <4>1. j - 1 \in k .. Len(q) - 1 /\ j - 1 \in 1 .. Len(q) - 1 /\ (j - 1) + 1 = j
        BY <1>0, <3>3
      <4>2. r[j - 1] = x
        BY <2>2, <3>1, <4>1
      <4> QED
        BY <2>3, <4>1, <4>2 DEF ToSet
    <3>4. j # k
      BY <1>2, <3>1
    <3> QED
      BY <1>0, <3>2, <3>3, <3>4
  <2> QED
    BY <2>1, <2>2, <2>4, <2>5, <2>6 DEF Once
<1> QED
  BY <1>1, <1>2

\* The newest key comes last.
LEMMA OrderWith ==
    ASSUME NEW S, NEW q \in Seq(S), Once(q), NEW e \in S, e \notin ToSet(q)
    PROVE  /\ Append(q, e) \in Seq(S)
           /\ Once(Append(q, e))
           /\ ToSet(Append(q, e)) = ToSet(q) \cup {e}
           /\ Append(q, e) # <<>> /\ Last(Append(q, e)) = e
<1> DEFINE r == Append(q, e)
<1>0. Len(q) \in Nat /\ DOMAIN q = 1 .. Len(q)
  BY LenProperties
<1>1. /\ r \in Seq(S) /\ r # <<>> /\ Len(r) = Len(q) + 1
      /\ \A i \in 1 .. Len(q) : r[i] = q[i]
      /\ r[Len(q) + 1] = e
  BY AppendProperties
<1>2. DOMAIN r = 1 .. Len(q) + 1
  BY <1>1, LenProperties
<1> HIDE DEF r
<1>3. \A i \in 1 .. Len(q) : q[i] # e
  BY <1>0 DEF ToSet
<1>4. Once(r)
  BY <1>0, <1>1, <1>3 DEF Once
<1>5. ToSet(r) = ToSet(q) \cup {e}
  BY <1>0, <1>1, <1>2 DEF ToSet
<1>6. Last(r) = e
  BY <1>1 DEF Last
<1> QED
  BY <1>1, <1>4, <1>5, <1>6 DEF r

\* What the order of the held style keys is, beside its contents.
OrderKept == styleOrder \in Seq(PlayStyles) /\ Once(styleOrder)

HeldStyles == {s \in PlayStyles : styleOwners[s] > 0}

\* The style in force is the newest held key's or the base, for every set of
\* styles and any number of fingers (latestHeldPlayStyle, applyPlayStyle).
\* The proof needs the order to name each held key once.
THEOREM StyleInForce == Spec => []StyleIsLatestOrBase
<1>1. Init => OrderKept /\ StyleIsLatestOrBase
  BY DEF Init, OrderKept, StyleIsLatestOrBase, Once, NoOwners, LatestHeld,
         ToSet
<1>2. /\ Shape /\ GuitarsAgree /\ OrderKept /\ StyleIsLatestOrBase
      /\ [Next]_vars
      => (OrderKept /\ StyleIsLatestOrBase)'
  <2> SUFFICES ASSUME Shape, GuitarsAgree, OrderKept, StyleIsLatestOrBase,
                      [Next]_vars
               PROVE  (OrderKept /\ StyleIsLatestOrBase)'
    OBVIOUS
  <2>0. /\ styleOwners \in [PlayStyles -> Nat]
        /\ styleOrder \in Seq(PlayStyles) /\ Once(styleOrder)
        /\ ToSet(styleOrder) = HeldStyles
        /\ ~hold => styleOrder = <<>>
        /\ effective = LatestHeld(styleOrder)
    BY DEF Shape, OwnersCounted, OrderKept, StyleIsLatestOrBase, HeldStyles
  <2>1. ASSUME UNCHANGED <<hold, base, effective, styleOwners, styleOrder>>
        PROVE  (OrderKept /\ StyleIsLatestOrBase)'
    BY <2>1 DEF OrderKept, StyleIsLatestOrBase, LatestHeld
  <2>2. ASSUME styleOwners' = NoOwners(PlayStyles), styleOrder' = <<>>,
               effective' = base'
        PROVE  (OrderKept /\ StyleIsLatestOrBase)'
    BY <2>2 DEF OrderKept, StyleIsLatestOrBase, LatestHeld, NoOwners, ToSet,
                Once
  <2>3. ASSUME NEW s \in PlayStyles, PressStyleHeld(s)
        PROVE  (OrderKept /\ StyleIsLatestOrBase)'
    <3> DEFINE rest == RemoveFirst(styleOrder, s)
    <3>1. /\ styleOrder' = Append(rest, s) /\ effective' = s
          /\ styleOwners' = [styleOwners EXCEPT ![s] = @ + 1]
          /\ hold' /\ base' = base
      BY <2>3 DEF PressStyleHeld, ApplyPlayStyle
    <3>2. /\ rest \in Seq(PlayStyles) /\ Once(rest)
          /\ ToSet(rest) = HeldStyles \ {s}
      BY <2>0, OrderWithout
    <3> HIDE DEF rest
    <3>3. s \notin ToSet(rest)
      BY <3>2
    <3>4. /\ styleOrder' \in Seq(PlayStyles) /\ Once(styleOrder')
          /\ ToSet(styleOrder') = ToSet(rest) \cup {s}
          /\ styleOrder' # <<>> /\ Last(styleOrder') = s
      BY <3>1, <3>2, <3>3, OrderWith
    <3>5. ToSet(styleOrder') = {x \in PlayStyles : styleOwners'[x] > 0}
      BY <2>0, <3>1, <3>2, <3>4 DEF HeldStyles
    <3> QED
      BY <3>1, <3>4, <3>5 DEF OrderKept, StyleIsLatestOrBase, LatestHeld
  <2>4. ASSUME NEW s \in PlayStyles, PressStyleLatched(s)
        PROVE  (OrderKept /\ StyleIsLatestOrBase)'
    <3>1. /\ UNCHANGED <<hold, styleOwners, styleOrder>>
          /\ effective' = base' /\ styleOrder = <<>>
      BY <2>0, <2>4 DEF PressStyleLatched, ApplyPlayStyle, keyVars
    <3> QED
      BY <2>0, <3>1
      DEF OrderKept, StyleIsLatestOrBase, LatestHeld, HeldStyles
  <2>5. ASSUME NEW s \in PlayStyles, LiftStyleHeld(s)
        PROVE  (OrderKept /\ StyleIsLatestOrBase)'
    <3> DEFINE rest == RemoveFirst(styleOrder, s)
    <3>1. /\ styleOrder' = IF styleOwners[s] = 1 THEN rest ELSE styleOrder
          /\ styleOwners' = [styleOwners EXCEPT ![s] = @ - 1]
          /\ styleOwners[s] > 0
          /\ hold' /\ base' = base
          /\ effective' = LatestHeld(styleOrder')
      BY <2>5 DEF LiftStyleHeld, ApplyPlayStyle
    <3>2. /\ rest \in Seq(PlayStyles) /\ Once(rest)
          /\ ToSet(rest) = HeldStyles \ {s}
      BY <2>0, OrderWithout
    <3> HIDE DEF rest
    <3>3. styleOrder' \in Seq(PlayStyles) /\ Once(styleOrder')
      BY <2>0, <3>1, <3>2
    <3>4. ToSet(styleOrder') = {x \in PlayStyles : styleOwners'[x] > 0}
      BY <2>0, <3>1, <3>2 DEF HeldStyles
    <3> QED
      BY <3>1, <3>3, <3>4 DEF OrderKept, StyleIsLatestOrBase, LatestHeld
  <2>6. ASSUME NEW s \in PlayStyles, ClickStyle(s)
        PROVE  (OrderKept /\ StyleIsLatestOrBase)'
    <3>1. UNCHANGED <<hold, styleOwners, styleOrder>> /\ base' = s
      BY <2>6 DEF ClickStyle, keyVars
    <3>2. styleOrder # <<>> => effective' = effective
      BY <2>0, <2>6 DEF ClickStyle
    <3>3. styleOrder = <<>> => effective' = s
      BY <2>6 DEF ClickStyle, ApplyPlayStyle
    <3> QED
      BY <2>0, <3>1, <3>2, <3>3
      DEF OrderKept, StyleIsLatestOrBase, LatestHeld, HeldStyles
  <2>7. ASSUME NEW h \in BOOLEAN, SetPlayStyleKeysHold(h)
        PROVE  (OrderKept /\ StyleIsLatestOrBase)'
    BY <2>2, <2>7 DEF SetPlayStyleKeysHold, ApplyBoth
  <2>8. CASE ReleasePerformanceKeys
    BY <2>2, <2>8 DEF ReleasePerformanceKeys
  <2>9. ASSUME NEW p \in PickStyles, NEW s \in PlayStyles, Reset(p, s)
        PROVE  (OrderKept /\ StyleIsLatestOrBase)'
    BY <2>2, <2>9 DEF Reset
  <2>10. CASE AllSoundOff
    <3>1. effective' = effective
      BY <2>10 DEF AllSoundOff, GuitarsAgree
    <3> QED
      BY <2>1, <2>10, <3>1 DEF AllSoundOff, keyVars
  <2>11. ASSUME NEW p \in PickStyles, PressPickStyle(p)
         PROVE  (OrderKept /\ StyleIsLatestOrBase)'
    BY <2>1, <2>11 DEF PressPickStyle, keyVars
  <2>12. ASSUME NEW x \in Strings,
                \/ PressSoloHeld(x) \/ PressSoloLatched(x) \/ LiftSoloHeld(x)
         PROVE  (OrderKept /\ StyleIsLatestOrBase)'
    BY <2>1, <2>12 DEF PressSoloHeld, PressSoloLatched, LiftSoloHeld
  <2>13. ASSUME NEW x \in Gestures, PressGesture(x) \/ LiftGesture(x)
         PROVE  (OrderKept /\ StyleIsLatestOrBase)'
    BY <2>1, <2>13 DEF PressGesture, LiftGesture
  <2>14. CASE ClearSolo \/ ReleasePlayableNotes \/ UNCHANGED vars
    BY <2>1, <2>14 DEF ClearSolo, ReleasePlayableNotes, vars, keyVars
  <2>15. ASSUME NEW k \in Keys, LiftForgottenKey(k)
         PROVE  (OrderKept /\ StyleIsLatestOrBase)'
    BY <2>1, <2>15 DEF LiftForgottenKey, keyVars
  <2>16. ASSUME NEW n, \/ PressNote(n) \/ LiftNote(n)
                       \/ PressGap(n) \/ LiftGap(n)
         PROVE  (OrderKept /\ StyleIsLatestOrBase)'
    BY <2>1, <2>16 DEF PressNote, LiftNote, PressGap, LiftGap, keyVars
  <2>17. ASSUME NEW d \in BOOLEAN, SetSustainPedal(d) \/ SetOutputMode(d)
         PROVE  (OrderKept /\ StyleIsLatestOrBase)'
    BY <2>1, <2>17 DEF SetSustainPedal, SetOutputMode, keyVars
  <2> QED
    BY <2>3, <2>4, <2>5, <2>6, <2>7, <2>8, <2>9, <2>10, <2>11, <2>12, <2>13,
       <2>14, <2>15, <2>16, <2>17
    DEF Next, Keyswitch, Play, Clear
<1> QED
  BY <1>1, <1>2, ShapeKept, OnePerformance, PTL DEF Spec
=============================================================================

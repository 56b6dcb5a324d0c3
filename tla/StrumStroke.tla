---------------------------- MODULE StrumStroke ----------------------------
(***************************************************************************)
(* The picking hand of the guitar engine (ElectryEngine.cpp): one wrist    *)
(* that crosses the strings of a chord.                                    *)
(*                                                                         *)
(* Notes that arrive within a window are one stroke.  It has a direction   *)
(* and an edge where the pick enters, and reaches every string after the   *)
(* travel from that edge.  Notes called one at a time wait out a pre-roll, *)
(* in which a note farther out may still move the edge; a chord called     *)
(* whole knows its edge.  Alternate reserves a direction per stroke when   *)
(* the first note comes, and gives it back if no pick of the stroke ever   *)
(* lands.  A pick that travels can be called off, started again, or left   *)
(* to land after a hammered note.                                          *)
(*                                                                         *)
(* One step of the clock stands for many samples: the timings are small    *)
(* numbers with the order the code's constants have.                       *)
(***************************************************************************)
EXTENDS Naturals, Integers, FiniteSets, FiniteSetsExt, Sequences, SequencesExt

CONSTANTS
    StringCount,
    None,
    Hosts,         \* the ways a host may play, see Host
    Window,        \* notes that come within it are one stroke
    PreRoll        \* how long a note called alone is held back, see Onset

Strings == 1..StringCount

\* What a host uses: strings and their pitches, keyswitches, settings of Strum
\* Spread (ticks from string to string), the pedal and B0; by how much its
\* strokes may be late (the variation seed), and for how long a fret boundary
\* that already sounds may hold up the pick.
Host == [strings : SUBSET Strings, notes : SUBSET Nat,
         picks : SUBSET {"Down", "Up", "Alternate"},
         plays : SUBSET {"Sustain", "Hammer", "Slide"},
         spreads : SUBSET Nat, pedal : BOOLEAN, tremolo : BOOLEAN,
         delays : SUBSET Nat, boundaries : SUBSET Nat]

ASSUME StrokeAssumption ==
    /\ StringCount \in Nat /\ None \notin Nat \cup BOOLEAN
    /\ \A h \in Hosts : /\ h \in Host
                        /\ \A times \in {h.spreads, h.delays} :
                              times # {} /\ IsFiniteSet(times)
    /\ Window \in Nat /\ PreRoll \in 1 .. Window

VARIABLES
    hand,      \* the latched styles, Alternate's next direction, pedal and B0
    stroke,    \* the stroke being assembled or played
    string,    \* what each string does
    spread,    \* the Strum Spread control
    struck,    \* a pick landed at this very clock
    heard,     \* history: the strokes the listener heard, see Hear
    host       \* who plays, of Hosts
vars == <<hand, stroke, string, spread, struck, heard, host>>

\* Beyond this age of a stroke nothing depends on the clock any more.
Aged ==
    Max({Window, PreRoll + (Max(host.spreads) * (StringCount - 1)) + Max(host.delays)}) + 1

\* held: the pitch a finger owns there; note: the one that sounds or will;
\* wait: until the pick comes, 0 if none is on its way; ring: an older note
\* sounds meanwhile; queued: until a fret boundary is done that the pick waits
\* for; mine: it belongs to the present stroke; detained, for a property: the
\* boundary made the pick late.
Silent == [held |-> None, note |-> None, wait |-> 0, ring |-> FALSE, queued |-> 0,
           mine |-> FALSE, detained |-> FALSE]

\* The engine's picking state, passed from call to call.
Engine == [hand |-> hand, stroke |-> stroke, string |-> string, struck |-> struck,
           heard |-> heard]
Becomes(e) ==
    /\ hand' = e.hand /\ stroke' = e.stroke /\ string' = e.string
    /\ struck' = e.struck /\ heard' = e.heard
    /\ UNCHANGED host

Travelling(e, s) == e.string[s].wait > 0
Waits(e) == \E s \in Strings : Travelling(e, s) /\ e.string[s].mine

-----------------------------------------------------------------------------
(* History, for the properties only: the direction of the last Alternate   *)
(* stroke that was heard, whether the wrist has dropped a stroke since     *)
(* whose pick was still on its way, whether two strokes with none dropped  *)
(* between them went the same way, and whether no direction has been       *)
(* reserved since Alternate was last selected.                             *)

Untold == [last |-> None, dropped |-> FALSE, same |-> FALSE, fresh |-> TRUE]
Hear(e) ==
    IF e.stroke.contact \/ ~e.stroke.consumed \/ e.heard.fresh THEN e
    ELSE [e EXCEPT !.heard.last = e.stroke.up, !.heard.dropped = FALSE,
                   !.heard.same = @ \/ (e.heard.last = e.stroke.up /\ ~e.heard.dropped)]
Drop(e) ==
    IF e.stroke.consumed /\ ~e.stroke.contact /\ Waits(e)
    THEN [e EXCEPT !.heard.dropped = TRUE] ELSE e

-----------------------------------------------------------------------------
(* The pick's way across the strings.                                      *)

Crossings(st, s) == IF st.up THEN st.anchor - s ELSE s - st.anchor
Travel(st, s) == IF Crossings(st, s) < 0 THEN 0 ELSE Crossings(st, s) * st.spread

\* When the pick reaches a string, from the stroke's first note on.
Onset(st, s) == st.preRoll + Travel(st, s) + st.delay
Remaining(st, s) == IF Onset(st, s) < st.age THEN 0 ELSE Onset(st, s) - st.age

\* beginChordStroke
BeginStroke(e, anchor, up, complete, late) ==
    [Drop(e) EXCEPT
        !.stroke = [anchor |-> anchor, up |-> up, consumed |-> FALSE,
                    contact |-> FALSE, age |-> 0, delay |-> late, spread |-> spread,
                    preRoll |-> IF spread = 0 \/ complete THEN 0 ELSE PreRoll],
        !.string = [s \in Strings |-> [@[s] EXCEPT !.mine = FALSE]]]

\* Mutant: the strings that already wait are not put off.
ReAnchorAlone(e, s) ==
    IF Crossings(e.stroke, s) >= 0 THEN e ELSE [e EXCEPT !.stroke.anchor = s]

\* reAnchorChordStroke: the pick really came in farther out.
ReAnchor(e, s) ==
    LET st == [e.stroke EXCEPT !.anchor = s]
        Later(v, t) == [v EXCEPT !.wait = Max({1, Remaining(st, t), v.queued}),
                                 !.detained = v.queued > Remaining(st, t)]
        PutOff(t) == IF e.string[t].mine /\ Travelling(e, t) THEN Later(e.string[t], t)
                     ELSE e.string[t]
    IN IF Crossings(e.stroke, s) >= 0 THEN e
       ELSE [e EXCEPT !.stroke = st, !.string = [t \in Strings |-> PutOff(t)]]
-----------------------------------------------------------------------------
(* One note on (noteOnInternal).  How a note is struck is a record: on     *)
(* which string, which pitch, by a key or by the picking hand alone,       *)
(* whether it begins a chord called whole and at which edge, how late the  *)
(* wrist is if a stroke begins, and how long a fret boundary that already  *)
(* sounds there would hold up a new fret.                                  *)

Style(e, m) ==
    IF ~m.key /\ e.hand.play = "Hammer" THEN "Sustain" ELSE e.hand.play
Legato(e, m) ==
    Style(e, m) \in {"Hammer", "Slide"} /\ e.string[m.on].note \notin {None, m.note}
Plectrum(e, m) == Style(e, m) # "Hammer" /\ ~(Style(e, m) = "Slide" /\ Legato(e, m))

UpNext(e) == e.hand.pick = "Up" \/ (e.hand.pick = "Alternate" /\ e.hand.nextUp)
IsNew(e, m) ==
    \/ m.whole \/ e.string[m.on].mine
    \/ e.stroke.age > (IF spread > 0 THEN Window ELSE 0)

JoinStroke(e, m) ==
    IF IsNew(e, m) THEN BeginStroke(e, m.edge, UpNext(e), m.whole, m.late)
    ELSE IF e.stroke.age < e.stroke.preRoll THEN ReAnchor(e, m.on)
    ELSE e

Reserve(e) ==
    IF e.hand.pick # "Alternate" \/ e.stroke.consumed THEN e
    ELSE [e EXCEPT !.stroke.consumed = TRUE, !.hand.nextUp = ~e.stroke.up,
                   !.heard.fresh = FALSE]

\* The pick meets the string (startExcitation with a plectrum contact).
Land(e, s) ==
    IF e.string[s].mine THEN [Hear(e) EXCEPT !.stroke.contact = TRUE] ELSE e

\* startVoice.  A pick on its way is replaced by the new one.
StartVoice(e, m, plectrum) ==
    LET st == e.string[m.on]
        refret == st.note \notin {None, m.note} /\ plectrum
        queued == IF refret /\ st.queued = 0 THEN m.boundary ELSE st.queued
        travel == IF plectrum THEN Remaining(e.stroke, m.on) ELSE 0
        wait == Max({queued, travel})
        started == [st EXCEPT !.note = m.note, !.wait = wait, !.queued = queued,
                       !.mine = plectrum, !.detained = queued > travel,
                       !.ring = /\ wait > 0 /\ st.note # None
                                /\ st.note = m.note => @ \/ st.wait = 0]
        put == [(IF plectrum THEN e ELSE Drop(e)) EXCEPT !.string[m.on] = started]
    IN IF wait = 0 /\ plectrum THEN [Land(put, m.on) EXCEPT !.struck = TRUE] ELSE put

\* legatoRetarget.  A pick on its way still lands.
LegatoRetarget(e, m) ==
    [e EXCEPT !.string[m.on].note = m.note, !.string[m.on].queued = 0,
              !.string[m.on].mine = @ /\ Travelling(e, m.on)]

Strike(e, m) ==
    LET picked == Plectrum(e, m)
        wrist == IF picked THEN Reserve(JoinStroke(e, m)) ELSE e
        played == IF Legato(e, m) THEN LegatoRetarget(wrist, m)
                  ELSE StartVoice(wrist, m, picked)
    IN IF m.key THEN [played EXCEPT !.string[m.on].held = m.note] ELSE played

-----------------------------------------------------------------------------
(* Letting go.                                                             *)

\* Mutant: a cancelled pick's stroke stays reserved.
GiveBackNever(e, s) == e

\* The stroke's direction returns if no pick of it landed or still will.
GiveBack(e, s) ==
    IF /\ e.hand.pick = "Alternate" /\ e.string[s].mine
       /\ e.stroke.consumed /\ ~e.stroke.contact
       /\ \A t \in Strings \ {s} : ~e.string[t].mine
    THEN [e EXCEPT !.stroke.consumed = FALSE, !.hand.nextUp = e.stroke.up]
    ELSE e

\* beginVoiceRelease.  A pick on its way never lands.
Release(e, s) ==
    LET st == e.string[s]
        calm == IF st.ring THEN [st EXCEPT !.wait = 0, !.ring = FALSE, !.mine = FALSE,
                                            !.detained = FALSE]
                ELSE [Silent EXCEPT !.held = st.held]
    IN IF st.note = None \/ st.wait = 0 THEN e
       ELSE [GiveBack(e, s) EXCEPT !.string[s] = calm]
OverStrings(Op(_, _), e) == FoldLeft(Op, e, [s \in Strings |-> s])

-----------------------------------------------------------------------------
(* The engine's operations                                                 *)

Note(s, n, late, boundary) ==
    [on |-> s, note |-> n, key |-> TRUE, whole |-> FALSE, edge |-> s, late |-> late,
     boundary |-> boundary]

NoteOn(s, n) ==
    /\ \E late \in host.delays, boundary \in host.boundaries :
           Becomes(Strike(Engine, Note(s, n, late, boundary)))
    /\ UNCHANGED spread

\* noteOnChord, the lowest note first.  The edge is the extreme one of the
\* strings the pick will meet, and the first of these begins the stroke.
StrikeEach(e, notes) ==
    OverStrings(LAMBDA g, s : IF s \in DOMAIN notes THEN Strike(g, notes[s]) ELSE g, e)
NoteOnChord(f) ==
    /\ Cardinality(DOMAIN f) > 1
    /\ \E late \in host.delays, boundary \in host.boundaries :
          LET alone == [s \in DOMAIN f |-> Note(s, f[s], late, boundary)]
              picked == {s \in DOMAIN f : Plectrum(Engine, alone[s])}
              edge == IF UpNext(Engine) THEN Max(picked) ELSE Min(picked)
              notes == [s \in DOMAIN f |->
                          IF picked # {} /\ s = Min(picked)
                          THEN [alone[s] EXCEPT !.whole = TRUE, !.edge = edge]
                          ELSE alone[s]]
          IN Becomes(StrikeEach(Engine, notes))
    /\ UNCHANGED spread

\* repickHeldString: the picking hand strikes what the other hand holds.
Repick(e, s, late) ==
    IF e.string[s].held = None THEN e
    ELSE Strike(e, [Note(s, e.string[s].held, late, 0) EXCEPT !.key = FALSE])
RepickHeldString(s) ==
    /\ string[s].held # None
    /\ \E late \in host.delays : Becomes(Repick(Engine, s, late))
    /\ UNCHANGED spread

NoteOff(s) ==
    LET up == [Engine EXCEPT !.string[s].held = None]
    IN /\ string[s].held # None
       /\ Becomes(IF hand.pedal THEN up ELSE Release(up, s))
       /\ UNCHANGED spread

ReleaseUnheld(e, s) == IF e.string[s].held = None THEN Release(e, s) ELSE e
SetSustainPedal(on) ==
    /\ host.pedal
    /\ Becomes([(IF on THEN Engine ELSE OverStrings(ReleaseUnheld, Engine))
                   EXCEPT !.hand.pedal = on])
    /\ UNCHANGED spread

AllNotesOff ==
    LET up == [Engine EXCEPT !.string = [s \in Strings |-> [@[s] EXCEPT !.held = None]]]
    IN Becomes(OverStrings(Release, up)) /\ UNCHANGED spread

SelectPickStyle(p) ==
    /\ hand' = [hand EXCEPT !.pick = p, !.nextUp = p # "Alternate" /\ @]
    /\ heard' = Untold
    /\ UNCHANGED <<stroke, string, spread, struck, host>>

SelectPlayStyle(p) ==
    /\ hand' = [hand EXCEPT !.play = p]
    /\ UNCHANGED <<stroke, string, spread, struck, heard, host>>

\* beginTremoloPicking, endTremoloPicking
HoldB0(on) ==
    /\ host.tremolo
    /\ hand' = [hand EXCEPT !.tremolo = on]
    /\ UNCHANGED <<stroke, string, spread, struck, heard, host>>

SetSpread(n) ==
    /\ spread' = n
    /\ UNCHANGED <<hand, stroke, string, struck, heard, host>>

\* A string below audibility gives its voice up.
Retire(s) ==
    /\ string[s].note # None /\ string[s].wait = 0
    /\ string' = [string EXCEPT ![s] = [Silent EXCEPT !.held = string[s].held]]
    /\ UNCHANGED <<hand, stroke, spread, struck, heard, host>>

\* The clock goes on: a wrist that repeats takes all strings the other hand
\* holds, unless one of these still waits for its pick or was struck just now;
\* then the picks that arrive land.
Repeats == ~struck /\ \A s \in Strings : string[s].held # None => ~Travelling(Engine, s)
TremoloTick(e, late) == OverStrings(LAMBDA g, s : Repick(g, s, late), e)

Sooner(n) == IF n = 0 THEN 0 ELSE n - 1
Arrive(e, s) ==
    LET st == e.string[s]
        nearer == [st EXCEPT !.wait = Sooner(@), !.queued = Sooner(@),
                             !.ring = @ /\ st.wait > 1, !.detained = @ /\ st.wait > 1]
        near == [e EXCEPT !.string[s] = nearer]
    IN IF st.wait = 1 THEN Land(near, s) ELSE near
Clock(due) ==
    /\ due => hand.tremolo
    /\ \E late \in host.delays :
          LET begun == IF due /\ Repeats THEN TremoloTick(Engine, late) ELSE Engine
          IN Becomes([OverStrings(Arrive, begun) EXCEPT
                         !.stroke.age = Min({@ + 1, Aged}), !.struck = FALSE])
    /\ UNCHANGED spread

Init ==
    /\ host \in Hosts
    /\ \E p \in host.picks, q \in host.plays :
          hand = [pick |-> p, play |-> q, nextUp |-> FALSE, pedal |-> FALSE,
                  tremolo |-> FALSE]
    /\ stroke = [anchor |-> 1, up |-> FALSE, consumed |-> FALSE, contact |-> FALSE,
                 age |-> Aged, delay |-> 0, spread |-> 0, preRoll |-> 0]
    /\ string = [s \in Strings |-> Silent]
    /\ spread \in host.spreads
    /\ struck = FALSE /\ heard = Untold

Next ==
    \/ \E s \in host.strings, n \in host.notes : NoteOn(s, n)
    \/ \E ss \in SUBSET host.strings : \E f \in [ss -> host.notes] : NoteOnChord(f)
    \/ \E s \in host.strings : RepickHeldString(s) \/ NoteOff(s) \/ Retire(s)
    \/ \E on \in BOOLEAN : SetSustainPedal(on) \/ HoldB0(on)
    \/ AllNotesOff
    \/ \E p \in host.picks : SelectPickStyle(p)
    \/ \E p \in host.plays : SelectPlayStyle(p)
    \/ \E n \in host.spreads : SetSpread(n)
    \/ \E due \in BOOLEAN : Clock(due)

Spec == Init /\ [][Next]_vars

-----------------------------------------------------------------------------
(* Properties                                                              *)

\* One stroke crosses the strings one way: of the strings its pick has met or
\* will meet, none that lies behind another in the stroke's direction is met
\* later, unless a fret boundary that already sounds there holds the pick up.
PickCrossesOneWay ==
    \A s, t \in Strings :
        /\ string[s].mine /\ string[t].mine /\ ~string[s].detained
        /\ IF stroke.up THEN s > t ELSE s < t
        => string[s].wait <= string[t].wait

\* The strokes the listener hears alternate: a chord takes one direction, and
\* "a fully cancelled pre-contact chord consumes none" (README).  A stroke left
\* for a newer one while its pick was on its way may be missing between them.
HeardStrokesAlternate == ~heard.same
=============================================================================

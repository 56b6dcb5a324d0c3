--------------------------- MODULE StringOwnership ---------------------------
(***************************************************************************)
(* Which finger holds which string, and which key a Note Off lifts         *)
(* (Source/DSP/ElectryEngine.cpp: noteOn, noteOnChord, repickHeldString,   *)
(* noteOff, the pedal, allNotesOff, reset, the pick's arrival and the      *)
(* retirement of a voice).                                                 *)
(*                                                                         *)
(* The engine keeps the same fact in three places: the durable owner of a  *)
(* string (held), the voice that sounds on it (voice), and the Note Offs   *)
(* an identity is still owed (outstanding, broadcast).  The operations     *)
(* below are functions from engine states to engine states, because one    *)
(* chord runs several notes through them in turn.                          *)
(*                                                                         *)
(* Time is left out: when the pick reaches a string is a free choice of    *)
(* "now", "later" or "boundary" (behind a refret handoff that is already   *)
(* audible).  How far a gliding finger has travelled is left out too, so   *)
(* the nearest of several legato sources is a free choice among them.      *)
(***************************************************************************)
EXTENDS Integers, Sequences, FiniteSets, FiniteSetsExt, SequencesExt

CONSTANTS Strings,     \* the neck's strings, thickest first: 1 .. n
          OpenNote,    \* stringSpecs()[s].openMidiNote
          FretCount,
          Clients      \* the ways a client may play, see Client

\* The notes a client plays; on which channels, 0 being legacyExpressionId and
\* the rest MPE members; the strings its solo keyswitches select; and two
\* bounds: the events at one sample, and the Note Offs it owes at once.
Client == [notes : SUBSET Nat, expressions : SUBSET Nat, solos : SUBSET Strings,
           chord : Nat, due : Nat]

ASSUME NeckAssumption ==
    /\ Strings = 1 .. Cardinality(Strings)
    /\ OpenNote \in [Strings -> Int]
    /\ FretCount \in Nat
    /\ Clients \subseteq Client /\ Clients # {}
    /\ IsFiniteSet(Strings)
    /\ \A c \in Clients : IsFiniteSet(c.notes) /\ IsFiniteSet(c.expressions)

VARIABLES
    engine,    \* [held, voice, outstanding, broadcast]
    solo,      \* soloStringMask_: no string selects them all
    pedal,     \* sustainPedalDown_
    playStyle, \* playStyle_; every picked style is "Sustain"
    client,    \* who plays
    due        \* Note Offs the client has yet to send for its Note Ons

vars == <<engine, solo, pedal, playStyle, client, due>>

Legacy == 0
Expressions == UNION {c.expressions : c \in Clients}
Ids == [note : UNION {c.notes : c \in Clients}, expr : Expressions]
Played == [note : client.notes, expr : client.expressions]
NoId == [note |-> -1, expr |-> Legacy]
Free == [id |-> NoId, count |-> 0]
PlayStyles == {"Sustain", "Hammer", "Slide"}
Timings == {"now", "later", "boundary"}

Silent == [id |-> NoId, down |-> FALSE, sustained |-> FALSE,
           releasing |-> FALSE, waiting |-> FALSE, ring |-> FALSE,
           repick |-> FALSE]

Silenced ==
    [held |-> [s \in Strings |-> Free], voice |-> [s \in Strings |-> Silent],
     outstanding |-> [id \in Ids |-> 0], broadcast |-> [id \in Ids |-> FALSE]]

Active(v) == v.id # NoId

Holders(e, id) == {s \in Strings : e.held[s].id = id}

\* The owners of a pitch, numbered on each string that holds it.
HeldBy(e, id) == UNION {{s} \X (1 .. e.held[s].count) : s \in Holders(e, id)}

Owners(e, id) == Cardinality(HeldBy(e, id))

Fret(id, s) == id.note - OpenNote[s]

OnTheNeck(id, s) == Fret(id, s) \in 0 .. FretCount

Allowed == IF solo = {} THEN Strings ELSE solo

Playable(id, s) == s \in Allowed /\ OnTheNeck(id, s)

-----------------------------------------------------------------------------
(* chooseString                                                            *)

\* plainReleasedLegacyTail
PlainTail(e, id, s) ==
    /\ id.expr = Legacy
    /\ e.held[s].count = 0
    /\ e.voice[s].releasing
    /\ ~e.voice[s].repick

SoundingSame(e, id) == {s \in Strings : Playable(id, s) /\ e.voice[s].id = id}

\* The strings whose finger a Hammer or a Slide can take along.
LegatoSources(e, id, style) ==
    LET onTail == SoundingSame(e, id) # {}
        sources == {s \in Strings :
                        /\ Active(e.voice[s])
                        /\ Playable(id, s)
                        /\ e.voice[s].id.expr = id.expr
                        /\ onTail => /\ e.voice[s].id # id
                                     /\ e.held[s].count > 0
                                     /\ e.held[s].id.expr = id.expr
                        /\ style = "Slide" => Fret(id, s) >= 1}
        fingered == {s \in sources : e.held[s].count > 0
                                     /\ e.held[s].id.expr = id.expr}
    IN  IF style = "Slide" /\ fingered # {}
        THEN {s \in sources : ~PlainTail(e, id, s)}
        ELSE sources

LowestFret(id, ss) ==
    {s \in ss : \A t \in ss : Fret(id, s) <= Fret(id, t)}

\* An unused string, or a plain tail; then whatever string can play it.
FreshString(e, id) ==
    LET playable == {s \in Strings : Playable(id, s)}
        unused == {s \in playable :
                      /\ Active(e.voice[s]) => PlainTail(e, id, s)
                      /\ e.held[s].count = 0
                      /\ ~e.voice[s].repick}
    IN  LowestFret(id, IF unused # {} THEN unused ELSE playable)

\* The lowest string of a set, as the scans over the strings find it.
FirstOf(ss) == {s \in ss : \A t \in ss : s <= t}

\* Every string chooseString may return; none if the note is not playable.
ChooseString(e, id, style) ==
    LET playable == {s \in Strings : Playable(id, s)}
        member == {s \in playable : id.expr # Legacy /\ e.held[s].count > 0
                                    /\ e.held[s].id.expr = id.expr}
        finger == playable \cap Holders(e, id)
        memberTail == {s \in playable : id.expr # Legacy /\ Active(e.voice[s])
                                        /\ e.voice[s].id.expr = id.expr}
        same == FirstOf(SoundingSame(e, id))
        kept == {s \in same : ~PlainTail(e, id, s)}
        legato == IF style \in {"Hammer", "Slide"}
                  THEN LegatoSources(e, id, style) ELSE {}
        fresh == IF same # {} THEN same ELSE FreshString(e, id)
    IN  CASE member # {} -> FirstOf(member)
          [] member = {} /\ finger # {} -> FirstOf(finger)
          [] member = {} /\ finger = {} /\ memberTail # {} -> FirstOf(memberTail)
          [] member = {} /\ finger = {} /\ memberTail = {} /\ kept # {} -> kept
          [] OTHER -> \* a Hammer source may be out of the hand's reach
                IF legato = {} THEN fresh
                ELSE IF style = "Hammer" THEN legato \cup fresh ELSE legato

-----------------------------------------------------------------------------
(* What happens to one voice                                               *)

\* beginVoiceRelease.  A pick that has not reached the string never will; if
\* nothing rang there before it, the string goes back to silence.
Release(v) ==
    LET calm == [v EXCEPT !.waiting = FALSE, !.repick = FALSE, !.ring = FALSE]
    IN  CASE ~Active(v) -> v
          [] Active(v) /\ v.waiting /\ ~v.ring -> Silent
          [] Active(v) /\ (v.waiting => v.ring) /\ v.releasing -> calm
          [] OTHER -> [calm EXCEPT !.releasing = TRUE, !.sustained = FALSE]

\* startVoice: a repick of the same note still to arrive; a new fret behind an
\* audible handoff; or a fresh stroke.
Struck(v, id, timing) ==
    CASE v.id = id /\ timing # "now" ->
            [v EXCEPT !.down = TRUE, !.sustained = FALSE, !.waiting = TRUE,
                      !.ring = v.ring \/ ~v.waiting, !.repick = TRUE]
      [] Active(v) /\ v.id # id /\ timing = "boundary" ->
            [id |-> id, down |-> TRUE, sustained |-> FALSE, releasing |-> FALSE,
             waiting |-> TRUE, ring |-> TRUE, repick |-> TRUE]
      [] OTHER ->
            [id |-> id, down |-> TRUE, sustained |-> FALSE, releasing |-> FALSE,
             waiting |-> timing # "now", ring |-> Active(v) /\ timing # "now",
             repick |-> FALSE]

\* legatoRetarget: the finger moves, and a pick under way stays under way.
Retargeted(v, id) ==
    [v EXCEPT !.id = id, !.down = TRUE, !.sustained = FALSE,
              !.releasing = FALSE, !.ring = v.waiting, !.repick = v.waiting]

IsLegato(v, id, style) ==
    /\ style \in {"Hammer", "Slide"}
    /\ Active(v)
    /\ v.id.note # id.note
    /\ id.expr = Legacy \/ v.id.expr = id.expr

-----------------------------------------------------------------------------
(* noteOnInternal                                                          *)

\* The member's old string keeps its finger.
MemberStays(e, id, s) == e

\* What the finger of an MPE member leaves behind.
Leaves(e, id, t) == /\ id.expr # Legacy
                    /\ e.held[t].count > 0
                    /\ e.held[t].id.expr = id.expr

LeftBy(v, id) ==
    IF v.id.expr = id.expr
    THEN Release([v EXCEPT !.down = FALSE, !.sustained = FALSE])
    ELSE v

\* An MPE member's channel is one finger: what it held elsewhere it lets go.
MemberMoves(e, id, s) ==
    LET left(t) == t # s /\ Leaves(e, id, t)
    IN  [e EXCEPT !.held = [t \in Strings |-> IF left(t) THEN Free ELSE @[t]],
                  !.voice = [t \in Strings |->
                                IF left(t) THEN LeftBy(@[t], id) ELSE @[t]]]

OneMore(h, id) == IF h.id = id THEN [h EXCEPT !.count = @ + 1]
                  ELSE [id |-> id, count |-> 1]

\* The owner added without the Note Off it will need.
BindOwnerUnowed(e, id, s) == [e EXCEPT !.held[s] = OneMore(@, id)]

\* The key's owner is bound to the string, and one more Note Off is expected.
\* An identity on two strings at once is lifted from both by one Note Off.
BindOwner(e, id, s) ==
    LET elsewhere == Holders(e, id) \ {s}
    IN  [e EXCEPT !.outstanding[id] = @ + 1,
                  !.broadcast[id] = IF Holders(e, id) = {} THEN FALSE
                                    ELSE elsewhere # {} \/ @,
                  !.held[s] = OneMore(@, id)]

\* A fretting-hand contact strikes no pick, so nothing of it can be late unless
\* an earlier handoff still has to finish.
Arrival(v, style, timing) ==
    IF style = "Hammer" /\ ~Active(v) THEN "now" ELSE timing

\* The voice of a string that takes a note.
Begun(v, id, style, timing) ==
    IF IsLegato(v, id, style) THEN Retargeted(v, id)
    ELSE Struck(v, id, Arrival(v, style, timing))

\* One note on a given string.  A picking-hand repick adds no owner, and is
\* picked even while Hammer is latched.
PlayOn(e, id, s, timing, addsOwner) ==
    LET style == IF ~addsOwner /\ playStyle = "Hammer" THEN "Sustain"
                 ELSE playStyle
        struck == [e EXCEPT !.voice[s] = Begun(@, id, style, timing)]
        owned == IF addsOwner THEN BindOwner(MemberMoves(struck, id, s), id, s)
                 ELSE struck
    IN  [owned EXCEPT !.voice[s].down = owned.held[s].count > 0]

TakeNote(e, id, s, timing) == PlayOn(e, id, s, timing, TRUE)

\* noteOn: every engine one note may leave.
PlayNote(e, id) ==
    LET strings == ChooseString(e, id, playStyle)
    IN  IF strings = {} THEN {e}
        ELSE {TakeNote(e, id, s, timing) : s \in strings, timing \in Timings}

-----------------------------------------------------------------------------
(* noteOnChord                                                             *)

Lower(a, b) ==
    \/ a.note < b.note
    \/ a.note = b.note /\ a.expr < b.expr

\* The pitches from the bass up.
Canonical(ids) ==
    [n \in 1 .. Cardinality(ids) |->
        CHOOSE i \in ids : Cardinality({j \in ids : Lower(j, i)}) = n - 1]

\* Complete hand shapes: one string for each pitch, no string twice.
Shapes(ids) ==
    {a \in [ids -> Allowed] :
        /\ \A i \in ids : OnTheNeck(i, a[i])
        /\ \A i, j \in ids : a[i] = a[j] => i = j}

Cheapest(shapes, cost(_)) ==
    {a \in shapes : \A b \in shapes : cost(a) <= cost(b)}

Bound(e, id, s) ==
    /\ id.expr # Legacy
    /\ \/ e.held[s].count > 0 /\ e.held[s].id.expr = id.expr
       \/ Active(e.voice[s]) /\ e.voice[s].id.expr = id.expr

\* Pitches some string could keep and this shape gives another.
Misses(ids, a, keeps(_, _)) ==
    Cardinality({i \in ids : ~keeps(i, a[i])
                             /\ \E s \in Strings : OnTheNeck(i, s) /\ keeps(i, s)})

\* A shape chosen by its frets alone: a held pitch may wander to another string.
BestShapesByFret(e, ids) ==
    LET frets(a) == MapThenSumSet(LAMBDA i : Fret(i, a[i]), ids)
    IN  Cheapest(Shapes(ids), frets)

\* The lexicographic score, as far as it does not depend on where a gliding
\* finger or the hand stands; the rest of it is a free choice.
BestShapes(e, ids) ==
    LET held(i, s) == e.held[s].id = i
        heldAnywhere(i) == \E s \in Strings : OnTheNeck(i, s) /\ held(i, s)
        member(i, s) == Bound(e, i, s)
        sounding(i, s) == heldAnywhere(i) \/ e.voice[s].id = i
        expressionMisses(a) == Misses(ids, a, member)
        heldMisses(a) == Misses(ids, a, held)
        soundingMisses(a) == Misses(ids, a, sounding)
        occupied(a) == Cardinality({i \in ids : Active(e.voice[a[i]])
                                                \/ e.held[a[i]].count > 0})
        frets(a) == MapThenSumSet(LAMBDA i : Fret(i, a[i]), ids)
        kept == Cheapest(Cheapest(Cheapest(Shapes(ids), expressionMisses),
                                  heldMisses), soundingMisses)
    IN  IF playStyle \in {"Hammer", "Slide"} THEN kept
        ELSE Cheapest(Cheapest(kept, occupied), frets)

\* The hand changes shape before anything sounds: a pitch that is re-fingered
\* takes all its owners to its new string.
Refingered(e, ids, a) ==
    LET sources(i) == Holders(e, i) \ {a[i]}
        leaves(s, i) == /\ a[i] # s
                        /\ e.held[s].count > 0
                        /\ \/ e.held[s].id = i
                           \/ i.expr # Legacy /\ e.held[s].id.expr = i.expr
        taken(s) == \E i \in ids : a[i] = s /\ e.held[s].id # i
        arriving(s) == {i \in ids : a[i] = s /\ sources(i) # {}}
        owners(s) ==
            IF arriving(s) # {}
            THEN LET i == CHOOSE i \in arriving(s) : TRUE
                 IN  [id |-> i, count |-> e.held[Min(sources(i))].count]
            ELSE IF taken(s) \/ \E i \in ids : leaves(s, i) THEN Free
            ELSE e.held[s]
    IN  [e EXCEPT !.held = [s \in Strings |-> owners(s)]]

\* The first event of every pitch from the bass up, then the repeats.
PlayShape(e, ids, repeats, a) ==
    LET events == Canonical(ids) \o Canonical(repeats)
        struck[n \in 0 .. Len(events)] ==
            IF n = 0 THEN {Refingered(e, ids, a)}
            ELSE {TakeNote(f, events[n], a[events[n]], timing) :
                     f \in struck[n - 1], timing \in Timings}
    IN  struck[Len(events)]

\* Too many pitches for the strings: one note after the other.
PlaySingly(e, ids, repeats) ==
    LET play(es, i) == UNION {PlayNote(f, i) : f \in es}
        pitches == Canonical(ids)
        played[n \in 0 .. Len(pitches)] ==
            IF n = 0 THEN {e}
            ELSE LET once == play(played[n - 1], pitches[n])
                 IN  IF pitches[n] \in repeats THEN play(once, pitches[n])
                     ELSE once
    IN  played[Len(pitches)]

PlayChord(e, ids, repeats) ==
    IF Shapes(ids) = {} THEN PlaySingly(e, ids, repeats)
    ELSE UNION {PlayShape(e, ids, repeats, a) : a \in BestShapes(e, ids)}

-----------------------------------------------------------------------------
(* noteOff                                                                 *)

\* One owner less; the last one leaves the string.
OneLess(h) == IF h.count > 1 THEN [h EXCEPT !.count = @ - 1] ELSE Free

\* The pedal catches the string before its key is marked up.
StoppedUnderPedal(v) ==
    IF pedal THEN [v EXCEPT !.sustained = TRUE]
    ELSE Release([v EXCEPT !.down = FALSE])

\* The finger of a voice lifts: the pedal keeps the string, or it is damped.
Stopped(v) ==
    LET lifted == [v EXCEPT !.down = FALSE]
    IN  IF pedal THEN [lifted EXCEPT !.sustained = TRUE] ELSE Release(lifted)

\* Every string that holds the pitch lets go of one of its owners.
LiftFingers(e, id) ==
    LET stops(s) == /\ s \in Holders(e, id) /\ e.held[s].count <= 1
                    /\ e.voice[s].id = id
    IN  [e EXCEPT !.held = [s \in Strings |-> IF s \in Holders(e, id)
                                              THEN OneLess(@[s]) ELSE @[s]],
                  !.voice = [s \in Strings |-> IF stops(s) THEN Stopped(@[s])
                                               ELSE @[s]]]

\* Every Note Off taken for the newest owner of its pitch.
LiftNewest(e, id) ==
    LET holders == Holders(e, id)
        lifted == LiftFingers(e, id)
    IN  [lifted EXCEPT !.outstanding[id] = Max({0, @ - Cardinality(holders)}),
                       !.broadcast[id] = @ /\ Holders(lifted, id) # {}]

\* A Note Off owed to an owner whose string was taken is used up by it; any
\* other lifts every finger of the pitch.
Lift(e, id) ==
    LET holders == Holders(e, id)
        lifted == LiftFingers(e, id)
        left == Max({0, e.outstanding[id] - Cardinality(holders)})
    IN  IF /\ e.outstanding[id] > Owners(e, id)
           /\ ~e.broadcast[id] \/ holders = {}
        THEN [e EXCEPT !.outstanding[id] = @ - 1,
                       !.broadcast[id] = @ /\ holders # {}]
        ELSE [lifted EXCEPT !.outstanding[id] = left,
                            !.broadcast[id] = @ /\ Holders(lifted, id) # {}
                                                /\ left # 0]

-----------------------------------------------------------------------------
(* The engine's operations                                                 *)

Owed == MapThenSumSet(LAMBDA id : due[id], Ids)

Init ==
    /\ engine = Silenced
    /\ solo = {}
    /\ pedal = FALSE
    /\ playStyle = "Sustain"
    /\ client \in Clients
    /\ due = [id \in Ids |-> 0]

NoteOn(id) ==
    /\ Owed < client.due
    /\ engine' \in PlayNote(engine, id)
    /\ due' = [due EXCEPT ![id] = @ + 1]
    /\ UNCHANGED <<solo, pedal, playStyle, client>>

\* Several events at one sample; repeats are second events of a pitch.
NoteOnChord(ids, repeats) ==
    /\ Cardinality(ids) + Cardinality(repeats) \in 2 .. client.chord
    /\ Cardinality(ids) <= Cardinality(Strings)
    /\ Owed + Cardinality(ids) + Cardinality(repeats) <= client.due
    /\ engine' \in PlayChord(engine, ids, repeats)
    /\ due' = [id \in Ids |-> due[id] + (IF id \in ids THEN 1 ELSE 0)
                                      + (IF id \in repeats THEN 1 ELSE 0)]
    /\ UNCHANGED <<solo, pedal, playStyle, client>>

\* A picking-hand key strikes whatever the fretting hand holds on a string.
RepickHeldString(s) ==
    /\ engine.held[s].count > 0
    /\ \E timing \in Timings :
           engine' = PlayOn(engine, engine.held[s].id, s, timing, FALSE)
    /\ UNCHANGED <<solo, pedal, playStyle, due, client>>

\* Also with nothing owed: a stray Note Off must change nothing.
NoteOff(id) ==
    /\ engine' = Lift(engine, id)
    /\ due' = [due EXCEPT ![id] = Max({0, @ - 1})]
    /\ UNCHANGED <<solo, pedal, playStyle, client>>

\* The pedal's release skips the strings whose pick is still on its way.
PedalUpSkippingWaiting ==
    /\ pedal' = FALSE
    /\ engine' = [engine EXCEPT !.voice = [s \in Strings |->
          LET v == @[s]
              left == IF v.sustained /\ ~v.down /\ ~v.waiting
                      THEN Release(v) ELSE v
          IN  [left EXCEPT !.sustained = FALSE]]]
    /\ UNCHANGED <<solo, playStyle, due, client>>

PedalUp ==
    /\ pedal' = FALSE
    /\ engine' = [engine EXCEPT !.voice = [s \in Strings |->
          LET v == @[s]
              left == IF pedal /\ v.sustained /\ ~v.down THEN Release(v) ELSE v
          IN  [left EXCEPT !.sustained = FALSE]]]
    /\ UNCHANGED <<solo, playStyle, due, client>>

PedalDown ==
    /\ pedal' = TRUE
    /\ UNCHANGED <<engine, solo, playStyle, due, client>>

SelectPlayStyle(p) ==
    /\ playStyle' = p
    /\ UNCHANGED <<engine, solo, pedal, due, client>>

\* setSoloStringMask; solo keyswitches and Solo Clear are masks of one string
\* and of none.
SelectSolo(ss) ==
    /\ solo' = ss
    /\ UNCHANGED <<engine, pedal, playStyle, due, client>>

\* The client lets go of everything (CC 123), and owes nothing after it.
AllNotesOff ==
    /\ engine' = [Silenced EXCEPT !.voice = [s \in Strings |->
          Release([engine.voice[s] EXCEPT !.down = FALSE, !.sustained = FALSE])]]
    /\ due' = [id \in Ids |-> 0]
    /\ UNCHANGED <<solo, pedal, playStyle, client>>

\* reset, on a panic: the client's keys may still be down, but none is owed.
Reset ==
    /\ engine' = Silenced
    /\ solo' = {}
    /\ pedal' = FALSE
    /\ playStyle' = "Sustain"
    /\ due' = [id \in Ids |-> 0]
    /\ UNCHANGED client

\* The pick that has been travelling lands (renderInternalSample).  A pending
\* repick may find another boundary handoff still sounding, and wait for it.
Contact(s, again) ==
    LET v == engine.voice[s]
        landed == IF v.repick
                  THEN [v EXCEPT !.releasing = FALSE, !.repick = FALSE,
                                 !.waiting = again, !.ring = again]
                  ELSE [v EXCEPT !.waiting = FALSE, !.ring = FALSE]
    IN  /\ v.waiting
        /\ again => v.repick
        /\ engine' = [engine EXCEPT !.voice[s] = landed]
        /\ UNCHANGED <<solo, pedal, playStyle, due, client>>

\* A string below audibility gives its voice up; its finger stays.
Retire(s) ==
    /\ Active(engine.voice[s])
    /\ ~engine.voice[s].waiting
    /\ engine' = [engine EXCEPT !.voice[s] = Silent]
    /\ UNCHANGED <<solo, pedal, playStyle, due, client>>

\* A non-finite sample silences every voice, waiting or not.
Recover ==
    /\ engine' = [engine EXCEPT !.voice = [s \in Strings |-> Silent]]
    /\ UNCHANGED <<solo, pedal, playStyle, due, client>>

Playing ==
    \/ \E id \in Played : NoteOn(id) \/ NoteOff(id)
    \/ \E ids \in SUBSET Played : \E repeats \in SUBSET ids :
           NoteOnChord(ids, repeats)
    \/ \E s \in Strings : RepickHeldString(s)
    \/ PedalUp \/ PedalDown
    \/ \E p \in PlayStyles : SelectPlayStyle(p)
    \/ \E ss \in SUBSET client.solos : SelectSolo(ss)
    \/ AllNotesOff
    \/ Reset

Rendering ==
    \/ \E s \in Strings, again \in BOOLEAN : Contact(s, again)
    \/ \E s \in Strings : Retire(s)
    \/ Recover

Next == Playing \/ Rendering

Spec == Init /\ [][Next]_vars

-----------------------------------------------------------------------------
(* Properties                                                              *)

\* Nothing stays held that no Note Off will lift: the owners of a pitch never
\* outnumber the Note Offs the engine expects for it, and those never
\* outnumber the ones the client will really send.
HeldIsOwed ==
    \A id \in Ids : /\ Owners(engine, id) <= engine.outstanding[id]
                    /\ engine.outstanding[id] <= due[id]

\* A sounding string and its durable owner agree: the voice's key is down
\* exactly if a finger holds that same pitch on that string.
KeyDownMeansHeld ==
    \A s \in Strings : Active(engine.voice[s]) =>
        LET v == engine.voice[s]
        IN  /\ v.down <=> engine.held[s].count > 0
            /\ v.down => engine.held[s].id = v.id

\* A string that sounds is either held down, held by the pedal, or being
\* damped, and one being damped has no pick on its way ("if the key is lifted
\* before the pick arrives, it never lands"): none is left ringing with nobody
\* to stop it.
NothingRingsUnattended ==
    \A s \in Strings : Active(engine.voice[s]) =>
        LET v == engine.voice[s]
        IN  v.down \/ (v.sustained /\ pedal) \/ (v.releasing /\ ~v.waiting)

\* One member channel is one performed finger: it neither owns two strings nor
\* keeps the key down on two.
OneStringPerMember ==
    LET owns(s, x) == engine.held[s].count > 0 /\ engine.held[s].id.expr = x
        sounds(s, x) == engine.voice[s].down /\ engine.voice[s].id.expr = x
    IN  \A x \in Expressions \ {Legacy} :
            /\ \A s, t \in Strings : owns(s, x) /\ owns(t, x) => s = t
            /\ \A s, t \in Strings : sounds(s, x) /\ sounds(t, x) => s = t

\* A Note Off lifts the last finger of a pitch only if it is the last one due:
\* an owner whose string was stolen uses up its own Note Off, not the note
\* the same key sounds now.  (A solo mask may refuse a Note On altogether,
\* whose Note Off then lifts another of its pitch.)
LastNoteOffLifts ==
    [][client.solos = {} =>
         \A id \in Played :
             Owners(engine, id) > 0 /\ Owners(engine', id) = 0 /\ NoteOff(id) =>
                 due'[id] = 0]_vars

\* The pitches struck in this step, each of which will need a Note Off.
JustStruck == {id \in Ids : due'[id] > due[id]}

\* A plain finger that holds its pitch on no other string.
PlainFinger(s) ==
    LET id == engine.held[s].id
    IN  id.expr = Legacy /\ engine.held[s].count > 0 /\ Holders(engine, id) = {s}

\* Whatever is struck, and however the hand changes shape for a chord, a plain
\* finger leaves a string the hand may use only for another note on that string.
\* (Two notes of one member channel at one sample may take the string and leave
\* it again, for the channel is one finger.)
FingerMovesOnlyWhenNeeded ==
    [][(/\ JustStruck # {}
        /\ \A i, j \in JustStruck : i.expr = j.expr => i = j \/ i.expr = Legacy)
         => \A s \in Allowed : PlainFinger(s) => engine'.held[s].count > 0]_vars
=============================================================================

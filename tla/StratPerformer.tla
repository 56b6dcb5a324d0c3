--------------------------- MODULE StratPerformer ---------------------------
(***************************************************************************)
(* The second instrument: MIDI to the two hands of a guitarist             *)
(* (StratPerformer.cpp) and through them to the strings (StratEngine.cpp). *)
(*                                                                         *)
(* Keys that go down together are one stroke: they wait in pending until   *)
(* the next render, which gives each a string (Assign) and schedules a     *)
(* strike for when the pick gets there.  Releases lift the finger a moment *)
(* later, harmonics lift the touching finger later still; all of these are *)
(* events in one queue sorted by time.  With the lookahead on, MIDI itself *)
(* is held back, and the fretting hand goes ahead to the notes it reads.   *)
(*                                                                         *)
(* Time is a countdown: an event, a held-back message and a finger's glide *)
(* carry how many ticks they still have to wait.  player is everything the *)
(* class keeps, with the guitar it moves in player.wood; a MIDI message is *)
(* a function from players to players, because turning the lookahead off   *)
(* plays a whole queue of them at once.                                    *)
(***************************************************************************)
EXTENDS Naturals, Integers, FiniteSets, FiniteSetsExt, Sequences, SequencesExt

CONSTANTS
    OpenNote,      \* the open strings' notes, the lowest string first
    Frets,         \* how many frets the neck has
    Keys,          \* the keys that play notes
    Note,          \* the note of each key
    Damp,          \* the key that lays the hand across the strings
    None,          \* no key, no note
    Players,       \* the ways of playing, see Player
    MaxPending, MaxEvents, MaxMidi,   \* the sizes of the three queues
    Lookahead, PressTicks, PickGapTicks,     \* the timings, in ticks
    LiftTicks, TouchTicks, HarmonicTicks,
    MaxUnread,     \* bound: notes sent in one sample with the lookahead on
    HandAtNut      \* the hand's low positions end here

Articulations ==
    {"sustain", "palmMute", "deadNote", "legato", "slide", "harmonic", "pinch"}
StrokeKeys == {"down", "up", "alternate"}
Strings == 1..Len(OpenNote)
Fret(k, s) == Note[k] - OpenNote[s]
OnString(k, s) == Fret(k, s) \in 0..Frets

Controls == [lookahead : BOOLEAN, strum : Nat]

\* One way of playing: the controls it uses (StratControls), its
\* keyswitches, whether it has the damp key and the pedal, the string each key
\* asks for, as a tab names it, and whether it never hurries (see Careful).
Player == [controls : SUBSET Controls, styles : SUBSET Articulations,
           strokes : SUBSET StrokeKeys, damps : BOOLEAN, pedals : BOOLEAN,
           asks : [Keys -> Strings \cup {None}], careful : BOOLEAN]

ASSUME NeckAssumption ==
    OpenNote \in Seq(Int) /\ Note \in [Keys -> Int] /\ Frets \in Nat
ASSUME QueueAssumption == MaxMidi \in Nat \ {0} /\ Lookahead \in Nat
ASSUME PlayerAssumption ==
    /\ \A p \in Players : p \in Player /\ p.controls # {}
    /\ \A k \in Keys : \E s \in Strings : OnString(k, s)
    /\ Damp \notin Keys \cup {None} /\ None \notin Keys

VARIABLES
    player,     \* what the class keeps
    keys,       \* the keys that are down
    phase,      \* between two renders, or in which part of one
    plays       \* the way of playing, of Players
vars == <<player, keys, phase, plays>>

-----------------------------------------------------------------------------
(* The guitar: where each string is stopped, what lies on it, and whether  *)
(* it was set moving since flesh last stopped it.                          *)

Free == "free"        \* no damper but the palm
Touched == "touched"  \* a node is touched, the string rings past it
Flesh == "flesh"      \* a finger or the hand lies on it

NewWood == [damper |-> Free, rings |-> FALSE, fret |-> 0, lifted |-> FALSE,
            rubbed |-> FALSE]
NewString ==
    [key |-> None, down |-> FALSE, sustained |-> FALSE, fret |-> 0,
     fretted |-> FALSE, released |-> FALSE, restFret |-> 0, resting |-> FALSE,
     slideTo |-> None, shift |-> 0, prepared |-> None, due |-> 0]

NewPlayer(c) ==
    [strings |-> [s \in Strings |-> NewString],
     wood |-> [s \in Strings |-> NewWood],
     recent |-> <<>>,          \* strings in the order they were last given a note
     pending |-> <<>>, events |-> <<>>, delayed |-> <<>>,
     pedal |-> FALSE, damping |-> FALSE, nextUp |-> FALSE, hand |-> 2,
     style |-> "sustain", stroke |-> "alternate", controls |-> c]

SetFret(g, s, f) == [g EXCEPT !.wood[s].fret = f, !.wood[s].lifted = FALSE]
LiftFromFret(g, s) == [g EXCEPT !.wood[s].lifted = TRUE]
SetDamper(g, s, d) ==
    [g EXCEPT !.wood[s].damper = d, !.wood[s].rings = @ /\ d # Flesh]
Pluck(g, s) == [g EXCEPT !.wood[s].rings = g.wood[s].damper # Flesh]
Rub(g, s, on) == [g EXCEPT !.wood[s].rubbed = on]

-----------------------------------------------------------------------------
(* The event queue.                                                        *)

Event(kind, s, wait) == [kind |-> kind, string |-> s, wait |-> wait]
Strike(s, wait, fret, touch, pinch) ==
    [kind |-> "strike", string |-> s, wait |-> wait, fret |-> fret,
     touch |-> touch, pinch |-> pinch]
Press(s, wait, fret) == [kind |-> "press", string |-> s, wait |-> wait, fret |-> fret]
Shift(s, wait, ticks) == [kind |-> "shift", string |-> s, wait |-> wait, length |-> ticks]
Prepare(due) == [kind |-> "prepare", string |-> None, wait |-> 0, due |-> due]

Schedule(g, e) ==
    LET before == Cardinality({i \in DOMAIN g.events : g.events[i].wait <= e.wait})
    IN IF Len(g.events) >= MaxEvents THEN g
       ELSE [g EXCEPT !.events = InsertAt(@, before + 1, e)]

Waiting(g, kind, s) ==
    \E i \in DOMAIN g.events : g.events[i].kind = kind /\ g.events[i].string = s
StrikeWaits(g, s) == Waiting(g, "strike", s)

\* What moves only its own string moves all of them at once.
EachString(Op(_, _), g) ==
    [g EXCEPT !.strings = [s \in Strings |-> Op(g, s).strings[s]],
              !.wood = [s \in Strings |-> Op(g, s).wood[s]]]

-----------------------------------------------------------------------------
(* The fretting hand lets go.                                              *)

\* The hand that lets a note go lies across the strings nobody holds.
RestOnFree(g, t) ==
    LET st == g.strings[t] IN
    IF st.key # None \/ st.released \/ st.resting THEN g
    ELSE [SetDamper(g, t, Flesh) EXCEPT !.strings[t].resting = TRUE]

Release(g, s) ==
    LET st == g.strings[s]
        damped == SetDamper(g, s, Flesh)
        lifted == IF st.fret = 0 THEN damped
                  ELSE Schedule(LiftFromFret(damped, s), Event("leave", s, LiftTicks))
        let_go == [lifted EXCEPT !.strings[s] =
                     [NewString EXCEPT !.released = TRUE, !.restFret = st.fret,
                                       !.prepared = st.prepared, !.due = st.due]]
    IN EachString(RestOnFree, let_go)

\* The lowest first.
ReleaseAll(g, some) ==
    FoldLeft(LAMBDA h, s : IF s \in some THEN Release(h, s) ELSE h, g,
             [s \in Strings |-> s])

\* Mutant: the hand takes the fingers that let go along.
LiftOneReleased(g, t) ==
    IF g.strings[t].resting \/ g.strings[t].released
    THEN [SetDamper(g, t, Free) EXCEPT !.strings[t].resting = FALSE]
    ELSE g

LiftOne(g, t) ==
    IF g.strings[t].resting
    THEN [SetDamper(g, t, Free) EXCEPT !.strings[t].resting = FALSE]
    ELSE g
LiftRestingHand(g) == EachString(LiftOne, g)

DampOne(g, s) ==
    LET damped == SetDamper(g, s, Flesh)
        open == IF g.strings[s].fret > 0 THEN SetFret(damped, s, 0) ELSE damped
    IN [open EXCEPT !.strings[s] = [NewString EXCEPT !.resting = TRUE]]
DampStrings(g, on) ==
    LET h == [g EXCEPT !.damping = on]
    IN IF on THEN EachString(DampOne, h) ELSE LiftRestingHand(h)

-----------------------------------------------------------------------------
(* MIDI as it takes effect.                                                *)

PlayNoteOn(g, k) ==
    CASE k \in Articulations -> [g EXCEPT !.style = k]
      [] k \in StrokeKeys -> [g EXCEPT !.stroke = k]
      [] k = Damp -> DampStrings(g, TRUE)
      [] OTHER -> IF Len(g.pending) >= MaxPending THEN g
                  ELSE [g EXCEPT !.pending = Append(@, k)]

\* The last key fills the place of the one that goes.
Unpend(q, k) ==
    LET at == SelectInSeq(q, LAMBDA other : other = k)
    IN [i \in 1..Len(q) - 1 |-> IF i = at THEN q[Len(q)] ELSE q[i]]

Holding(g, k) == {s \in Strings : g.strings[s].key = k /\ g.strings[s].down}

LiftKey(g, s) ==
    LET up == [g EXCEPT !.strings[s].down = FALSE]
    IN IF g.pedal THEN [up EXCEPT !.strings[s].sustained = TRUE]
       ELSE IF StrikeWaits(g, s) THEN up
       ELSE Release(up, s)

PlayNoteOff(g, k) ==
    CASE k = Damp -> DampStrings(g, FALSE)
      [] k \in ToSet(g.pending) -> [g EXCEPT !.pending = Unpend(@, k)]
      [] OTHER -> IF Holding(g, k) = {} THEN g ELSE LiftKey(g, Min(Holding(g, k)))

PlaySustain(g, on) ==
    LET h == [g EXCEPT !.pedal = on]
    IN IF on THEN h ELSE ReleaseAll(h, {s \in Strings : g.strings[s].sustained})

Dispatch(g, m) ==
    CASE m.kind = "on" -> PlayNoteOn(g, m.key)
      [] m.kind = "off" -> PlayNoteOff(g, m.key)
      [] m.kind = "pedal" -> PlaySustain(g, m.key = "down")

Latency(g) == IF g.controls.lookahead THEN Lookahead ELSE 0
Oldest(g) == Dispatch([g EXCEPT !.delayed = Tail(@)], Head(g.delayed))

\* queue, and playing at once where it refuses.
Receive(g, kind, k) ==
    LET m == [kind |-> kind, key |-> k, wait |-> Latency(g), read |-> FALSE]
        room == IF Len(g.delayed) < MaxMidi THEN g ELSE Oldest(g)
    IN IF Latency(g) = 0 THEN Dispatch(g, m)
       ELSE [room EXCEPT !.delayed = Append(@, m)]

\* The hand reads ahead: it goes to the notes as soon as it can.
ReceiveNoteOn(g, k) ==
    LET h == Receive(g, "on", k)
    IN IF Latency(g) > 0 /\ k \in Keys
       THEN Schedule(h, Prepare(Latency(g)))
       ELSE h

Forget(g) ==
    [g EXCEPT !.pending = <<>>, !.events = <<>>, !.delayed = <<>>,
              !.pedal = FALSE, !.damping = FALSE]
PutDown(g, s) ==
    IF g.strings[s].key = None /\ ~g.strings[s].fretted THEN SetFret(g, s, 0) ELSE g

\* Mutant: a finger that let go is left on its way up.
SilenceHeld(g) == ReleaseAll(Forget(g), {s \in Strings : g.strings[s].key # None})

Silence(g) ==
    ReleaseAll(EachString(PutDown, Forget(g)), {s \in Strings : g.strings[s].key # None})

Flush(g) ==
    FoldLeft(LAMBDA h, m : Dispatch(h, m), [g EXCEPT !.delayed = <<>>], g.delayed)
\* Mutant: what waits when the lookahead is switched off waits on.
ChooseControlsUnflushed(g, c) == [g EXCEPT !.controls = c]

ChooseControls(g, c) ==
    [(IF c.lookahead THEN g ELSE Flush(g)) EXCEPT !.controls = c]

-----------------------------------------------------------------------------
(* Which string takes which note.  Costs are in twentieths, so that they   *)
(* are whole numbers.  The search gives the notes their strings in turn    *)
(* and tries leaving one out before the strings, the low ones first.       *)

Placings(notes) ==
    {f \in [DOMAIN notes -> 0..Len(OpenNote)] :
        /\ \A i \in DOMAIN f : f[i] # 0 => OnString(notes[i], f[i])
        /\ \A i, j \in DOMAIN f : f[i] = f[j] /\ f[i] # 0 => i = j}

Beyond(f, low, high) == IF f < low THEN low - f ELSE IF f > high THEN f - high ELSE 0
NoteCost(g, held, k, s) ==
    LET f == Fret(k, s)
    IN (IF held[s] THEN 400 ELSE 0)
       + (IF plays.asks[k] \notin {None, s} /\ OnString(k, plays.asks[k]) THEN 20000 ELSE 0)
       - (IF g.strings[s].prepared = Note[k] THEN 200 ELSE 0)
       + (IF f = 0 THEN (IF g.hand <= HandAtNut THEN 0 ELSE 60)
          ELSE 20 * Beyond(f, g.hand - 1, g.hand + 3) + f)

\* What the first d notes cost one by one, and what all of them do as a shape.
CostOf(g, held, notes, f, d) ==
    LET WithNote(sum, i) ==
            sum + IF f[i] = 0 THEN 2000 ELSE NoteCost(g, held, notes[i], f[i])
    IN FoldLeft(WithNote, 0, [i \in 1..d |-> i])
ShapeCost(notes, f) ==
    LET placed == {i \in DOMAIN f : f[i] # 0}
        fretted == {Fret(notes[i], f[i]) : i \in placed} \ {0}
        crossed == {p \in placed \X placed : p[1] < p[2] /\ f[p[2]] < f[p[1]]}
        span == IF fretted = {} THEN 0 ELSE Max(fretted) - Min(fretted)
    IN 40 * Cardinality(crossed) + 60 * Beyond(span, 0, 4)

\* The way the search comes to as its mth, counted in digits.
Way(m, n) ==
    LET digits == Len(OpenNote) + 1
    IN [i \in 1..n |-> (m \div digits^(n - i)) % digits]
Cut(f, d) == [i \in DOMAIN f |-> IF i <= d THEN f[i] ELSE 0]

\* On its way to f it begins each cut of f that leaves out what it cuts, and
\* gives one up, with all it leads to, that is no cheaper than the best so far.
Try(g, held, notes, best, f) ==
    LET givenUp == {d \in 0..Len(notes) : <<d, Cut(f, d)>> \in best.givenUp}
        begins == {d \in 0..Len(notes) : Cut(f, d) = f}
        dear == {d \in begins : CostOf(g, held, notes, f, d) >= best.cost}
        cost == CostOf(g, held, notes, f, Len(notes)) + ShapeCost(notes, f)
    IN IF f \notin Placings(notes) \/ givenUp # {} THEN best
       ELSE IF dear # {} THEN [best EXCEPT !.givenUp = @ \cup {<<Min(dear), f>>}]
       ELSE IF cost < best.cost THEN [best EXCEPT !.cost = cost, !.way = f]
       ELSE best

Assign(g, held, notes) ==
    LET n == Len(notes)
        nobody == [cost |-> 2000 * n, way |-> [i \in 1..n |-> 0], givenUp |-> {}]
        One(best, m) == Try(g, held, notes, best, Way(m, n))
    IN FoldLeft(One, nobody, [m \in 1..(Len(OpenNote) + 1)^n - 1 |-> m]).way

-----------------------------------------------------------------------------
(* A stroke.                                                               *)

TakeString(g, s, st) ==
    [g EXCEPT !.strings[s] = st, !.recent = Append(Remove(@, s), s)]
MoveHand(g, f) == IF f > 0 THEN [g EXCEPT !.hand = f] ELSE g

\* Hammer-ons and slides: the line continues on the string played last, if
\* it still sounds (sounding is what isSounding answers) and has the note.
LineStrings(g, sounding) == SelectSeq(g.recent, LAMBDA s : s \in sounding)
Continues(g, k, sounding) ==
    /\ g.style \in {"legato", "slide"}
    /\ LineStrings(g, sounding) # <<>>
    /\ OnString(k, Last(LineStrings(g, sounding)))
PlayOnSoundingString(g, k, sounding) ==
    LET s == Last(LineStrings(g, sounding))
        f == Fret(k, s)
        free == SetDamper(g, s, Free)
        played == IF g.style = "legato" THEN Pluck(SetFret(free, s, f), s)
                  ELSE [free EXCEPT !.wood[s].rings = TRUE]
        held == [played.strings[s] EXCEPT
                    !.key = k, !.down = TRUE, !.sustained = FALSE, !.fretted = TRUE,
                    !.fret = IF g.style = "legato" THEN f ELSE @,
                    !.slideTo = IF g.style = "legato" THEN None ELSE f]
    IN MoveHand(TakeString(played, s, held), f)

\* Semitones from a string to its second to sixth partials.
Partials == <<12, 19, 24, 28, 31>>
NodeHarmonics(g, k) ==
    LET all == {p \in (DOMAIN Partials) \X Strings :
                  ~g.strings[p[2]].down /\ Note[k] = OpenNote[p[2]] + Partials[p[1]]}
        asked == {p \in all : p[2] = plays.asks[k]}
    IN IF asked # {} THEN asked ELSE all
Octaves(g, k) ==
    {s \in Strings : ~g.strings[s].down /\ Fret(k, s) - 12 \in 1..Frets}
HasHarmonic(g, k) == g.style = "harmonic" /\ NodeHarmonics(g, k) \cup Octaves(g, k) # {}
PlayHarmonic(g, k) ==
    LET nodes == NodeHarmonics(g, k)
        lowest == {p \in nodes : \A q \in nodes : p[1] <= q[1]}
        s == IF nodes # {} THEN Min({p[2] : p \in lowest}) ELSE Max(Octaves(g, k))
        f == IF nodes # {} THEN 0 ELSE Fret(k, s) - 12
        struck == Schedule(g, Strike(s, 0, f, Touched, FALSE))
        touched == Schedule(struck, Event("liftTouch", s, HarmonicTicks))
    IN TakeString(touched, s, [NewString EXCEPT !.key = k, !.down = TRUE, !.fret = f,
                                                !.fretted = f > 0])

\* A finger the hand sent ahead to a note that went to another string lets
\* that string go as a played note's finger does.
Unneeded(g) ==
    {s \in Strings : /\ g.strings[s].prepared # None /\ g.strings[s].key = None
                     /\ g.strings[s].due = 0}
GiveUp(g, s) ==
    LET still == IF g.strings[s].shift > 0 THEN Rub(g, s, FALSE) ELSE g
    IN IF s \notin Unneeded(g) THEN g
       ELSE [still EXCEPT !.strings[s].prepared = None, !.strings[s].shift = 0]
Unprepare(g) ==
    ReleaseAll(EachString(GiveUp, g), {s \in Unneeded(g) : g.strings[s].fretted})

\* The pick crosses every string between, muted ones included.
StrikeNote(g, k, s, crossed) ==
    LET dead == g.style = "deadNote"
        f == IF dead THEN 0 ELSE Fret(k, s)
        scheduled == Schedule(g, Strike(s, crossed * g.controls.strum, f,
                                        IF dead THEN Flesh ELSE Free,
                                        g.style = "pinch"))
    IN TakeString(scheduled, s, [NewString EXCEPT !.key = k, !.down = TRUE, !.fret = f,
                                                  !.fretted = f > 0])

SettleHand(g, frets) ==
    LET lowest == Min(frets)
    IN IF frets = {} \/ lowest \in g.hand - 1..g.hand + 3 THEN g
       ELSE [g EXCEPT !.hand = lowest]

Strum(g, notes, up) ==
    LET f == Assign(g, [s \in Strings |-> g.strings[s].down], notes)
        placed == {i \in DOMAIN f : f[i] # 0}
        ends == {f[i] : i \in placed}
        Crossed(s) == IF up THEN Max(ends) - s ELSE s - Min(ends)
        One(h, i) == IF i \in placed THEN StrikeNote(h, notes[i], f[i], Crossed(f[i])) ELSE h
        struck == FoldLeft(One, g, [i \in DOMAIN notes |-> i])
        frets == {Fret(notes[i], f[i]) : i \in placed} \ {0}
    IN Unprepare(SettleHand(struck, frets))

\* The lowest note first, of one note the first.
InNoteOrder(ks) ==
    LET Rank(i) == Cardinality({j \in DOMAIN ks :
                      \/ Note[ks[j]] < Note[ks[i]]
                      \/ Note[ks[j]] = Note[ks[i]] /\ j <= i})
    IN [n \in DOMAIN ks |-> ks[CHOOSE i \in DOMAIN ks : Rank(i) = n]]

StartStroke(g, up, sounding) ==
    LET One(acc, k) ==
            IF Continues(acc.g, k, sounding)
            THEN [acc EXCEPT !.g = PlayOnSoundingString(@, k, sounding)]
            ELSE IF HasHarmonic(acc.g, k) THEN [acc EXCEPT !.g = PlayHarmonic(@, k)]
            ELSE IF Len(acc.notes) < Len(OpenNote) THEN [acc EXCEPT !.notes = Append(@, k)]
            ELSE acc
        begun == [g EXCEPT !.nextUp = ~up, !.pending = <<>>]
        all == FoldLeft(One, [g |-> begun, notes |-> <<>>], InNoteOrder(g.pending))
    IN IF all.notes = <<>> THEN all.g ELSE Strum(all.g, all.notes, up)

-----------------------------------------------------------------------------
(* The lookahead: the hand reads the held-back MIDI up to the notes due    *)
(* then, and goes to the frets it will need once their strings are free.   *)

LastOr(seq, default) == IF seq = <<>> THEN default ELSE Last(seq)
FrettedStyles == {"sustain", "palmMute", "pinch"}

\* A finger goes to the fret of key k on string s, gliding if it lies on the
\* string already, and lands there before the pick.
SendFinger(g, k, s, start, due) ==
    LET st == g.strings[s]
        room == due - PickGapTicks - start - PressTicks
        from == IF st.down THEN st.fret ELSE st.restFret
        glides == (st.released \/ st.down) /\ from \notin {0, Fret(k, s)}
        sent == [g EXCEPT !.strings[s].prepared = Note[k], !.strings[s].due = due]
    IN IF Fret(k, s) = 0 \/ st.prepared # None \/ room < 0 THEN g
       ELSE IF glides
       THEN Schedule(Schedule(sent, Shift(s, start, room)), Press(s, start + room, Fret(k, s)))
       ELSE Schedule(sent, Press(s, start, Fret(k, s)))

\* The held-back notes of that time the hand has not read yet, of which it
\* reads no more than there are strings.
Unread(g, due) ==
    {i \in DOMAIN g.delayed :
        LET m == g.delayed[i]
        IN m.kind = "on" /\ m.key \in Keys /\ m.wait = due /\ ~m.read}
Place(some, i) == Cardinality({j \in some : j <= i})

PrepareNotes(g, due) ==
    LET ahead == SelectSeq(g.delayed, LAMBDA m : m.wait <= due)
        unread == Unread(g, due)
        some == {i \in unread : Place(unread, i) <= Len(OpenNote)}
        notes == [n \in 1..Cardinality(some) |->
                    g.delayed[CHOOSE i \in some : Place(some, i) = n].key]
        Mark(i) == [g.delayed[i] EXCEPT !.read = @ \/ i \in some]
        read == [g EXCEPT !.delayed = [i \in DOMAIN @ |-> Mark(i)]]
        style == LastOr(SelectSeq(ahead, LAMBDA m : m.kind = "on" /\ m.key \in Articulations),
                        [key |-> g.style]).key
        damped == LastOr(SelectSeq(ahead, LAMBDA m : m.key = Damp),
                         [kind |-> IF g.damping THEN "on" ELSE "off"]).kind = "on"
        Lifts(s) == SelectSeq(ahead, LAMBDA m :
                        /\ m.kind = "off" /\ ~g.pedal
                        /\ g.strings[s].down /\ g.strings[s].key = m.key)
        held == [s \in Strings |-> g.strings[s].down /\ Lifts(s) = <<>>]
        freeAt == [s \in Strings |-> LastOr(Lifts(s), [wait |-> 0]).wait]
        f == Assign(g, held, notes)
        One(h, i) == IF f[i] = 0 THEN h
                     ELSE IF held[f[i]] THEN h
                     ELSE SendFinger(h, notes[i], f[i], freeAt[f[i]], due)
    IN IF notes = <<>> \/ style \notin FrettedStyles \/ damped THEN read
       ELSE FoldLeft(One, read, [i \in DOMAIN notes |-> i])

-----------------------------------------------------------------------------
(* The events as they come due.                                            *)

\* Mutant: a finger that went up takes the string's next note along.
LeaveStringAnyway(g, s) == SetFret(g, s, 0)

LeaveString(g, s) ==
    IF g.strings[s].key = None /\ ~g.strings[s].fretted THEN SetFret(g, s, 0) ELSE g
LiftTouch(g, s) == IF g.strings[s].resting THEN g ELSE SetDamper(g, s, Free)

\* Unless the note went elsewhere, or a key took the string first.
StillSent(g, s) == g.strings[s].prepared # None /\ ~g.strings[s].down
StartShift(g, e) ==
    IF StillSent(g, e.string)
    THEN [Rub(g, e.string, e.length > 0) EXCEPT !.strings[e.string].shift = e.length]
    ELSE g
PressFret(g, e) ==
    LET s == e.string
        still == IF g.strings[s].shift > 0 THEN Rub(g, s, FALSE) ELSE g
        down == SetFret(SetDamper(still, s, Free), s, e.fret)
    IN IF ~StillSent(g, s) THEN g
       ELSE [down EXCEPT !.strings[s].shift = 0, !.strings[s].fret = e.fret,
                         !.strings[s].fretted = TRUE, !.strings[s].released = FALSE]

StrikeUnderHand(g, s) ==
    [SetFret(SetDamper(g, s, Flesh), s, 0) EXCEPT !.strings[s].fretted = FALSE,
                                                  !.strings[s].resting = TRUE]
StrikeFree(g, e) ==
    LET s == e.string
        stopped == SetFret(LiftRestingHand(g), s, e.fret)
    IN IF e.pinch
       THEN Schedule(SetDamper(stopped, s, Touched), Event("liftTouch", s, TouchTicks))
       ELSE SetDamper(stopped, s, e.touch)
\* Mutant: a key lifted before the pick came is forgotten.
StrikeStringStaying(g, e) ==
    Pluck(IF g.damping THEN StrikeUnderHand(g, e.string) ELSE StrikeFree(g, e), e.string)

StrikeString(g, e) ==
    LET s == e.string
        struck == Pluck(IF g.damping THEN StrikeUnderHand(g, s) ELSE StrikeFree(g, e), s)
        st == struck.strings[s]
    IN IF ~st.down /\ ~st.sustained /\ st.key # None THEN Release(struck, s) ELSE struck

RunEvent(g, e) ==
    CASE e.kind = "leave" -> LeaveString(g, e.string)
      [] e.kind = "liftTouch" -> LiftTouch(g, e.string)
      [] e.kind = "prepare" -> PrepareNotes(g, e.due)
      [] e.kind = "shift" -> StartShift(g, e)
      [] e.kind = "press" -> PressFret(g, e)
      [] e.kind = "strike" -> StrikeString(g, e)

\* The control updates of one tick: the slides in ended arrive, the others
\* rub on; a glide ends after its time.
Sliding(g) == {s \in Strings : g.strings[s].slideTo # None}

ControlUpdate(g, s, ended) ==
    LET st == g.strings[s]
        shifted == IF st.shift = 0 THEN g
                   ELSE [Rub(g, s, st.shift > 1) EXCEPT !.strings[s].shift = @ - 1]
        arrived == IF st.fret = st.slideTo THEN shifted ELSE SetFret(shifted, s, st.slideTo)
    IN IF st.slideTo = None THEN shifted
       ELSE IF s \notin ended THEN Rub(shifted, s, st.fret # st.slideTo)
       ELSE [Rub(arrived, s, FALSE) EXCEPT !.strings[s].fret = st.slideTo,
                                           !.strings[s].slideTo = None]

-----------------------------------------------------------------------------
(* The host's calls, made between two renders.                             *)

Settled ==
    /\ Sliding(player) = {}
    /\ \A s \in Strings : ~Waiting(player, "liftTouch", s)
    /\ \A i \in DOMAIN player.events :
          player.events[i].kind = "strike" => ~player.events[i].pinch
StrikesDone == \A s \in Strings : ~StrikeWaits(player, s)

\* A careful player lets a stroke, a slide or a touched node end before the
\* next gesture; only a key may be lifted before its string is reached.
Careful == plays.careful => Settled /\ StrikesDone

\* And hammers or slides only with the hand off the strings, slides only from
\* notes that are held.
LineIsClean(style) ==
    /\ style \in {"legato", "slide"} => Damp \notin keys /\ ~player.damping
    /\ style = "slide" =>
         \A s \in ToSet(player.recent) :
            player.strings[s].down /\ (player.strings[s].fretted \/ player.strings[s].fret = 0)
CarefulLine == plays.careful => LineIsClean(player.style)

\* The notes of one sample the hand still has to read.
ToRead == Cardinality({i \in DOMAIN player.events : player.events[i].kind = "prepare"})

Calls == phase = "host" /\ UNCHANGED <<phase, plays>>

NoteOn(k) ==
    /\ Calls /\ Careful /\ CarefulLine
    /\ k \notin keys /\ ToRead < MaxUnread
    /\ k = Damp => plays.damps
    /\ plays.careful /\ k = Damp => player.style \notin {"legato", "slide"}
    /\ keys' = keys \cup {k}
    /\ player' = ReceiveNoteOn(player, k)

NoteOff(k) ==
    /\ Calls /\ k \in keys
    /\ plays.careful => Settled
    /\ k = Damp => Careful
    /\ plays.careful /\ player.style = "slide" => player.pending = <<>>
    /\ keys' = keys \ {k}
    /\ player' = Receive(player, "off", k)

Keyswitch(k) ==
    /\ Calls /\ Careful /\ k \notin {player.style, player.stroke}
    /\ (plays.careful => LineIsClean(k) /\ player.pending = <<>>)
    /\ player' = ReceiveNoteOn(player, k)
    /\ UNCHANGED keys

Sustain(on) ==
    /\ Calls /\ Careful /\ plays.pedals
    /\ player' = Receive(player, "pedal", IF on THEN "down" ELSE "up")
    /\ UNCHANGED keys

AllNotesOff ==
    /\ Calls /\ Careful
    /\ player' = Silence(player)
    /\ UNCHANGED keys

\* The latched keyswitches outlive a reset.
Reset ==
    /\ Calls
    /\ player' = [NewPlayer(player.controls) EXCEPT !.style = player.style,
                                                    !.stroke = player.stroke]
    /\ UNCHANGED keys

SetControls(c) ==
    /\ Calls /\ Careful /\ c # player.controls
    /\ plays.careful => ~c.lookahead
    /\ player' = ChooseControls(player, c)
    /\ UNCHANGED keys

-----------------------------------------------------------------------------
(* render: the stroke that waits, then for each tick the MIDI that is due, *)
(* the stroke that makes, and the events that are due.                     *)

Directions(g) == IF g.stroke = "alternate" THEN {FALSE, g.nextUp} ELSE {g.stroke = "up"}
Sounding(g) ==
    IF g.style \in {"legato", "slide"} THEN SUBSET ToSet(g.recent) ELSE {{}}

StrokeIfPending ==
    IF player.pending = <<>> THEN UNCHANGED player
    ELSE \E up \in Directions(player), sounding \in Sounding(player) :
            player' = StartStroke(player, up, sounding)

BeginRender ==
    /\ phase = "host" /\ phase' = "midi"
    /\ StrokeIfPending /\ UNCHANGED <<keys, plays>>

MidiIsDue == player.delayed # <<>> /\ Head(player.delayed).wait = 0
EventIsDue == player.events # <<>> /\ Head(player.events).wait = 0

DispatchDue ==
    /\ phase = "midi" /\ MidiIsDue
    /\ player' = Oldest(player)
    /\ UNCHANGED <<keys, phase, plays>>

MidiDone ==
    /\ phase = "midi" /\ ~MidiIsDue /\ phase' = "events"
    /\ StrokeIfPending /\ UNCHANGED <<keys, plays>>

RunDueEvent ==
    /\ phase = "events" /\ EventIsDue
    /\ player' = RunEvent([player EXCEPT !.events = Tail(@)], Head(player.events))
    /\ UNCHANGED <<keys, phase, plays>>

Sooner(n) == IF n = 0 THEN 0 ELSE n - 1
AllSooner(q) == [i \in DOMAIN q |-> [q[i] EXCEPT !.wait = Sooner(@)]]
Countdown(g) ==
    LET DueSooner(s) == [g.strings[s] EXCEPT !.due = Sooner(@)]
    IN [g EXCEPT !.events = AllSooner(@), !.delayed = AllSooner(@),
                 !.strings = [s \in Strings |-> DueSooner(s)]]
Tick(ended) ==
    /\ phase = "events" /\ ~EventIsDue /\ phase' = "host"
    /\ player' = EachString(LAMBDA g, s : ControlUpdate(g, s, ended), Countdown(player))
    /\ UNCHANGED <<keys, plays>>

-----------------------------------------------------------------------------
Init ==
    /\ plays \in Players
    /\ \E c \in plays.controls : player = NewPlayer(c)
    /\ keys = {} /\ phase = "host"

Next ==
    \/ \E k \in Keys \cup {Damp} : NoteOn(k) \/ NoteOff(k)
    \/ \E k \in plays.styles \cup plays.strokes : Keyswitch(k)
    \/ \E on \in BOOLEAN : Sustain(on)
    \/ \E c \in plays.controls : SetControls(c)
    \/ AllNotesOff \/ Reset
    \/ BeginRender \/ DispatchDue \/ MidiDone \/ RunDueEvent
    \/ \E ended \in SUBSET Sliding(player) : Tick(ended)

Spec == Init /\ [][Next]_vars

-----------------------------------------------------------------------------

\* A string moves freely only for somebody: a key or the pedal holds it, or
\* the pick is on its way to it.
SoundsForSomebody(s) ==
    LET st == player.strings[s]
    IN player.wood[s].rings =>
         st.key # None /\ (st.down \/ st.sustained \/ StrikeWaits(player, s))

\* The player who does not hurry has no string that moves for nobody.
\* (release, runEvent, dampStrings.)
RingsForSomebody == plays.careful => \A s \in Strings : SoundsForSomebody(s)

FleshLies(s) ==
    LET st == player.strings[s]
    IN st.key = None /\ (st.released \/ (st.resting /\ ~st.fretted)) =>
         player.wood[s].damper = Flesh

\* A finger that let go stays on the string, and so does the hand that rests
\* on the free ones, until the string is played or fretted again (the comment
\* of release, and of StringState::released).
FleshStays == plays.careful => \A s \in Strings : FleshLies(s)

\* The careful player's hands are where its keys and the pedal have them, for
\* all the events that are still to come.
CarefulHands == RingsForSomebody /\ FleshStays

\* A note sounds where the hand holds it: once its string was struck and no
\* slide is on its way, the guitar stops the string at the fret the
\* performer has for it, and pressed down, not lifted.
HeardWhereHeld ==
    plays.careful => \A s \in Strings :
        LET st == player.strings[s]
        IN st.key # None /\ st.slideTo = None /\ ~StrikeWaits(player, s) =>
             /\ ~player.wood[s].lifted
             /\ player.wood[s].fret = IF st.fretted THEN st.fret ELSE 0

\* A finger on its way up from its fret gets there: whatever lifted a string
\* off its fret, an event that puts it back is still in the queue.
LiftEnds ==
    plays.careful => \A s \in Strings :
        player.wood[s].lifted => Waiting(player, "leave", s) \/ StrikeWaits(player, s)

\* And so are the frets of the careful player.
CarefulFrets == HeardWhereHeld /\ LiftEnds

\* Held-back MIDI cannot be overtaken: it is in the order of its times, and
\* nothing plays at once while some of it waits (setControls).
NoMidiIsOvertaken ==
    /\ \A i, j \in DOMAIN player.delayed :
          i < j => player.delayed[i].wait <= player.delayed[j].wait
    /\ player.delayed # <<>> => player.controls.lookahead

Due(kind, s) ==
    /\ phase = "events" /\ EventIsDue
    /\ Head(player.events).kind = kind /\ Head(player.events).string = s

\* A pick comes late to a string that was let go since its stroke began.
LatePick(s) == Due("strike", s) /\ player.strings[s].key = None

\* The touch of a harmonic or of a pinch ends late, on a string let go since.
LateTouch(s) ==
    /\ Due("liftTouch", s)
    /\ player.strings[s].key = None /\ player.strings[s].released

\* Whoever plays, hurried or reading ahead, on however short a queue: a string
\* comes to move for nobody only when a pick comes late.  (playNoteOff,
\* playSustain, dampStrings, allNotesOff, unprepare, runEvent: none of them
\* leaves a string behind that rings.)
OnlyLatePicksRingForNobody ==
    [][\A s \in Strings :
         SoundsForSomebody(s) => SoundsForSomebody(s)' \/ LatePick(s)]_vars

\* And a finger that let go, or the hand on a free string, is lifted only by a
\* pick or by the end of a touch that comes late; both are never on one string.
OneLies(s) ==
    /\ FleshLies(s)
    /\ LET st == player.strings[s] IN st.key = None => ~(st.released /\ st.resting)
OnlyTheLateLiftFlesh ==
    [][\A s \in Strings : OneLies(s) => OneLies(s)' \/ LatePick(s) \/ LateTouch(s)]_vars

=============================================================================

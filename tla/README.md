# A TLA+ verification of Electry

Electry (`src/Source`) is a JUCE instrument plug-in: a modelled eight-string
electric guitar, played from MIDI and from an on-screen keyboard, and beside it
a Stratocaster with a player of its own. Most of its lines are signal processing
in floating point, which these modules leave alone. What they model is the part
of the program that *decides*: which string sounds, who holds it and what
releases it; in which order picks, fingers and messages happen; and which
filter may stand still, and from what state it has to come back. Its failures
are hanging notes, lost clicks, guitars that disagree and old sound that
returns, and they need a long legal sequence of calls, or an unlucky
interleaving, to show.

## 1. The system

    editor (message thread)           host MIDI, prepare/release
        | PressKey, clicks, panic             |
        v                                     v
    gesture ring + panic flag ---> processBlock (audio callback)
    (UiMidiQueue)                   | groups of one sample (EventGroup)
        ^ latches, HOLD mode        | owner queues, zones, bends (MpeOwnership)
        | (PluginProcessor)         v
        +------------------- ElectryPerformer: keyswitches, solo, gestures
                                    |                 |
                                    v                 v
                              guitar 1           guitar 2 (Double)
                              ElectryEngine: strings and fingers
                              (StringOwnership), the picking wrist (StrumStroke),
                              each string sample by sample (StringVoice)
                                    |  ^
                         pickups,   |  | acoustic return
                         shared     v  |   (AudioPath)
                         path    ElectryFx: pedal, amplifiers (FxGain)

    MIDI ---> StratPerformer: two hands ---> StratEngine (StratPerformer)

### Inventory

| Component | State | Operations | What makes it correct |
|---|---|---|---|
| Gesture queue, `PluginProcessor.cpp` 1374-1435, 1471-1475 | ring of 256 slots, `uiWriteIndex`, `uiReadIndex`, `panicRequested` | enqueue (accept or refuse), two dispatch passes over one snapshot, discard, panic | no slot is written while it is read; nothing accepted is lost, doubled or reordered; a refused gesture raises a panic and every panic is answered |
| Processor, its threads and its lifecycle, `PluginProcessor.cpp` 526-606, 1314-1372, 1595-1614 | base style latch, HOLD mode, `engineReady` | on-screen keys, strip clicks, HOLD button, session restore; prepareToPlay, releaseResources, processBlock | no on-screen key hangs; when all is quiet the strip shows what the performer plays |
| Simultaneous events, `PluginProcessor.cpp` 608-763 | the batch of attacks, `acceptedMpeRpn`, `uiRemainderPending` | the two walks over a group, the editor's remainder between them | a stable partition; every attack is conditioned by all of its sample; chords are parted only by what matters |
| Note ownership and MPE, `PluginProcessor.cpp` 853-1200, 1437-1462 | owner queue of each key, channel totals, zones, ranges, wheels | Note On, Note Off, RPN, wheel, CC120, CC121, CC123, panic | each Note Off releases the identity its Note On got; no orphaned owner; bends belong to the right channel |
| Performer, `ElectryPerformer.cpp` | held styles, solo keys, gestures, pedal, Double, wet ramp | noteOn, noteOff, setters, releases, resets, render | what is in force is what fingers hold; the two guitars agree |
| String ownership, `ElectryEngine.cpp` 2242-3448, 7088-8153, 10232-10408 | per string: owner, voice; per identity: owed Note Offs, the doubled mark | noteOn, noteOnChord, repick, noteOff, pedal, solo mask, allNotesOff, reset; pick arrival, retirement | nothing rings that nobody can stop; a pitch's Note Offs are counted right |
| Strum, Alternate and tremolo timing, `ElectryEngine.cpp` 5619-5761, 7844-7905, 9735-9765 | stroke in progress, direction, edge, phase; a pick on its way to each string | begin and re-anchor a stroke, cancel, refund, tremolo tick | the pick crosses the strings one way; the strokes that are heard alternate |
| A string's voice, `ElectryEngine.cpp` 5927-6600, 7088-8008, 8774-8946, 9162-9213, 9501-9526, 10243-10275 | the loop's heads and their crossfade, the pick on its way, contact phases, stopping hand, damping; the one picking hand | take a note, legato, release, contact, render a sample | a fret changes without a click; the stopping hand comes and goes by degrees and never stays on a played string; every string is under the one hand |
| Shared path, bypass and acoustic return, `ElectryPerformer.cpp` 70-93, 267-305, 486-545, `ElectryEngine.cpp` 2156-2199, 9700-10230, 10410-10520 | wet level and ramp; the return's ring; the filters both channels share, the idle freeze | switch Output and effects, render a chunk, panic, reset | a fixed delay; a fade without a step; nothing is heard of a filter that missed some of the sound |
| Amplifier and effects, `ElectryFx.cpp` | smoothed levels; two banks of circuits for two oversampling rates | process | what was silent for a while returns from rest or in its exact state |
| Stratocaster player, `StratPerformer.cpp` | strings and fingers, the stroke being assembled, the queue of timed events, the held-back MIDI | Note On and Off, keyswitches, pedal, controls, all notes off, reset, render | a string rings as long as a key or the pedal says; a finger rests where the player's hand is; nothing overtakes |
| Parameters and saved session, `PluginProcessor.cpp` | JUCE value tree | save, restore | a restore resets the performer to what it restored |
| Editor, string visuals | widgets; a lock-free snapshot | paint | reads only |
| String physics, pickups, circuits, solvers, frozen tables | filters, delay lines | process | numeric: not for a finite-state model |

The components interact by plain calls down the picture, all on the audio
thread, except where two threads meet: the ring, the panic flag, the two latches
(`playStyleIndex`, `playStyleKeysHold`), `pickStyleIndex` and `engineReady`.
The hard behaviours are those meeting points; a ring that overflows; events of
one sample in any order; note releases that arrive after the layout, the mode
or the string has changed; scheduled picks, lifts and touches that come due
after the state they were scheduled for is gone; and crossfades that are turned
around half-way. They are listed line by line under `hazards` in `PROJECT.json`.

## 2. The modules

Each module's definitions carry the names of the functions they translate;
`map` in `PROJECT.json` gives the lines. A definition whose name continues
that of the one after it (`ClickWithoutLatch` before `ClickLatch`) is not part
of the system: it is the same operation with a plausible mistake, used to show
that a property notices it.

| Module | Models | Used by |
|---|---|---|
| `GestureMailbox` | the abstract promise of the gesture queue: a bounded FIFO and an alarm | `UiMidiQueue` (refinement) |
| `UiMidiQueue` | the ring, one action for each atomic access of either thread | `UiMidiDispatch`; instantiated by `PluginProcessor` |
| `UiMidiDispatch` | the ring with a history of what the block has dispatched | `MCUiMidiQueue`, `BlockProofs` |
| `PluginProcessor` | message thread, callback and host lifecycle around the ring | `MCPluginProcessor`, `PluginProcessorProofs` |
| `EventGroup` | processBlock's walks over the events of a block | `MCEventGroup`, `BlockProofs` |
| `MpeOwnership` | owner queues, channel totals, zones, wheels | `MCMpeOwnership`, `BlockProofs` |
| `ElectryPerformer` | keyswitches, solo, gestures, pedal, Double | `MCElectryPerformer`, `ElectryPerformerProofs` |
| `StringOwnership` | fingers, voices and owed Note Offs | `MCStringOwnership`, `StringOwnershipProofs` |
| `StrumStroke` | the picking wrist: strokes, Alternate, tremolo | `MCStrumStroke`, `StrumStrokeProofs` |
| `StringVoice` | one string sample by sample: refret crossfades, contact, stopping hand, the shared picking hand | `MCStringVoice`, `StringVoiceProofs` |
| `AudioPath` | render: engines, bypass fade, acoustic return | `MCAudioPath`, `EffectsProofs` |
| `FxGain` | the gain block's crossfades and memories | `MCFxGain`, `EffectsProofs` |
| `StratPerformer` | the Stratocaster's player and what its guitar keeps of each string | `MCStratPerformer`, `StratPerformerProofs` |
| the eight modules `...Proofs` | theorems, see section 4 | |

**UiMidiQueue.** `producer.pc` and `consumer.pc` are the points between two
atomic accesses. The message thread reads `uiReadIndex` once, tests for a full
ring, stores the slot and then publishes the index (`EnqueueAccept`,
`StoreSlot`, `PublishWrite`); a refusal raises the panic (`EnqueueRefuse`,
`RaisePanic`). The callback exchanges the panic flag, discards if it was set,
takes a snapshot of both indices, walks it once for conditioning gestures and
once for the others, and only then releases the slots. Acquire/release ordering
makes a slot's contents visible with the index, so interleaving whole accesses
is faithful.

**PluginProcessor** instantiates the ring with the editor's gestures. A click on
the strip is two steps, the latch and then the gesture (`ClickLatch`,
`ClickPost`); a session restore is three stores; prepareToPlay and
releaseResources are cut between each of their shared accesses, and exclude
processBlock, as the host guarantees. A callback without two channels raises a
panic (`MalformedBlock`). Of the performer it keeps the base style, the key mode
and the on-screen keys that are held.

**EventGroup** starts from every short block and every short snapshot of the
ring. An event is its raw position and what kind of message it is. Each step of a
pass over the snapshot or of a walk over the events of one sample takes one
gesture or event; the steps between them (`SnapshotConditioned`,
`GroupConditioned`, ...) are where the code goes from one loop to the next. The
flushes and the chord limit are the code's. `calls` is what the performer is told,
in order. Which gestures are in
the snapshot and when their slots are released is UiMidiQueue's subject.

**MpeOwnership** has `owners`, `totals` and the bends of the code and two
history variables: `fingers`, the identity each physical press was given, and
`stale`, which says that a key is down the queues have been told to forget. A
complete zone message is one step: the RPN bytes are assembled by JUCE's
detector, and JUCE's layout decides how a new zone shrinks the other, so the
next layout is any of the host's (`setup`). `held` counts what the performer was
told and has not been told to release.

**ElectryPerformer** records per engine (`main`, `second`) the latest values it
was given and a ledger of Note Ons less Note Offs for each pitch; `down` counts
the fingers. The order of held styles is a list, oldest first, for the code's
ever-growing sequence numbers. A gap note is a written key that plays nothing
but whose number is the sounding pitch of a playable key.

**StringOwnership** keeps in `engine` the three places where the code keeps the
same fact: `held` (the durable owner of a string), `voice` (what sounds on it)
and `outstanding`/`broadcast` (what an identity is still owed). The owners of a
pitch are counted as the pairs of a string and a number (`HeldBy`), and the notes
of a chord are put in order by how many are lower (`Canonical`): closed forms that
the proofs can reason about. A Note On, a
Note Off or a chord is a function from engine states to engine states, since a
chord plays its notes in turn. Free choices: whether a pick reaches its string
at once, later, or behind an audible refret; which of several legato sources is
nearest (that needs the position of a gliding finger); which of several equally
scored chord shapes is taken; and when a damped voice retires. They are
over-approximations: the properties hold for every choice.

**StrumStroke** passes the wrist's state from call to call as one record. A
stroke has a direction, an edge (`anchor`) where the pick enters, and the time of
its first note; each string has the pick that is on its way to it (`wait`), an
older note that sounds meanwhile (`ring`), and a fret boundary the pick has to
wait out (`queued`). Notes called alone wait out a pre-roll in which a note
farther out may move the edge; a chord called whole knows it. Which string a note
takes is the caller's choice here, `StringOwnership`'s subject there. The clock
counts ticks, in the order of size the code's constants have; past `Aged` nothing
depends on it any more. `heard` is a history of the strokes that were heard.

**StringVoice** keeps one string in `voice`, and of the engine only what all
strings share: the pedal and the picking hand. A head (a place where the loop is
read, with its filters) is how loud it was in the last sample; a crossfade goes
from `source` to `live`, or to `frozen` when the next fret is queued behind it. A
weight moves one step a sample instead of along the code's curve. The stopping
hand's gain is open, shut or in between. `gain` and `breaks` are histories: the
gain in the last sample, and what a call is meant to start anew (a palm, a finger
or a leap beyond a quarter of the string). The other strings are `OtherString`: a
pick there moves the hand, and it may come later in the very sample in which
this string's own pick lands (`overtaken`). Which string a note takes and how many
keys hold it is `StringOwnership`'s; here the last key is the one that counts.
Free choices: whether a leap is large, when a string falls silent, and whether a
sample is no number. The loudness a large leap takes away is not modelled.

**AudioPath** asks where sound is, not what it is. A cell of an acoustic return
holds how long ago its sample was rendered; a filter's memory is `rest`, `true`
(it had every sample since it was at rest) or `stale` (it missed some). The
callback's chunks are the code's: no longer than the return's delay inside
`render`, no longer than a scratch buffer inside a fade; its sound goes back into
the return one sample a step. Output, effects, panic and reset come between
blocks. The engine is the 2x-oversampled one (host rates up
to 96 kHz); the shared path is the first engine's.

**FxGain** uses the same three kinds of memory for the gain block of
`ElectryFx::processInternal`: two banks, one for each oversampling, two channels,
a pedal and an amplifier for each model. Of a smoothed level it keeps whether it
is nothing, a part or all; a step is one sample. While both channels carry the
same samples only the left circuit runs, and `alike` remembers whether the right
one would have the same state.

**StratPerformer** keeps everything the class keeps in `player`, with the guitar
in `player.wood`: the fret a string is stopped at, what lies on it, whether it was
set moving since flesh last stopped it. A MIDI message is a function from players
to players, because turning the lookahead off plays a whole queue of held-back
messages at once. Timed events carry a countdown. `plays` is the way of playing,
chosen once. With `careful` a player lets a stroke, a slide or a touched node end
before the next gesture, hammers and slides only with the hand off the strings, and
slides only from notes that are held. Only keys may come up early, and not while a
pinch is still to be struck. That no string ever rings for nobody or loses its flesh
holds for the careful player only. What every other player may lose, and by which
step, is stated by properties of their own. Which string takes which note is the
code's search with its pruning: a branch that is no cheaper than the best so far is
given up, although the bonus of a string the hand has prepared could still make it
cheaper (`Try`). A key may ask for a string (`asks`); the plug-in never asks, only the
tests do, and of the players the hurried ones. Where the code goes over the
strings and each string minds only itself, `EachString` takes them at once;
releases add to one queue, so `ReleaseAll` goes string by string.

## 3. The runs

Each passing run is complete for its bounds; each property of each run has a
mutant in `PROJECT.json` that it rejects.

| Run | Bounds | What it shows |
|---|---|---|
| `ui_queue` | 3 slots (two gestures), 3 different gestures, one of them conditioning | `ProducerKeepsOut`; `StablePartition`: each block hands over its snapshot once, conditioning first; `RingImplementsMailbox`: the ring refines the mailbox; `EveryPanicIsAnswered`, `EveryGestureIsConsumed` |
| `one_source` | 2 slots, 1 key, 2 styles; styles from the strip or from the host, never both | `NoHangingKey`: a held key is down, or its release is on the way, or a reset is; `StripShowsBaseStyle`: once all is quiet the strip shows the style in force; `LiftedKeysFallSilent`, a liveness property |
| `event_groups` | all blocks of up to 3 events at two samples and before them, up to 2 gestures, chords of at most 2 | `GroupIsStablePartition`: every deed of every event once, in its turn; `ChordsAreWhole`: attacks between two flushes are fingered together, from either source |
| `note_owners` | 2 keys, channels 1 and 2 and the editor, 3 keys down, 2 owners for each key, 2 wheel positions. In one setup the lower zone comes and goes, with 2 ranges; in the other the upper zone may take both channels, so that the lower zone's master may hold notes it struck as a member | `OwnersAgree` (the totals count the queues, and what is held has exactly its owners), `NoteOffKeepsIdentity`, `OwnedBendsFollow`: a member that holds a note is bent by its own wheel (`OwnedBendIsCurrent`), and what parts it from its master's (`OnlyAReleaseMissesTheMaster`) |
| `performance_keys` | 2 styles, 2 solo strings, 1 gesture, 2 notes and a gap note, 3 fingers | `StyleIsLatestOrBase`, `SoloMaskIsOwned`, `NoPhantomKeys`, `GuitarsAgree`, `OnlyItsOwnKeyLifts` |
| `fingers` | 2 strings a fourth apart. One player has notes playable on one or both, chords of 3, 4 owed Note Offs; the other solo masks, a member channel, single notes | `HeldIsOwed`, `KeyDownMeansHeld`, `NothingRingsUnattended`, `OneStringPerMember`, `LastNoteOffLifts`, `FingerMovesOnlyWhenNeeded` |
| `solo_chord` | chords of 2 and solo masks | violated: see section 5 |
| `strum` | 3 strings with one note each, or 2 with two; chords, tremolo, hammered and slid notes, fret boundaries that detain a pick, also one whose string is given another fret in its pre-roll, a late wrist, changing settings | `PickCrossesOneWay`, `HeardStrokesAlternate` |
| `audio_path` | a return of 2 samples in a ring of 4, blocks of up to 3, fades of 2 samples, chunks of 1 in a fade, a freeze after 2 silent phases | `RoundTripIsConstant`, `NothingStaleIsHeard`, `FadeHasNoStep` |
| `fx_gain` | 2 amplifiers | `NoFrozenTail`: what returns after a pause starts from rest or from its exact state |
| `strat` | 2 strings of 7 frets, 2 notes and the damp key, 6 places in the event queue. Four careful players: harmonics under the pedal, hammer-ons and slides with the damping hand, dead notes and pinches, the hand reading ahead, with a strum of up to 2 ticks, so that a string may wait longer than a touch lasts. Four hurried ones, whose low key asks for its string: pinches under the pedal, slides, the damping hand, the lookahead turned on and off | of the careful: `CarefulHands` (`RingsForSomebody`, `FleshStays`) and `CarefulFrets` (`HeardWhereHeld`, `LiftEnds`); of all: `NoMidiIsOvertaken`, and by which steps a string comes to ring for nobody or flesh is lifted (`OnlyLatePicksRingForNobody`, `OnlyTheLateLiftFlesh`) |
| `string_voice` | 2 notes, picked, palm-muted, hammered or slid, at once or 2 samples later; a contact of 4 samples, a crossfade of 5, 1 sample of each later phase | `NothingClicks`, `StopOpensGently`, `PlayedStringIsOpen`, `BoundaryIsWhole`, `OneHand` |

Why the bounds are enough to be interesting. Three slots fill, wrap and refuse,
and two gestures are what an order needs; two slots make every second gesture
overflow. Two owners with three fingers fill an owner queue and still leave a
release that matches nothing. Two strings that share a note, with a note that
only one of them plays, force stealing, legato, re-fingering and doubling. Three
fingers allow an overlap that outlives a mode switch. Three events in a group are
two attacks with anything in between. Three strings are what an edge that moves
outward needs, with a string behind it and one ahead. Blocks of three samples are
longer than the return's delay, so a block is cut into unequal chunks, and a ring
of four wraps; a fade of two samples can be turned around in its middle. An
amplifier's memory depends on its own weight alone, so two of the three are
enough, and they are interchangeable. The Stratocaster's two notes share the upper
string, one of them open there, and the lower string's octave harmonic is the
other one. The keys of `note_owners` and the amplifiers of `fx_gain` are used with
their symmetry, and so are the frets of `string_voice`; those runs have no liveness
property. A crossfade of five samples is longer than a contact and than a pick's
way, so it is heard in part when the next note, its pick, or both come.

Named bounds: `MaxDown` (fingers; a setup's `down` in `MpeOwnership`), `ChordEvents` (the code's
128), a client's `chord` and `due` in `StringOwnership` (its longest chord, the
Note Offs it may owe), `OwnersPerNote` (the code's limit,
made small), `MaxHost`, `MaxGestures`, `Capacity` (the code's 256), `MaxBlock`
(the host's longest block), `MaxPending`, `MaxEvents` and `MaxMidi` (limits of
`StratPerformer`: held-back MIDI overflows in `strat`, where the oldest message
then plays early; of its players only the hurried overflow `MaxEvents`),
`MaxUnread` (notes sent in one sample with the lookahead on). The timings of
`StrumStroke`, `AudioPath` and `StratPerformer` are CONSTANTS: small numbers in
the order of the code's.

**Fairness.** `UiMidiQueue!FairSpec` and `PluginProcessor!Fairness` assume that
the host, once it has called, finishes the call and keeps calling processBlock
while the processor is prepared, and that the message thread finishes a call it
is in. Nobody has to play, click, or press panic. In `PluginProcessor` the
callback's own steps are strongly fair: a block holds finitely many events, so
the host's keyswitches, which interrupt it, cannot keep a block from ending.
The host guarantees it; the code has no loop or lock that waits for the other
thread. The other modules state safety only: nothing in them waits.

## 4. What is proved

`BlockProofs`, on the ring, for every capacity of at least two (the assumption the
ring's own modulo arithmetic needs) and every set of gestures:

* `TypeCorrect`: `Spec => []TypeOk`. Indices that are used without a bound
  check never leave the ring.
* `ProducerStaysOut`: `Spec => []ProducerKeepsOut`. The message thread never
  writes a slot the callback still has to read.

`TypeOk` is inductive. `ProducerKeepsOut` is not: the fullness test is made
against a read index that may be stale by the time the slot is written. The
proof strengthens it to `RingInv`: `TypeOk`; the snapshot's end lies between the
read and the write index (`SnapshotPublished`); and a producer that has passed
the test still has a free slot before the read index (`RoomForOne`), because the
consumer only ever moves that index towards the writer. The lemmas before it are
the arithmetic of going round the ring: `DistanceOfNext`, `NotFull`,
`DistanceFromMiddle`, `AheadIsThere`.

* `RingIsMailbox`: `Spec => RingImplementsMailbox`. The ring, taken apart into
  its atomic accesses, implements `GestureMailbox`, where accepting, raising,
  answering and consuming are one step each. Beside `RingInv` it needs
  `Posted`: the slot about to be published holds the gesture that was accepted.
  `LineIs`, `LineGrows` and `LineShrinks` say how the mapped queue changes with
  either index, `StoredBeyond` that a store outside the published range changes
  nothing of it; with them each step of the ring maps
  to one of the mailbox's actions or to a stutter.
* `BlocksArePartitioned`: `HistorySpec => StablePartition`. `Place` is where a
  stable partition puts the gesture of a slot, a count and not a filter, so that
  it can be reasoned about; `MCUiMidiQueue` has TLC compare it with the filters.
  The invariant `PassInv` says that the places of the window which are settled so
  far (`Settled`: the conditioning ones the first pass has come by, or all of them
  and what the second has come by) hold what they should, and that nothing else
  was played. It needs that the window does not change under the passes
  (`ProducerKeepsOut`) and that every published slot holds a gesture (`Filled`).

And on the walks of processBlock, for blocks and snapshots of every length, any
samples and any chord limit of at least one (`BoundAssumption`; the bounds of the
runs are not used):

* `GroupsArePartitioned`: `GroupSpec => []GroupIsStablePartition`. What holds at the
  end of a block says nothing of the middle of it, so the invariant `TurnInv` says
  it of every moment: the calls and the chord that waits are exactly the deeds whose
  turn comes before the one the walk stands at (`Due`), in turn. A deed has one
  turn (`OneDeedATurn`), a step of a walk makes the next one due (`NextTurn`), and a
  step from one loop to another none (`NoTurnBetween`), which is where it matters
  that the host's events are sorted, that a group is all of one position
  (`GroupOrder`), and that the editor's remainder waits exactly for raw sample 0.
* `ChordsStayWhole`: `GroupSpec => []ChordsAreWhole`. `ChordInv` adds which attacks
  still wait: those nothing has separated from where the walk is, unless they are
  in a full chord. That an attack is in no chord before its turn comes from
  `TurnInv` (`NotYetHeard`), and that the code's test for parting a batch
  is the property's separation from `ZoneSeen`: the first walk has seen all of a
  group's zone messages before the second begins.

`ElectryPerformerProofs`, for every set of styles, strings, gestures and
playable keys, every shift between written key and pitch, and any number of
fingers, assuming (`KeyAssumption`) that a written key has one meaning:

* `NoPhantoms`: `Spec => []NoPhantomKeys`. `NoPhantomKeys` is not inductive: in
  LATCH the release of a keyswitch gives nothing back, so a count left over from
  HOLD would outlive its finger. The proof adds `LatchOwnsNothing`, which is what
  `setPlayStyleKeysHold` clearing the owners on every switch is for.
* `SoloMaskOwned`: `Spec => []SoloMaskIsOwned`.
* `DoubleHoldsNoMore`: `Spec => []TheDoubleHoldsNoMore`.
* `OwnKeyLifts`: `Spec => OnlyItsOwnKeyLifts`, an action property.
* `OnePerformance`: `Spec => []GuitarsAgree`. Inductive once the shape is known:
  what `setOutputMode` gives the second guitar on entry is exactly what it
  missed, and everything else is applied to both.

* `StyleInForce`: `Spec => []StyleIsLatestOrBase`. The style in force is the
  newest held key's. `OrderKept` makes it inductive: the order is a sequence that
  names no key twice (`Once`), and `OrderWithout` and `OrderWith` say what taking
  a key out of it, or appending one, leaves of it.

All six rest on `ShapeKept` (both guitars are records with counted keys), on
lemmas that say what each call leaves of a guitar (`StyledFields` ...
`ReleasedFields`), and on `StepsAndNotes`: a step strikes one note, lifts one,
silences them all, or leaves them alone.

`EffectsProofs` holds the proofs of `FxGain`, for any set of amplifiers, and of
`AudioPath`. The first:

* `NothingFrozen`: `GainSpec => []NoFrozenTail`. `NoFrozenTail` speaks of what was
  heard in the last sample; the invariant `GainInv` behind it says of the state
  that a bank which is rendered holds no stale memory at all, heard or not, that a
  block which is not heard is at rest, and that a right channel is only taken from
  a left one that had the same samples (`Twins`). `ReturnsClean` is the step a
  crossfade could get wrong: a bank that is rendered next was rendered before,
  comes back from rest, or the whole block was at rest.

And of `AudioPath`, for every ring, every delay shorter than it, and every way of
cutting the sound into blocks and chunks:

* `ReturnIsConstant`: `Spec => []RoundTripIsConstant`. A sample comes back exactly
  one delay after it was rendered. The invariant `PathInv` says where every sample
  is in the middle of a chunk too: `Missing` of the chunk's samples have been heard
  and are not back in the ring yet, and every other one that has not been read
  lies in its place (`Holds`). It is inductive because a chunk is never longer
  than the delay, so nothing is read before it is pushed.
* `NothingStale`: `Spec => []NothingStaleIsHeard`. What is heard in the last
  samples says nothing of the next; the invariant `SoundInv` says of the filters'
  memories (`Kept`, `PathKept`) that none which the next chunk is heard through
  missed any of the sound, and that the idle freeze holds only at rest.
* `BypassHasNoStep`: `Spec => []FadeHasNoStep`. The wet level after any number of
  samples of a fade is a closed form (`WetAfter`), not a fold, so `moves`, the set
  of its changes from one sample to the next, can be bounded for every length of
  a fade and every place where it is turned around.

`StringVoiceProofs`, for any notes and any way of playing them, every length of a
contact, a crossfade and a pick's way (`VoiceAssumption`: contacts and
crossfades of at least four samples, as the code's lower limit has it):

* `BoundaryStaysWhole`: `Spec => []BoundaryIsWhole`, and
* `OneHandPlays`: `Spec => []OneHand`.

Both come from one invariant, `VoiceInv`, that each call makes of a `Sound` voice a
`Sound` one. `BoundaryIsWhole` needs that a fret is queued only behind a crossfade
that has been heard in part: one begun afresh would keep the old queue's head.
`OneHand` needs that a pick on its way to a string under the hand is one that
leaves the string ringing (`Handled`), for the hand's moves pass over the others;
this is why taking a note again in its pre-roll must not forget that the string
rings.

Three more come from `HeardInv`, `VoiceInv` with what was heard:

* `FretsDoNotClick`: `Spec => []NothingClicks`. Each head that can be heard next is
  as loud as it was, but for a step of the crossfade (`Levels`), whatever fret was
  queued in between.
* `HandMovesGently`: `Spec => []StopOpensGently`. `NextGain` is what the stopping
  hand will do in the next sample, and it is `Gentle` both from the gain heard
  before and to the next: a call between two samples may change the plan but not
  the gain.
* `PlayedStaysOpen`: `Spec => []PlayedStringIsOpen`, from `Opening`: a note that was
  played either has its contact still to come, or is being opened, or is open.

There is a lemma for each function of the module (`GeometryFits`,
`StrikeFits`, `ContactFits`, `FadedFits`, ...), and one for each group of actions.

`BlockProofs` has `MpeOwnership`'s theorems too, for all keys, channels and zone layouts, every length of an
owner queue, all wheels and ranges; finitely many keys (`QueueAssumption`), and
JUCE's promise that zones do not overlap or contain their masters
(`LayoutAssumption`):

* `OwnersAlwaysAgree`: `MpeSpec => []OwnersAgree`, and
* `EachFingerLiftsItsOwn`: `MpeSpec => []NoteOffKeepsIdentity`. Both are parts of one
  invariant, `OwnerInv`, which holds the type (`OwnerType`) beside them. The work is
  in the sequences: `Rank`, how many owners of its source stand up to a place in a
  queue, pairs a queue's owners with the fingers of that source, oldest with
  oldest, and the lemmas say what appending an owner or removing one in the middle
  does to every count and every rank (`AppendedCount`, `RemovedPairs`, ...).
* `OwnedBendsAreCurrent`: `MpeSpec => OwnedBendsFollow`. The member's own bend comes from
  `BendInv`: it depends on its own wheel alone (`BendIsOwn`), so no other channel's
  message can leave it behind. Of the master's wheel it cannot be an invariant, and is
  an action property: a member that is bent by it stays so in every step but one,
  `MasterLetsGo`, which the code does get wrong (section 5). A wheel that moves is a
  master's, and then every channel is refreshed, or it is no master's of any member
  (`WheelFollows`); an attack refreshes its own channel, and no release but that one
  moves a master's wheel (`MatchedFollows`).

`PluginProcessorProofs`, for every ring of at least two slots (`RingAssumption`),
every set of keys and styles, and host calls, clicks, restores and panics in any
order:

* `RingStaysSafe`: `Spec => []Ring!ProducerKeepsOut`, the ring's own property, here
  with prepare and release, which start the reader anew. `ControlInv` says which part
  of the reader each host call may be in, and `RingInv` is `BlockProofs`'s
  without the mailbox.
* `NoKeyHangs`: `Spec => []NoHangingKey`. `KeyInv` says it of the gestures on their
  way too: every Note On that waits in the ring is for a key that is down, or has
  its Note Off behind it (`OnsEnd`), and so has every key the performer holds,
  unless a reset lets go of it (`HeldEnd`). A refused Note Off raises the panic,
  which is a reset under way.
* `StripIsTrue`: with styles selected from one side only, `StripShowsBaseStyle`
  always holds. If the strip selects them (`ByStrip`), the performer plays the
  shown style or a click for it is the last one waiting; if the host does
  (`ByHost`), the strip is told between a keyswitch and any other step of the
  performer. With both it is false: section 5.

`StringOwnershipProofs`, for every number of strings, every tuning, any clients and
any choice of fingering among those the model leaves open:

* `NoneUnattended`: `Spec => []NothingRingsUnattended`. The invariant (`Attends`)
  is about each voice by itself, so one lemma on each of `Struck`, `Retargeted`,
  `Release` and `Stopped` carries the operations, and `WalkUp`, from each note of
  a chord to the next, carries a whole chord.
* `HeldNotesAreOwed`: `Spec => []HeldIsOwed`, chords, repeats, stolen and doubled
  strings, solo masks and stray Note Offs included. `HeldInv` adds the shape of
  the engine and that a string is free exactly when it has no owners (`Counted`).
  A note adds one owner at most and one expected Note Off; a hand that changes
  shape never adds an owner of any pitch, whatever it moves; a chord
  strikes each pitch once per event, because `Canonical` is one-to-one; and the
  Note Off that lifts one owner on every string of a pitch takes as many from what
  is expected. The broadcast mark is not needed for it.
* `LastFingerLastNoteOff`: `Spec => LastNoteOffLifts`, an action property, for
  clients without solo masks. `HeldInv` bounds what the engine expects from above;
  this needs the other direction. `Apart` has it for each pitch some string can
  play (`Reachable`), together with what keeps it so: no solo mask, every finger
  on its neck and no pitch on two strings (`Alone`), hence no broadcast mark
  (`Unmarked`). Without a mask every such pitch finds a string
  (`StringIsChosen`) and `Canonical` reaches the string of every pitch of a chord
  (`CanonicalReaches`), so every event that is due adds exactly one. A mask can
  refuse a Note On, and its Note Off then lifts another finger of the pitch.
* `PlainFingersStay`: `Spec => FingerMovesOnlyWhenNeeded`, an action property.
  `OnFrets` says that every finger is on its string's frets; then a shape that
  moved a plain finger and left its string empty would cost one held pitch more
  than the same shape with the finger where it was, and no member's string more or
  less (`ShapeKeepsFinger`), so the score of `noteOnChord` does not choose it. The
  walk over the chord's events carries `InHand`, a row of single notes `InTurn`.
  The proof settled what the property can say: a pitch that solo masks have put on
  two strings is gathered on one by a chord, and a Note Off lifts its two fingers
  one at a time, so the promise is for a finger that holds its pitch alone
  (`PlainFinger`) and for the steps that strike notes. The clients of `fingers` are
  too small to show either.
* `SingleNotesAgree` and `OneFingerPerMember`: `KeyDownMeansHeld` and
  `OneStringPerMember`, as long as notes are struck one at a time
  (`client.chord < 2`). For the chords of any client the first is false: `solo_chord`
  shows it, and two notes of one member channel at one sample break it without
  any solo mask.
* `PlainChordsAgree`: `KeyDownMeansHeld` for the chords that remain, those of
  notes that are no member's, played without solo masks (`PlainHand`); repeats,
  stolen strings and chords too wide for the hand are included. With each pitch on one string (`Apart`)
  and every finger on its frets, `ShapeKeepsFinger` says of the step in the middle
  of a chord, where the hand has its new shape and nothing is struck yet, that the
  shape empties no string but those about to be struck (`RefingeredFingers`).
  `FingeredBut` walks the chord's events and names the strings still to come.

With these three, what `fingers` checks of its two players is proved of every
player of their kinds.

`StrumStrokeProofs`, for every number of strings, any hosts, every pre-roll within
the window and every spread and delay (`StrokeAssumption`):

* `StrokesCrossOneWay`: `Spec => []PickCrossesOneWay`, and
* `StrokesAlternate`: `Spec => []HeardStrokesAlternate`. Both come from one invariant,
  `StrokeInv`, which is about the record that is passed from call to call, so there
  is a lemma for each call (`BeginStrokeIsFine`, `ReAnchorIsFine`, `JoinStrokeIsFine`,
  `ReserveIsSound`, `StrikeIsFine`, `ReleaseIsFine`, ...). `OnItsWay`: a string of the
  stroke waits exactly as long as its pick still has to travel from the stroke's
  edge, and longer only where a fret boundary detains it; moving the edge therefore
  moves every pick of the stroke. `Told` ties Alternate's next direction and the
  last one heard to the stroke's own, and `OnTheMove` says that a direction which is
  reserved and not yet heard has a pick on its way. The last is false in the middle
  of a call, where the old pick is gone and the new one not yet sent, so the calls
  inside one keep only the others (`Sound`).
  A chord, a pedal that comes up and a sample in which several picks arrive go
  over the strings in turn: a fold is an arbitrary recursive function to the
  provers, and `FoldsOf` and `Walked` say once that what each turn keeps, the whole
  walk keeps.

`StratPerformerProofs`, for every neck and set of keys, every size of the three
queues, every lookahead and stroke, and every host, careful or not:

* `HeldBackMidiStaysInOrder`: `Spec => []NoMidiIsOvertaken`. The invariant,
  `MidiInv`, adds only that the queues are queues (`QueuesFine`); TLC agrees with it
  on `strat`. The held-back queue is changed in few places (`InOrder` has a lemma
  for each: a message joins with the longest wait, the oldest leaves, the hand
  marks the notes it reads, all is forgotten, time passes). The work is in showing
  that nothing else reaches it: whatever a stroke, a fingering, a release or an
  event does, `Keeps` or `Still` holds of the player before and after. Six walks
  over strings, notes and messages are folds; their steps are told apart by name
  (`Step`), so that one lemma (`WalkCarries`) serves all of them. Turning the lookahead
  off plays the whole queue in one such walk and leaves it empty.

And in its second part, for the same hosts, none of them left out: hurried or
careful, with the lookahead or without, asking for strings or not, and with
queues of every size:

* `OnlyLatePicksLetStringsRing`: `Spec => OnlyLatePicksRingForNobody`, and
* `OnlyLateGesturesLiftFlesh`: `Spec => OnlyTheLateLiftFlesh`, action properties. As
  states, `RingsForSomebody` and `FleshStays` are false of a hurried player
  (section 5); these say that no step but the late ones makes them so, of any string
  by itself, whatever state the others are in. The invariant, `HandsInv`, is only
  that the player is `Whole`: all strings have all their parts, and the stroke that
  is assembled consists of keys. The argument is in the steps. Each operator of the
  hands moves one string or some (`MovesOne`), the rest keep what the properties
  read of them, and what is moved is `Spared`: if it rang for somebody before, it
  does after, and so for the flesh. A lemma for each operator (`ReleaseLetsGo`, ...)
  and one for each walk over strings compose to a whole stroke, a flush of the
  held-back messages or a panic; only the pick and the end of a touch are cases of
  their own.

The three rest on assumptions of the module: pitches and frets are whole numbers
(`NeckAssumption`), some messages can be held back (`QueueAssumption`), the damp key
plays no note and a key asks for a string there is, or for none (`PlayerAssumption`).

Model-checked only: of `StratPerformer`, for the careful player, `CarefulHands` and
`CarefulFrets`. They are no theorems, because the code enforces nothing of `careful`;
the second holds only while the event queue is never full besides, for a dropped
strike or end of a lift leaves a string as it was (section 5). Liveness (`EveryPanicIsAnswered`,
`EveryGestureIsConsumed`, `LiftedKeysFallSilent`) is out of the prover's reach, and
so are facts about recursive definitions by induction over data.

## 5. What the models found

One run shows a disagreement between the code and what it says of itself:

* `solo_chord`. A chord that moves a held pitch to a string a solo mask selects
  takes the owner from the old string and never releases its voice, which then
  rings with its key down and no Note Off to reach it (`ElectryEngine.cpp` 2694).

Others came up while modelling. They have no run of their own; the models follow
the code, and the properties or the hosts leave them out by name:

* A click stores the base style and then enqueues its keyswitch
  (`PluginProcessor.cpp` 1314). If the callback latches a MIDI keyswitch in
  between, the strip keeps one style and the performer plays the other, though
  `PluginProcessor.h` 290 says they retain "this base style". `one_source` takes
  styles from one side at a time.
* A chord that moves an MPE member channel to another string, or two notes of one
  member at one sample, leave the old string's key down; the single-note path
  releases it. The member player of `fingers` plays single notes.
* A release centres the wheel of the channel its note was struck on, even when
  that channel has since become a zone's master, and tells the zone's members nothing
  of it (`PluginProcessor.cpp` 885-894). Until the next refresh the members keep the
  old bend. `note_owners` has such zones, and `OnlyAReleaseMissesTheMaster` names the
  release as the only step that does this.
* Selecting Alternate again restarts it with a down stroke (`src/README.md` 372), but
  the refund of a cancelled older stroke can set the next direction up
  afterwards (`ElectryEngine.cpp` 7902). `fresh` leaves the first stroke after a
  selection out of `HeardStrokesAlternate`.
* In the one host sample in which the stereo field closes, the right channel is
  read from a decimator that took only a part of it (`ElectryEngine.cpp`
  10447-10470). `NothingStaleIsHeard` exempts it (`closes`).
* The Stratocaster's hurried player. The pedal comes up while the strike of a
  sustained note is still to come, or the damp key moves: the strike then rings
  with nobody to stop it. A strike of an earlier stroke plays after its string
  was struck again. The end of a harmonic's touch lifts whatever lies on the
  string by then (`StratPerformer.cpp` 1324), such as the released finger of a pinch
  whose key came up before its strike; a slide or a hammer-on lifts the
  damping hand. A slide from a string just released to the open string leaves it
  stopped at the old fret. All notes off drops the end of a lift on a string the
  next note has already taken. `careful` leaves these out; the hurried players of
  `strat` have them, and its properties name what does it: a pick or the end of a
  touch on a string let go meanwhile (`LatePick`, `LateTouch`). What a lift may lose, no
  property says for them.
* A Stratocaster key lifted, struck again or hammered in the middle of a slide
  clears the slide without ending the finger's rub (`StratPerformer.cpp` 680);
  `StratString.h` 138-139 asks for a speed of 0 to end it.
* Two picks of different strokes land in one sample, and the later one's string is
  rendered first. The older pick then leaves the hand alone and its own string
  under the style it had before (`ElectryEngine.cpp` 6013-6043), until the hand
  next changes. `inHand` leaves it out of `OneHand`.
* A fresh string that is given another fret in its pre-roll counts as ringing
  (`ElectryEngine.cpp` 7545): a Note Off before its pick lets it fade as released
  instead of silencing it, which 7906-7912 says of a delayed retrigger only.
* A full event queue drops a strike or the end of a lift (`StratPerformer.cpp`
  865). In `strat` the hurried players do it, the careful ones do not.

## 6. What is not modelled, and why

String physics, pickups, body, circuits, the compressor, delay, modulation and
room, the Stratocaster's strings, bridge and circuit, and the frozen tables
compute on floating-point samples; no finite instance of them says anything.
They are by far the most lines of the program, which is why the map covers less
than a third of it. Of the effects only the blocks that may stand still are
modelled, because only there is a decision to get wrong. Continuous controllers
(resonance, palm pressure, velocity, the Stratocaster's bends, vibrato and
timbre) are passed through. Parameter text, presets and XML are formatting.
Painting reads and changes nothing. Tests, tools and build files are not part of
the running instrument.

Inside modelled parts: a `uint16_t` channel total saturates at 65535, far above
what full owner queues allow; the `uint64_t` style sequence does not wrap in
any performance; `Recover` (a non-finite sample silences a string) may happen at
any time in `StringOwnership` and `StringVoice` and is left out of `AudioPath`, which also has only
the shared path of the first engine and the 2x-oversampled rates. The clock of
`StrumStroke` and of `StratPerformer` is coarse: an order of two events that
depends on a fraction of a tick is a free choice or is not taken.

## 7. The plan

1. A session module: restore, panic and the latches with `pickStyleIndex`, and
   the lock-free snapshot of the visuals.
2. A composition of `MpeOwnership` with an abstract guitar, of which
   `StringOwnership` is shown to be an implementation: a guitar is a bag of held
   identities, and every Note Off removes one.
3. A composition of `StrumStroke` and `StringOwnership` on one string, for the
   picks that are cancelled by a re-fingering.

A theorem worth having: what a lift of `StratPerformer` may lose its end by, for any
player (a slide, a panic, a full queue); the invariant would say that the queue of
events is in the order of its times.

------------------------------- MODULE FxGain -------------------------------
(***************************************************************************)
(* The gain block of the effects (ElectryFx::processInternal): a pedal and *)
(* three amplifiers, each a circuit with a memory, in two banks that       *)
(* oversample differently.                                                 *)
(*                                                                         *)
(* Controls move smoothly, and what is not audible is not computed: the    *)
(* whole block, a bank, the pedal, the amplifiers, an amplifier that was   *)
(* faded out, and the right channel while both are the same.  Each of them *)
(* has to start from rest, or from the exact state, when it is heard again *)
(* ("rather than from a stale tail").                                      *)
(*                                                                         *)
(* Of a smoothed level only this is modelled: nothing, a part or all.  A   *)
(* step is one host sample.                                                *)
(***************************************************************************)
EXTENDS Naturals, FiniteSets, FilterMemory

CONSTANT Models          \* AmpModel

VARIABLES
    target,    \* targetParameters_: what is wanted of the controls
    level,     \* the smoothed levels, see Levels
    bank,      \* the two banks of circuits, see RestingBank
    heard      \* whether the listener heard stale memory in this sample
gainVars == <<target, level, bank, heard>>

Banks == {"standard", "high"}
GainChannels == {"left", "right"}

Target == [distortion : BOOLEAN, amp : BOOLEAN, model : Models, high : BOOLEAN]

None == 0    Part == 1    All == 2
Level == {None, Part, All}

\* block: gainEngagement_; pedal, amp: pedalWet_, ampWet_; model:
\* ampModelWeights_; high: oversamplingHighMix_.
Levels == [block : Level, pedal : Level, amp : Level, model : [Models -> Level],
           high : Level]

Want(on) == IF on THEN All ELSE None

\* Where a level may be one sample later, on its way to a wanted one.
Toward(x, want) ==
    IF x = want THEN {x}
    ELSE IF want = All THEN (IF x = None THEN {Part} ELSE {Part, All})
    ELSE IF x = All THEN {Part} ELSE {None, Part}

-----------------------------------------------------------------------------
(* A circuit's memory: at rest; of every sample it should have had; not of *)
(* all of them.  A channel has one for its oversampling filters, the pedal *)
(* and each amplifier; wasActive of the code is memory that is not at rest.*)

Resting == [filters |-> "rest", pedal |-> "rest", amps |-> [m \in Models |-> "rest"]]
All3(Op(_), c) ==
    [filters |-> Op(c.filters), pedal |-> Op(c.pedal),
     amps |-> [m \in Models |-> Op(c.amps[m])]]

\* equal: gainChannelsEqual_; behind: rightGainStateStale_; alike, a history:
\* both channels had the same samples since the bank was reset.
RestingBank ==
    [circuits |-> [c \in GainChannels |-> Resting], equal |-> TRUE, behind |-> FALSE,
     alike |-> TRUE]

Left(b) == b.circuits["left"]
Right(b) == b.circuits["right"]

\* What the right channel would have, had it been computed: the left one's
\* state, if both had the same samples.
LikeLeft(b) == IF b.alike THEN Left(b) ELSE All3(LAMBDA m : "stale", Left(b))

-----------------------------------------------------------------------------
(* One sample through one bank, at the levels l.                           *)

\* updateAmpModelSelection
RetireModels(c, l) ==
    [c EXCEPT !.amps = [m \in Models |-> IF l.model[m] = None THEN "rest" ELSE c.amps[m]]]
Retire(b, l) ==
    IF l.amp = None THEN b
    ELSE [b EXCEPT !.circuits = [c \in GainChannels |-> RetireModels(b.circuits[c], l)]]

\* renderGainStage of one channel: what is not heard goes to rest.
Frame(c, l) ==
    [filters |-> Fed(c.filters),
     pedal |-> IF l.pedal > None THEN Fed(c.pedal) ELSE "rest",
     amps |-> [m \in Models |-> IF l.amp = None THEN "rest"
                                ELSE IF l.model[m] > None THEN Fed(c.amps[m])
                                ELSE Skipped(c.amps[m])]]

\* The left channel computed for both.
Shared(b, l) ==
    [b EXCEPT !.circuits = [left |-> Frame(Left(b), l),
                            right |-> All3(LAMBDA m : "stale", Right(b))],
              !.behind = TRUE]

\* Both channels, the right one from the state it would have had.
RenderedApart(b, l) ==
    LET right == IF b.behind THEN LikeLeft(b) ELSE Right(b)
    IN [circuits |-> [left |-> Frame(Left(b), l), right |-> Frame(right, l)],
        equal |-> FALSE, behind |-> FALSE, alike |-> FALSE]

\* renderBank: of two samples that are the same or not.
RenderBank(b, l, same) ==
    LET ready == Retire(b, l)
    IN IF b.equal /\ same THEN Shared(ready, l)
       ELSE [RenderedApart(ready, l) EXCEPT !.alike = b.alike /\ same]

Idle(b) == [b EXCEPT !.circuits = [c \in GainChannels |-> All3(Skipped, @[c])]]

\* What is heard of a channel's circuits, and of both channels of a bank.
Audible(c, l) ==
    {c.filters} \cup {m \in {c.pedal} : l.pedal > None}
    \cup {c.amps[m] : m \in {n \in Models : l.amp > None /\ l.model[n] > None}}
HeardOf(b, l) ==
    Audible(Left(b), l)
    \cup Audible(IF b.behind THEN LikeLeft(b) ELSE Right(b), l)

-----------------------------------------------------------------------------
(* One sample through the block (processInternal).                         *)

\* The smoothing of the controls, the block's engagement and the banks' fade,
\* that waits while the block is not heard.
Smoothed ==
    {l \in [block : Toward(level.block, Want(target.distortion \/ target.amp)),
            pedal : Toward(level.pedal, Want(target.distortion)),
            amp : Toward(level.amp, Want(target.amp)),
            model : [Models -> Level],
            high : Toward(level.high, Want(target.high)) \cup {Want(target.high)}] :
        /\ \A m \in Models : l.model[m] \in Toward(level.model[m], Want(m = target.model))
        /\ l.high \in IF level.block = None \/ l.block = None THEN {Want(target.high)}
                     ELSE Toward(level.high, Want(target.high))}

\* The bank that comes back starts from rest; a fade turned around goes on.
Returning(bs) ==
    LET want == Want(target.high)
    IN [b \in Banks |->
          IF \/ b = "high" /\ level.high = None /\ want = All
             \/ b = "standard" /\ level.high = All /\ want = None
          THEN RestingBank ELSE bs[b]]

Weight(b, high) == IF b = "high" THEN high ELSE All - high

\* The block is heard, at least in part.
Sounding(next, same) ==
    LET clocked == Returning(bank)
        rendered == {b \in Banks : Weight(b, next.high) > None}
    IN /\ next.block > None
       /\ bank' = [b \in Banks |-> IF b \in rendered THEN RenderBank(clocked[b], next, same)
                                   ELSE Idle(clocked[b])]
       /\ heard' = ("stale" \in UNION {HeardOf(bank'[b], next) : b \in rendered})

\* Mutant: the block goes silent with its circuits as they are.
SilentAsItIs(next) ==
    /\ next.block = None
    /\ bank' = [b \in Banks |-> Idle(bank[b])]
    /\ heard' = FALSE

\* Nobody hears the block any more, or yet.
Silent(next) ==
    /\ next.block = None
    /\ bank' = IF level.block = None THEN bank ELSE [b \in Banks |-> RestingBank]
    /\ heard' = FALSE

-----------------------------------------------------------------------------
(* The effects' operations                                                 *)

\* The levels that reset leaves: every control where it is wanted.
Settled == [block |-> None, pedal |-> Want(target.distortion), amp |-> Want(target.amp),
            model |-> [m \in Models |-> Want(m = target.model)],
            high |-> Want(target.high)]

GainInit ==
    /\ target \in Target
    /\ level = Settled
    /\ bank = [b \in Banks |-> RestingBank]
    /\ heard = FALSE

\* setParameters, one control at a time: several that move at once are as
\* many steps with no sample between.
SetParameters(control) ==
    /\ \E to \in IF control = "model" THEN Models ELSE BOOLEAN :
          to # target[control] /\ target' = [target EXCEPT ![control] = to]
    /\ UNCHANGED <<level, bank, heard>>

\* Also what a sample that is not finite leads to.
ResetGain ==
    /\ level' = Settled
    /\ bank' = [b \in Banks |-> RestingBank]
    /\ heard' = FALSE
    /\ UNCHANGED target

ProcessGain(same) ==
    /\ \E next \in Smoothed :
          /\ level' = next
          /\ Sounding(next, same) \/ Silent(next)
    /\ UNCHANGED target

GainNext ==
    \/ \E control \in DOMAIN target : SetParameters(control)
    \/ ResetGain
    \/ \E same \in BOOLEAN : ProcessGain(same)

GainSpec == GainInit /\ [][GainNext]_gainVars

-----------------------------------------------------------------------------
(* Properties                                                              *)

\* The listener never hears a circuit that still remembers an older sound and
\* missed what came after it: neither when the block, a bank, the pedal or an
\* amplifier returns after a pause, nor when the right channel parts from the
\* left one it had been taken from.
NoFrozenTail == ~heard
=============================================================================

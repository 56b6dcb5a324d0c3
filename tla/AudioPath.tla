----------------------------- MODULE AudioPath -----------------------------
(***************************************************************************)
(* The way of the sound through ElectryPerformer::render: the engines, the *)
(* effects with their bypass fade, and the acoustic return that brings the *)
(* amplified sound back to the strings.                                    *)
(*                                                                         *)
(* Sound is not modelled, only which of it is where: each filter's memory  *)
(* is a member of Memory, and each cell of an engine's return ring holds   *)
(* how long ago its sample was rendered.  A host renders blocks of any     *)
(* length and calls the performer between them.                            *)
(***************************************************************************)
EXTENDS Integers, FiniteSetsExt, FilterMemory

CONSTANTS
    RingSize,      \* feedbackRingSize
    Delay,         \* feedbackDelaySamples_, see prepare
    Scratch,       \* the effects fade this many samples at a time
    RampLength,    \* fxRampLength
    Full,          \* fxWet when only the effects are heard, in parts
    FreezeAfter,   \* idleFreezeSamples
    MaxBlock,      \* bound: the longest block the host asks for
    Silence,
    Hosts          \* the hosts, see Host

\* What a host sets, and whether its notes sound.
Modes == {"Mono", "Stereo", "Double"}
Host == [modes : SUBSET Modes, bypass : SUBSET BOOLEAN, plays : BOOLEAN]

ASSUME PathAssumption ==
    /\ \A h \in Hosts : h \in Host
    /\ RingSize \in Nat /\ Delay \in 1 .. RingSize - 1
    /\ {Scratch, RampLength, FreezeAfter, MaxBlock} \subseteq Nat \ {0}
    /\ Full \in Nat \ {0} /\ Full % RampLength = 0
    /\ Silence \notin Int

VARIABLES
    pc,        \* what the callback does: "host", "engine", "effects", "return"
    todo,      \* samples of the block still to render, the present chunk's too
    chunk,     \* samples of the present chunk
    done,      \* samples of it that the present part of render has handled
    mode,      \* the Output control
    ring,      \* each engine's acoustic return
    path,      \* the first engine's shared signal path
    fx,        \* the effects' bypass
    host       \* who plays, of Hosts
vars == <<pc, todo, chunk, done, mode, ring, path, fx, host>>

Engines == {"first", "second"}
Active == IF mode = "Double" THEN Engines ELSE {"first"}

-----------------------------------------------------------------------------
(* The acoustic return: a ring of samples, each with its age, behind a     *)
(* silent lead-in.  hears: the sample that reaches the strings now; since: *)
(* samples rendered since the ring was reset.                              *)

Old == Delay + 1
Older(a) == IF a = Silence THEN a ELSE Min({a + 1, Old})

FreshRing == [cell |-> [i \in 0 .. RingSize - 1 |-> Silence], write |-> Delay,
              read |-> 0, available |-> Delay, hears |-> Silence, since |-> 0]

Step(i) == (i + 1) % RingSize

\* Time passes for every sample on its way.
Wait(r) == [r EXCEPT !.cell = [i \in DOMAIN r.cell |-> Older(r.cell[i])]]

\* The head of process: one sample of the return per host sample.
Hear(r) ==
    LET aged == [Wait(r) EXCEPT !.since = Min({@ + 1, Old})]
    IN IF r.available = 0 THEN [aged EXCEPT !.hears = Silence]
       ELSE [aged EXCEPT !.hears = aged.cell[r.read], !.read = Step(@), !.available = @ - 1]

\* pushAcousticReturn of one sample.
Push(r, age) ==
    LET put == [r EXCEPT !.cell[r.write] = age, !.write = Step(@)]
    IN IF r.available < RingSize THEN [put EXCEPT !.available = @ + 1]
       ELSE [put EXCEPT !.read = Step(@)]

-----------------------------------------------------------------------------
(* The shared path of an engine: pickup coils, DC blocker and decimator,   *)
(* once per channel; the second channel runs only while the stereo field   *)
(* is open.  neck: the neck pickups of the strings, that run only while    *)
(* the selector wants them.  closes: the field closed in this host sample; *)
(* heard, right: the memory that its left and its right channel come from. *)

Channels == {1, 2}
FreshPath(open) ==
    [coil |-> [c \in Channels |-> "rest"], decimator |-> [c \in Channels |-> "rest"],
     neck |-> "rest", wanted |-> TRUE, linked |-> ~open, quiet |-> 0, frozen |-> TRUE,
     closes |-> FALSE, heard |-> {}, right |-> "rest"]

\* Mutant: the second decimator keeps what it had when the field closed.
OpenFieldWithoutDecimator(p) == [p EXCEPT !.coil[2] = p.coil[1]]

\* Opening the field copies the first channel's memory to the second.
OpenField(p) == [p EXCEPT !.coil[2] = p.coil[1], !.decimator[2] = p.decimator[1]]

\* The control tick: the selector and the field move toward their targets.
Tick(p, wanted, open) ==
    LET opened == IF p.linked /\ open THEN OpenField(p) ELSE p
    IN [opened EXCEPT !.linked = ~open, !.closes = ~p.linked /\ ~open, !.wanted = wanted,
                      !.neck = IF wanted /\ ~p.wanted THEN "rest" ELSE @]

Running(p) == IF p.linked THEN {1} ELSE Channels
Feed(p, f) == [c \in Channels |-> IF c \in Running(p) THEN Fed(f[c]) ELSE "stale"]

\* freezeSharedPath
Freeze(p) ==
    [p EXCEPT !.coil = [c \in Channels |-> "rest"], !.frozen = TRUE, !.quiet = 0,
              !.decimator = [c \in Channels |-> "rest"]]

\* renderInternalSample and the decimators that take its result: strings may
\* sound, and the path's own ringing may be loud enough to stay awake.
Coil(p, sounds) ==
    [p EXCEPT !.neck = IF ~sounds THEN @ ELSE IF p.wanted THEN Fed(@) ELSE Skipped(@),
              !.coil = Feed(p, @)]

Listen(p, sounds) ==
    [p EXCEPT !.heard = @ \cup {m \in {p.neck} : sounds /\ p.wanted}
                          \cup {p.coil[c] : c \in Running(p)}]

Watch(p, awake) == [p EXCEPT !.quiet = IF awake THEN 0 ELSE @ + 1,
                             !.frozen = @ /\ ~awake]

Rest(p) == IF p.quiet >= FreezeAfter THEN Freeze(p) ELSE p

Decimate(p) == IF p.frozen THEN p ELSE [p EXCEPT !.decimator = Feed(p, @)]

Phase(p, sounds, loud) ==
    IF ~sounds /\ p.frozen THEN p
    ELSE Decimate(Rest(Watch(Listen(Coil(p, sounds), sounds), sounds \/ loud)))

\* One host sample at twice the host rate: two phases, and the right channel
\* has a decimator of its own unless the field was closed all the time.
\* sounds, loud: in either phase.
RenderSample(p, ticks, wanted, open, sounds, loud) ==
    LET begun == [p EXCEPT !.heard = {}, !.closes = FALSE, !.right = "rest"]
        one == Phase(IF ticks THEN Tick(begun, wanted, open) ELSE begun,
                     sounds[1], loud[1])
        two == Phase(one, sounds[2], loud[2])
        side == IF p.linked /\ two.linked THEN 1 ELSE 2
    IN IF one.frozen /\ two.frozen THEN two
       ELSE [two EXCEPT !.heard = @ \cup {two.decimator[1]},
                        !.right = two.decimator[side]]

-----------------------------------------------------------------------------
(* The effects and their bypass fade.  moves: the changes of the wet level *)
(* from a sample to the next; heard: memory the listener heard.            *)

Calm(f) == [f EXCEPT !.memory = "rest"]
FreshFx(enabled) ==
    [wet |-> IF enabled THEN Full ELSE 0, target |-> IF enabled THEN Full ELSE 0,
     step |-> 0, remaining |-> 0, enabled |-> enabled, memory |-> "rest",
     moves |-> {}, heard |-> {}]

\* Mutant: a fade that is under way ends when it would have ended.
SetEffectsOnTime(f, enabled) ==
    LET target == IF enabled THEN Full ELSE 0
    IN IF target = f.target THEN f
       ELSE [f EXCEPT !.enabled = enabled, !.target = target,
                      !.remaining = IF @ = 0 THEN RampLength ELSE @,
                      !.step = (target - f.wet) \div RampLength]

\* setEffectParameters
SetEffects(f, enabled) ==
    LET target == IF enabled THEN Full ELSE 0
        calm == IF enabled /\ f.wet = 0 /\ f.target = 0 THEN Calm(f) ELSE f
    IN IF target = f.target THEN [calm EXCEPT !.enabled = enabled]
       ELSE [calm EXCEPT !.enabled = enabled, !.target = target,
                         !.remaining = RampLength,
                         !.step = (target - f.wet) \div RampLength]

\* One round of the loop in processEffects, of n samples.
Steady(f) ==
    IF f.wet = Full THEN [f EXCEPT !.memory = Fed(@), !.heard = {Fed(f.memory)}]
    ELSE [f EXCEPT !.memory = Skipped(@)]

\* The wet level of a fade that is under way, i samples from now.
WetAfter(f, i) == IF i < f.remaining THEN f.wet + i * f.step ELSE f.target

Apart(a, b) == IF a > b THEN a - b ELSE b - a

Fading(f, n) ==
    LET fed == Fed(f.memory)
        faded == [f EXCEPT
            !.memory = fed,
            !.wet = WetAfter(f, n),
            !.remaining = Max({0, @ - n}),
            !.moves = {Apart(WetAfter(f, i), WetAfter(f, i - 1)) : i \in 1 .. n},
            !.heard = {m \in {fed} : \E i \in 1 .. n : WetAfter(f, i) > 0}]
    IN IF faded.remaining = 0 /\ faded.wet = 0 THEN Calm(faded) ELSE faded

-----------------------------------------------------------------------------
(* What the host calls between two renders                                 *)

Init ==
    /\ pc = "host" /\ todo = 0 /\ chunk = 0 /\ done = 0
    /\ host \in Hosts /\ mode \in host.modes
    /\ ring = [e \in Engines |-> FreshRing]
    /\ path = FreshPath(mode = "Stereo")
    /\ \E on \in host.bypass : fx = FreshFx(on)

\* Mutant: Double is entered with what the second engine heard last.
SetOutputModeKeepingRing(m) ==
    /\ pc = "host" /\ mode' = m
    /\ UNCHANGED <<pc, todo, chunk, done, ring, path, fx, host>>

\* setEngineParameters: Double resets the second engine as it begins.
SetOutputMode(m) ==
    /\ pc = "host" /\ mode' = m
    /\ ring' = IF m = "Double" /\ mode # "Double"
               THEN [ring EXCEPT !["second"] = FreshRing] ELSE ring
    /\ UNCHANGED <<pc, todo, chunk, done, path, fx, host>>

\* The bypass.  Bound: no reversal so early that the step is not whole.
SetEffectParameters(enabled) ==
    /\ pc = "host"
    /\ (Full - fx.wet) % RampLength = 0
    /\ fx' = SetEffects(fx, enabled)
    /\ UNCHANGED <<pc, todo, chunk, done, mode, ring, path, host>>

\* resetEngineWithArticulations
ResetEngines ==
    /\ ring' = [e \in Engines |-> FreshRing]
    /\ path' = FreshPath(mode = "Stereo")
AllSoundOff ==
    /\ pc = "host" /\ ResetEngines
    /\ fx' = Calm(fx)
    /\ UNCHANGED <<pc, todo, chunk, done, mode, host>>
Reset ==
    /\ pc = "host" /\ ResetEngines
    /\ fx' = FreshFx(fx.enabled)
    /\ UNCHANGED <<pc, todo, chunk, done, mode, host>>

-----------------------------------------------------------------------------
(* render: chunks no longer than the return's delay, each through the      *)
(* engines, the effects and back to the strings.                           *)

Chunk(n) == Min({Delay, n})

Render(n) ==
    /\ pc = "host"
    /\ pc' = "engine" /\ todo' = n /\ chunk' = Chunk(n) /\ done' = 0
    /\ UNCHANGED <<mode, ring, path, fx, host>>

\* process, one sample; the engines do not touch each other.
Process ==
    /\ pc = "engine"
    /\ ring' = [e \in Engines |-> IF e \in Active THEN Hear(ring[e]) ELSE Wait(ring[e])]
    /\ \E ticks, wanted, open \in BOOLEAN, sounds, loud \in [1 .. 2 -> BOOLEAN] :
          /\ \A i \in 1 .. 2 : (sounds[i] => host.plays) /\ ~(sounds[i] /\ loud[i])
          /\ IF ticks THEN (mode = "Stereo" => open) /\ (open => mode = "Stereo" \/ ~path.linked)
             ELSE wanted = path.wanted /\ open = ~path.linked
          /\ path' = RenderSample(path, ticks, wanted, open, sounds, loud)
    /\ IF done + 1 = chunk THEN pc' = "effects" /\ done' = 0
       ELSE pc' = "engine" /\ done' = done + 1
    /\ UNCHANGED <<todo, chunk, mode, fx, host>>

ProcessEffects ==
    /\ pc = "effects"
    /\ LET n == Min({chunk - done, Scratch})
           clean == [fx EXCEPT !.heard = {}, !.moves = {}]
       IN IF fx.remaining = 0
          THEN /\ fx' = Steady(clean)
               /\ pc' = "return" /\ done' = 0
          ELSE /\ fx' = Fading(clean, n)
               /\ pc' = IF done + n = chunk THEN "return" ELSE "effects"
               /\ done' = IF done + n = chunk THEN 0 ELSE done + n
    /\ UNCHANGED <<todo, chunk, mode, ring, path, host>>

\* pushAcousticReturn, one sample; after the last of the chunk the next begins.
PushAcousticReturn ==
    LET left == todo - chunk
        age == chunk - 1 - done
    IN /\ pc = "return"
       /\ ring' = [e \in Engines |-> IF e \in Active THEN Push(ring[e], age) ELSE ring[e]]
       /\ IF done + 1 < chunk THEN done' = done + 1 /\ UNCHANGED <<pc, todo, chunk>>
          ELSE /\ done' = 0 /\ todo' = left /\ chunk' = Chunk(left)
               /\ pc' = IF left = 0 THEN "host" ELSE "engine"
       /\ UNCHANGED <<mode, path, fx, host>>

Next ==
    \/ \E m \in host.modes : SetOutputMode(m)
    \/ \E enabled \in host.bypass : SetEffectParameters(enabled)
    \/ AllSoundOff
    \/ Reset
    \/ \E n \in 1 .. MaxBlock : Render(n)
    \/ Process
    \/ ProcessEffects
    \/ PushAcousticReturn

Spec == Init /\ [][Next]_vars

-----------------------------------------------------------------------------
(* Properties                                                              *)

\* "the FIFO occupancy stays constant across any block partition": whatever the
\* lengths of the blocks, a string hears what was rendered Delay samples ago,
\* and silence until so much was rendered since its engine was reset.
RoundTripIsConstant ==
    \A e \in Active :
        LET r == ring[e]
        IN r.hears = IF r.since > Delay THEN Delay ELSE Silence

\* Nothing the listener hears went through a filter that has missed a part of
\* the sound it still remembers: not the effects after a bypass, not the shared
\* path after it froze, not a pickup that was faded out, not the right channel
\* when the stereo field opens.  In the one host sample in which the field
\* closes, the code hears a decimator that took no part of that sample.
NothingStaleIsHeard ==
    /\ "stale" \notin fx.heard \cup path.heard
    /\ path.right = "stale" => path.closes

\* The bypass fades: from a sample to the next the wet level moves by no more
\* than a fade of its length needs, however often it is turned around, and it
\* rests where the control says.
FadeHasNoStep ==
    /\ \A move \in fx.moves : move * RampLength <= Full
    /\ fx.remaining = 0 => fx.wet = IF fx.enabled THEN Full ELSE 0
=============================================================================

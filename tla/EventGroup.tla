----------------------------- MODULE EventGroup -----------------------------
(***************************************************************************)
(* How processBlock turns the host's MIDI of one block and the editor's    *)
(* gestures into calls of the performer (Source/PluginProcessor.cpp):      *)
(* events of one sample are walked twice, what conditions an attack first  *)
(* and the rest in source order, and the attacks that nothing separates    *)
(* become one chord.                                                       *)
(*                                                                         *)
(* An event is the source it comes from, its sample and what becomes of    *)
(* it; ElectryPerformer and MpeOwnership say what the calls do.            *)
(***************************************************************************)
EXTENDS Naturals, Sequences, FiniteSets, SequencesExt

CONSTANTS MaxHost,     \* bound: events of the host in a block
          MaxGestures, \* bound: gestures in the ring at the snapshot
          Samples,     \* raw positions, 0 .. ; Before is an earlier one
          Before,
          ChordEvents  \* maximumChordEvents

ASSUME BoundAssumption ==
    /\ MaxHost \in Nat /\ MaxGestures \in Nat /\ ChordEvents \in Nat \ {0}
    /\ Samples \subseteq Nat /\ 0 \in Samples /\ Before \notin Nat

\* on: a playable attack; off: a Note Off, pedal, wheel, CC120 or another
\* message of its own; key: a keyswitch, solo key, gesture or CC2; zone: the
\* byte that completes an RPN of an MPE zone; rpn: any other RPN byte;
\* pressure: aftertouch or a malformed message; slide: CC74 on a channel that
\* a zone uses whenever one is active.
HostKinds == {"on", "off", "key", "cc121", "cc123", "zone", "rpn", "pressure",
              "slide"}
GestureKinds == {"on", "off", "key"}

VARIABLES host,      \* the block's events, by position
          gestures,  \* the ring's snapshot, oldest first
          mpe,       \* some zone is active
          start,     \* first event of the group under way
          next,      \* the event a walk over the group has come to
          slot,      \* the gesture a pass over the snapshot has come to
          phase,
          remainder, \* uiRemainderPending
          batch,     \* groupBatch (or uiBatch): the attacks waiting
          accepted,  \* acceptedMpeRpn
          calls      \* what the performer has been told so far

groupVars == <<host, gestures, mpe, start, next, slot, phase, remainder, batch,
               accepted, calls>>

\* Sorted as a juce::MidiBuffer keeps its events.
Position(s) == IF s = Before THEN 0 ELSE s + 1
Sorted(s) == \A i, j \in DOMAIN s :
                 i < j => Position(s[i].at) <= Position(s[j].at)

Blocks == {s \in BoundedSeq([at : Samples \union {Before}, kind : HostKinds],
                            MaxHost) : Sorted(s)}

GroupInit ==
    /\ host \in Blocks
    /\ gestures \in BoundedSeq(GestureKinds, MaxGestures)
    /\ mpe \in BOOLEAN
    /\ start = 1 /\ next = 1 /\ slot = 1
    /\ phase = "snapshot"
    /\ remainder = FALSE
    /\ batch = <<>>
    /\ accepted = FALSE
    /\ calls = <<>>

-----------------------------------------------------------------------------
(* Events, batches and calls                                               *)

Host(i) == [source |-> "host", n |-> i]
Gesture(i) == [source |-> "editor", n |-> i]

Chord(events) == [does |-> "chord", events |-> events]
Call(what, e) == [does |-> what, events |-> <<e>>]

\* isAttackConditioningMidiEvent.
Conditions(kind) == kind \in {"key", "cc121", "cc123", "zone", "rpn"}

\* flushNoteOnBatch.
Flushed(b, c) == IF b = <<>> THEN c ELSE Append(c, Chord(b))

\* batchOrDispatchNoteOn of a playable note: a full batch is sounded first.
Batched(b, c, e) ==
    IF Len(b) = ChordEvents THEN [batch |-> <<e>>, calls |-> Flushed(b, c)]
                            ELSE [batch |-> Append(b, e), calls |-> c]

-----------------------------------------------------------------------------
(* The two passes over the snapshot                                        *)

PassOverSnapshot ==
    /\ slot \in DOMAIN gestures
    /\ slot' = slot + 1
    /\ UNCHANGED <<host, gestures, mpe, start, next, phase, remainder, accepted>>

\* dispatchUiMidiEventPass with conditioning: the others wait.
ConditionFromGesture ==
    /\ phase = "snapshot"
    /\ PassOverSnapshot
    /\ calls' = IF Conditions(gestures[slot])
                THEN Append(calls, Call("condition", Gesture(slot))) ELSE calls
    /\ UNCHANGED batch

\* The others follow at once, unless the host has something at raw sample 0 to be
\* heard with.
SnapshotConditioned ==
    /\ phase = "snapshot"
    /\ slot \notin DOMAIN gestures
    /\ slot' = 1
    /\ remainder' = (host # <<>> /\ host[1].at = 0)
    /\ phase' = IF remainder' THEN "condition" ELSE "gather"
    /\ UNCHANGED <<host, gestures, mpe, start, next, batch, accepted, calls>>

\* dispatchUiMidiEventPass without.
GatherGesture ==
    /\ phase = "gather"
    /\ PassOverSnapshot
    /\ CASE gestures[slot] = "on" ->
                LET b == Batched(batch, calls, Gesture(slot))
                IN  batch' = b.batch /\ calls' = b.calls
         [] gestures[slot] = "off" ->
                /\ batch' = <<>>
                /\ calls' = Append(Flushed(batch, calls), Call("lift", Gesture(slot)))
         [] OTHER -> UNCHANGED <<batch, calls>>

\* Before the host's events the editor's chord is sounded; among those of sample 0
\* the host's attacks may join it.
SnapshotGathered ==
    /\ phase = "gather"
    /\ slot \notin DOMAIN gestures
    /\ IF remainder
       THEN /\ phase' = "play"
            /\ UNCHANGED <<batch, calls>>
       ELSE /\ phase' = IF host = <<>> THEN "done" ELSE "condition"
            /\ batch' = <<>>
            /\ calls' = Flushed(batch, calls)
    /\ remainder' = FALSE
    /\ UNCHANGED <<host, gestures, mpe, start, next, slot, accepted>>

-----------------------------------------------------------------------------
(* The two walks over a group                                              *)

\* The group: from its first event to the last at the same raw position.
Group == {i \in start .. Len(host) : host[i].at = host[start].at}

Walking == next \in Group

ConditionCall(i) ==
    Call(CASE host[i].kind = "cc121" -> "resetConditioning"
           [] host[i].kind = "cc123" -> "releaseKeys"
           [] OTHER -> "condition", Host(i))

\* The first walk.  A zone message may switch the zones on or off.
ConditionEvent ==
    /\ phase = "condition"
    /\ Walking
    /\ calls' = IF Conditions(host[next].kind)
                THEN Append(calls, ConditionCall(next)) ELSE calls
    /\ accepted' = (accepted \/ host[next].kind = "zone")
    /\ mpe' \in IF host[next].kind = "zone" THEN BOOLEAN ELSE {mpe}
    /\ next' = next + 1
    /\ UNCHANGED <<host, gestures, start, slot, phase, remainder, batch>>

\* Between the walks the editor's other gestures, at raw sample 0.
GroupConditioned ==
    /\ phase = "condition"
    /\ ~Walking
    /\ next' = start
    /\ phase' = IF remainder /\ host[start].at = 0 THEN "gather" ELSE "play"
    /\ UNCHANGED <<host, gestures, mpe, start, slot, remainder, batch, accepted,
                   calls>>

\* With a zone active any RPN byte is taken for the zone's own.
PartsUnlessZoned(kind) ==
    \/ kind \in {"off", "cc121", "cc123"}
    \/ kind \in {"zone", "rpn", "slide"} /\ ~mpe

\* What an event of the second walk does to the batch: part it, join it, or
\* neither.
Parts(kind) ==
    \/ kind \in {"off", "cc121", "cc123"}
    \/ kind \in {"zone", "rpn"} /\ ~(accepted /\ mpe)
    \/ kind = "slide" /\ ~mpe

Advance ==
    /\ phase = "play"
    /\ Walking
    /\ next' = next + 1
    /\ UNCHANGED <<host, gestures, mpe, start, slot, phase, remainder, accepted>>

PlayAttack ==
    /\ Advance
    /\ host[next].kind = "on"
    /\ LET b == Batched(batch, calls, Host(next))
       IN  batch' = b.batch /\ calls' = b.calls

OwnCall(i) ==
    CASE host[i].kind = "cc121" -> <<Call("reset", Host(i))>>
      [] host[i].kind = "cc123" -> <<Call("release", Host(i))>>
      [] host[i].kind = "off" -> <<Call("lift", Host(i))>>
      [] OTHER -> <<>>

\* A second walk that carries the event out and then sounds the chord
\* before it.
PlayPartingLate ==
    /\ Advance
    /\ Parts(host[next].kind)
    /\ calls' = Flushed(batch, calls \o OwnCall(next))
    /\ batch' = <<>>

PlayParting ==
    /\ Advance
    /\ Parts(host[next].kind)
    /\ calls' = Flushed(batch, calls) \o OwnCall(next)
    /\ batch' = <<>>

\* Conditioned already, or ignored without parting a chord.
PlayNothing ==
    /\ Advance
    /\ host[next].kind # "on"
    /\ ~Parts(host[next].kind)
    /\ UNCHANGED <<batch, calls>>

EndGroup ==
    /\ phase = "play"
    /\ ~Walking
    /\ calls' = Flushed(batch, calls)
    /\ batch' = <<>>
    /\ start' = next
    /\ accepted' = FALSE
    /\ phase' = IF next > Len(host) THEN "done" ELSE "condition"
    /\ UNCHANGED <<host, gestures, mpe, next, slot, remainder>>

\* The block is over.
Ended == phase = "done" /\ UNCHANGED groupVars

GroupNext ==
    \/ ConditionFromGesture \/ SnapshotConditioned
    \/ GatherGesture \/ SnapshotGathered
    \/ ConditionEvent \/ GroupConditioned
    \/ PlayAttack \/ PlayParting \/ PlayNothing
    \/ EndGroup \/ Ended

GroupSpec == GroupInit /\ [][GroupNext]_groupVars

-----------------------------------------------------------------------------
(* Properties                                                              *)

\* A deed is what is done for an event: conditioning in the first walk or pass,
\* and in the second what the event is for.
FirstDeeds == [key |-> "condition", zone |-> "condition", rpn |-> "condition",
               cc121 |-> "resetConditioning", cc123 |-> "releaseKeys"]

SecondDeeds == [on |-> "chord", off |-> "lift", cc121 |-> "reset",
                cc123 |-> "release"]

Deeds(kind, e) ==
    {<<deed[kind], e>> : deed \in {d \in {FirstDeeds, SecondDeeds} : kind \in DOMAIN d}}

OwedDeeds ==
    UNION ({Deeds(host[i].kind, Host(i)) : i \in DOMAIN host}
           \union {Deeds(gestures[i], Gesture(i)) : i \in DOMAIN gestures})

IsFirst(deed) == deed[1] \in {"condition", "resetConditioning", "releaseKeys"}

\* When a deed is due: at which raw position (0 is before all), in which pass or
\* walk there, for which event of it.
Turn(deed) ==
    LET e == deed[2]
        together == host # <<>> /\ host[1].at = 0
    IN  IF e.source = "host"
        THEN <<Position(host[e.n].at) + 1, IF IsFirst(deed) THEN 2 ELSE 4, e.n>>
        ELSE IF IsFirst(deed) THEN <<0, 1, e.n>>
        ELSE <<IF together THEN Position(0) + 1 ELSE 0, 3, e.n>>

Sooner(s, t) ==
    \/ s[1] < t[1]
    \/ s[1] = t[1] /\ s[2] < t[2]
    \/ s[1] = t[1] /\ s[2] = t[2] /\ s[3] < t[3]

\* The deeds of a list of calls, each in its place: the call and the event of it.
Places(c) == UNION {{k} \X DOMAIN c[k].events : k \in DOMAIN c}
DeedAt(c, p) == <<c[p[1]].does, c[p[1]].events[p[2]]>>
ComesFirst(p, q) == p[1] < q[1] \/ (p[1] = q[1] /\ p[2] < q[2])

InTurn(c, deeds) ==
    /\ {DeedAt(c, p) : p \in Places(c)} = deeds
    /\ \A p, q \in Places(c) :
          ComesFirst(p, q) => Sooner(Turn(DeedAt(c, p)), Turn(DeedAt(c, q)))

\* A block's calls are a stable partition of its events, sample by sample:
\* the editor's conditioning, the host's, the editor's other gestures, the
\* host's.  Nothing is lost or done twice, every attack comes after all that
\* conditions its sample, and CC121 and CC123 act once in either walk, the
\* second time between the attacks they stand between (processBlock:
\* "Stable partition across event sources at the block boundary").
GroupIsStablePartition == phase = "done" => InTurn(calls, OwedDeeds)

Sounded == Flushed(batch, calls)

ChordsWith(e) ==
    {k \in DOMAIN Sounded :
        Sounded[k].does = "chord" /\ Contains(Sounded[k].events, e)}

\* What separates two attacks of one sample: a message that acts on its own,
\* and in ordinary MIDI an RPN byte or CC74 too.
Separates(i) ==
    CASE host[i].kind \in {"off", "cc121", "cc123"} -> TRUE
      [] host[i].kind = "slide" -> ~mpe
      [] host[i].kind \in {"rpn", "zone"} ->
             ~mpe \/ \A k \in Group : host[k].kind # "zone"
      [] OTHER -> FALSE

\* Two attacks of one sample are fingered as one chord exactly when nothing
\* separates them, wherever keyswitches, aftertouch and an MPE controller's
\* own messages fall between them; only a full chord parts them besides.
ChordsAreWhole ==
    phase = "play" /\ ~Walking =>
        \A i, j \in Group :
            i < j /\ host[i].kind = "on" /\ host[j].kind = "on" =>
                LET one == ChordsWith(Host(i)) \intersect ChordsWith(Host(j))
                    apart == \E k \in i + 1 .. j - 1 : Separates(k)
                IN  /\ apart => one = {}
                    /\ ~apart /\ one = {} =>
                           \E k \in ChordsWith(Host(i)) :
                               Len(Sounded[k].events) = ChordEvents

=============================================================================

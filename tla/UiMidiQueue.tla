---------------------------- MODULE UiMidiQueue ----------------------------
(***************************************************************************)
(* The lock-free ring that carries on-screen keyboard notes and            *)
(* articulation clicks from the message thread to the audio callback       *)
(* (Source/PluginProcessor.cpp).  One action per atomic access, so that    *)
(* the two threads interleave wherever the code lets them.                 *)
(*                                                                         *)
(*   message thread   enqueueUiMidiEvent, requestPanic                     *)
(*   audio callback   the panic exchange at the top of processBlock,       *)
(*                    discardUiMidiEvents, the snapshot of the write       *)
(*                    index, two passes over the snapshot (attack          *)
(*                    conditioning first, then the rest) and the store     *)
(*                    that gives the slots back.                           *)
(***************************************************************************)
EXTENDS Naturals, Sequences

CONSTANTS Capacity,     \* uiQueueCapacity: slots of the ring
          Events,       \* gestures, as opaque values
          Conditioning, \* those with isAttackConditioningNote(note)
          Blank         \* a slot nobody has written yet

ASSUME CapacityAssumption == Capacity \in Nat /\ Capacity >= 2
ASSUME EventsAssumption == Conditioning \subseteq Events /\ Blank \notin Events

VARIABLES
    uiMidiQueue,    \* the slots
    uiWriteIndex,   \* published by the message thread
    uiReadIndex,    \* published by the audio callback
    panicRequested, \* raised by anyone, exchanged for FALSE by the callback
    producer,       \* [pc, event]: where the message thread stands
    consumer        \* [pc, end, cursor]: where the callback stands

vars == <<uiMidiQueue, uiWriteIndex, uiReadIndex, panicRequested,
          producer, consumer>>

Indices == 0 .. Capacity - 1

NextIndex(i) == IF i = Capacity - 1 THEN 0 ELSE i + 1

\* How many slots lie from one index up to another, going round the ring.
Distance(from, to) ==
    IF from <= to THEN to - from ELSE Capacity - from + to

\* The index n slots further round.
Ahead(i, n) == IF i + n < Capacity THEN i + n ELSE i + n - Capacity

\* The gestures stored from one index up to another.
Between(from, to) ==
    [n \in 1 .. Distance(from, to) |-> uiMidiQueue[Ahead(from, n - 1)]]

Queued == Between(uiReadIndex, uiWriteIndex)

Init ==
    /\ uiMidiQueue = [i \in Indices |-> Blank]
    /\ uiWriteIndex = 0
    /\ uiReadIndex = 0
    /\ panicRequested = FALSE
    /\ producer = [pc |-> "idle", event |-> Blank]
    /\ consumer = [pc |-> "idle", end |-> 0, cursor |-> 0]

-----------------------------------------------------------------------------
(* Message thread                                                          *)

\* The fullness test dropped.
EnqueueAcceptWhenFull(e) ==
    /\ producer.pc = "idle"
    /\ producer' = [pc |-> "store", event |-> e]
    /\ UNCHANGED <<uiMidiQueue, uiWriteIndex, uiReadIndex, panicRequested,
                   consumer>>

\* enqueueUiMidiEvent finds a free slot: the read index it loaded is not next.
EnqueueAccept(e) ==
    /\ producer.pc = "idle"
    /\ NextIndex(uiWriteIndex) # uiReadIndex
    /\ producer' = [pc |-> "store", event |-> e]
    /\ UNCHANGED <<uiMidiQueue, uiWriteIndex, uiReadIndex, panicRequested,
                   consumer>>

\* enqueueUiMidiEvent finds the ring full and gives the gesture up.
EnqueueRefuse(e) ==
    /\ producer.pc = "idle"
    /\ NextIndex(uiWriteIndex) = uiReadIndex
    /\ producer' = [pc |-> "alarm", event |-> e]
    /\ UNCHANGED <<uiMidiQueue, uiWriteIndex, uiReadIndex, panicRequested,
                   consumer>>

\* A refused gesture must become a panic, or a lost Note Off hangs a string.
RaisePanic ==
    /\ producer.pc = "alarm"
    /\ panicRequested' = TRUE
    /\ producer' = [producer EXCEPT !.pc = "idle"]
    /\ UNCHANGED <<uiMidiQueue, uiWriteIndex, uiReadIndex, consumer>>

StoreSlot ==
    /\ producer.pc = "store"
    /\ uiMidiQueue' = [uiMidiQueue EXCEPT ![uiWriteIndex] = producer.event]
    /\ producer' = [producer EXCEPT !.pc = "publish"]
    /\ UNCHANGED <<uiWriteIndex, uiReadIndex, panicRequested, consumer>>

PublishWrite ==
    /\ producer.pc = "publish"
    /\ uiWriteIndex' = NextIndex(uiWriteIndex)
    /\ producer' = [producer EXCEPT !.pc = "idle"]
    /\ UNCHANGED <<uiMidiQueue, uiReadIndex, panicRequested, consumer>>

\* requestPanic: the editor's panic button.
RequestPanic ==
    /\ producer.pc = "idle"
    /\ panicRequested' = TRUE
    /\ UNCHANGED <<uiMidiQueue, uiWriteIndex, uiReadIndex, producer, consumer>>

-----------------------------------------------------------------------------
(* Audio callback                                                          *)

\* processBlock exchanges the flag for FALSE and either resets or goes on.
ExchangePanic ==
    /\ consumer.pc = "idle"
    /\ panicRequested' = FALSE
    /\ consumer' = [consumer EXCEPT !.pc =
                       IF panicRequested THEN "discard" ELSE "snapshot"]
    /\ UNCHANGED <<uiMidiQueue, uiWriteIndex, uiReadIndex, producer>>

\* discardUiMidiEvents loads the write index ...
DiscardLoad ==
    /\ consumer.pc = "discard"
    /\ consumer' = [consumer EXCEPT !.pc = "discarding", !.end = uiWriteIndex]
    /\ UNCHANGED <<uiMidiQueue, uiWriteIndex, uiReadIndex, panicRequested,
                   producer>>

\* ... and stores it as the read index.
DiscardStore ==
    /\ consumer.pc = "discarding"
    /\ uiReadIndex' = consumer.end
    /\ consumer' = [consumer EXCEPT !.pc = "snapshot"]
    /\ UNCHANGED <<uiMidiQueue, uiWriteIndex, panicRequested, producer>>

\* A second clearing of the flag, after the reset it asked for.
SnapshotClearingPanic ==
    /\ consumer.pc = "snapshot"
    /\ consumer' = [pc |-> "conditioning", end |-> uiWriteIndex,
                    cursor |-> uiReadIndex]
    /\ panicRequested' = FALSE
    /\ UNCHANGED <<uiMidiQueue, uiWriteIndex, uiReadIndex, producer>>

\* uiBegin is the read index, which only this thread writes; uiEnd is kept.
Snapshot ==
    /\ consumer.pc = "snapshot"
    /\ consumer' = [pc |-> "conditioning", end |-> uiWriteIndex,
                    cursor |-> uiReadIndex]
    /\ UNCHANGED <<uiMidiQueue, uiWriteIndex, uiReadIndex, panicRequested,
                   producer>>

AdvanceCursor ==
    /\ consumer' = [consumer EXCEPT !.cursor = NextIndex(consumer.cursor)]
    /\ UNCHANGED <<uiMidiQueue, uiWriteIndex, uiReadIndex, panicRequested,
                   producer>>

\* A pass dispatches the gestures that belong to it ...
DispatchSlot(pass, members, e) ==
    /\ consumer.pc = pass
    /\ consumer.cursor # consumer.end
    /\ uiMidiQueue[consumer.cursor] = e
    /\ e \in members
    /\ AdvanceCursor

\* ... and leaves the others to the other pass.
SkipSlot(pass, members) ==
    /\ consumer.pc = pass
    /\ consumer.cursor # consumer.end
    /\ uiMidiQueue[consumer.cursor] \notin members
    /\ AdvanceCursor

\* The slots given back between the two passes instead of after both.
RestartAfterEarlyRelease ==
    /\ consumer.pc = "conditioning"
    /\ consumer.cursor = consumer.end
    /\ consumer' = [consumer EXCEPT !.pc = "remainder", !.cursor = uiReadIndex]
    /\ uiReadIndex' = consumer.end
    /\ UNCHANGED <<uiMidiQueue, uiWriteIndex, panicRequested, producer>>

\* The second pass starts again at uiBegin.
RestartWithRemainder ==
    /\ consumer.pc = "conditioning"
    /\ consumer.cursor = consumer.end
    /\ consumer' = [consumer EXCEPT !.pc = "remainder", !.cursor = uiReadIndex]
    /\ UNCHANGED <<uiMidiQueue, uiWriteIndex, uiReadIndex, panicRequested,
                   producer>>

\* The slots never given back.
ReleaseNothing ==
    /\ consumer.pc = "remainder"
    /\ consumer.cursor = consumer.end
    /\ consumer' = [consumer EXCEPT !.pc = "idle"]
    /\ UNCHANGED <<uiMidiQueue, uiWriteIndex, uiReadIndex, panicRequested,
                   producer>>

\* The read index is stored only once both passes have read the slots.
ReleaseSlots ==
    /\ consumer.pc = "remainder"
    /\ consumer.cursor = consumer.end
    /\ uiReadIndex' = consumer.end
    /\ consumer' = [consumer EXCEPT !.pc = "idle"]
    /\ UNCHANGED <<uiMidiQueue, uiWriteIndex, panicRequested, producer>>

ProducerStarts ==
    \/ \E e \in Events : EnqueueAccept(e) \/ EnqueueRefuse(e)
    \/ RequestPanic

ProducerContinues == RaisePanic \/ StoreSlot \/ PublishWrite

Remainder == Events \ Conditioning

Dispatch(e) ==
    \/ DispatchSlot("conditioning", Conditioning, e)
    \/ DispatchSlot("remainder", Remainder, e)

Skip ==
    \/ SkipSlot("conditioning", Conditioning)
    \/ SkipSlot("remainder", Remainder)

ConsumerStep ==
    \/ ExchangePanic
    \/ DiscardLoad
    \/ DiscardStore
    \/ Snapshot
    \/ \E e \in Events : Dispatch(e)
    \/ Skip
    \/ RestartWithRemainder
    \/ ReleaseSlots

Next == ProducerStarts \/ ProducerContinues \/ ConsumerStep

Spec == Init /\ [][Next]_vars

(***************************************************************************)
(* The host keeps calling processBlock while the processor is prepared,    *)
(* and the message thread finishes the call it has begun; nobody has to    *)
(* play a gesture.                                                         *)
(***************************************************************************)
FairSpec == Spec /\ WF_vars(ConsumerStep) /\ WF_vars(ProducerContinues)

-----------------------------------------------------------------------------
(* Properties                                                              *)

\* Every index stays on the ring and every slot holds a gesture or nothing.
TypeOk ==
    /\ uiMidiQueue \in [Indices -> Events \cup {Blank}]
    /\ uiWriteIndex \in Indices
    /\ uiReadIndex \in Indices
    /\ panicRequested \in BOOLEAN
    /\ producer \in [pc : {"idle", "store", "publish", "alarm"},
                     event : Events \cup {Blank}]
    /\ consumer \in [pc : {"idle", "discard", "discarding", "snapshot",
                           "conditioning", "remainder"},
                     end : Indices, cursor : Indices]

Reading == consumer.pc \in {"conditioning", "remainder"}

\* The message thread never writes the slot the callback's passes still have
\* to read: "do not release the queue slots until both GUI passes have read
\* them" (processBlock), against a fullness test made on a stale read index.
ProducerKeepsOut ==
    producer.pc = "store" /\ Reading =>
        Distance(uiReadIndex, consumer.end) <= Distance(uiReadIndex, uiWriteIndex)
        /\ \A n \in 0 .. Distance(uiReadIndex, consumer.end) - 1 :
               Ahead(uiReadIndex, n) # uiWriteIndex

\* The ring is a mailbox of Capacity - 1 gestures: nothing posted is lost,
\* reordered, duplicated or altered on its way, whatever the interleaving.
Mailbox == INSTANCE GestureMailbox
               WITH Room <- Capacity - 1, queue <- Queued,
                    alarm <- panicRequested
RingImplementsMailbox == Mailbox!MailboxSpec

\* A panic raised at any moment, also while the callback is answering an
\* earlier one, is answered by a discard of the queue and a reset.
EveryPanicIsAnswered == panicRequested ~> consumer.pc = "discard"

\* A gesture the ring accepted does not wait in it for ever.
EveryGestureIsConsumed ==
    \A i \in Indices :
        uiReadIndex = i /\ uiWriteIndex # i ~> uiReadIndex # i

=============================================================================

---------------------------- MODULE BlockProofs ----------------------------
(***************************************************************************)
(* What one block is told, from the gesture's slot to the performer's      *)
(* call.                                                                   *)
(*                                                                         *)
(* The gesture ring is safe for every capacity and every set of gestures:  *)
(* its indices stay on the ring, the message thread never writes a slot    *)
(* the audio callback still has to read, the ring is a mailbox, and each   *)
(* block dispatches a stable partition of its snapshot (UiMidiDispatch).   *)
(* For blocks and snapshots of every length the walks over the events of   *)
(* both sources are a stable partition sample by sample, and attacks lie   *)
(* in chords as what stands between them says (EventGroup).  For every     *)
(* layout, depth of the queues and range of wheels, what the notes' owners *)
(* record is what the performer holds (MpeOwnership).                      *)
(***************************************************************************)
EXTENDS UiMidiDispatch, EventGroup, MpeOwnership, FiniteSetTheorems, SequenceTheorems, TLAPS

(***************************************************************************)
(* Facts about going round the ring.                                       *)
(***************************************************************************)

\* Stepping stays on the ring (uiMidiQueue is indexed without a bound check).
LEMMA NextIndexOnRing ==
    ASSUME NEW i \in Indices
    PROVE NextIndex(i) \in Indices
BY CapacityAssumption DEF NextIndex, Indices

\* A distance is a number of slots short of a whole turn.
LEMMA DistanceRange ==
    ASSUME NEW i \in Indices, NEW j \in Indices
    PROVE Distance(i, j) \in 0 .. Capacity - 1
BY CapacityAssumption DEF Distance, Indices

\* One more slot is one more step away, unless that closes the turn.
LEMMA DistanceOfNext ==
    ASSUME NEW i \in Indices, NEW j \in Indices, Distance(i, j) < Capacity - 1
    PROVE Distance(i, NextIndex(j)) = Distance(i, j) + 1
BY CapacityAssumption DEF Distance, NextIndex, Indices

\* The fullness test of enqueueUiMidiEvent leaves one slot free.
LEMMA NotFull ==
    ASSUME NEW i \in Indices, NEW j \in Indices, NextIndex(j) # i
    PROVE Distance(i, j) < Capacity - 1
BY CapacityAssumption DEF Distance, NextIndex, Indices

\* Giving slots back moves the reader closer to the writer by that many.
LEMMA DistanceFromMiddle ==
    ASSUME NEW i \in Indices, NEW j \in Indices, NEW k \in Indices,
           Distance(i, j) <= Distance(i, k)
    PROVE Distance(j, k) = Distance(i, k) - Distance(i, j)
BY CapacityAssumption DEF Distance, Indices

\* A slot is as far from the start as the number of steps taken to it.
LEMMA AheadIsThere ==
    ASSUME NEW i \in Indices, NEW n \in 0 .. Capacity - 1
    PROVE Ahead(i, n) \in Indices /\ Distance(i, Ahead(i, n)) = n
BY CapacityAssumption DEF Ahead, Distance, Indices

-----------------------------------------------------------------------------

\* The empty ring is well formed.
LEMMA TypeCorrectInitially == Init => TypeOk
<1> SUFFICES ASSUME Init PROVE TypeOk
  OBVIOUS
<1>1. 0 \in Indices
  BY CapacityAssumption DEF Indices
<1>2. uiMidiQueue \in [Indices -> Events \cup {Blank}]
  BY DEF Init
<1>3. producer \in [pc : {"idle", "store", "publish", "alarm"},
                   event : Events \cup {Blank}]
  BY DEF Init
<1>4. consumer \in [pc : {"idle", "discard", "discarding", "snapshot",
                         "conditioning", "remainder"},
                   end : Indices, cursor : Indices]
  BY <1>1 DEF Init
<1> QED
  BY <1>1, <1>2, <1>3, <1>4 DEF Init, TypeOk

\* TypeOk is inductive: no interleaving drives an index off the ring.
THEOREM TypeCorrect == Spec => []TypeOk
<1>1. TypeOk /\ [Next]_vars => TypeOk'
  <2> SUFFICES ASSUME TypeOk, [Next]_vars PROVE TypeOk'
    OBVIOUS
  <2> USE DEF TypeOk
  <2>1. ASSUME NEW e \in Events, EnqueueAccept(e) PROVE TypeOk'
    BY <2>1 DEF EnqueueAccept
  <2>2. ASSUME NEW e \in Events, EnqueueRefuse(e) PROVE TypeOk'
    BY <2>2 DEF EnqueueRefuse
  <2>3. CASE RequestPanic
    BY <2>3 DEF RequestPanic
  <2>4. CASE RaisePanic
    BY <2>4 DEF RaisePanic
  <2>5. CASE StoreSlot
    BY <2>5 DEF StoreSlot
  <2>6. CASE PublishWrite
    BY <2>6, NextIndexOnRing DEF PublishWrite
  <2>7. CASE ExchangePanic
    BY <2>7 DEF ExchangePanic
  <2>8. CASE DiscardLoad
    BY <2>8 DEF DiscardLoad
  <2>9. CASE DiscardStore
    BY <2>9 DEF DiscardStore
  <2>10. CASE Snapshot
    BY <2>10 DEF Snapshot
  <2>11. CASE AdvanceCursor
    BY <2>11, NextIndexOnRing DEF AdvanceCursor
  <2>12. CASE RestartWithRemainder
    BY <2>12 DEF RestartWithRemainder
  <2>13. CASE ReleaseSlots
    BY <2>13 DEF ReleaseSlots
  <2>14. CASE UNCHANGED vars
    BY <2>14 DEF vars
  <2> QED
    BY <2>1, <2>2, <2>3, <2>4, <2>5, <2>6, <2>7, <2>8, <2>9, <2>10, <2>11,
       <2>12, <2>13, <2>14
    DEF Next, ProducerStarts, ProducerContinues, ConsumerStep, Dispatch, Skip,
        DispatchSlot, SkipSlot
<1> QED
  BY TypeCorrectInitially, <1>1, PTL DEF Spec

-----------------------------------------------------------------------------
(***************************************************************************)
(* ProducerKeepsOut alone is not inductive.  It needs that the snapshot    *)
(* lies inside the published gestures, and that the fullness test made on  *)
(* a read index that may be stale by now still leaves a slot free: the     *)
(* callback only ever gives slots back.                                    *)
(***************************************************************************)
SnapshotPublished ==
    consumer.pc \in {"discarding", "conditioning", "remainder"} =>
        Distance(uiReadIndex, consumer.end) <= Distance(uiReadIndex, uiWriteIndex)

RoomForOne ==
    producer.pc \in {"store", "publish"} =>
        Distance(uiReadIndex, uiWriteIndex) < Capacity - 1

RingInv == TypeOk /\ SnapshotPublished /\ RoomForOne

\* The slot about to be written lies beyond everything still to be read.
LEMMA RingInvKeepsOut == RingInv => ProducerKeepsOut
<1> SUFFICES ASSUME RingInv, producer.pc = "store", Reading
             PROVE /\ Distance(uiReadIndex, consumer.end)
                        <= Distance(uiReadIndex, uiWriteIndex)
                   /\ \A n \in 0 .. Distance(uiReadIndex, consumer.end) - 1 :
                          Ahead(uiReadIndex, n) # uiWriteIndex
  BY DEF ProducerKeepsOut
<1>1. uiReadIndex \in Indices /\ uiWriteIndex \in Indices
      /\ consumer.end \in Indices
  BY DEF RingInv, TypeOk
<1>2. Distance(uiReadIndex, consumer.end) <= Distance(uiReadIndex, uiWriteIndex)
  BY DEF RingInv, SnapshotPublished, Reading
<1>3. ASSUME NEW n \in 0 .. Distance(uiReadIndex, consumer.end) - 1
      PROVE Ahead(uiReadIndex, n) # uiWriteIndex
  <2>1. n \in 0 .. Capacity - 1 /\ n < Distance(uiReadIndex, uiWriteIndex)
    BY <1>1, <1>2, DistanceRange, CapacityAssumption
  <2> QED
    BY <1>1, <2>1, AheadIsThere
<1> QED
  BY <1>2, <1>3

\* The invariant holds on every way the two threads interleave.
THEOREM RingInvariant == Spec => []RingInv
<1>1. Init => RingInv
  BY TypeCorrectInitially DEF Init, RingInv, SnapshotPublished, RoomForOne
<1>2. RingInv /\ TypeOk' /\ [Next]_vars => RingInv'
  <2> SUFFICES ASSUME RingInv, TypeOk', [Next]_vars
               PROVE SnapshotPublished' /\ RoomForOne'
    BY DEF RingInv
  <2>0. /\ uiReadIndex \in Indices /\ uiWriteIndex \in Indices
        /\ consumer.end \in Indices
        /\ producer.pc \in {"idle", "store", "publish", "alarm"}
        /\ consumer.pc \in {"idle", "discard", "discarding", "snapshot",
                            "conditioning", "remainder"}
        /\ producer = [pc |-> producer.pc, event |-> producer.event]
        /\ consumer = [pc |-> consumer.pc, end |-> consumer.end,
                       cursor |-> consumer.cursor]
    BY DEF RingInv, TypeOk
  <2>00. /\ Distance(uiReadIndex, uiWriteIndex) \in 0 .. Capacity - 1
         /\ Distance(uiReadIndex, consumer.end) \in 0 .. Capacity - 1
         /\ Distance(uiReadIndex, uiReadIndex) = 0
    <3>1. Distance(uiReadIndex, uiWriteIndex) \in 0 .. Capacity - 1
      BY <2>0, DistanceRange
    <3>2. Distance(uiReadIndex, consumer.end) \in 0 .. Capacity - 1
      BY <2>0, DistanceRange
    <3>3. Distance(uiReadIndex, uiReadIndex) = 0
      BY <2>0, CapacityAssumption DEF Distance, Indices
    <3> QED
      BY <3>1, <3>2, <3>3
  <2> USE <2>0, <2>00 DEF RingInv, SnapshotPublished, RoomForOne
  <2>1. ASSUME NEW e \in Events, EnqueueAccept(e)
        PROVE SnapshotPublished' /\ RoomForOne'
    BY <2>1, NotFull DEF EnqueueAccept
  <2>2. ASSUME NEW e \in Events, EnqueueRefuse(e)
        PROVE SnapshotPublished' /\ RoomForOne'
    BY <2>2 DEF EnqueueRefuse
  <2>3. CASE RequestPanic
    BY <2>3 DEF RequestPanic
  <2>4. CASE RaisePanic
    BY <2>4 DEF RaisePanic
  <2>5. CASE StoreSlot
    BY <2>5 DEF StoreSlot
  <2>6. CASE PublishWrite
    BY <2>6, DistanceOfNext, CapacityAssumption DEF PublishWrite
  <2>7. CASE ExchangePanic
    BY <2>7 DEF ExchangePanic
  <2>8. CASE DiscardLoad
    BY <2>8, CapacityAssumption DEF DiscardLoad
  <2>9. CASE DiscardStore
    BY <2>9, DistanceFromMiddle, CapacityAssumption DEF DiscardStore
  <2>10. CASE Snapshot
    BY <2>10, CapacityAssumption DEF Snapshot
  <2>11. CASE AdvanceCursor
    BY <2>11 DEF AdvanceCursor
  <2>12. CASE RestartWithRemainder
    BY <2>12 DEF RestartWithRemainder
  <2>13. CASE ReleaseSlots
    BY <2>13, DistanceFromMiddle, CapacityAssumption DEF ReleaseSlots
  <2>14. CASE UNCHANGED vars
    BY <2>14 DEF vars
  <2> QED
    BY <2>1, <2>2, <2>3, <2>4, <2>5, <2>6, <2>7, <2>8, <2>9, <2>10, <2>11,
       <2>12, <2>13, <2>14
    DEF Next, ProducerStarts, ProducerContinues, ConsumerStep, Dispatch, Skip,
        DispatchSlot, SkipSlot
<1> QED
  BY <1>1, <1>2, TypeCorrect, PTL DEF Spec

\* "Do not release the queue slots until both GUI passes have read them":
\* for every capacity, the message thread stays out of the callback's snapshot.
THEOREM ProducerStaysOut == Spec => []ProducerKeepsOut
BY RingInvariant, RingInvKeepsOut, PTL

-----------------------------------------------------------------------------
(***************************************************************************)
(* The ring as a mailbox: the gestures from one index up to another.       *)
(***************************************************************************)
Slots == Events \cup {Blank}

Line(q, from, to) == [n \in 1 .. Distance(from, to) |-> q[Ahead(from, n - 1)]]

\* They are a sequence, one for each slot between the indices.
LEMMA LineIs ==
    ASSUME NEW q \in [Indices -> Slots], NEW i \in Indices, NEW j \in Indices
    PROVE  /\ Line(q, i, j) \in Seq(Slots)
           /\ Len(Line(q, i, j)) = Distance(i, j)
           /\ Distance(i, j) \in 0 .. Capacity - 1
           /\ \A n \in 1 .. Distance(i, j) : Line(q, i, j)[n] = q[Ahead(i, n - 1)]
<1> DEFINE d == Distance(i, j)
<1>1. d \in 0 .. Capacity - 1
  BY DistanceRange
<1>2. \A n \in 1 .. d : q[Ahead(i, n - 1)] \in Slots
  BY <1>1, AheadIsThere, CapacityAssumption
<1>3. Line(q, i, j) = [n \in 1 .. d |-> q[Ahead(i, n - 1)]]
  BY DEF Line
<1> HIDE DEF d
<1>4. /\ Line(q, i, j) \in [1 .. d -> Slots] /\ d \in Nat
      /\ \A n \in 1 .. d : Line(q, i, j)[n] = q[Ahead(i, n - 1)]
  BY <1>1, <1>2, <1>3, CapacityAssumption
<1>5. Line(q, i, j) \in Seq(Slots) /\ Len(Line(q, i, j)) = d
  BY <1>4
<1> QED
  BY <1>1, <1>4, <1>5 DEF d

\* A slot that is stored beyond them changes none of them (StoreSlot).
LEMMA StoredBeyond ==
    ASSUME NEW q \in [Indices -> Slots], NEW i \in Indices, NEW j \in Indices,
           NEW e \in Slots
    PROVE  Line([q EXCEPT ![j] = e], i, j) = Line(q, i, j)
<1> DEFINE stored == [q EXCEPT ![j] = e]
<1>1. Distance(i, j) \in 0 .. Capacity - 1
  BY DistanceRange
<1>2. ASSUME NEW n \in 1 .. Distance(i, j)
      PROVE  stored[Ahead(i, n - 1)] = q[Ahead(i, n - 1)]
  <2>1. n - 1 \in 0 .. Capacity - 1 /\ n - 1 < Distance(i, j)
    BY <1>1, CapacityAssumption
  <2>2. Ahead(i, n - 1) \in Indices /\ Ahead(i, n - 1) # j
    BY <2>1, AheadIsThere, <1>1, CapacityAssumption
  <2> QED
    BY <2>2
<1> HIDE DEF stored
<1>3. Line(stored, i, j) = Line(q, i, j)
  BY <1>2 DEF Line
<1> QED
  BY <1>3 DEF stored

\* Publishing the index appends the stored gesture (PublishWrite).
LEMMA LineGrows ==
    ASSUME NEW q \in [Indices -> Slots], NEW i \in Indices, NEW j \in Indices,
           Distance(i, j) < Capacity - 1
    PROVE  Line(q, i, NextIndex(j)) = Append(Line(q, i, j), q[j])
<1> DEFINE old == Line(q, i, j)
           new == Line(q, i, NextIndex(j))
           d == Distance(i, j)
<1>1. NextIndex(j) \in Indices /\ Distance(i, NextIndex(j)) = d + 1
      /\ d \in 0 .. Capacity - 1 /\ d \in Nat
  BY NextIndexOnRing, DistanceOfNext, DistanceRange, CapacityAssumption
<1>2. Ahead(i, d) = j
  BY CapacityAssumption DEF Ahead, Distance, Indices
<1>3. q[j] \in Slots
  OBVIOUS
<1>4. /\ old \in Seq(Slots) /\ Len(old) = d
      /\ \A n \in 1 .. d : old[n] = q[Ahead(i, n - 1)]
  BY LineIs
<1>5. /\ new \in Seq(Slots) /\ Len(new) = d + 1
      /\ \A n \in 1 .. d + 1 : new[n] = q[Ahead(i, n - 1)]
  BY <1>1, LineIs
<1> HIDE DEF old, new, d
<1>6. /\ Append(old, q[j]) \in Seq(Slots)
      /\ Len(Append(old, q[j])) = d + 1
      /\ \A n \in 1 .. d : Append(old, q[j])[n] = old[n]
      /\ Append(old, q[j])[d + 1] = q[j]
  BY <1>1, <1>3, <1>4, AppendProperties
<1>7. \A n \in 1 .. d + 1 : new[n] = Append(old, q[j])[n]
  <2> TAKE n \in 1 .. d + 1
  <2>1. CASE n = d + 1
    <3>1. n - 1 = d
      BY <1>1, <2>1
    <3> QED
      BY <1>2, <1>5, <1>6, <2>1, <3>1
  <2>2. CASE n # d + 1
    <3>1. n \in 1 .. d
      BY <1>1, <2>2
    <3> QED
      BY <1>4, <1>5, <1>6, <3>1
  <2> QED
    BY <2>1, <2>2
<1>8. new = Append(old, q[j])
  BY <1>5, <1>6, <1>7, SeqEqual
<1> QED
  BY <1>8 DEF old, new

\* Moving the read index gives up the oldest (ReleaseSlots, DiscardStore).
LEMMA LineShrinks ==
    ASSUME NEW q \in [Indices -> Slots], NEW i \in Indices, NEW j \in Indices,
           NEW k \in Indices, Distance(i, k) <= Distance(i, j)
    PROVE  LET d == Distance(i, k)
           IN /\ Line(q, k, j) = SubSeq(Line(q, i, j), d + 1, Len(Line(q, i, j)))
              /\ d \in 0 .. Len(Line(q, i, j))
              /\ d = 0 => k = i
<1> DEFINE d == Distance(i, k)
           old == Line(q, i, j)
           new == Line(q, k, j)
           rest == SubSeq(old, d + 1, Len(old))
<1>1. d \in 0 .. Capacity - 1 /\ Distance(i, j) \in 0 .. Capacity - 1
      /\ Distance(k, j) = Distance(i, j) - d
  BY DistanceRange, DistanceFromMiddle
<1>2. d = 0 => k = i
  BY CapacityAssumption DEF Distance, Indices
<1>3. /\ old \in Seq(Slots) /\ Len(old) = Distance(i, j)
      /\ \A n \in 1 .. Distance(i, j) : old[n] = q[Ahead(i, n - 1)]
  BY LineIs
<1>4. /\ new \in Seq(Slots) /\ Len(new) = Distance(k, j)
      /\ \A n \in 1 .. Distance(k, j) : new[n] = q[Ahead(k, n - 1)]
  BY LineIs
<1>5. \A n \in 0 .. Distance(k, j) - 1 : Ahead(k, n) = Ahead(i, d + n)
  BY CapacityAssumption DEF Ahead, Distance, Indices
<1> HIDE DEF d, old, new
<1>6. d \in Nat /\ Len(old) \in Nat /\ d <= Len(old) /\ Capacity \in Nat
  BY <1>1, <1>3, CapacityAssumption DEF d
<1>7. /\ rest \in Seq(Slots)
      /\ Len(rest) = Distance(k, j)
      /\ \A n \in 1 .. Distance(k, j) : rest[n] = old[d + n]
  <2>1. \A n \in d + 1 .. Len(old) : old[n] \in Slots
    BY <1>3, <1>6, ElementOfSeq
  <2>2. /\ rest \in Seq(Slots)
        /\ Len(rest) = IF d + 1 <= Len(old) THEN Len(old) - (d + 1) + 1 ELSE 0
        /\ \A n \in 1 .. Len(old) - (d + 1) + 1 : rest[n] = old[(d + 1) + n - 1]
    BY <1>6, <2>1, SubSeqProperties
  <2> HIDE DEF rest
  <2> QED
    BY <1>1, <1>3, <1>6, <2>2
<1> HIDE DEF rest
<1>8. \A n \in 1 .. Distance(k, j) : new[n] = rest[n]
  <2> TAKE n \in 1 .. Distance(k, j)
  <2>1. n - 1 \in 0 .. Distance(k, j) - 1 /\ d + (n - 1) = (d + n) - 1
        /\ d + n \in 1 .. Distance(i, j)
    BY <1>1, <1>3, <1>6
  <2>2. new[n] = q[Ahead(i, (d + n) - 1)]
    BY <1>4, <1>5, <2>1
  <2> QED
    BY <1>3, <1>7, <2>1, <2>2
<1>9. new = rest
  BY <1>4, <1>7, <1>8, SeqEqual
<1> QED
  BY <1>2, <1>6, <1>9 DEF d, old, new, rest

-----------------------------------------------------------------------------
(***************************************************************************)
(* Every step of the ring is a step of the mailbox or changes nothing of   *)
(* it.  What is published is a gesture, and the one that was accepted.     *)
(***************************************************************************)
Posted ==
    /\ producer.pc \in {"store", "publish"} => producer.event \in Events
    /\ producer.pc = "publish" => uiMidiQueue[uiWriteIndex] = producer.event

\* Between the store and the publication nobody touches the slot.
LEMMA PostedKept == RingInv /\ Posted /\ [Next]_vars => Posted'
<1> SUFFICES ASSUME RingInv, Posted, [Next]_vars PROVE Posted'
  OBVIOUS
<1>0. /\ uiWriteIndex \in Indices /\ uiMidiQueue \in [Indices -> Slots]
      /\ producer = [pc |-> producer.pc, event |-> producer.event]
  BY DEF RingInv, TypeOk, Slots
<1>1. ASSUME NEW e \in Events, EnqueueAccept(e) \/ EnqueueRefuse(e) PROVE Posted'
  BY <1>1 DEF EnqueueAccept, EnqueueRefuse, Posted
<1>2. CASE StoreSlot
  BY <1>0, <1>2 DEF StoreSlot, Posted
<1>3. CASE RaisePanic \/ PublishWrite
  BY <1>0, <1>3 DEF RaisePanic, PublishWrite, Posted
<1>4. CASE UNCHANGED <<uiMidiQueue, uiWriteIndex, producer>>
  BY <1>4 DEF Posted
<1> QED
  BY <1>1, <1>2, <1>3, <1>4
  DEF Next, ProducerStarts, ProducerContinues, ConsumerStep, Dispatch, Skip,
      DispatchSlot, SkipSlot, AdvanceCursor, RequestPanic, ExchangePanic,
      DiscardLoad, DiscardStore, Snapshot, RestartWithRemainder, ReleaseSlots,
      vars

\* The step lemma of the refinement.
LEMMA StepIsMailboxStep ==
    RingInv /\ RingInv' /\ Posted /\ [Next]_vars
       => [Mailbox!MailboxNext]_(Mailbox!mailboxVars)
<1> SUFFICES ASSUME RingInv, RingInv', Posted, [Next]_vars
             PROVE  Mailbox!MailboxNext \/ UNCHANGED Mailbox!mailboxVars
  OBVIOUS
<1>0. /\ uiReadIndex \in Indices /\ uiWriteIndex \in Indices
      /\ consumer.end \in Indices
      /\ uiMidiQueue \in [Indices -> Slots] /\ panicRequested \in BOOLEAN
      /\ producer.event \in Slots
  BY DEF RingInv, TypeOk, Slots
<1>00. /\ Queued = Line(uiMidiQueue, uiReadIndex, uiWriteIndex)
       /\ Queued' = Line(uiMidiQueue', uiReadIndex', uiWriteIndex')
  BY DEF Queued, Between, Line
<1>1. ASSUME UNCHANGED <<Queued, panicRequested>>
      PROVE  UNCHANGED Mailbox!mailboxVars
  BY <1>1 DEF Mailbox!mailboxVars
<1>2. CASE UNCHANGED <<uiMidiQueue, uiReadIndex, uiWriteIndex, panicRequested>>
  BY <1>00, <1>1, <1>2
<1>3. CASE RequestPanic \/ RaisePanic
  <2>1. Queued' = Queued /\ panicRequested' = TRUE
    BY <1>00, <1>3 DEF RequestPanic, RaisePanic
  <2> QED
    BY <2>1 DEF Mailbox!MailboxNext, Mailbox!RaiseAlarm
<1>4. CASE ExchangePanic
  <2>1. Queued' = Queued /\ panicRequested' = FALSE
    BY <1>00, <1>4 DEF ExchangePanic
  <2> QED
    BY <1>0, <1>1, <2>1 DEF Mailbox!MailboxNext, Mailbox!AnswerAlarm
<1>5. CASE StoreSlot
  <2>1. Queued' = Queued /\ panicRequested' = panicRequested
    BY <1>0, <1>00, <1>5, StoredBeyond DEF StoreSlot
  <2> QED
    BY <1>1, <2>1
<1>6. CASE PublishWrite
  <2>1. /\ producer.pc = "publish" /\ producer.event \in Events
        /\ uiMidiQueue[uiWriteIndex] = producer.event
        /\ uiWriteIndex' = NextIndex(uiWriteIndex)
        /\ UNCHANGED <<uiMidiQueue, uiReadIndex, panicRequested>>
    BY <1>6 DEF PublishWrite, Posted
  <2>2. Distance(uiReadIndex, uiWriteIndex) < Capacity - 1
    BY <2>1 DEF RingInv, RoomForOne
  <2>3. Queued' = Append(Queued, producer.event)
    BY <1>0, <1>00, <2>1, <2>2, LineGrows
  <2>4. Len(Queued) < Capacity - 1
    BY <1>0, <1>00, <2>2, LineIs
  <2>5. Mailbox!Accept(producer.event)
    BY <2>1, <2>3, <2>4 DEF Mailbox!Accept
  <2> QED
    BY <2>1, <2>5 DEF Mailbox!MailboxNext
<1>7. CASE DiscardStore \/ ReleaseSlots
  <2> DEFINE d == Distance(uiReadIndex, consumer.end)
  <2>1. /\ consumer.pc \in {"discarding", "remainder"}
        /\ uiReadIndex' = consumer.end
        /\ UNCHANGED <<uiMidiQueue, uiWriteIndex, panicRequested>>
    BY <1>7 DEF DiscardStore, ReleaseSlots
  <2>2. d <= Distance(uiReadIndex, uiWriteIndex)
    BY <2>1 DEF RingInv, SnapshotPublished
  <2>3. /\ Queued' = SubSeq(Queued, d + 1, Len(Queued))
        /\ d \in 0 .. Len(Queued)
        /\ d = 0 => consumer.end = uiReadIndex
    BY <1>0, <1>00, <2>1, <2>2, LineShrinks
  <2>4. CASE d = 0
    BY <1>2, <2>1, <2>3, <2>4
  <2>5. CASE d # 0
    <3> HIDE DEF d
    <3>1. Len(Queued) \in Nat
      BY <1>0, <1>00, LineIs, CapacityAssumption
    <3>2. d \in 1 .. Len(Queued)
      BY <2>3, <2>5, <3>1
    <3>3. Mailbox!Consume
      BY <2>1, <2>3, <3>2 DEF Mailbox!Consume
    <3> QED
      BY <3>3 DEF Mailbox!MailboxNext
  <2> QED
    BY <2>4, <2>5
<1> QED
  BY <1>2, <1>3, <1>4, <1>5, <1>6, <1>7
  DEF Next, ProducerStarts, ProducerContinues, ConsumerStep, Dispatch, Skip,
      DispatchSlot, SkipSlot, AdvanceCursor, EnqueueAccept, EnqueueRefuse,
      DiscardLoad, Snapshot, RestartWithRemainder, vars

\* For every capacity and every set of gestures the ring is a mailbox of one
\* gesture less: nothing accepted is lost, doubled, altered or reordered, however
\* the two threads interleave (enqueueUiMidiEvent, processBlock).
THEOREM RingIsMailbox == Spec => RingImplementsMailbox
<1>1. Init => Posted
  BY DEF Init, Posted
<1>2. Init => Mailbox!MailboxInit
  <2> SUFFICES ASSUME Init PROVE Mailbox!MailboxInit
    OBVIOUS
  <2>1. 0 \in Indices /\ Distance(0, 0) = 0
    BY CapacityAssumption DEF Indices, Distance
  <2>2. Queued = Line(uiMidiQueue, 0, 0) /\ panicRequested = FALSE
        /\ uiMidiQueue \in [Indices -> Slots]
    BY DEF Init, Queued, Between, Line, Slots
  <2>3. Queued \in Seq(Slots) /\ Len(Queued) = 0
    BY <2>1, <2>2, LineIs
  <2>4. Queued = <<>>
    BY <2>3, EmptySeq
  <2> QED
    BY <2>2, <2>4 DEF Mailbox!MailboxInit
<1> QED
  BY <1>1, <1>2, RingInvariant, PostedKept, StepIsMailboxStep, PTL
  DEF Spec, RingImplementsMailbox, Mailbox!MailboxSpec

-----------------------------------------------------------------------------
(***************************************************************************)
(* The two passes.  What has been dispatched is the partition of the       *)
(* window as far as the cursor has come.                                   *)
(***************************************************************************)

\* Every slot that is published holds a gesture, none is blank.
Filled == Queued \in Seq(Events)

LEMMA FilledKept == RingInv /\ RingInv' /\ Posted /\ Filled /\ [Next]_vars => Filled'
<1> SUFFICES ASSUME RingInv, RingInv', Posted, Filled, [Next]_vars PROVE Filled'
  OBVIOUS
<1>0. /\ uiReadIndex \in Indices /\ uiWriteIndex \in Indices
      /\ consumer.end \in Indices
      /\ uiMidiQueue \in [Indices -> Slots]
      /\ producer.event \in Slots
  BY DEF RingInv, TypeOk, Slots
<1>00. /\ Queued = Line(uiMidiQueue, uiReadIndex, uiWriteIndex)
       /\ Queued' = Line(uiMidiQueue', uiReadIndex', uiWriteIndex')
  BY DEF Queued, Between, Line
<1>1. CASE UNCHANGED <<uiMidiQueue, uiReadIndex, uiWriteIndex>>
  BY <1>00, <1>1 DEF Filled
<1>2. CASE StoreSlot
  BY <1>0, <1>00, <1>2, StoredBeyond DEF StoreSlot, Filled
<1>3. CASE PublishWrite
  <2>1. /\ producer.event \in Events
        /\ uiMidiQueue[uiWriteIndex] = producer.event
        /\ uiWriteIndex' = NextIndex(uiWriteIndex)
        /\ UNCHANGED <<uiMidiQueue, uiReadIndex>>
    BY <1>3 DEF PublishWrite, Posted
  <2>2. Distance(uiReadIndex, uiWriteIndex) < Capacity - 1
    BY <1>3 DEF PublishWrite, RingInv, RoomForOne
  <2>3. Queued' = Append(Queued, producer.event)
    BY <1>0, <1>00, <2>1, <2>2, LineGrows
  <2> QED
    BY <2>1, <2>3 DEF Filled
<1>4. CASE DiscardStore \/ ReleaseSlots
  <2>1. /\ consumer.pc \in {"discarding", "remainder"}
        /\ uiReadIndex' = consumer.end
        /\ UNCHANGED <<uiMidiQueue, uiWriteIndex>>
    BY <1>4 DEF DiscardStore, ReleaseSlots
  <2>2. Distance(uiReadIndex, consumer.end) <= Distance(uiReadIndex, uiWriteIndex)
    BY <2>1 DEF RingInv, SnapshotPublished
  <2> DEFINE d == Distance(uiReadIndex, consumer.end)
  <2>3. /\ Queued' = SubSeq(Queued, d + 1, Len(Queued))
        /\ d \in 0 .. Len(Queued)
    BY <1>0, <1>00, <2>1, <2>2, LineShrinks
  <2>4. d \in Nat
    BY <1>0, DistanceRange, CapacityAssumption
  <2> HIDE DEF d
  <2>5. \A n \in d + 1 .. Len(Queued) : Queued[n] \in Events
    BY <2>4, ElementOfSeq DEF Filled
  <2>6. Len(Queued) \in Nat /\ Queued \in Seq(Events)
    BY DEF Filled
  <2>7. SubSeq(Queued, d + 1, Len(Queued)) \in Seq(Events)
    BY <2>4, <2>5, <2>6, SubSeqProperties
  <2> QED
    BY <2>3, <2>7 DEF Filled
<1> QED
  BY <1>1, <1>2, <1>3, <1>4
  DEF Next, ProducerStarts, ProducerContinues, ConsumerStep, Dispatch, Skip,
      DispatchSlot, SkipSlot, AdvanceCursor, EnqueueAccept, EnqueueRefuse,
      RequestPanic, RaisePanic, ExchangePanic, DiscardLoad, Snapshot,
      RestartWithRemainder, vars

\* The snapshot, what the passes have come by, and the places that are settled.
Window == Line(uiMidiQueue, uiReadIndex, consumer.end)
Passed == Distance(uiReadIndex, consumer.cursor)
Settled ==
    IF consumer.pc = "conditioning" THEN First(Window) \cap 1 .. Passed
                                    ELSE First(Window) \cup 1 .. Passed

PassInv ==
    Reading =>
        /\ Passed <= Distance(uiReadIndex, consumer.end)
        /\ heard \in Seq(Events)
        /\ Len(heard) = Cardinality(Settled)
        /\ \A i \in Settled :
              /\ Place(Window, i) \in 1 .. Len(heard)
              /\ heard[Place(Window, i)] = Window[i]

\* A window lies in what is published.
LEMMA WindowIs ==
    ASSUME RingInv, Filled, Reading
    PROVE  /\ Window \in Seq(Events)
           /\ Len(Window) = Distance(uiReadIndex, consumer.end)
           /\ Len(Window) \in 0 .. Capacity - 1
           /\ DOMAIN Window = 1 .. Len(Window)
           /\ \A n \in 1 .. Len(Window) :
                 Window[n] = uiMidiQueue[Ahead(uiReadIndex, n - 1)]
<1>0. /\ uiReadIndex \in Indices /\ uiWriteIndex \in Indices
      /\ consumer.end \in Indices /\ consumer.cursor \in Indices
      /\ uiMidiQueue \in [Indices -> Slots]
      /\ Distance(uiReadIndex, consumer.end) <= Distance(uiReadIndex, uiWriteIndex)
  BY DEF RingInv, TypeOk, Slots, SnapshotPublished, Reading
<1>1. /\ Queued = Line(uiMidiQueue, uiReadIndex, uiWriteIndex)
      /\ Queued \in Seq(Events)
  BY DEF Queued, Between, Line, Filled
<1>2. /\ Window \in Seq(Slots) /\ Len(Window) = Distance(uiReadIndex, consumer.end)
      /\ Distance(uiReadIndex, consumer.end) \in 0 .. Capacity - 1
      /\ \A n \in 1 .. Distance(uiReadIndex, consumer.end) :
            Window[n] = uiMidiQueue[Ahead(uiReadIndex, n - 1)]
  BY <1>0, LineIs DEF Window
<1>3. /\ Len(Queued) = Distance(uiReadIndex, uiWriteIndex)
      /\ \A n \in 1 .. Distance(uiReadIndex, uiWriteIndex) :
            Queued[n] = uiMidiQueue[Ahead(uiReadIndex, n - 1)]
      /\ Distance(uiReadIndex, uiWriteIndex) \in 0 .. Capacity - 1
  BY <1>0, <1>1, LineIs
<1>4. \A n \in 1 .. Len(Window) : Window[n] \in Events
  <2> TAKE n \in 1 .. Len(Window)
  <2>1. n \in 1 .. Len(Queued)
    BY <1>0, <1>2, <1>3, CapacityAssumption
  <2>2. Window[n] = Queued[n]
    BY <1>2, <1>3, <2>1
  <2> QED
    BY <1>1, <2>1, <2>2, ElementOfSeq
<1>5. Window \in Seq(Events)
  <2>1. Window \in [1 .. Len(Window) -> Slots] /\ Len(Window) \in Nat
    BY <1>2, LenProperties
  <2>2. Window \in [1 .. Len(Window) -> Events]
    BY <1>4, <2>1
  <2> QED
    BY <2>1, <2>2
<1> QED
  BY <1>2, <1>5, LenProperties

\* The places of a window are numbered, and finitely many are settled.
LEMMA Numbered ==
    ASSUME NEW w \in Seq(Events), NEW S \in SUBSET (1 .. Len(w))
    PROVE  /\ First(w) \subseteq 1 .. Len(w)
           /\ IsFiniteSet(S) /\ IsFiniteSet(First(w))
           /\ Cardinality(S) \in Nat /\ Cardinality(First(w)) \in Nat
<1>1. DOMAIN w = 1 .. Len(w) /\ Len(w) \in Nat
  BY LenProperties
<1>2. IsFiniteSet(1 .. Len(w)) /\ First(w) \subseteq 1 .. Len(w)
  BY <1>1, FS_Interval DEF First
<1>3. IsFiniteSet(S) /\ IsFiniteSet(First(w))
  BY <1>2, FS_Subset
<1> QED
  BY <1>2, <1>3, FS_CardinalityType

\* The next place of a pass is the next one that is free.
LEMMA PlaceIsNext ==
    ASSUME NEW w \in Seq(Events), NEW k \in 1 .. Len(w)
    PROVE  /\ k \in First(w) =>
                 Place(w, k) = Cardinality(First(w) \cap 1 .. k - 1) + 1
           /\ k \notin First(w) =>
                 Place(w, k) = Cardinality(First(w) \cup 1 .. k - 1) + 1
<1> DEFINE F == First(w)
<1>1. Len(w) \in Nat /\ k \in Nat /\ F \subseteq 1 .. Len(w)
  <2>1. {} \in SUBSET (1 .. Len(w))
    OBVIOUS
  <2>2. First(w) \subseteq 1 .. Len(w)
    BY <2>1, Numbered
  <2> QED
    BY <2>2, LenProperties
<1> HIDE DEF F
<1>2. CASE k \in F
  <2> DEFINE A == F \cap 1 .. k - 1
  <2>1. F \cap 1 .. k = A \cup {k} /\ k \notin A /\ A \in SUBSET (1 .. Len(w))
    BY <1>1, <1>2
  <2>2. IsFiniteSet(A)
    BY <2>1, Numbered
  <2>3. Cardinality(A \cup {k}) = Cardinality(A) + 1
    BY <2>1, <2>2, FS_AddElement
  <2> QED
    BY <1>2, <2>1, <2>3 DEF Place, F
<1>3. CASE k \notin F
  <2> DEFINE B == (1 .. k) \ F
             A == F \cup 1 .. k - 1
  <2>1. /\ B \in SUBSET (1 .. Len(w)) /\ A \in SUBSET (1 .. Len(w))
        /\ F \cap B = {} /\ F \cup B = A \cup {k} /\ k \notin A
    BY <1>1, <1>3
  <2>2. /\ IsFiniteSet(A) /\ IsFiniteSet(B) /\ IsFiniteSet(F)
        /\ Cardinality(B) \in Nat /\ Cardinality(F) \in Nat
    BY <2>1, Numbered DEF F
  <2>3. Cardinality(A \cup {k}) = Cardinality(A) + 1
    BY <2>1, <2>2, FS_AddElement
  <2>4. /\ Cardinality(F \cup B)
             = Cardinality(F) + Cardinality(B) - Cardinality(F \cap B)
        /\ Cardinality(F \cap B) = 0
    BY <2>1, <2>2, FS_Union, FS_EmptySet
  <2>5. Cardinality(F) + Cardinality(B) = Cardinality(A) + 1
    <3>1. Cardinality(F \cup B) = Cardinality(A \cup {k})
      BY <2>1
    <3> HIDE DEF A, B
    <3> QED
      BY <2>2, <2>3, <2>4, <3>1
  <2> QED
    BY <1>3, <2>5 DEF Place, F
<1> QED
  BY <1>2, <1>3 DEF F

\* How far the cursor has come, after a step.
LEMMA CursorSteps ==
    ASSUME RingInv, Filled, Reading, PassInv, consumer.cursor # consumer.end
    PROVE  LET k == Passed + 1
           IN /\ Distance(uiReadIndex, NextIndex(consumer.cursor)) = k
              /\ k \in 1 .. Len(Window)
              /\ Window[k] = uiMidiQueue[consumer.cursor]
<1>0. /\ uiReadIndex \in Indices /\ consumer.end \in Indices
      /\ consumer.cursor \in Indices /\ Capacity \in Nat
  BY CapacityAssumption DEF RingInv, TypeOk
<1>1. Passed <= Distance(uiReadIndex, consumer.end) /\ Passed \in 0 .. Capacity - 1
  BY <1>0, DistanceRange DEF PassInv, Passed
<1>2. Passed # Distance(uiReadIndex, consumer.end)
  BY <1>0, CapacityAssumption DEF Passed, Distance, Indices
<1>3. Distance(uiReadIndex, consumer.end) \in 0 .. Capacity - 1
  BY <1>0, DistanceRange
<1>4. Passed < Capacity - 1 /\ Passed + 1 \in 1 .. Distance(uiReadIndex, consumer.end)
  BY <1>0, <1>1, <1>2, <1>3
<1>5. Distance(uiReadIndex, NextIndex(consumer.cursor)) = Passed + 1
  BY <1>0, <1>4, DistanceOfNext DEF Passed
<1>6. Ahead(uiReadIndex, Passed) = consumer.cursor
  BY <1>0, CapacityAssumption DEF Passed, Ahead, Distance, Indices
<1>7. Passed + 1 \in 1 .. Len(Window) /\ (Passed + 1) - 1 = Passed
  BY <1>0, <1>1, <1>4, WindowIs
<1> QED
  BY <1>5, <1>6, <1>7, WindowIs

\* A pass that dispatches a slot puts it where it belongs; one that skips it has
\* settled it already, or leaves it to the other.
LEMMA SlotKeepsPass ==
    ASSUME RingInv, Filled, PassInv, RecordHeard, UNCHANGED uiMidiQueue,
           AdvanceCursor, Reading, consumer.cursor # consumer.end,
           (\E e \in Events : Dispatch(e)) \/ Skip
    PROVE  PassInv'
<1> DEFINE k == Passed + 1
           F == First(Window)
           e == uiMidiQueue[consumer.cursor]
<1>0. /\ consumer = [pc |-> consumer.pc, end |-> consumer.end,
                     cursor |-> consumer.cursor]
      /\ uiReadIndex \in Indices /\ consumer.cursor \in Indices
      /\ Capacity \in Nat
  BY CapacityAssumption DEF RingInv, TypeOk
<1>1. /\ Distance(uiReadIndex, NextIndex(consumer.cursor)) = k
      /\ k \in 1 .. Len(Window) /\ Window[k] = e
  BY CursorSteps
<1>2. /\ Window \in Seq(Events) /\ Len(Window) \in Nat
      /\ Len(Window) = Distance(uiReadIndex, consumer.end)
      /\ DOMAIN Window = 1 .. Len(Window)
  BY WindowIs, <1>0
<1>3. e \in Events
  BY <1>1, <1>2, ElementOfSeq
<1>4. /\ consumer'.pc = consumer.pc /\ consumer'.end = consumer.end
      /\ consumer'.cursor = NextIndex(consumer.cursor)
      /\ UNCHANGED <<uiReadIndex, uiMidiQueue>>
  BY <1>0 DEF AdvanceCursor
<1>5. Window' = Window /\ Passed' = k /\ Passed = k - 1 /\ Reading'
  <2>1. Passed \in Nat
    BY <1>0, DistanceRange DEF Passed
  <2> QED
    BY <1>1, <1>4, <2>1 DEF Window, Passed, Line, Reading
<1>6. k \in F <=> e \in Conditioning
  BY <1>1, <1>2 DEF First
<1>7. /\ heard \in Seq(Events) /\ Len(heard) = Cardinality(Settled)
      /\ \A i \in Settled : /\ Place(Window, i) \in 1 .. Len(heard)
                            /\ heard[Place(Window, i)] = Window[i]
      /\ Len(heard) \in Nat
  BY LenProperties DEF PassInv
<1>8. consumer.pc \in {"conditioning", "remainder"}
  BY DEF Reading
<1>9. Settled \in SUBSET (1 .. Len(Window)) /\ Settled' \in SUBSET (1 .. Len(Window))
  <2>1. F \subseteq 1 .. Len(Window)
    BY <1>2 DEF First
  <2>2. 1 .. Passed \subseteq 1 .. Len(Window) /\ 1 .. k \subseteq 1 .. Len(Window)
    BY <1>1, <1>2, <1>5
  <2>3. Settled \in SUBSET (1 .. Len(Window))
    BY <2>1, <2>2 DEF Settled
  <2>4. Settled' = IF consumer.pc = "conditioning" THEN F \cap 1 .. k ELSE F \cup 1 .. k
    BY <1>4, <1>5 DEF Settled
  <2> HIDE DEF k, F
  <2> QED
    BY <2>1, <2>2, <2>3, <2>4
<1>10. Settled' = IF consumer.pc = "conditioning" THEN F \cap 1 .. k ELSE F \cup 1 .. k
  BY <1>4, <1>5 DEF Settled
<1>11. Settled = IF consumer.pc = "conditioning" THEN F \cap 1 .. k - 1
                                                 ELSE F \cup 1 .. k - 1
  BY <1>5 DEF Settled
<1>12. k \in Nat /\ Passed' <= Distance(uiReadIndex', consumer'.end)
  BY <1>1, <1>2, <1>4, <1>5
<1>13. CASE \E x \in Events : Dispatch(x)
  <2>1. heard' = Append(heard, e)
    BY <1>13, <1>8 DEF RecordHeard, Reading
  <2>2. IF consumer.pc = "conditioning" THEN k \in F ELSE k \notin F
    BY <1>6, <1>8, <1>13 DEF Dispatch, DispatchSlot, Remainder
  <2> HIDE DEF k, F
  <2>21. 1 .. k = (1 .. k - 1) \cup {k} /\ k \notin 1 .. k - 1
    BY <1>1, <1>2
  <2>3. Settled' = Settled \cup {k} /\ k \notin Settled
    <3>1. CASE consumer.pc = "conditioning"
      <4>1. k \in F
        BY <2>2, <3>1
      <4>2. F \cap 1 .. k = (F \cap 1 .. k - 1) \cup {k}
        BY <2>21, <4>1, Zenon
      <4> QED
        BY <1>10, <1>11, <2>21, <3>1, <4>2
    <3>2. CASE consumer.pc # "conditioning"
      <4>1. k \notin F
        BY <2>2, <3>2
      <4>2. F \cup 1 .. k = (F \cup 1 .. k - 1) \cup {k}
        BY <2>21, <4>1, Zenon
      <4> QED
        BY <1>10, <1>11, <2>21, <3>2, <4>1, <4>2
    <3> QED
      BY <3>1, <3>2
  <2>4. Place(Window, k) = Cardinality(Settled) + 1
    BY <1>1, <1>2, <1>11, <2>2, PlaceIsNext DEF F
  <2>5. IsFiniteSet(Settled)
    BY <1>2, <1>9, Numbered
  <2>6. Cardinality(Settled') = Cardinality(Settled) + 1
    BY <2>3, <2>5, FS_AddElement
  <2> HIDE DEF e
  <2>7. /\ heard' \in Seq(Events) /\ Len(heard') = Len(heard) + 1
        /\ \A i \in 1 .. Len(heard) : heard'[i] = heard[i]
        /\ heard'[Len(heard) + 1] = e
    BY <1>3, <1>7, <2>1, AppendProperties
  <2>8. ASSUME NEW i \in Settled'
        PROVE  /\ Place(Window, i) \in 1 .. Len(heard')
               /\ heard'[Place(Window, i)] = Window[i]
    <3>1. CASE i = k
      BY <1>1, <1>7, <2>4, <2>7, <3>1
    <3>2. CASE i # k
      <4>1. i \in Settled
        BY <2>3, <3>2
      <4> QED
        BY <1>7, <2>7, <4>1
    <3> QED
      BY <3>1, <3>2
  <2> QED
    BY <1>5, <1>7, <1>12, <2>6, <2>7, <2>8 DEF PassInv
<1>14. CASE Skip /\ ~ \E x \in Events : Dispatch(x)
  <2>1. heard' = heard
    BY <1>8, <1>14 DEF RecordHeard, Reading
  <2>2. IF consumer.pc = "conditioning" THEN k \notin F ELSE k \in F
    BY <1>3, <1>6, <1>8, <1>14 DEF Skip, SkipSlot, Remainder
  <2> HIDE DEF k, F
  <2>3. Settled' = Settled
    <3>1. CASE consumer.pc = "conditioning"
      <4>1. k \notin F
        BY <2>2, <3>1
      <4>2. F \cap 1 .. k = F \cap 1 .. k - 1
        BY <1>12, <4>1
      <4> QED
        BY <1>10, <1>11, <3>1, <4>2
    <3>2. CASE consumer.pc # "conditioning"
      <4>1. k \in F
        BY <2>2, <3>2
      <4>2. F \cup 1 .. k = F \cup 1 .. k - 1
        BY <1>12, <4>1
      <4> QED
        BY <1>10, <1>11, <3>2, <4>2
    <3> QED
      BY <3>1, <3>2
  <2> QED
    BY <1>5, <1>7, <1>12, <2>1, <2>3 DEF PassInv
<1> QED
  BY <1>13, <1>14

\* The passes, from the snapshot to the end of the second.
LEMMA PassKept ==
    RingInv /\ RingInv' /\ Filled /\ PassInv /\ [HistoryNext]_<<vars, heard>> => PassInv'
<1> SUFFICES ASSUME RingInv, RingInv', Filled, PassInv, [HistoryNext]_<<vars, heard>>
             PROVE  PassInv'
  OBVIOUS
<1>0. /\ consumer = [pc |-> consumer.pc, end |-> consumer.end,
                     cursor |-> consumer.cursor]
      /\ consumer.pc \in {"idle", "discard", "discarding", "snapshot",
                          "conditioning", "remainder"}
      /\ uiReadIndex \in Indices /\ uiWriteIndex \in Indices
      /\ consumer.end \in Indices /\ consumer.cursor \in Indices
      /\ uiMidiQueue \in [Indices -> Slots] /\ Capacity \in Nat
      /\ producer.event \in Slots
  BY CapacityAssumption DEF RingInv, TypeOk, Slots
<1>1. ASSUME ~Reading' PROVE PassInv'
  BY <1>1 DEF PassInv
<1>2. ASSUME UNCHANGED <<consumer, uiReadIndex, heard>>, Window' = Window
      PROVE  PassInv'
  BY <1>2 DEF PassInv, Reading, Passed, Settled
<1>3. CASE ~HistoryNext
  <2>1. UNCHANGED <<uiMidiQueue, uiReadIndex, consumer, heard>>
    BY <1>3 DEF vars
  <2> QED
    BY <1>2, <2>1 DEF Window, Line
<1>4. CASE HistoryNext /\ (ProducerStarts \/ ProducerContinues)
  <2>1. UNCHANGED <<uiReadIndex, consumer>>
    BY <1>4 DEF ProducerStarts, ProducerContinues, EnqueueAccept, EnqueueRefuse,
                RequestPanic, RaisePanic, StoreSlot, PublishWrite
  <2>2. \A x \in Events : ~Dispatch(x)
    <3> SUFFICES ASSUME NEW x \in Events, Dispatch(x) PROVE FALSE
      OBVIOUS
    <3>1. consumer'.cursor = NextIndex(consumer.cursor)
      BY <1>0 DEF Dispatch, DispatchSlot, AdvanceCursor
    <3>2. NextIndex(consumer.cursor) # consumer.cursor
      BY <1>0, CapacityAssumption DEF NextIndex, Indices
    <3> QED
      BY <2>1, <3>1, <3>2
  <2>3. heard' = heard
    BY <1>4, <2>1, <2>2 DEF HistoryNext, RecordHeard
  <2>4. CASE ~Reading
    BY <1>1, <2>1, <2>4 DEF Reading
  <2>5. CASE Reading
    <3>1. CASE UNCHANGED uiMidiQueue
      BY <1>2, <2>1, <2>3, <3>1 DEF Window, Line
    <3>2. CASE StoreSlot
      <4> DEFINE d == Distance(uiReadIndex, consumer.end)
      <4>1. /\ producer.pc = "store"
            /\ uiMidiQueue' = [uiMidiQueue EXCEPT ![uiWriteIndex] = producer.event]
        BY <3>2 DEF StoreSlot
      <4>2. \A n \in 0 .. d - 1 : Ahead(uiReadIndex, n) # uiWriteIndex
        BY <2>5, <4>1, RingInvKeepsOut DEF ProducerKeepsOut
      <4>3. d \in 0 .. Capacity - 1
        BY <1>0, DistanceRange
      <4>4. ASSUME NEW n \in 1 .. d
            PROVE  uiMidiQueue'[Ahead(uiReadIndex, n - 1)]
                     = uiMidiQueue[Ahead(uiReadIndex, n - 1)]
        <5>1. n - 1 \in 0 .. d - 1 /\ n - 1 \in 0 .. Capacity - 1
          BY <1>0, <4>3
        <5>2. Ahead(uiReadIndex, n - 1) # uiWriteIndex
          BY <4>2, <5>1
        <5> QED
          BY <1>0, <4>1, <5>2
      <4>5. Window' = Window
        <5> USE <2>1
        <5>1. Window' = [n \in 1 .. d |-> uiMidiQueue'[Ahead(uiReadIndex, n - 1)]]
          BY DEF Window, Line
        <5> QED
          BY <4>4, <5>1 DEF Window, Line
      <4> QED
        BY <1>2, <2>1, <2>3, <4>5
    <3> QED
      BY <1>4, <3>1, <3>2
      DEF ProducerStarts, ProducerContinues, EnqueueAccept, EnqueueRefuse,
          RequestPanic, RaisePanic, PublishWrite
  <2> QED
    BY <2>4, <2>5
<1>5. CASE HistoryNext /\ (ExchangePanic \/ DiscardLoad \/ DiscardStore \/ ReleaseSlots)
  <2>1. ~Reading'
    BY <1>0, <1>5 DEF ExchangePanic, DiscardLoad, DiscardStore, ReleaseSlots, Reading
  <2> QED
    BY <1>1, <2>1
<1>6. CASE HistoryNext /\ Snapshot
  <2>1. /\ consumer'.pc = "conditioning" /\ consumer'.cursor = uiReadIndex
        /\ consumer'.end = uiWriteIndex /\ uiReadIndex' = uiReadIndex
    BY <1>6 DEF Snapshot
  <2>2. heard' = <<>>
    <3>1. consumer.pc = "snapshot"
      BY <1>6 DEF Snapshot
    <3>2. \A x \in Events : ~Dispatch(x)
      BY <3>1 DEF Dispatch, DispatchSlot
    <3> QED
      BY <1>6, <2>1, <3>1, <3>2 DEF HistoryNext, RecordHeard
  <2>3. Passed' = 0
    BY <1>0, <2>1, CapacityAssumption DEF Passed, Distance, Indices
  <2>4. Settled' = {}
    <3>1. First(Window)' \cap 1 .. 0 = {}
      OBVIOUS
    <3> QED
      BY <2>1, <2>3, <3>1 DEF Settled
  <2>5. Distance(uiReadIndex', consumer'.end) \in 0 .. Capacity - 1
    BY <1>0, <2>1, DistanceRange
  <2>6. Passed' <= Distance(uiReadIndex', consumer'.end)
    BY <1>0, <2>3, <2>5
  <2>7. heard' \in Seq(Events) /\ Len(heard') = Cardinality(Settled')
    BY <2>2, <2>4, FS_EmptySet
  <2> QED
    BY <2>4, <2>6, <2>7 DEF PassInv
<1>7. CASE HistoryNext /\ ((\E e \in Events : Dispatch(e)) \/ Skip)
  <2>1. /\ RecordHeard /\ AdvanceCursor /\ UNCHANGED uiMidiQueue /\ Reading
        /\ consumer.cursor # consumer.end
    BY <1>7 DEF HistoryNext, Dispatch, DispatchSlot, Skip, SkipSlot, AdvanceCursor,
                Reading
  <2> QED
    BY <1>7, <2>1, SlotKeepsPass
<1>8. CASE HistoryNext /\ RestartWithRemainder
  <2>1. /\ consumer.pc = "conditioning" /\ consumer.cursor = consumer.end
        /\ consumer'.pc = "remainder" /\ consumer'.cursor = uiReadIndex
        /\ consumer'.end = consumer.end
        /\ UNCHANGED <<uiReadIndex, uiMidiQueue>>
    BY <1>0, <1>8 DEF RestartWithRemainder
  <2>2. heard' = heard
    <3>1. \A x \in Events : ~Dispatch(x)
      BY <2>1 DEF Dispatch, DispatchSlot
    <3> QED
      BY <1>8, <2>1, <3>1 DEF HistoryNext, RecordHeard
  <2>3. Window' = Window /\ Passed' = 0 /\ Reading
    <3>1. Passed' = 0
      BY <1>0, <2>1, CapacityAssumption DEF Passed, Distance, Indices
    <3> QED
      BY <2>1, <3>1 DEF Window, Line, Reading
  <2>4. /\ DOMAIN Window = 1 .. Len(Window)
        /\ Len(Window) = Distance(uiReadIndex, consumer.end)
        /\ Len(Window) \in 0 .. Capacity - 1
    BY <2>3, WindowIs
  <2>5. Settled = First(Window)
    <3>1. Passed = Len(Window)
      BY <2>1, <2>4 DEF Passed
    <3>2. First(Window) \subseteq 1 .. Len(Window)
      BY <2>4 DEF First
    <3> QED
      BY <2>1, <3>1, <3>2 DEF Settled
  <2>6. Settled' = First(Window)
    <3>1. First(Window) \cup 1 .. 0 = First(Window)
      OBVIOUS
    <3> QED
      BY <2>1, <2>3, <3>1 DEF Settled
  <2>7. Passed' <= Distance(uiReadIndex', consumer'.end)
    BY <1>0, <2>1, <2>3, <2>4
  <2> QED
    BY <2>2, <2>3, <2>5, <2>6, <2>7 DEF PassInv
<1> QED
  BY <1>3, <1>4, <1>5, <1>6, <1>7, <1>8 DEF HistoryNext, Next, ConsumerStep

\* At the end of the second pass every place of the window is settled.
LEMMA PassesPartition ==
    ASSUME RingInv, Filled, PassInv, ReleaseSlots
    PROVE  IsStablePartition(heard, Between(uiReadIndex, consumer.end))
<1>1. consumer.pc = "remainder" /\ consumer.cursor = consumer.end /\ Reading
  BY DEF ReleaseSlots, Reading
<1>2. Window = Between(uiReadIndex, consumer.end)
  BY DEF Window, Line, Between
<1>3. /\ Len(Window) = Distance(uiReadIndex, consumer.end)
      /\ Len(Window) \in 0 .. Capacity - 1
      /\ DOMAIN Window = 1 .. Len(Window)
  BY <1>1, WindowIs
<1>4. Settled = DOMAIN Window
  <2>1. Passed = Len(Window)
    BY <1>1, <1>3 DEF Passed
  <2>2. First(Window) \subseteq 1 .. Len(Window)
    BY <1>3 DEF First
  <2> QED
    BY <1>1, <1>3, <2>1, <2>2 DEF Settled
<1>5. Cardinality(1 .. Len(Window)) = Len(Window)
  <2>1. \A n \in Nat : Cardinality(1 .. n) = n
    BY FS_Interval
  <2>2. Len(Window) \in Nat
    BY <1>3, CapacityAssumption
  <2> QED
    BY <2>1, <2>2
<1> QED
  BY <1>1, <1>2, <1>3, <1>4, <1>5 DEF PassInv, IsStablePartition

\* For every capacity and every set of gestures a block dispatches its snapshot
\* once each, what conditions an attack first, both parts in the order they were
\* posted, while the message thread goes on posting (the two passes of
\* processBlock).
THEOREM BlocksArePartitioned == HistorySpec => StablePartition
<1>1. HistoryInit => Init /\ Posted /\ Filled /\ PassInv
  <2> SUFFICES ASSUME HistoryInit PROVE Posted /\ Filled /\ PassInv
    BY DEF HistoryInit
  <2>1. 0 \in Indices /\ Distance(0, 0) = 0
    BY CapacityAssumption DEF Indices, Distance
  <2>2. Queued = Line(uiMidiQueue, 0, 0) /\ uiMidiQueue \in [Indices -> Slots]
    BY DEF HistoryInit, Init, Queued, Between, Line, Slots
  <2>3. Queued \in Seq(Slots) /\ Len(Queued) = 0
    BY <2>1, <2>2, LineIs
  <2>4. Queued = <<>>
    BY <2>3, EmptySeq
  <2> QED
    BY <2>4 DEF HistoryInit, Init, Posted, Filled, PassInv, Reading
<1>2. [HistoryNext]_<<vars, heard>> => [Next]_vars
  BY DEF HistoryNext
<1>3. RingInv /\ Filled /\ PassInv /\ [HistoryNext]_<<vars, heard>>
        => [ReleaseSlots =>
              IsStablePartition(heard, Between(uiReadIndex, consumer.end))]_<<vars, heard>>
  BY PassesPartition
<1>4. HistorySpec => Spec
  BY <1>1, <1>2, PTL DEF HistorySpec, Spec
<1>5. HistorySpec => [](RingInv /\ Posted)
  BY <1>1, <1>2, <1>4, RingInvariant, PostedKept, PTL DEF HistorySpec
<1>6. HistorySpec => [](Filled /\ PassInv)
  BY <1>1, <1>2, <1>5, FilledKept, PassKept, PTL DEF HistorySpec
<1> QED
  BY <1>3, <1>5, <1>6, PTL DEF HistorySpec, StablePartition

-----------------------------------------------------------------------------
(***************************************************************************)
(* The walks of a block.  Events and calls, and where the walks stand.     *)
(***************************************************************************)
Ev == [source : {"host", "editor"}, n : Nat]
Whats == {"condition", "resetConditioning", "releaseKeys", "chord", "lift", "reset",
          "release"}
Answers == [does : Whats, events : Seq(Ev)]

Raw(i) == Position(host[i].at)
Together == host # <<>> /\ host[1].at = 0

GroupShape ==
    /\ host \in Seq([at : Samples \union {Before}, kind : HostKinds])
    /\ Sorted(host)
    /\ gestures \in Seq(GestureKinds)
    /\ mpe \in BOOLEAN /\ remainder \in BOOLEAN /\ accepted \in BOOLEAN
    /\ start \in 1 .. Len(host) + 1 /\ next \in start .. Len(host) + 1
    /\ slot \in 1 .. Len(gestures) + 1
    /\ phase \in {"snapshot", "gather", "condition", "play", "done"}
    /\ batch \in Seq(Ev) /\ Len(batch) <= ChordEvents
    /\ calls \in Seq(Answers)

\* A batch waits only while it is gathered or played; a walk is over a group,
\* of which nothing came before; the snapshot waits for the first group only.
WalkShape ==
    /\ phase \notin {"gather", "play"} => batch = <<>>
    /\ phase \in {"condition", "play"} => start \in DOMAIN host
    /\ start \in DOMAIN host => \A i \in 1 .. start - 1 : Raw(i) < Raw(start)
    /\ \A i \in start .. next - 1 : Raw(i) = Raw(start)
    /\ phase \in {"snapshot", "gather"} => start = 1 /\ next = 1
    /\ phase = "snapshot" => ~remainder
    /\ phase = "gather" => (remainder <=> Together)
    /\ phase = "condition" => (remainder <=> Together /\ start = 1)
    /\ phase = "condition" /\ remainder => slot = 1
    /\ phase \in {"play", "done"} => ~remainder

\* Whether a zone message of the group was come by in the first walk.
ZoneSeen ==
    /\ phase = "snapshot" \/ (phase = "gather" /\ ~remainder) => ~accepted
    /\ phase = "condition" =>
          (accepted <=> \E k \in start .. next - 1 : host[k].kind = "zone")
    /\ phase = "play" \/ (phase = "gather" /\ remainder) =>
          (accepted <=> \E k \in Group : host[k].kind = "zone")

\* Raw positions are numbers, one for each.
LEMMA Positions ==
    ASSUME NEW s \in Samples \union {Before}, NEW t \in Samples \union {Before}
    PROVE  /\ Position(s) \in Nat
           /\ Position(s) = Position(t) => s = t
           /\ Position(0) = 1 /\ 0 \in Samples
           /\ Position(s) = 1 => s = 0
BY BoundAssumption DEF Position

\* The host's events lie in the order of their positions.
LEMMA RawOrder ==
    ASSUME GroupShape
    PROVE  /\ DOMAIN host = 1 .. Len(host) /\ Len(host) \in Nat
           /\ \A i \in DOMAIN host : /\ Raw(i) \in Nat
                                     /\ host[i].kind \in HostKinds
                                     /\ host[i].at \in Samples \union {Before}
           /\ \A i, j \in DOMAIN host : i <= j => Raw(i) <= Raw(j)
           /\ \A i, j \in DOMAIN host : Raw(i) = Raw(j) <=> host[i].at = host[j].at
           /\ Together => \A i \in DOMAIN host : Raw(i) >= Raw(1) /\ Raw(1) = 1
           /\ \A i \in DOMAIN host : host[i].at = 0 <=> Raw(i) = 1
<1>1. DOMAIN host = 1 .. Len(host) /\ Len(host) \in Nat
  BY LenProperties DEF GroupShape
<1>2. \A i \in DOMAIN host : /\ host[i].kind \in HostKinds
                             /\ host[i].at \in Samples \union {Before}
  <2> SUFFICES ASSUME NEW i \in DOMAIN host
               PROVE  /\ host[i].kind \in HostKinds
                      /\ host[i].at \in Samples \union {Before}
    OBVIOUS
  <2>1. host[i] \in [at : Samples \union {Before}, kind : HostKinds]
    BY <1>1, ElementOfSeq DEF GroupShape
  <2> QED
    BY <2>1
<1>3. \A i \in DOMAIN host : Raw(i) \in Nat
  BY <1>2, Positions DEF Raw
<1>4. \A i, j \in DOMAIN host : i <= j => Raw(i) <= Raw(j)
  <2> SUFFICES ASSUME NEW i \in DOMAIN host, NEW j \in DOMAIN host, i <= j
               PROVE  Raw(i) <= Raw(j)
    OBVIOUS
  <2>1. CASE i = j
    BY <1>3, <2>1
  <2>2. CASE i < j
    BY <2>2 DEF GroupShape, Sorted, Raw
  <2> QED
    BY <1>1, <2>1, <2>2
<1>5. \A i, j \in DOMAIN host : Raw(i) = Raw(j) <=> host[i].at = host[j].at
  BY <1>2, Positions DEF Raw
<1>6. \A i \in DOMAIN host : host[i].at = 0 <=> Raw(i) = 1
  BY <1>2, Positions DEF Raw
<1>7. Together => \A i \in DOMAIN host : Raw(i) >= Raw(1) /\ Raw(1) = 1
  <2> SUFFICES ASSUME Together, NEW i \in DOMAIN host
               PROVE  Raw(i) >= Raw(1) /\ Raw(1) = 1
    OBVIOUS
  <2>1. 1 \in DOMAIN host /\ 1 <= i
    BY <1>1
  <2> QED
    BY <1>3, <1>4, <1>6, <2>1 DEF Together
<1> QED
  BY <1>1, <1>2, <1>3, <1>4, <1>5, <1>6, <1>7

\* Of the events at one position those before the next have been come by, and where
\* none is next the rest lie later.
LEMMA GroupOrder ==
    ASSUME GroupShape, WalkShape, phase \in {"condition", "play"}
    PROVE  /\ start \in DOMAIN host
           /\ Group = {i \in DOMAIN host : Raw(i) = Raw(start)}
           /\ \A i \in DOMAIN host : i < start <=> Raw(i) < Raw(start)
           /\ \A i \in DOMAIN host : start <= i /\ i < next => i \in Group
           /\ Walking <=> (next \in DOMAIN host /\ Raw(next) = Raw(start))
           /\ ~Walking => \A i \in DOMAIN host : i >= next <=> Raw(i) > Raw(start)
<1>1. /\ start \in DOMAIN host
      /\ \A i \in 1 .. start - 1 : Raw(i) < Raw(start)
      /\ \A i \in start .. next - 1 : Raw(i) = Raw(start)
      /\ start \in Nat /\ next \in Nat /\ start <= next /\ next <= Len(host) + 1
  <2>1. start \in DOMAIN host
    BY DEF WalkShape
  <2> QED
    BY <2>1, RawOrder DEF WalkShape, GroupShape
<1>2. \A i \in DOMAIN host : i < start <=> Raw(i) < Raw(start)
  <2> SUFFICES ASSUME NEW i \in DOMAIN host
               PROVE  i < start <=> Raw(i) < Raw(start)
    OBVIOUS
  <2>1. CASE i < start
    BY <1>1, <2>1, RawOrder
  <2>2. CASE start <= i
    BY <1>1, <2>2, RawOrder
  <2> QED
    BY <1>1, <2>1, <2>2, RawOrder
<1>3. Group = {i \in DOMAIN host : Raw(i) = Raw(start)}
  <2>1. ASSUME NEW i \in DOMAIN host
        PROVE  i \in Group <=> Raw(i) = Raw(start)
    BY <1>1, <1>2, RawOrder DEF Group
  <2>2. \A i \in Group : i \in DOMAIN host
    BY <1>1, RawOrder DEF Group
  <2> QED
    BY <2>1, <2>2
<1>4. \A i \in DOMAIN host : start <= i /\ i < next => i \in Group
  BY <1>1, <1>3, RawOrder
<1>5. Walking <=> (next \in DOMAIN host /\ Raw(next) = Raw(start))
  BY <1>3 DEF Walking
<1>6. ~Walking => \A i \in DOMAIN host : i >= next <=> Raw(i) > Raw(start)
  <2> SUFFICES ASSUME ~Walking, NEW i \in DOMAIN host
               PROVE  i >= next <=> Raw(i) > Raw(start)
    OBVIOUS
  <2>1. CASE i < start
    BY <1>1, <1>2, <2>1, RawOrder
  <2>2. CASE start <= i /\ i < next
    BY <1>1, <1>3, <1>4, <2>2, RawOrder
  <2>3. CASE next <= i
    <3>1. next \in DOMAIN host
      BY <1>1, <2>3, RawOrder
    <3>2. Raw(next) # Raw(start) /\ Raw(start) <= Raw(next) /\ Raw(next) <= Raw(i)
      BY <1>1, <1>5, <2>3, <3>1, RawOrder
    <3> QED
      BY <1>1, <2>3, <3>1, <3>2, RawOrder
  <2> QED
    BY <1>1, <2>1, <2>2, <2>3, RawOrder
<1> QED
  BY <1>1, <1>2, <1>3, <1>4, <1>5, <1>6

-----------------------------------------------------------------------------
(***************************************************************************)
(* What is owed, and when.                                                 *)
(***************************************************************************)
Second(kind) == kind \in {"on", "off", "cc121", "cc123"}

LEMMA DeedsAre ==
    ASSUME NEW kind \in HostKinds, NEW e
    PROVE  /\ \A d : d \in Deeds(kind, e) <=>
                        \/ Conditions(kind) /\ d = <<FirstDeeds[kind], e>>
                        \/ Second(kind) /\ d = <<SecondDeeds[kind], e>>
           /\ Conditions(kind) => IsFirst(<<FirstDeeds[kind], e>>)
           /\ Second(kind) => ~IsFirst(<<SecondDeeds[kind], e>>)
<1>1. DOMAIN FirstDeeds = {"key", "zone", "rpn", "cc121", "cc123"}
  BY DEF FirstDeeds
<1>2. DOMAIN SecondDeeds = {"on", "off", "cc121", "cc123"}
  BY DEF SecondDeeds
<1>3. Conditions(kind) <=> kind \in DOMAIN FirstDeeds
  BY <1>1 DEF Conditions
<1>4. Second(kind) <=> kind \in DOMAIN SecondDeeds
  BY <1>2 DEF Second
<1>5. \A d : d \in Deeds(kind, e) <=>
                \/ Conditions(kind) /\ d = <<FirstDeeds[kind], e>>
                \/ Second(kind) /\ d = <<SecondDeeds[kind], e>>
  BY <1>3, <1>4 DEF Deeds
<1>6. Conditions(kind) => IsFirst(<<FirstDeeds[kind], e>>)
  BY DEF Conditions, IsFirst, FirstDeeds
<1>7. Second(kind) => ~IsFirst(<<SecondDeeds[kind], e>>)
  BY DEF Second, IsFirst, SecondDeeds
<1> QED
  BY <1>5, <1>6, <1>7

\* The four kinds of deeds a block owes.
HostFirst(d, i) == Conditions(host[i].kind) /\ d = <<FirstDeeds[host[i].kind], Host(i)>>
HostSecond(d, i) == Second(host[i].kind) /\ d = <<SecondDeeds[host[i].kind], Host(i)>>
EditorFirst(d, i) ==
    Conditions(gestures[i]) /\ d = <<FirstDeeds[gestures[i]], Gesture(i)>>
EditorSecond(d, i) ==
    Second(gestures[i]) /\ d = <<SecondDeeds[gestures[i]], Gesture(i)>>

LEMMA OwedAre ==
    ASSUME GroupShape, NEW d
    PROVE  d \in OwedDeeds <=>
              \/ \E i \in DOMAIN host : HostFirst(d, i) \/ HostSecond(d, i)
              \/ \E i \in DOMAIN gestures : EditorFirst(d, i) \/ EditorSecond(d, i)
<1>1. \A i \in DOMAIN host : host[i].kind \in HostKinds
  BY RawOrder
<1>2. \A i \in DOMAIN gestures : gestures[i] \in HostKinds
  <2>1. \A i \in DOMAIN gestures : gestures[i] \in GestureKinds
    BY ElementOfSeq, LenProperties DEF GroupShape
  <2> QED
    BY <2>1 DEF HostKinds, GestureKinds
<1>3. \A i \in DOMAIN host :
         d \in Deeds(host[i].kind, Host(i)) <=> HostFirst(d, i) \/ HostSecond(d, i)
  BY <1>1, DeedsAre DEF HostFirst, HostSecond
<1>4. \A i \in DOMAIN gestures :
         d \in Deeds(gestures[i], Gesture(i)) <=> EditorFirst(d, i) \/ EditorSecond(d, i)
  BY <1>2, DeedsAre DEF EditorFirst, EditorSecond
<1>5. d \in OwedDeeds <=>
         \/ \E i \in DOMAIN host : d \in Deeds(host[i].kind, Host(i))
         \/ \E i \in DOMAIN gestures : d \in Deeds(gestures[i], Gesture(i))
  BY Zenon DEF OwedDeeds
<1> QED
  BY <1>3, <1>4, <1>5

LEMMA TurnsAre ==
    ASSUME GroupShape, NEW d
    PROVE  /\ \A i \in DOMAIN host :
                 /\ HostFirst(d, i) => Turn(d) = <<Raw(i) + 1, 2, i>>
                 /\ HostSecond(d, i) => Turn(d) = <<Raw(i) + 1, 4, i>>
           /\ \A i \in DOMAIN gestures :
                 /\ EditorFirst(d, i) => Turn(d) = <<0, 1, i>>
                 /\ EditorSecond(d, i) => Turn(d) = <<IF Together THEN 2 ELSE 0, 3, i>>
<1>1. \A i \in DOMAIN host : host[i].kind \in HostKinds
  BY RawOrder
<1>2. \A i \in DOMAIN gestures : gestures[i] \in HostKinds
  <2>1. \A i \in DOMAIN gestures : gestures[i] \in GestureKinds
    BY ElementOfSeq, LenProperties DEF GroupShape
  <2> QED
    BY <2>1 DEF HostKinds, GestureKinds
<1>3. ASSUME NEW i \in DOMAIN host
      PROVE  /\ HostFirst(d, i) => Turn(d) = <<Raw(i) + 1, 2, i>>
             /\ HostSecond(d, i) => Turn(d) = <<Raw(i) + 1, 4, i>>
  <2>1. CASE HostFirst(d, i)
    <3>1. IsFirst(d) /\ d[2] = Host(i)
      BY <1>1, <2>1, DeedsAre DEF HostFirst
    <3>2. ~HostSecond(d, i)
      <4> SUFFICES ASSUME HostSecond(d, i) PROVE FALSE
        OBVIOUS
      <4>1. ~IsFirst(d)
        BY <1>1, DeedsAre DEF HostSecond
      <4> QED
        BY <3>1, <4>1
    <3> QED
      BY <3>1, <3>2 DEF Turn, Host, Raw
  <2>2. CASE HostSecond(d, i)
    <3>1. ~IsFirst(d) /\ d[2] = Host(i)
      BY <1>1, <2>2, DeedsAre DEF HostSecond
    <3>2. ~HostFirst(d, i)
      <4> SUFFICES ASSUME HostFirst(d, i) PROVE FALSE
        OBVIOUS
      <4>1. IsFirst(d)
        BY <1>1, DeedsAre DEF HostFirst
      <4> QED
        BY <3>1, <4>1
    <3> QED
      BY <3>1, <3>2 DEF Turn, Host, Raw
  <2> QED
    BY <2>1, <2>2
<1>4. ASSUME NEW i \in DOMAIN gestures
      PROVE  /\ EditorFirst(d, i) => Turn(d) = <<0, 1, i>>
             /\ EditorSecond(d, i) => Turn(d) = <<IF Together THEN 2 ELSE 0, 3, i>>
  <2>1. ASSUME EditorFirst(d, i)
        PROVE  Turn(d) = <<0, 1, i>>
    <3>1. IsFirst(d) /\ d[2] = Gesture(i)
      BY <1>2, <2>1, DeedsAre DEF EditorFirst
    <3> QED
      BY <3>1 DEF Turn, Gesture
  <2>2. ASSUME EditorSecond(d, i)
        PROVE  Turn(d) = <<IF Together THEN 2 ELSE 0, 3, i>>
    <3>1. ~IsFirst(d) /\ d[2] = Gesture(i)
      BY <1>2, <2>2, DeedsAre DEF EditorSecond
    <3>2. Position(0) = 1
      BY BoundAssumption DEF Position
    <3> QED
      BY <3>1, <3>2 DEF Turn, Gesture, Together
  <2> QED
    BY <2>1, <2>2
<1> QED
  BY <1>3, <1>4

-----------------------------------------------------------------------------
(***************************************************************************)
(* The calls, as a list that grows by one deed at a time.                  *)
(***************************************************************************)

\* What comes last and is due last keeps a list in turn.
LEMMA InTurnGrows ==
    ASSUME NEW c, NEW g, NEW p, NEW D, NEW d, InTurn(c, D),
           Places(c) \subseteq Nat \X Nat, p \in Nat \X Nat,
           Places(g) = Places(c) \union {p},
           \A q \in Places(c) : ComesFirst(q, p) /\ DeedAt(g, q) = DeedAt(c, q),
           DeedAt(g, p) = d, \A x \in D : Sooner(Turn(x), Turn(d))
    PROVE  InTurn(g, D \union {d})
<1>1. {DeedAt(c, q) : q \in Places(c)} = D
  BY DEF InTurn
<1>2. {DeedAt(g, q) : q \in Places(g)} = D \union {d}
  <2>1. {DeedAt(g, q) : q \in Places(c)} = D
    BY <1>1
  <2>2. {DeedAt(g, q) : q \in Places(g)} = {DeedAt(g, q) : q \in Places(c)} \union {DeedAt(g, p)}
    OBVIOUS
  <2> QED
    BY <2>1, <2>2
<1>3. ASSUME NEW q \in Places(g), NEW r \in Places(g), ComesFirst(q, r)
      PROVE  Sooner(Turn(DeedAt(g, q)), Turn(DeedAt(g, r)))
  <2>1. CASE q \in Places(c) /\ r \in Places(c)
    BY <1>3, <2>1 DEF InTurn
  <2>2. CASE q \in Places(c) /\ r = p
    <3>1. DeedAt(g, q) \in D
      BY <1>1, <2>2
    <3> QED
      BY <2>2, <3>1
  <2>3. CASE q = p
    <3>1. ~ComesFirst(p, p)
      BY DEF ComesFirst
    <3>2. ASSUME r \in Places(c) PROVE FALSE
      <4>1. ComesFirst(r, p) /\ ComesFirst(p, r) /\ r \in Nat \X Nat
        BY <1>3, <2>3, <3>2
      <4>2. r[1] \in Nat /\ r[2] \in Nat /\ p[1] \in Nat /\ p[2] \in Nat
        BY <4>1
      <4> QED
        BY <4>1, <4>2 DEF ComesFirst
    <3> QED
      BY <1>3, <2>3, <3>1, <3>2
  <2> QED
    BY <2>1, <2>2, <2>3
<1> QED
  BY <1>2, <1>3 DEF InTurn

\* The places of a list.
LEMMA PlacesAre ==
    ASSUME NEW c \in Seq(Answers)
    PROVE  /\ \A p : p \in Places(c) <=>
                 \E k \in 1 .. Len(c) : \E n \in 1 .. Len(c[k].events) : p = <<k, n>>
           /\ Places(c) \subseteq Nat \X Nat
           /\ Len(c) \in Nat
           /\ \A k \in 1 .. Len(c) : /\ c[k] \in Answers /\ Len(c[k].events) \in Nat
                                     /\ c[k].events \in Seq(Ev)
<1>1. DOMAIN c = 1 .. Len(c) /\ Len(c) \in Nat
  BY LenProperties
<1>2. \A k \in 1 .. Len(c) : c[k] \in Answers
  BY ElementOfSeq
<1>3. \A k \in 1 .. Len(c) : c[k].events \in Seq(Ev)
  BY <1>2 DEF Answers
<1>4. \A k \in 1 .. Len(c) : /\ DOMAIN (c[k].events) = 1 .. Len(c[k].events)
                             /\ Len(c[k].events) \in Nat
  BY <1>3, LenProperties
<1>5. \A p : p \in Places(c) <=>
          \E k \in 1 .. Len(c) : \E n \in 1 .. Len(c[k].events) : p = <<k, n>>
  BY <1>1, <1>4 DEF Places
<1>6. \A k \in 1 .. Len(c) : \A n \in 1 .. Len(c[k].events) : <<k, n>> \in Nat \X Nat
  BY <1>1, <1>4
<1> QED
  BY <1>1, <1>2, <1>3, <1>4, <1>5, <1>6

\* A call of its own, or an attack that begins a chord.
LEMMA CallComesLast ==
    ASSUME NEW c \in Seq(Answers), NEW what \in Whats, NEW e \in Ev, NEW D,
           InTurn(c, D), \A x \in D : Sooner(Turn(x), Turn(<<what, e>>))
    PROVE  /\ Append(c, Call(what, e)) \in Seq(Answers)
           /\ InTurn(Append(c, Call(what, e)), D \union {<<what, e>>})
<1> DEFINE g == Append(c, Call(what, e))
           m == Len(c) + 1
           p == <<m, 1>>
<1>1. Call(what, e) \in Answers
  <2>1. <<e>> \in Seq(Ev)
    OBVIOUS
  <2> QED
    BY <2>1 DEF Call, Answers
<1>2. /\ g \in Seq(Answers) /\ Len(g) = Len(c) + 1 /\ Len(c) \in Nat
      /\ \A k \in 1 .. Len(c) : g[k] = c[k]
      /\ g[m] = Call(what, e)
  <2> DEFINE x == Call(what, e)
  <2>1. x \in Answers
    BY <1>1
  <2> HIDE DEF x
  <2>2. /\ Append(c, x) \in Seq(Answers) /\ Len(Append(c, x)) = Len(c) + 1
        /\ \A k \in 1 .. Len(c) : Append(c, x)[k] = c[k]
        /\ Append(c, x)[Len(c) + 1] = x
    BY <2>1, AppendProperties
  <2>3. Len(c) \in Nat
    BY LenProperties
  <2> QED
    BY <2>2, <2>3 DEF x
<1> HIDE DEF g
<1>3. /\ g[m].does = what /\ g[m].events = <<e>> /\ Len(g[m].events) = 1
      /\ g[m].events[1] = e
  BY <1>2 DEF Call
<1>4. Places(g) = Places(c) \union {p}
  <2> SUFFICES ASSUME NEW q
               PROVE  q \in Places(g) <=> q \in Places(c) \/ q = p
    OBVIOUS
  <2>1. q \in Places(g) <=> \E k \in 1 .. Len(c) + 1 : \E n \in 1 .. Len(g[k].events) : q = <<k, n>>
    BY <1>2, PlacesAre
  <2>2. q \in Places(c) <=> \E k \in 1 .. Len(c) : \E n \in 1 .. Len(c[k].events) : q = <<k, n>>
    BY PlacesAre
  <2>3. \A k \in 1 .. Len(c) + 1 : k \in 1 .. Len(c) \/ k = m
    BY <1>2
  <2>4. \A k \in 1 .. Len(c) : g[k] = c[k] /\ k \in 1 .. Len(c) + 1
    BY <1>2
  <2>5. m \in 1 .. Len(c) + 1 /\ 1 .. Len(g[m].events) = {1}
    BY <1>2, <1>3
  <2> HIDE DEF m
  <2> QED
    BY <2>1, <2>2, <2>3, <2>4, <2>5
<1>5. \A q \in Places(c) : ComesFirst(q, p) /\ DeedAt(g, q) = DeedAt(c, q)
  <2> SUFFICES ASSUME NEW q \in Places(c)
               PROVE  ComesFirst(q, p) /\ DeedAt(g, q) = DeedAt(c, q)
    OBVIOUS
  <2>1. PICK k \in 1 .. Len(c) : \E n \in 1 .. Len(c[k].events) : q = <<k, n>>
    BY PlacesAre
  <2>3. PICK n \in 1 .. Len(c[k].events) : q = <<k, n>>
    BY <2>1
  <2>2. k < m
    BY <1>2
  <2> QED
    BY <1>2, <2>3, <2>2 DEF ComesFirst, DeedAt
<1>6. DeedAt(g, p) = <<what, e>>
  BY <1>3 DEF DeedAt
<1>7. p \in Nat \X Nat /\ Places(c) \subseteq Nat \X Nat
  BY <1>2, PlacesAre
<1>8. InTurn(g, D \union {<<what, e>>})
  <2> HIDE DEF p
  <2> QED
    BY <1>4, <1>5, <1>6, <1>7, InTurnGrows
<1> QED
  BY <1>2, <1>8 DEF g

\* An attack that joins the chord that waits.
LEMMA AttackComesLast ==
    ASSUME NEW c \in Seq(Answers), NEW b \in Seq(Ev), b # <<>>, NEW e \in Ev, NEW D,
           InTurn(Append(c, Chord(b)), D),
           \A x \in D : Sooner(Turn(x), Turn(<<"chord", e>>))
    PROVE  InTurn(Append(c, Chord(Append(b, e))), D \union {<<"chord", e>>})
<1> DEFINE a == Append(c, Chord(b))
           g == Append(c, Chord(Append(b, e)))
           m == Len(c) + 1
           t == Len(b) + 1
           p == <<m, t>>
<1>0. /\ Append(b, e) \in Seq(Ev) /\ Len(Append(b, e)) = t /\ Len(b) \in Nat
      /\ \A n \in 1 .. Len(b) : Append(b, e)[n] = b[n]
      /\ Append(b, e)[t] = e
  BY AppendProperties, LenProperties
<1>1. Chord(b) \in Answers /\ Chord(Append(b, e)) \in Answers
  <2>1. \A x \in Seq(Ev) : Chord(x) \in Answers
    <3>1. "chord" \in Whats
      BY DEF Whats
    <3>2. \A what \in Whats, x \in Seq(Ev) : [does |-> what, events |-> x] \in Answers
      BY DEF Answers
    <3> QED
      BY <3>1, <3>2 DEF Chord
  <2> QED
    BY <1>0, <2>1
<1>2. /\ g \in Seq(Answers) /\ Len(g) = Len(c) + 1 /\ Len(c) \in Nat
      /\ \A k \in 1 .. Len(c) : g[k] = c[k]
      /\ g[m] = Chord(Append(b, e))
  BY <1>1, AppendProperties, LenProperties
<1>3. /\ a \in Seq(Answers) /\ Len(a) = Len(c) + 1
      /\ \A k \in 1 .. Len(c) : a[k] = c[k]
      /\ a[m] = Chord(b)
  BY <1>1, AppendProperties, LenProperties
<1> HIDE DEF g, a
<1>4. /\ g[m].does = "chord" /\ g[m].events = Append(b, e)
      /\ a[m].does = "chord" /\ a[m].events = b
  BY <1>2, <1>3 DEF Chord
<1>5. Places(g) = Places(a) \union {p}
  <2> SUFFICES ASSUME NEW q
               PROVE  q \in Places(g) <=> q \in Places(a) \/ q = p
    OBVIOUS
  <2>1. q \in Places(g) <=> \E k \in 1 .. Len(c) + 1 : \E n \in 1 .. Len(g[k].events) : q = <<k, n>>
    BY <1>2, PlacesAre
  <2>2. q \in Places(a) <=> \E k \in 1 .. Len(c) + 1 : \E n \in 1 .. Len(a[k].events) : q = <<k, n>>
    BY <1>3, PlacesAre
  <2>3. \A k \in 1 .. Len(c) + 1 : k # m => g[k] = a[k]
    <3>1. \A k \in 1 .. Len(c) + 1 : k # m => k \in 1 .. Len(c)
      BY <1>2
    <3> QED
      BY <1>2, <1>3, <3>1
  <2>4. /\ m \in 1 .. Len(c) + 1 /\ 1 .. Len(a[m].events) = 1 .. Len(b)
        /\ 1 .. Len(g[m].events) = 1 .. t
    BY <1>0, <1>2, <1>4
  <2>5. \A n \in 1 .. t : n \in 1 .. Len(b) \/ n = t
    BY <1>0
  <2>6. t \in 1 .. t /\ \A n \in 1 .. Len(b) : n \in 1 .. t
    BY <1>0
  <2> HIDE DEF m, t
  <2> QED
    BY <2>1, <2>2, <2>3, <2>4, <2>5, <2>6
<1>6. \A q \in Places(a) : ComesFirst(q, p) /\ DeedAt(g, q) = DeedAt(a, q)
  <2> SUFFICES ASSUME NEW q \in Places(a)
               PROVE  ComesFirst(q, p) /\ DeedAt(g, q) = DeedAt(a, q)
    OBVIOUS
  <2>0. PICK k \in 1 .. Len(c) + 1 : \E n \in 1 .. Len(a[k].events) : q = <<k, n>>
    BY <1>3, PlacesAre
  <2>1. PICK n \in 1 .. Len(a[k].events) : q = <<k, n>>
    BY <2>0
  <2>2. CASE k = m
    <3>1. n \in 1 .. Len(b) /\ n < t
      BY <1>0, <1>4, <2>2
    <3> QED
      BY <1>0, <1>4, <2>1, <2>2, <3>1 DEF ComesFirst, DeedAt
  <2>3. CASE k # m
    <3>1. k \in 1 .. Len(c) /\ k < m
      BY <1>2, <2>3
    <3> QED
      BY <1>2, <1>3, <2>1, <3>1 DEF ComesFirst, DeedAt
  <2> QED
    BY <2>2, <2>3
<1>7. DeedAt(g, p) = <<"chord", e>>
  BY <1>0, <1>4 DEF DeedAt
<1>8. p \in Nat \X Nat /\ Places(a) \subseteq Nat \X Nat
  BY <1>0, <1>2, <1>3, PlacesAre
<1>9. InTurn(a, D)
  BY DEF a
<1>10. InTurn(g, D \union {<<"chord", e>>})
  <2> HIDE DEF p
  <2> QED
    BY <1>5, <1>6, <1>7, <1>8, <1>9, InTurnGrows
<1> QED
  BY <1>10 DEF g

-----------------------------------------------------------------------------
(***************************************************************************)
(* What is due so far: the deeds whose turn came before a given one.       *)
(***************************************************************************)
Soon(t) == {d \in OwedDeeds : Sooner(Turn(d), t)}

Now ==
    IF phase = "snapshot" THEN <<0, 1, slot>>
    ELSE IF phase = "gather" THEN <<IF Together THEN 2 ELSE 0, 3, slot>>
    ELSE <<Raw(start) + 1, IF phase = "condition" THEN 2 ELSE 4, next>>

Due == IF phase = "done" THEN OwedDeeds ELSE Soon(Now)

\* Every deed has its turn, and no two have the same.
LEMMA OneDeedATurn ==
    ASSUME GroupShape, NEW a \in Nat, NEW n
    PROVE  LET At(b) == {d \in OwedDeeds : Turn(d) = <<a, b, n>>}
           IN /\ n \in DOMAIN host /\ a = Raw(n) + 1 =>
                    /\ At(2) = IF Conditions(host[n].kind)
                               THEN {<<FirstDeeds[host[n].kind], Host(n)>>} ELSE {}
                    /\ At(4) = IF Second(host[n].kind)
                               THEN {<<SecondDeeds[host[n].kind], Host(n)>>} ELSE {}
              /\ n \in DOMAIN gestures /\ a = 0 =>
                    At(1) = IF Conditions(gestures[n])
                            THEN {<<FirstDeeds[gestures[n]], Gesture(n)>>} ELSE {}
              /\ n \in DOMAIN gestures /\ a = (IF Together THEN 2 ELSE 0) =>
                    At(3) = IF Second(gestures[n])
                            THEN {<<SecondDeeds[gestures[n]], Gesture(n)>>} ELSE {}
<1> DEFINE At(b) == {d \in OwedDeeds : Turn(d) = <<a, b, n>>}
<1>1. ASSUME NEW d \in OwedDeeds
      PROVE  /\ Turn(d) = <<a, 2, n>> => n \in DOMAIN host /\ HostFirst(d, n)
             /\ Turn(d) = <<a, 4, n>> => n \in DOMAIN host /\ HostSecond(d, n)
             /\ Turn(d) = <<a, 1, n>> => n \in DOMAIN gestures /\ EditorFirst(d, n)
             /\ Turn(d) = <<a, 3, n>> => n \in DOMAIN gestures /\ EditorSecond(d, n)
  <2>1. \/ \E i \in DOMAIN host : HostFirst(d, i) \/ HostSecond(d, i)
        \/ \E i \in DOMAIN gestures : EditorFirst(d, i) \/ EditorSecond(d, i)
    BY OwedAre
  <2>2. CASE \E i \in DOMAIN host : HostFirst(d, i) \/ HostSecond(d, i)
    <3>1. PICK i \in DOMAIN host : HostFirst(d, i) \/ HostSecond(d, i)
      BY <2>2
    <3>2. /\ HostFirst(d, i) => Turn(d) = <<Raw(i) + 1, 2, i>>
          /\ HostSecond(d, i) => Turn(d) = <<Raw(i) + 1, 4, i>>
      BY TurnsAre
    <3> QED
      BY <3>1, <3>2
  <2>3. CASE \E i \in DOMAIN gestures : EditorFirst(d, i) \/ EditorSecond(d, i)
    <3>1. PICK i \in DOMAIN gestures : EditorFirst(d, i) \/ EditorSecond(d, i)
      BY <2>3
    <3>2. /\ EditorFirst(d, i) => Turn(d) = <<0, 1, i>>
          /\ EditorSecond(d, i) => Turn(d) = <<IF Together THEN 2 ELSE 0, 3, i>>
      BY TurnsAre
    <3> QED
      BY <3>1, <3>2
  <2> QED
    BY <2>1, <2>2, <2>3
<1>2. ASSUME n \in DOMAIN host, a = Raw(n) + 1
      PROVE  At(2) = IF Conditions(host[n].kind)
                     THEN {<<FirstDeeds[host[n].kind], Host(n)>>} ELSE {}
  <2>1. ASSUME NEW d
        PROVE  d \in At(2) <=> HostFirst(d, n)
    <3>1. HostFirst(d, n) => d \in OwedDeeds /\ Turn(d) = <<a, 2, n>>
      BY <1>2, OwedAre, TurnsAre
    <3> QED
      BY <1>1, <3>1
  <2> QED
    BY <2>1 DEF HostFirst
<1>3. ASSUME n \in DOMAIN host, a = Raw(n) + 1
      PROVE  At(4) = IF Second(host[n].kind)
                     THEN {<<SecondDeeds[host[n].kind], Host(n)>>} ELSE {}
  <2>1. ASSUME NEW d
        PROVE  d \in At(4) <=> HostSecond(d, n)
    <3>1. HostSecond(d, n) => d \in OwedDeeds /\ Turn(d) = <<a, 4, n>>
      BY <1>3, OwedAre, TurnsAre
    <3> QED
      BY <1>1, <3>1
  <2> QED
    BY <2>1 DEF HostSecond
<1>4. ASSUME n \in DOMAIN gestures, a = 0
      PROVE  At(1) = IF Conditions(gestures[n])
                     THEN {<<FirstDeeds[gestures[n]], Gesture(n)>>} ELSE {}
  <2>1. ASSUME NEW d
        PROVE  d \in At(1) <=> EditorFirst(d, n)
    <3>1. EditorFirst(d, n) => d \in OwedDeeds /\ Turn(d) = <<a, 1, n>>
      BY <1>4, OwedAre, TurnsAre
    <3> QED
      BY <1>1, <3>1
  <2> QED
    BY <2>1 DEF EditorFirst
<1>5. ASSUME n \in DOMAIN gestures, a = (IF Together THEN 2 ELSE 0)
      PROVE  At(3) = IF Second(gestures[n])
                     THEN {<<SecondDeeds[gestures[n]], Gesture(n)>>} ELSE {}
  <2>1. ASSUME NEW d
        PROVE  d \in At(3) <=> EditorSecond(d, n)
    <3>1. EditorSecond(d, n) => d \in OwedDeeds /\ Turn(d) = <<a, 3, n>>
      BY <1>5, OwedAre, TurnsAre
    <3> QED
      BY <1>1, <3>1
  <2> QED
    BY <2>1 DEF EditorSecond
<1> QED
  BY <1>2, <1>3, <1>4, <1>5

\* A turn is three numbers.
LEMMA TurnsAreNumbers ==
    ASSUME GroupShape, NEW d \in OwedDeeds
    PROVE  \E a \in Nat : \E b \in {1, 2, 3, 4} : \E n \in Nat : Turn(d) = <<a, b, n>>
<1>1. \/ \E i \in DOMAIN host : HostFirst(d, i) \/ HostSecond(d, i)
      \/ \E i \in DOMAIN gestures : EditorFirst(d, i) \/ EditorSecond(d, i)
  BY OwedAre
<1>2. CASE \E i \in DOMAIN host : HostFirst(d, i) \/ HostSecond(d, i)
  <2>1. PICK i \in DOMAIN host : HostFirst(d, i) \/ HostSecond(d, i)
    BY <1>2
  <2>2. Raw(i) \in Nat /\ i \in Nat
    BY RawOrder
  <2>3. Raw(i) + 1 \in Nat
    BY <2>2
  <2>4. Turn(d) = <<Raw(i) + 1, 2, i>> \/ Turn(d) = <<Raw(i) + 1, 4, i>>
    BY <2>1, TurnsAre
  <2> QED
    BY <2>2, <2>3, <2>4
<1>3. CASE \E i \in DOMAIN gestures : EditorFirst(d, i) \/ EditorSecond(d, i)
  <2>1. PICK i \in DOMAIN gestures : EditorFirst(d, i) \/ EditorSecond(d, i)
    BY <1>3
  <2>2. i \in Nat
    BY LenProperties DEF GroupShape
  <2>3. Turn(d) = <<0, 1, i>> \/ Turn(d) = <<IF Together THEN 2 ELSE 0, 3, i>>
    BY <2>1, TurnsAre
  <2> QED
    BY <2>2, <2>3
<1> QED
  BY <1>1, <1>2, <1>3

\* When a walk goes on to the next event, the deed of this one's turn is due.
LEMMA NextTurn ==
    ASSUME GroupShape, NEW a \in Nat, NEW b \in Nat, NEW n \in Nat
    PROVE  Soon(<<a, b, n + 1>>)
             = Soon(<<a, b, n>>) \union {d \in OwedDeeds : Turn(d) = <<a, b, n>>}
<1>1. ASSUME NEW x \in Nat, NEW y \in Nat, NEW z \in Nat
      PROVE  Sooner(<<x, y, z>>, <<a, b, n + 1>>)
               <=> Sooner(<<x, y, z>>, <<a, b, n>>) \/ <<x, y, z>> = <<a, b, n>>
  BY DEF Sooner
<1>2. ASSUME NEW d \in OwedDeeds
      PROVE  Sooner(Turn(d), <<a, b, n + 1>>)
               <=> Sooner(Turn(d), <<a, b, n>>) \/ Turn(d) = <<a, b, n>>
  BY <1>1, TurnsAreNumbers
<1> QED
  BY <1>2 DEF Soon

\* Between the walks nothing comes due that is not due already.
LEMMA NoTurnBetween ==
    ASSUME GroupShape, NEW t, NEW u,
           \A i \in DOMAIN host : \A b \in {2, 4} :
              Sooner(<<Raw(i) + 1, b, i>>, t) <=> Sooner(<<Raw(i) + 1, b, i>>, u),
           \A i \in DOMAIN gestures :
              /\ Sooner(<<0, 1, i>>, t) <=> Sooner(<<0, 1, i>>, u)
              /\ LET a == IF Together THEN 2 ELSE 0
                 IN  Sooner(<<a, 3, i>>, t) <=> Sooner(<<a, 3, i>>, u)
    PROVE  Soon(t) = Soon(u)
<1>1. ASSUME NEW d \in OwedDeeds
      PROVE  Sooner(Turn(d), t) <=> Sooner(Turn(d), u)
  <2>1. \/ \E i \in DOMAIN host : HostFirst(d, i) \/ HostSecond(d, i)
        \/ \E i \in DOMAIN gestures : EditorFirst(d, i) \/ EditorSecond(d, i)
    BY OwedAre
  <2>2. CASE \E i \in DOMAIN host : HostFirst(d, i) \/ HostSecond(d, i)
    <3>1. PICK i \in DOMAIN host : HostFirst(d, i) \/ HostSecond(d, i)
      BY <2>2
    <3>2. Turn(d) = <<Raw(i) + 1, 2, i>> \/ Turn(d) = <<Raw(i) + 1, 4, i>>
      BY <3>1, TurnsAre
    <3> QED
      BY <3>2
  <2>3. CASE \E i \in DOMAIN gestures : EditorFirst(d, i) \/ EditorSecond(d, i)
    <3>1. PICK i \in DOMAIN gestures : EditorFirst(d, i) \/ EditorSecond(d, i)
      BY <2>3
    <3>2. Turn(d) = <<0, 1, i>> \/ Turn(d) = <<IF Together THEN 2 ELSE 0, 3, i>>
      BY <3>1, TurnsAre
    <3> QED
      BY <3>2
  <2> QED
    BY <2>1, <2>2, <2>3
<1> QED
  BY <1>1 DEF Soon

\* And at the end all is due.
LEMMA AllTurnsTaken ==
    ASSUME GroupShape, NEW t,
           \A i \in DOMAIN host : \A b \in {2, 4} : Sooner(<<Raw(i) + 1, b, i>>, t),
           \A i \in DOMAIN gestures :
              /\ Sooner(<<0, 1, i>>, t)
              /\ Sooner(<<IF Together THEN 2 ELSE 0, 3, i>>, t)
    PROVE  Soon(t) = OwedDeeds
<1>1. ASSUME NEW d \in OwedDeeds
      PROVE  Sooner(Turn(d), t)
  <2>1. \/ \E i \in DOMAIN host : HostFirst(d, i) \/ HostSecond(d, i)
        \/ \E i \in DOMAIN gestures : EditorFirst(d, i) \/ EditorSecond(d, i)
    BY OwedAre
  <2>2. CASE \E i \in DOMAIN host : HostFirst(d, i) \/ HostSecond(d, i)
    <3>1. PICK i \in DOMAIN host : HostFirst(d, i) \/ HostSecond(d, i)
      BY <2>2
    <3>2. Turn(d) = <<Raw(i) + 1, 2, i>> \/ Turn(d) = <<Raw(i) + 1, 4, i>>
      BY <3>1, TurnsAre
    <3> QED
      BY <3>2
  <2>3. CASE \E i \in DOMAIN gestures : EditorFirst(d, i) \/ EditorSecond(d, i)
    <3>1. PICK i \in DOMAIN gestures : EditorFirst(d, i) \/ EditorSecond(d, i)
      BY <2>3
    <3>2. Turn(d) = <<0, 1, i>> \/ Turn(d) = <<IF Together THEN 2 ELSE 0, 3, i>>
      BY <3>1, TurnsAre
    <3> QED
      BY <3>2
  <2> QED
    BY <2>1, <2>2, <2>3
<1> QED
  BY <1>1 DEF Soon

-----------------------------------------------------------------------------
(***************************************************************************)
(* Batches.                                                                *)
(***************************************************************************)
LEMMA FlushedIs ==
    ASSUME NEW b \in Seq(Ev), NEW c \in Seq(Answers)
    PROVE  /\ Flushed(b, c) \in Seq(Answers)
           /\ Flushed(<<>>, c) = c
           /\ b # <<>> => Flushed(b, c) = Append(c, Chord(b))
<1>1. Chord(b) \in Answers
  <2>1. "chord" \in Whats
    BY DEF Whats
  <2>2. \A what \in Whats, x \in Seq(Ev) : [does |-> what, events |-> x] \in Answers
    BY DEF Answers
  <2> QED
    BY <2>1, <2>2 DEF Chord
<1>2. Append(c, Chord(b)) \in Seq(Answers)
  BY <1>1, AppendProperties
<1> QED
  BY <1>2 DEF Flushed

LEMMA OneCallIs ==
    ASSUME NEW what \in Whats, NEW e \in Ev, NEW c \in Seq(Answers)
    PROVE  Append(c, Call(what, e)) \in Seq(Answers) /\ Call(what, e) \in Answers
<1>1. Call(what, e) \in Answers
  <2>1. <<e>> \in Seq(Ev)
    OBVIOUS
  <2> QED
    BY <2>1 DEF Call, Answers
<1> QED
  BY <1>1, AppendProperties

\* An attack begins a chord, or joins the one that waits unless it is full.
LEMMA AttackSounds ==
    ASSUME NEW b \in Seq(Ev), Len(b) <= ChordEvents, NEW c \in Seq(Answers), NEW e \in Ev
    PROVE  LET s == Flushed(b, c)
               r == Batched(b, c, e)
               joins == b # <<>> /\ Len(b) # ChordEvents
           IN /\ r.batch \in Seq(Ev) /\ Len(r.batch) <= ChordEvents /\ r.batch # <<>>
              /\ r.calls \in Seq(Answers)
              /\ r.batch = IF joins THEN Append(b, e) ELSE <<e>>
              /\ r.calls = IF joins THEN c ELSE s
              /\ Flushed(r.batch, r.calls) =
                    IF joins THEN Append(c, Chord(Append(b, e)))
                    ELSE Append(s, Call("chord", e))
<1> DEFINE r == Batched(b, c, e)
           s == Flushed(b, c)
<1>0. ChordEvents \in Nat /\ ChordEvents # 0 /\ Len(b) \in Nat
  BY BoundAssumption, LenProperties
<1>1. <<e>> \in Seq(Ev) /\ Len(<<e>>) = 1 /\ <<e>> # <<>>
  OBVIOUS
<1>2. /\ Append(b, e) \in Seq(Ev) /\ Len(Append(b, e)) = Len(b) + 1
      /\ Append(b, e) # <<>>
  BY AppendProperties
<1>3. s \in Seq(Answers)
  BY FlushedIs
<1>4. CASE b # <<>> /\ Len(b) # ChordEvents
  <2>1. r.batch = Append(b, e) /\ r.calls = c
    BY <1>4 DEF Batched
  <2>2. Flushed(Append(b, e), c) = Append(c, Chord(Append(b, e)))
    BY <1>2 DEF Flushed
  <2>3. Len(b) + 1 <= ChordEvents
    BY <1>0, <1>4
  <2> HIDE DEF r, s
  <2> QED
    BY <1>2, <1>4, <2>1, <2>2, <2>3 DEF r, s
<1>5. CASE ~(b # <<>> /\ Len(b) # ChordEvents)
  <2>1. r.batch = <<e>> /\ r.calls = s
    <3>1. CASE b = <<>>
      <4>1. Append(b, e) = <<e>> /\ s = c /\ Len(b) # ChordEvents
        BY <1>0, <3>1 DEF Flushed
      <4> QED
        BY <4>1 DEF Batched
    <3>2. CASE b # <<>>
      BY <1>5, <3>2 DEF Batched
    <3> QED
      BY <3>1, <3>2
  <2>2. Flushed(<<e>>, s) = Append(s, Call("chord", e))
    BY <1>1 DEF Flushed, Chord, Call
  <2>3. r.batch \in Seq(Ev) /\ Len(r.batch) <= ChordEvents /\ r.batch # <<>>
    BY <1>0, <1>1, <2>1
  <2>4. r.calls \in Seq(Answers)
    BY <1>3, <2>1
  <2>5. Flushed(r.batch, r.calls) = Append(s, Call("chord", e))
    BY <2>1, <2>2
  <2> QED
    BY <1>5, <2>1, <2>3, <2>4, <2>5, Zenon
<1> QED
  BY <1>4, <1>5

\* So an attack that joins the chord makes no call yet.
LEMMA AttackJoins ==
    ASSUME NEW b \in Seq(Ev), Len(b) <= ChordEvents, NEW c \in Seq(Answers), NEW e \in Ev,
           b # <<>>, Len(b) # ChordEvents
    PROVE  /\ Batched(b, c, e).batch = Append(b, e)
           /\ Flushed(Batched(b, c, e).batch, Batched(b, c, e).calls)
                  = Append(c, Chord(Append(b, e)))
<1>1. Batched(b, c, e).batch = Append(b, e) /\ Batched(b, c, e).calls = c
  BY DEF Batched
<1>2. Append(b, e) # <<>>
  BY AppendProperties
<1> QED
  BY <1>1, <1>2 DEF Flushed

\* The calls of single events.
LEMMA OwnCalls ==
    ASSUME GroupShape
    PROVE  /\ \A i \in DOMAIN host : /\ Host(i) \in Ev /\ ConditionCall(i) \in Answers
                                     /\ ConditionCall(i).does \in Whats
                                     /\ OwnCall(i) \in Seq(Answers)
           /\ \A i \in DOMAIN gestures : /\ Gesture(i) \in Ev
                                         /\ gestures[i] \in GestureKinds
<1>1. \A i \in Nat : Host(i) \in Ev /\ Gesture(i) \in Ev
  BY DEF Host, Gesture, Ev
<1>2. DOMAIN host \subseteq Nat /\ DOMAIN gestures \subseteq Nat
  BY LenProperties DEF GroupShape
<1>3. \A i \in DOMAIN gestures : gestures[i] \in GestureKinds
  BY ElementOfSeq, LenProperties DEF GroupShape
<1>4. ASSUME NEW i \in DOMAIN host
      PROVE  /\ ConditionCall(i) \in Answers /\ OwnCall(i) \in Seq(Answers)
             /\ ConditionCall(i).does \in Whats
  <2>1. Host(i) \in Ev
    BY <1>1, <1>2
  <2>2. \A what \in Whats : Call(what, Host(i)) \in Answers
    <3>1. <<>> \in Seq(Answers)
      OBVIOUS
    <3> QED
      BY <2>1, <3>1, OneCallIs
  <2>3. \E what \in Whats : ConditionCall(i) = Call(what, Host(i))
    BY DEF ConditionCall, Whats
  <2>4. OwnCall(i) = <<>> \/ \E what \in Whats : OwnCall(i) = <<Call(what, Host(i))>>
    BY DEF OwnCall, Whats
  <2>5. ConditionCall(i).does \in Whats
    BY <2>3 DEF Call
  <2>6. \A x \in Answers : <<x>> \in Seq(Answers)
    OBVIOUS
  <2>7. <<>> \in Seq(Answers)
    OBVIOUS
  <2>8. OwnCall(i) \in Seq(Answers)
    BY <2>2, <2>4, <2>6, <2>7
  <2> QED
    BY <2>2, <2>3, <2>5, <2>8
<1> QED
  BY <1>1, <1>2, <1>3, <1>4

-----------------------------------------------------------------------------
(***************************************************************************)
(* The shape of a block's walks is kept.                                   *)
(***************************************************************************)
ShapeInv == GroupShape /\ WalkShape /\ ZoneSeen

LEMMA InitialShape == GroupInit => ShapeInv
<1> SUFFICES ASSUME GroupInit PROVE ShapeInv
  OBVIOUS
<1>1. /\ host \in Seq([at : Samples \union {Before}, kind : HostKinds])
      /\ Sorted(host) /\ gestures \in Seq(GestureKinds)
  <2>1. \A S, n : BoundedSeq(S, n) = UNION {[1 .. m -> S] : m \in 0 .. n}
    BY DEF BoundedSeq, SeqOf
  <2>2. \A S : \A m \in Nat : [1 .. m -> S] \subseteq Seq(S)
    OBVIOUS
  <2>3. MaxHost \in Nat /\ MaxGestures \in Nat
    BY BoundAssumption
  <2>4. \A S : \A n \in Nat : BoundedSeq(S, n) \subseteq Seq(S)
    <3> SUFFICES ASSUME NEW S, NEW n \in Nat, NEW x \in BoundedSeq(S, n)
                 PROVE  x \in Seq(S)
      OBVIOUS
    <3>1. PICK m \in 0 .. n : x \in [1 .. m -> S]
      BY <2>1
    <3> QED
      BY <2>2, <3>1
  <2> QED
    BY <2>3, <2>4 DEF GroupInit, Blocks
<1>2. /\ start = 1 /\ next = 1 /\ slot = 1 /\ phase = "snapshot" /\ remainder = FALSE
      /\ batch = <<>> /\ accepted = FALSE /\ calls = <<>> /\ mpe \in BOOLEAN
  BY DEF GroupInit
<1>3. Len(host) \in Nat /\ Len(gestures) \in Nat /\ DOMAIN host = 1 .. Len(host)
  BY <1>1, LenProperties
<1>4. <<>> \in Seq(Ev) /\ <<>> \in Seq(Answers) /\ Len(<<>>) = 0 /\ ChordEvents \in Nat
  BY BoundAssumption
<1>5. GroupShape
  <2>1. /\ start \in 1 .. Len(host) + 1 /\ next \in start .. Len(host) + 1
        /\ slot \in 1 .. Len(gestures) + 1
    BY <1>2, <1>3
  <2>2. batch \in Seq(Ev) /\ Len(batch) <= ChordEvents /\ calls \in Seq(Answers)
    BY <1>2, <1>4
  <2>3. /\ phase \in {"snapshot", "gather", "condition", "play", "done"}
        /\ remainder \in BOOLEAN /\ accepted \in BOOLEAN
    BY <1>2
  <2> QED
    BY <1>1, <1>2, <2>1, <2>2, <2>3 DEF GroupShape
<1>6. WalkShape
  BY <1>2, <1>3 DEF WalkShape
<1> QED
  BY <1>2, <1>5, <1>6 DEF ShapeInv, ZoneSeen

\* A pass over the snapshot.
LEMMA SnapshotKeepsShape ==
    ShapeInv /\ (ConditionFromGesture \/ SnapshotConditioned \/ GatherGesture
                 \/ SnapshotGathered) => ShapeInv'
<1> SUFFICES ASSUME ShapeInv, ConditionFromGesture \/ SnapshotConditioned
                              \/ GatherGesture \/ SnapshotGathered
             PROVE  ShapeInv'
  OBVIOUS
<1>0. /\ GroupShape /\ WalkShape /\ ZoneSeen
      /\ UNCHANGED <<host, gestures, mpe, start, next, accepted>>
      /\ Len(host) \in Nat /\ DOMAIN host = 1 .. Len(host)
      /\ Len(gestures) \in Nat /\ DOMAIN gestures = 1 .. Len(gestures)
      /\ start = 1 /\ next = 1 /\ phase \in {"snapshot", "gather"}
  <2>1. GroupShape /\ WalkShape /\ ZoneSeen
    BY DEF ShapeInv
  <2>2. Len(host) \in Nat /\ DOMAIN host = 1 .. Len(host)
        /\ Len(gestures) \in Nat /\ DOMAIN gestures = 1 .. Len(gestures)
    BY <2>1, LenProperties DEF GroupShape
  <2>3. phase \in {"snapshot", "gather"}
    BY DEF ConditionFromGesture, SnapshotConditioned, GatherGesture, SnapshotGathered
  <2>4. start = 1 /\ next = 1
    BY <2>1, <2>3 DEF WalkShape
  <2>5. UNCHANGED <<host, gestures, mpe, start, next, accepted>>
    BY DEF ConditionFromGesture, SnapshotConditioned, GatherGesture, SnapshotGathered,
           PassOverSnapshot
  <2> QED
    BY <2>1, <2>2, <2>3, <2>4, <2>5
<1>1. \A i \in start .. next - 1 : FALSE
  BY <1>0
<1>2. Together <=> host # <<>> /\ host[1].at = 0
  BY DEF Together
<1>3. host # <<>> <=> 1 \in DOMAIN host
  BY <1>0
<1>4. ASSUME NEW b, NEW c, b \in Seq(Ev), Len(b) <= ChordEvents, c \in Seq(Answers),
             batch' = b, calls' = c, slot' \in 1 .. Len(gestures) + 1,
             remainder' \in BOOLEAN,
             phase' \in {"snapshot", "gather", "condition", "play", "done"}
      PROVE  GroupShape'
  BY <1>0, <1>4 DEF GroupShape
<1>5. ASSUME NEW i \in DOMAIN gestures
      PROVE  Gesture(i) \in Ev
  BY <1>0, OwnCalls
<1>6. "condition" \in Whats /\ "lift" \in Whats
  BY DEF Whats
<1>7. /\ batch \in Seq(Ev) /\ Len(batch) <= ChordEvents /\ calls \in Seq(Answers)
      /\ remainder \in BOOLEAN /\ slot \in 1 .. Len(gestures) + 1
      /\ <<>> \in Seq(Ev) /\ Len(<<>>) <= ChordEvents
  <2>1. ChordEvents \in Nat /\ Len(<<>>) = 0 /\ <<>> \in Seq(Ev)
    BY BoundAssumption
  <2> QED
    BY <1>0, <2>1 DEF GroupShape
<1>8. CASE ConditionFromGesture
  <2>1. /\ phase = "snapshot" /\ slot \in DOMAIN gestures /\ slot' = slot + 1
        /\ UNCHANGED <<phase, remainder, batch>>
        /\ calls' = IF Conditions(gestures[slot])
                    THEN Append(calls, Call("condition", Gesture(slot))) ELSE calls
    BY <1>8 DEF ConditionFromGesture, PassOverSnapshot
  <2>2. Append(calls, Call("condition", Gesture(slot))) \in Seq(Answers)
    BY <1>5, <1>6, <1>7, <2>1, OneCallIs
  <2>3. GroupShape'
    <3>1. calls' \in Seq(Answers)
      <4>1. CASE Conditions(gestures[slot])
        BY <2>1, <2>2, <4>1
      <4>2. CASE ~Conditions(gestures[slot])
        BY <1>7, <2>1, <4>2
      <4> QED
        BY <4>1, <4>2
    <3>2. slot' \in 1 .. Len(gestures) + 1
      BY <1>0, <2>1
    <3> QED
      BY <1>0, <1>4, <1>7, <2>1, <3>1, <3>2
  <2>4. WalkShape'
    BY <1>0, <1>1, <2>1 DEF WalkShape
  <2>5. ZoneSeen'
    BY <1>0, <2>1 DEF ZoneSeen
  <2> QED
    BY <2>3, <2>4, <2>5 DEF ShapeInv
<1>9. CASE SnapshotConditioned
  <2>1. /\ phase = "snapshot" /\ slot' = 1 /\ remainder' = Together
        /\ phase' = (IF Together THEN "condition" ELSE "gather")
        /\ UNCHANGED <<batch, calls>>
    BY <1>9 DEF SnapshotConditioned, Together
  <2>2. GroupShape'
    BY <1>0, <1>4, <1>7, <2>1 DEF Together
  <2>3. Together' = Together
    BY <1>0 DEF Together
  <2>4. batch = <<>> /\ ~accepted
    BY <1>0, <2>1 DEF WalkShape, ZoneSeen
  <2>5. WalkShape'
    BY <1>0, <1>1, <1>2, <1>3, <2>1, <2>3, <2>4 DEF WalkShape
  <2>6. ZoneSeen'
    BY <1>0, <1>1, <2>1, <2>4 DEF ZoneSeen
  <2> QED
    BY <2>2, <2>5, <2>6 DEF ShapeInv
<1>10. CASE GatherGesture
  <2>1. /\ phase = "gather" /\ slot \in DOMAIN gestures /\ slot' = slot + 1
        /\ UNCHANGED <<phase, remainder>>
    BY <1>10 DEF GatherGesture, PassOverSnapshot
  <2>2. /\ batch' \in Seq(Ev) /\ Len(batch') <= ChordEvents /\ calls' \in Seq(Answers)
    <3>1. CASE gestures[slot] = "on"
      <4>1. /\ batch' = Batched(batch, calls, Gesture(slot)).batch
            /\ calls' = Batched(batch, calls, Gesture(slot)).calls
        BY <1>10, <3>1 DEF GatherGesture
      <4> QED
        BY <1>5, <1>7, <2>1, <4>1, AttackSounds
    <3>2. CASE gestures[slot] = "off"
      <4>1. /\ batch' = <<>>
            /\ calls' = Append(Flushed(batch, calls), Call("lift", Gesture(slot)))
        BY <1>10, <3>2 DEF GatherGesture
      <4>2. Flushed(batch, calls) \in Seq(Answers)
        BY <1>7, FlushedIs
      <4>3. calls' \in Seq(Answers)
        BY <1>5, <1>6, <2>1, <4>1, <4>2, OneCallIs
      <4> QED
        BY <1>7, <4>1, <4>3
    <3>3. CASE gestures[slot] \notin {"on", "off"}
      BY <1>7, <1>10, <3>3 DEF GatherGesture
    <3> QED
      BY <3>1, <3>2, <3>3
  <2>3. GroupShape'
    BY <1>0, <1>4, <1>7, <2>1, <2>2
  <2>4. Together' = Together /\ Group' = Group
    BY <1>0 DEF Together, Group
  <2>5. WalkShape'
    BY <1>0, <1>1, <2>1, <2>4 DEF WalkShape
  <2>6. ZoneSeen'
    BY <1>0, <2>1, <2>4 DEF ZoneSeen
  <2> QED
    BY <2>3, <2>5, <2>6 DEF ShapeInv
<1>11. CASE SnapshotGathered
  <2>1. /\ phase = "gather" /\ remainder' = FALSE /\ slot' = slot
        /\ remainder => phase' = "play" /\ UNCHANGED <<batch, calls>>
        /\ ~remainder => /\ phase' = IF host = <<>> THEN "done" ELSE "condition"
                         /\ batch' = <<>> /\ calls' = Flushed(batch, calls)
    BY <1>11 DEF SnapshotGathered
  <2>2. Flushed(batch, calls) \in Seq(Answers)
    BY <1>7, FlushedIs
  <2>3. GroupShape'
    <3>1. CASE remainder
      BY <1>0, <1>4, <1>7, <2>1, <3>1
    <3>2. CASE ~remainder
      BY <1>0, <1>4, <1>7, <2>1, <2>2, <3>2
    <3> QED
      BY <3>1, <3>2
  <2>4. Together' = Together /\ Group' = Group /\ (remainder <=> Together)
    <3>1. remainder <=> Together
      BY <1>0, <2>1 DEF WalkShape
    <3> QED
      BY <1>0, <3>1 DEF Together, Group
  <2>5. WalkShape'
    BY <1>0, <1>1, <1>2, <1>3, <2>1, <2>4 DEF WalkShape
  <2>6. ZoneSeen'
    BY <1>0, <1>1, <2>1, <2>4 DEF ZoneSeen
  <2> QED
    BY <2>3, <2>5, <2>6 DEF ShapeInv
<1> QED
  BY <1>8, <1>9, <1>10, <1>11

\* The first walk over a group.
LEMMA ConditionKeepsShape ==
    ShapeInv /\ (ConditionEvent \/ GroupConditioned) => ShapeInv'
<1> SUFFICES ASSUME ShapeInv, ConditionEvent \/ GroupConditioned
             PROVE  ShapeInv'
  OBVIOUS
<1>0. /\ GroupShape /\ WalkShape /\ ZoneSeen
      /\ UNCHANGED <<host, gestures, start, slot, remainder, batch>>
      /\ Len(host) \in Nat /\ DOMAIN host = 1 .. Len(host)
      /\ phase = "condition"
  <2>1. GroupShape /\ WalkShape /\ ZoneSeen
    BY DEF ShapeInv
  <2> QED
    BY <2>1, LenProperties DEF GroupShape, ConditionEvent, GroupConditioned
<1>1. Together' = Together /\ Group' = Group /\ \A i : Raw(i)' = Raw(i)
  BY <1>0 DEF Together, Group, Raw
<1>2. /\ start \in DOMAIN host /\ start \in Nat /\ next \in start .. Len(host) + 1
      /\ Walking => next \in DOMAIN host /\ Raw(next) = Raw(start)
      /\ Group = {i \in DOMAIN host : Raw(i) = Raw(start)}
  BY <1>0, GroupOrder DEF GroupShape
<1>3. CASE ConditionEvent
  <2>1. /\ Walking /\ next' = next + 1 /\ UNCHANGED phase
        /\ accepted' = (accepted \/ host[next].kind = "zone")
        /\ mpe' \in IF host[next].kind = "zone" THEN BOOLEAN ELSE {mpe}
        /\ calls' = IF Conditions(host[next].kind)
                    THEN Append(calls, ConditionCall(next)) ELSE calls
    BY <1>3 DEF ConditionEvent
  <2>2. calls' \in Seq(Answers)
    <3>1. ConditionCall(next) \in Answers /\ calls \in Seq(Answers)
      BY <1>0, <1>2, <2>1, OwnCalls DEF GroupShape
    <3>2. Append(calls, ConditionCall(next)) \in Seq(Answers)
      BY <3>1, AppendProperties
    <3> QED
      BY <2>1, <3>1, <3>2
  <2>3. GroupShape'
    <3>1. next' \in start .. Len(host) + 1 /\ mpe' \in BOOLEAN /\ accepted' \in BOOLEAN
      BY <1>0, <1>2, <2>1 DEF GroupShape
    <3> QED
      BY <1>0, <2>1, <2>2, <3>1 DEF GroupShape
  <2>4. WalkShape'
    <3>1. \A i \in start .. next : Raw(i) = Raw(start)
      <4> TAKE i \in start .. next
      <4>1. i \in start .. next - 1 \/ i = next
        BY <1>2
      <4> QED
        BY <1>0, <1>2, <2>1, <4>1 DEF WalkShape
    <3>2. \A i \in start' .. next' - 1 : Raw(i)' = Raw(start)'
      <4>1. start' .. next' - 1 = start .. next
        BY <1>0, <1>2, <2>1
      <4> QED
        BY <1>0, <3>1, <4>1 DEF Raw
    <3>3. start \in DOMAIN host => \A i \in 1 .. start - 1 : Raw(i)' < Raw(start)'
      BY <1>0 DEF WalkShape, Raw
    <3> QED
      BY <1>0, <1>1, <2>1, <3>2, <3>3 DEF WalkShape
  <2>5. ZoneSeen'
    <3>1. accepted <=> \E k \in start .. next - 1 : host[k].kind = "zone"
      BY <1>0 DEF ZoneSeen
    <3>2. start .. next' - 1 = (start .. next - 1) \union {next}
      BY <1>2, <2>1
    <3>3. accepted' <=> \E k \in start .. next' - 1 : host[k].kind = "zone"
      BY <2>1, <3>1, <3>2
    <3> QED
      BY <1>0, <2>1, <3>3 DEF ZoneSeen
  <2> QED
    BY <2>3, <2>4, <2>5 DEF ShapeInv
<1>4. CASE GroupConditioned
  <2>1. /\ ~Walking /\ next' = start /\ UNCHANGED <<mpe, accepted, calls>>
        /\ phase' = IF remainder /\ host[start].at = 0 THEN "gather" ELSE "play"
    BY <1>4 DEF GroupConditioned
  <2>2. GroupShape'
    <3>1. next' \in start' .. Len(host) + 1
      BY <1>0, <1>2, <2>1
    <3> QED
      BY <1>0, <2>1, <3>1 DEF GroupShape
  <2>3. remainder <=> Together /\ start = 1
    BY <1>0 DEF WalkShape
  <2>4. remainder => host[start].at = 0
    BY <2>3 DEF Together
  <2>5. /\ batch = <<>>
        /\ start \in DOMAIN host => \A i \in 1 .. start - 1 : Raw(i)' < Raw(start)'
    BY <1>0 DEF WalkShape, Raw
  <2>6. \A i \in start' .. next' - 1 : FALSE
    BY <1>0, <1>2, <2>1
  <2>7. WalkShape'
    BY <1>0, <1>1, <1>2, <2>1, <2>3, <2>4, <2>5, <2>6 DEF WalkShape
  <2>8. accepted <=> \E k \in Group : host[k].kind = "zone"
    <3>1. accepted <=> \E k \in start .. next - 1 : host[k].kind = "zone"
      BY <1>0 DEF ZoneSeen
    <3>2. Group = start .. next - 1
      <4>1. \A i \in DOMAIN host : (i < start <=> Raw(i) < Raw(start))
               /\ (i >= next <=> Raw(i) > Raw(start)) /\ Raw(i) \in Nat
        BY <1>0, <2>1, GroupOrder, RawOrder
      <4>2. \A i \in start .. next - 1 : i \in DOMAIN host /\ i \in Group
        BY <1>0, <1>2, GroupOrder
      <4>3. \A i \in Group : i \in start .. next - 1
        BY <1>0, <1>2, <4>1
      <4> QED
        BY <4>2, <4>3
    <3> QED
      BY <3>1, <3>2
  <2>9. ZoneSeen'
    BY <1>0, <1>1, <2>1, <2>4, <2>8 DEF ZoneSeen
  <2> QED
    BY <2>2, <2>7, <2>9 DEF ShapeInv
<1> QED
  BY <1>3, <1>4

\* The second walk over a group, and its end.
LEMMA PlayKeepsShape ==
    ShapeInv /\ (PlayAttack \/ PlayParting \/ PlayNothing \/ EndGroup) => ShapeInv'
<1> SUFFICES ASSUME ShapeInv, PlayAttack \/ PlayParting \/ PlayNothing \/ EndGroup
             PROVE  ShapeInv'
  OBVIOUS
<1>0. /\ GroupShape /\ WalkShape /\ ZoneSeen
      /\ UNCHANGED <<host, gestures, mpe, slot, remainder>>
      /\ Len(host) \in Nat /\ DOMAIN host = 1 .. Len(host)
      /\ phase = "play"
  <2>1. GroupShape /\ WalkShape /\ ZoneSeen
    BY DEF ShapeInv
  <2> QED
    BY <2>1, LenProperties
    DEF GroupShape, PlayAttack, PlayParting, PlayNothing, EndGroup, Advance
<1>1. \A i : Raw(i)' = Raw(i)
  BY <1>0 DEF Raw
<1>2. /\ start \in DOMAIN host /\ start \in Nat /\ next \in start .. Len(host) + 1
      /\ Walking => next \in DOMAIN host /\ Raw(next) = Raw(start)
      /\ ~remainder
  BY <1>0, GroupOrder DEF GroupShape, WalkShape
<1>3. /\ batch \in Seq(Ev) /\ Len(batch) <= ChordEvents /\ calls \in Seq(Answers)
      /\ <<>> \in Seq(Ev) /\ Len(<<>>) <= ChordEvents
      /\ Flushed(batch, calls) \in Seq(Answers)
  <2>1. ChordEvents \in Nat /\ Len(<<>>) = 0 /\ <<>> \in Seq(Ev)
    BY BoundAssumption
  <2>2. batch \in Seq(Ev) /\ Len(batch) <= ChordEvents /\ calls \in Seq(Answers)
    BY <1>0 DEF GroupShape
  <2> QED
    BY <2>1, <2>2, FlushedIs
<1>4. ASSUME Advance, batch' \in Seq(Ev), Len(batch') <= ChordEvents,
             calls' \in Seq(Answers)
      PROVE  ShapeInv'
  <2>1. Walking /\ next' = next + 1 /\ UNCHANGED <<start, phase, accepted>>
    BY <1>4 DEF Advance
  <2>2. GroupShape'
    <3>1. next' \in start' .. Len(host') + 1
      BY <1>0, <1>2, <2>1
    <3> QED
      BY <1>0, <1>4, <2>1, <3>1 DEF GroupShape
  <2>3. WalkShape'
    <3>1. \A i \in start .. next : Raw(i) = Raw(start)
      <4> TAKE i \in start .. next
      <4>1. i \in start .. next - 1 \/ i = next
        BY <1>2
      <4> QED
        BY <1>0, <1>2, <2>1, <4>1 DEF WalkShape
    <3>2. \A i \in start' .. next' - 1 : Raw(i)' = Raw(start)'
      <4>1. start' .. next' - 1 = start .. next
        BY <1>0, <1>2, <2>1
      <4> QED
        BY <1>0, <2>1, <3>1, <4>1 DEF Raw
    <3>3. start \in DOMAIN host => \A i \in 1 .. start - 1 : Raw(i)' < Raw(start)'
      BY <1>0, <2>1 DEF WalkShape, Raw
    <3> QED
      BY <1>0, <1>2, <2>1, <3>2, <3>3 DEF WalkShape
  <2>4. Group' = Group
    BY <1>0, <2>1 DEF Group
  <2>5. ZoneSeen'
    BY <1>0, <2>1, <2>4 DEF ZoneSeen
  <2> QED
    BY <2>2, <2>3, <2>5 DEF ShapeInv
<1>5. CASE PlayAttack
  <2>1. /\ Advance
        /\ batch' = Batched(batch, calls, Host(next)).batch
        /\ calls' = Batched(batch, calls, Host(next)).calls
    BY <1>5 DEF PlayAttack
  <2>2. Host(next) \in Ev
    BY <1>0, <1>2, <2>1, OwnCalls DEF Advance
  <2>3. batch' \in Seq(Ev) /\ Len(batch') <= ChordEvents /\ calls' \in Seq(Answers)
    BY <1>3, <2>1, <2>2, AttackSounds
  <2> QED
    BY <1>4, <2>1, <2>3
<1>6. CASE PlayParting
  <2>1. Advance /\ batch' = <<>> /\ calls' = Flushed(batch, calls) \o OwnCall(next)
    BY <1>6 DEF PlayParting
  <2>2. OwnCall(next) \in Seq(Answers)
    BY <1>0, <1>2, <2>1, OwnCalls DEF Advance
  <2>3. calls' \in Seq(Answers)
    BY <1>3, <2>1, <2>2, ConcatProperties
  <2> QED
    BY <1>3, <1>4, <2>1, <2>3
<1>7. CASE PlayNothing
  BY <1>3, <1>4, <1>7 DEF PlayNothing
<1>8. CASE EndGroup
  <2>1. /\ ~Walking /\ batch' = <<>> /\ calls' = Flushed(batch, calls)
        /\ start' = next /\ next' = next /\ accepted' = FALSE
        /\ phase' = IF next > Len(host) THEN "done" ELSE "condition"
    BY <1>8 DEF EndGroup
  <2>2. GroupShape'
    <3>1. start' \in 1 .. Len(host') + 1 /\ next' \in start' .. Len(host') + 1
      BY <1>0, <1>2, <2>1
    <3> QED
      BY <1>0, <1>3, <2>1, <3>1 DEF GroupShape
  <2>3. start' \in DOMAIN host' => \A i \in 1 .. start' - 1 : Raw(i)' < Raw(start)'
    <3> SUFFICES ASSUME next \in DOMAIN host, NEW i \in 1 .. next - 1
                 PROVE  Raw(i) < Raw(next)
      BY <1>0, <2>1 DEF Raw
    <3>1. i \in DOMAIN host /\ ~(i >= next) /\ next >= next
      BY <1>0, <1>2
    <3>2. Raw(i) <= Raw(start) /\ Raw(start) < Raw(next)
      BY <1>0, <2>1, <3>1, GroupOrder, RawOrder
    <3>3. Raw(i) \in Nat /\ Raw(start) \in Nat /\ Raw(next) \in Nat
      BY <1>0, <1>2, <3>1, RawOrder
    <3> QED
      BY <3>2, <3>3
  <2>4. start' .. next' - 1 = {}
    BY <1>2, <2>1
  <2>5. next <= Len(host) => next \in DOMAIN host /\ next # 1
    <3>1. start \in Group
      BY <1>0, <1>2, GroupOrder
    <3>2. next # start
      BY <2>1, <3>1 DEF Walking
    <3> QED
      BY <1>0, <1>2, <3>2
  <2>6. WalkShape'
    <3>1. phase' = "condition" => start' \in DOMAIN host'
      BY <1>0, <1>2, <2>1, <2>5
    <3>2. phase' = "condition" => start' # 1
      BY <1>0, <1>2, <2>1, <2>5
    <3> QED
      BY <1>0, <1>2, <2>1, <2>3, <2>4, <3>1, <3>2 DEF WalkShape
  <2>7. ZoneSeen'
    BY <1>0, <2>1, <2>4 DEF ZoneSeen
  <2> QED
    BY <2>2, <2>6, <2>7 DEF ShapeInv
<1> QED
  BY <1>5, <1>6, <1>7, <1>8

LEMMA StutterKeepsShape == ShapeInv /\ UNCHANGED groupVars => ShapeInv'
<1> SUFFICES ASSUME ShapeInv, UNCHANGED groupVars PROVE ShapeInv'
  OBVIOUS
<1>1. /\ Together' = Together /\ Group' = Group /\ Sorted(host)' = Sorted(host)
      /\ \A i : Raw(i)' = Raw(i)
  BY DEF Together, Group, Raw, groupVars
<1>2. GroupShape'
  BY DEF ShapeInv, GroupShape, groupVars
<1>3. WalkShape'
  BY <1>1 DEF ShapeInv, WalkShape, groupVars, Raw
<1>4. ZoneSeen'
  BY <1>1 DEF ShapeInv, ZoneSeen, groupVars
<1> QED
  BY <1>2, <1>3, <1>4 DEF ShapeInv

LEMMA ShapeIsKept == ShapeInv /\ [GroupNext]_groupVars => ShapeInv'
<1> SUFFICES ASSUME ShapeInv, [GroupNext]_groupVars PROVE ShapeInv'
  OBVIOUS
<1>1. CASE UNCHANGED groupVars \/ Ended
  BY <1>1, StutterKeepsShape DEF Ended
<1>2. CASE GroupNext /\ ~Ended
  BY <1>2, SnapshotKeepsShape, ConditionKeepsShape, PlayKeepsShape DEF GroupNext
<1> QED
  BY <1>1, <1>2

-----------------------------------------------------------------------------
(***************************************************************************)
(* What the performer has been told is what was due so far, in turn.       *)
(***************************************************************************)
TurnInv == InTurn(Sounded, Due)

\* One event of a walk or a pass.
LEMMA WalkGoesOn ==
    ASSUME GroupShape, NEW s \in Seq(Answers), NEW r, NEW a \in Nat, NEW b \in Nat,
           NEW n \in Nat, InTurn(s, Soon(<<a, b, n>>)), NEW At,
           At = {d \in OwedDeeds : Turn(d) = <<a, b, n>>},
           \/ At = {} /\ r = s
           \/ \E what \in Whats, e \in Ev :
                 At = {<<what, e>>} /\ r = Append(s, Call(what, e))
           \/ \E e \in Ev, w \in Seq(Ev), c \in Seq(Answers) :
                 /\ At = {<<"chord", e>>} /\ w # <<>>
                 /\ s = Append(c, Chord(w)) /\ r = Append(c, Chord(Append(w, e)))
    PROVE  InTurn(r, Soon(<<a, b, n + 1>>))
<1> DEFINE D == Soon(<<a, b, n>>)
<1>1. Soon(<<a, b, n + 1>>) = D \union At
  BY NextTurn
<1>2. \A x \in D : Sooner(Turn(x), <<a, b, n>>)
  BY DEF Soon
<1>3. \A d \in At : Turn(d) = <<a, b, n>>
  OBVIOUS
<1>4. InTurn(s, D)
  OBVIOUS
<1> HIDE DEF D
<1>5. CASE At = {} /\ r = s
  <2>1. D \union At = D
    BY <1>5
  <2> QED
    BY <1>1, <1>4, <1>5, <2>1
<1>6. CASE \E what \in Whats, e \in Ev :
              At = {<<what, e>>} /\ r = Append(s, Call(what, e))
  <2>1. PICK what \in Whats, e \in Ev :
              At = {<<what, e>>} /\ r = Append(s, Call(what, e))
    BY <1>6
  <2>2. Turn(<<what, e>>) = <<a, b, n>>
    BY <1>3, <2>1
  <2>3. InTurn(r, D \union {<<what, e>>})
    <3>1. \A x \in D : Sooner(Turn(x), Turn(<<what, e>>))
      BY <1>2, <2>2
    <3> QED
      BY <1>4, <2>1, <3>1, CallComesLast
  <2> QED
    BY <1>1, <2>1, <2>3
<1>7. CASE \E e \in Ev, w \in Seq(Ev), c \in Seq(Answers) :
              /\ At = {<<"chord", e>>} /\ w # <<>>
              /\ s = Append(c, Chord(w)) /\ r = Append(c, Chord(Append(w, e)))
  <2>1. PICK e \in Ev, w \in Seq(Ev), c \in Seq(Answers) :
              /\ At = {<<"chord", e>>} /\ w # <<>>
              /\ s = Append(c, Chord(w)) /\ r = Append(c, Chord(Append(w, e)))
    BY <1>7
  <2>2. Turn(<<"chord", e>>) = <<a, b, n>>
    BY <1>3, <2>1
  <2>3. InTurn(r, D \union {<<"chord", e>>})
    <3>1. \A x \in D : Sooner(Turn(x), Turn(<<"chord", e>>))
      BY <1>2, <2>2
    <3> QED
      BY <1>4, <2>1, <3>1, AttackComesLast
  <2> QED
    BY <1>1, <2>1, <2>3
<1> QED
  BY <1>5, <1>6, <1>7

\* The same with what the event adds to the calls and the batch.
LEMMA AttackGoesOn ==
    ASSUME GroupShape, NEW e \in Ev, NEW a \in Nat, NEW b \in Nat,
           NEW n \in Nat, InTurn(Sounded, Soon(<<a, b, n>>)),
           {d \in OwedDeeds : Turn(d) = <<a, b, n>>} = {<<"chord", e>>},
           batch' = Batched(batch, calls, e).batch,
           calls' = Batched(batch, calls, e).calls
    PROVE  InTurn(Sounded', Soon(<<a, b, n + 1>>))
<1>1. /\ batch \in Seq(Ev) /\ Len(batch) <= ChordEvents /\ calls \in Seq(Answers)
      /\ Sounded \in Seq(Answers)
  <2>1. batch \in Seq(Ev) /\ Len(batch) <= ChordEvents /\ calls \in Seq(Answers)
    BY DEF GroupShape
  <2> QED
    BY <2>1, FlushedIs DEF Sounded
<1>2. Sounded' = Flushed(Batched(batch, calls, e).batch, Batched(batch, calls, e).calls)
  BY DEF Sounded, Flushed
<1>3. Sounded' = IF batch # <<>> /\ Len(batch) # ChordEvents
                 THEN Append(calls, Chord(Append(batch, e)))
                 ELSE Append(Sounded, Call("chord", e))
  BY <1>1, <1>2, AttackSounds DEF Sounded
<1>4. batch # <<>> => Sounded = Append(calls, Chord(batch))
  BY <1>1, FlushedIs DEF Sounded
<1>5. "chord" \in Whats
  BY DEF Whats
<1>6. CASE batch # <<>> /\ Len(batch) # ChordEvents
  <2>1. \E x \in Ev, w \in Seq(Ev), c \in Seq(Answers) :
           /\ {d \in OwedDeeds : Turn(d) = <<a, b, n>>} = {<<"chord", x>>} /\ w # <<>>
           /\ Sounded = Append(c, Chord(w)) /\ Sounded' = Append(c, Chord(Append(w, x)))
    BY <1>1, <1>3, <1>4, <1>6
  <2> QED
    BY <1>1, <2>1, WalkGoesOn
<1>7. CASE ~(batch # <<>> /\ Len(batch) # ChordEvents)
  <2>1. \E what \in Whats, x \in Ev :
           /\ {d \in OwedDeeds : Turn(d) = <<a, b, n>>} = {<<what, x>>}
           /\ Sounded' = Append(Sounded, Call(what, x))
    BY <1>3, <1>5, <1>7
  <2> QED
    BY <1>1, <2>1, WalkGoesOn
<1> QED
  BY <1>6, <1>7

LEMMA CallGoesOn ==
    ASSUME GroupShape, NEW what \in Whats, NEW e \in Ev, NEW a \in Nat, NEW b \in Nat,
           NEW n \in Nat, InTurn(Sounded, Soon(<<a, b, n>>)),
           {d \in OwedDeeds : Turn(d) = <<a, b, n>>} = {<<what, e>>},
           Sounded' = Append(Sounded, Call(what, e))
    PROVE  InTurn(Sounded', Soon(<<a, b, n + 1>>))
<1>1. Sounded \in Seq(Answers)
  BY FlushedIs DEF Sounded, GroupShape
<1> QED
  BY <1>1, WalkGoesOn

LEMMA NothingGoesOn ==
    ASSUME GroupShape, NEW a \in Nat, NEW b \in Nat,
           NEW n \in Nat, InTurn(Sounded, Soon(<<a, b, n>>)),
           {d \in OwedDeeds : Turn(d) = <<a, b, n>>} = {}, Sounded' = Sounded
    PROVE  InTurn(Sounded', Soon(<<a, b, n + 1>>))
<1>1. Sounded \in Seq(Answers)
  BY FlushedIs DEF Sounded, GroupShape
<1> QED
  BY <1>1, WalkGoesOn

\* The block itself stays as it is.
LEMMA BlockStays ==
    ASSUME UNCHANGED <<host, gestures>>
    PROVE  /\ Together' = Together
           /\ Due' = IF phase' = "done" THEN OwedDeeds
                     ELSE Soon(IF phase' = "snapshot" THEN <<0, 1, slot'>>
                               ELSE IF phase' = "gather"
                               THEN <<IF Together THEN 2 ELSE 0, 3, slot'>>
                               ELSE <<Raw(start') + 1,
                                      IF phase' = "condition" THEN 2 ELSE 4, next'>>)
           /\ InTurn(Sounded', Due') => TurnInv'
<1>1. Together' = Together
  BY DEF Together
<1>2. OwedDeeds' = OwedDeeds
  BY DEF OwedDeeds
<1>3. \A d : Turn(d)' = Turn(d)
  BY DEF Turn
<1>4. Now' = IF phase' = "snapshot" THEN <<0, 1, slot'>>
             ELSE IF phase' = "gather"
             THEN <<IF Together THEN 2 ELSE 0, 3, slot'>>
             ELSE <<Raw(start') + 1, IF phase' = "condition" THEN 2 ELSE 4, next'>>
  BY <1>1 DEF Now, Raw
<1>5. Soon(Now)' = Soon(Now')
  BY <1>2, <1>3 DEF Soon
<1>6. Due' = IF phase' = "done" THEN OwedDeeds ELSE Soon(Now')
  BY <1>2, <1>5 DEF Due
<1>7. ASSUME InTurn(Sounded', Due') PROVE TurnInv'
  BY <1>7 DEF TurnInv, InTurn, Turn
<1> QED
  BY <1>1, <1>4, <1>6, <1>7

\* A pass over the snapshot.
LEMMA SnapshotKeepsTurns ==
    ASSUME ShapeInv, TurnInv, ConditionFromGesture \/ GatherGesture
    PROVE  TurnInv'
<1>0. /\ GroupShape /\ WalkShape /\ Len(gestures) \in Nat
      /\ DOMAIN gestures = 1 .. Len(gestures)
      /\ UNCHANGED <<host, gestures>>
      /\ batch \in Seq(Ev) /\ calls \in Seq(Answers)
      /\ slot \in DOMAIN gestures /\ slot' = slot + 1 /\ slot \in Nat
      /\ UNCHANGED phase
  <2>1. GroupShape /\ WalkShape
    BY DEF ShapeInv
  <2>2. Len(gestures) \in Nat /\ DOMAIN gestures = 1 .. Len(gestures)
    BY <2>1, LenProperties DEF GroupShape
  <2> QED
    BY <2>1, <2>2 DEF GroupShape, ConditionFromGesture, GatherGesture, PassOverSnapshot
<1>1. Gesture(slot) \in Ev /\ gestures[slot] \in {"on", "off", "key"}
  BY <1>0, OwnCalls DEF GestureKinds
<1>2. "condition" \in Whats /\ "lift" \in Whats
  BY DEF Whats
<1>3. CASE ConditionFromGesture
  <2>1. /\ phase = "snapshot"
        /\ calls' = IF Conditions(gestures[slot])
                    THEN Append(calls, Call("condition", Gesture(slot))) ELSE calls
        /\ UNCHANGED batch
    BY <1>3 DEF ConditionFromGesture
  <2>2. /\ Due = Soon(<<0, 1, slot>>)
        /\ Due' = Soon(<<0, 1, slot + 1>>)
    BY <1>0, <2>1, BlockStays DEF Due, Now
  <2>3. {d \in OwedDeeds : Turn(d) = <<0, 1, slot>>} =
          IF Conditions(gestures[slot])
          THEN {<<FirstDeeds[gestures[slot]], Gesture(slot)>>} ELSE {}
    BY <1>0, OneDeedATurn
  <2>4. batch = <<>>
    BY <1>0, <2>1 DEF WalkShape
  <2>5. Sounded = calls /\ Sounded' = calls'
    BY <2>1, <2>4 DEF Sounded, Flushed
  <2>6. Conditions(gestures[slot]) => FirstDeeds[gestures[slot]] = "condition"
    BY <1>1 DEF Conditions, FirstDeeds
  <2>7. InTurn(Sounded, Soon(<<0, 1, slot>>))
    BY <2>2 DEF TurnInv
  <2>8. InTurn(Sounded', Soon(<<0, 1, slot + 1>>))
    <3>1. CASE Conditions(gestures[slot])
      BY <1>0, <1>1, <1>2, <2>1, <2>3, <2>5, <2>6, <2>7, <3>1, CallGoesOn
    <3>2. CASE ~Conditions(gestures[slot])
      BY <1>0, <2>1, <2>3, <2>5, <2>7, <3>2, NothingGoesOn
    <3> QED
      BY <3>1, <3>2
  <2> QED
    BY <1>0, <2>2, <2>8, BlockStays
<1>4. CASE GatherGesture
  <2> DEFINE a == IF Together THEN 2 ELSE 0
  <2>1. phase = "gather" /\ a \in Nat
    BY <1>4 DEF GatherGesture
  <2>2. Due = Soon(<<a, 3, slot>>) /\ Due' = Soon(<<a, 3, slot + 1>>)
    BY <1>0, <2>1, BlockStays DEF Due, Now
  <2>3. {d \in OwedDeeds : Turn(d) = <<a, 3, slot>>} =
          IF Second(gestures[slot])
          THEN {<<SecondDeeds[gestures[slot]], Gesture(slot)>>} ELSE {}
    BY <1>0, <2>1, OneDeedATurn
  <2> HIDE DEF a
  <2>4. InTurn(Sounded, Soon(<<a, 3, slot>>))
    BY <2>2 DEF TurnInv
  <2>5. InTurn(Sounded', Soon(<<a, 3, slot + 1>>))
    <3>1. CASE gestures[slot] = "on"
      <4>1. /\ batch' = Batched(batch, calls, Gesture(slot)).batch
            /\ calls' = Batched(batch, calls, Gesture(slot)).calls
        BY <1>4, <3>1 DEF GatherGesture
      <4>2. {d \in OwedDeeds : Turn(d) = <<a, 3, slot>>} = {<<"chord", Gesture(slot)>>}
        BY <2>3, <3>1 DEF Second, SecondDeeds
      <4> QED
        BY <1>0, <1>1, <2>1, <2>4, <4>1, <4>2, AttackGoesOn
    <3>2. CASE gestures[slot] = "off"
      <4>1. /\ batch' = <<>>
            /\ calls' = Append(Sounded, Call("lift", Gesture(slot)))
        BY <1>4, <3>2 DEF GatherGesture, Sounded
      <4>2. {d \in OwedDeeds : Turn(d) = <<a, 3, slot>>} = {<<"lift", Gesture(slot)>>}
        BY <2>3, <3>2 DEF Second, SecondDeeds
      <4>3. Sounded' = Append(Sounded, Call("lift", Gesture(slot)))
        BY <4>1 DEF Sounded, Flushed
      <4> QED
        BY <1>0, <1>1, <1>2, <2>1, <2>4, <4>2, <4>3, CallGoesOn
    <3>3. CASE gestures[slot] = "key"
      <4>1. UNCHANGED <<batch, calls>>
        BY <1>4, <3>3 DEF GatherGesture
      <4>2. {d \in OwedDeeds : Turn(d) = <<a, 3, slot>>} = {}
        BY <2>3, <3>3 DEF Second
      <4>3. Sounded' = Sounded
        BY <4>1 DEF Sounded, Flushed
      <4> QED
        BY <1>0, <2>1, <2>4, <4>2, <4>3, NothingGoesOn
    <3> QED
      BY <1>1, <3>1, <3>2, <3>3
  <2> QED
    BY <1>0, <2>2, <2>5, BlockStays
<1> QED
  BY <1>3, <1>4

\* A walk over a group.
LEMMA WalkKeepsTurns ==
    ASSUME ShapeInv, TurnInv, ConditionEvent \/ PlayAttack \/ PlayParting \/ PlayNothing
    PROVE  TurnInv'
<1>0. /\ GroupShape /\ WalkShape
      /\ UNCHANGED <<host, gestures, start, phase>> /\ phase \in {"condition", "play"}
      /\ batch \in Seq(Ev) /\ calls \in Seq(Answers)
      /\ Walking /\ next' = next + 1
  <2>1. GroupShape /\ WalkShape
    BY DEF ShapeInv
  <2> QED
    BY <2>1 DEF GroupShape, ConditionEvent, PlayAttack, PlayParting, PlayNothing, Advance
<1>1. /\ next \in DOMAIN host /\ next \in Nat
      /\ Raw(next) = Raw(start) /\ Raw(next) + 1 \in Nat
      /\ host[next].kind \in HostKinds /\ Host(next) \in Ev
  <2>1. next \in DOMAIN host /\ Raw(next) = Raw(start)
    BY <1>0, GroupOrder
  <2>2. Raw(next) \in Nat /\ next \in Nat /\ host[next].kind \in HostKinds
    BY <1>0, <2>1, RawOrder
  <2> QED
    BY <1>0, <2>1, <2>2, OwnCalls
<1> DEFINE a == Raw(next) + 1
<1>2. Sounded \in Seq(Answers)
  BY <1>0, FlushedIs DEF Sounded
<1>3. CASE ConditionEvent
  <2>1. /\ phase = "condition" /\ UNCHANGED batch
        /\ calls' = IF Conditions(host[next].kind)
                    THEN Append(calls, ConditionCall(next)) ELSE calls
    BY <1>3 DEF ConditionEvent
  <2>2. Due = Soon(<<a, 2, next>>) /\ Due' = Soon(<<a, 2, next + 1>>)
    BY <1>0, <1>1, <2>1, BlockStays DEF Due, Now
  <2>3. {d \in OwedDeeds : Turn(d) = <<a, 2, next>>} =
          IF Conditions(host[next].kind)
          THEN {<<FirstDeeds[host[next].kind], Host(next)>>} ELSE {}
    BY <1>0, <1>1, OneDeedATurn
  <2>4. batch = <<>>
    BY <1>0, <2>1 DEF WalkShape
  <2>5. Sounded = calls /\ Sounded' = calls'
    BY <2>1, <2>4 DEF Sounded, Flushed
  <2>6. Conditions(host[next].kind) =>
           /\ ConditionCall(next) = Call(FirstDeeds[host[next].kind], Host(next))
           /\ FirstDeeds[host[next].kind] \in Whats
    BY DEF Conditions, FirstDeeds, ConditionCall, Whats
  <2>7. InTurn(Sounded, Soon(<<a, 2, next>>))
    BY <2>2 DEF TurnInv
  <2>8. a \in Nat
    BY <1>1
  <2> HIDE DEF a
  <2>9. InTurn(Sounded', Soon(<<a, 2, next + 1>>))
    <3>1. CASE Conditions(host[next].kind)
      <4> DEFINE what == FirstDeeds[host[next].kind]
      <4>1. /\ what \in Whats /\ Sounded' = Append(Sounded, Call(what, Host(next)))
            /\ {d \in OwedDeeds : Turn(d) = <<a, 2, next>>} = {<<what, Host(next)>>}
        BY <2>1, <2>3, <2>5, <2>6, <3>1
      <4> HIDE DEF what
      <4> QED
        BY <1>0, <1>1, <2>7, <2>8, <4>1, CallGoesOn
    <3>2. CASE ~Conditions(host[next].kind)
      BY <1>0, <1>1, <2>1, <2>3, <2>5, <2>7, <2>8, <3>2, NothingGoesOn
    <3> QED
      BY <3>1, <3>2
  <2> QED
    BY <1>0, <2>2, <2>9, BlockStays
<1>4. CASE PlayAttack \/ PlayParting \/ PlayNothing
  <2>1. phase = "play"
    BY <1>4 DEF PlayAttack, PlayParting, PlayNothing, Advance
  <2>2. Due = Soon(<<a, 4, next>>) /\ Due' = Soon(<<a, 4, next + 1>>)
    BY <1>0, <1>1, <2>1, BlockStays DEF Due, Now
  <2>3. {d \in OwedDeeds : Turn(d) = <<a, 4, next>>} =
          IF Second(host[next].kind)
          THEN {<<SecondDeeds[host[next].kind], Host(next)>>} ELSE {}
    BY <1>0, <1>1, OneDeedATurn
  <2>4. InTurn(Sounded, Soon(<<a, 4, next>>))
    BY <2>2 DEF TurnInv
  <2>5. a \in Nat
    BY <1>1
  <2> HIDE DEF a
  <2>6. InTurn(Sounded', Soon(<<a, 4, next + 1>>))
    <3>1. CASE PlayAttack
      <4>1. /\ host[next].kind = "on"
            /\ batch' = Batched(batch, calls, Host(next)).batch
            /\ calls' = Batched(batch, calls, Host(next)).calls
        BY <3>1 DEF PlayAttack
      <4>2. {d \in OwedDeeds : Turn(d) = <<a, 4, next>>} = {<<"chord", Host(next)>>}
        BY <2>3, <4>1 DEF Second, SecondDeeds
      <4> QED
        BY <1>0, <1>1, <2>4, <2>5, <4>1, <4>2, AttackGoesOn
    <3>2. CASE PlayParting
      <4>1. /\ Parts(host[next].kind) /\ batch' = <<>>
            /\ calls' = Sounded \o OwnCall(next)
        BY <3>2 DEF PlayParting, Sounded
      <4>2. Sounded' = Sounded \o OwnCall(next)
        BY <4>1 DEF Sounded, Flushed
      <4>3. CASE Second(host[next].kind)
        <5> DEFINE what == SecondDeeds[host[next].kind]
        <5>1. what \in Whats /\ OwnCall(next) = <<Call(what, Host(next))>>
          BY <4>1, <4>3 DEF Second, SecondDeeds, OwnCall, Parts, Whats
        <5> HIDE DEF what
        <5>2. Call(what, Host(next)) \in Answers
          BY <1>1, <1>2, <5>1, OneCallIs
        <5>3. Sounded \o <<Call(what, Host(next))>> = Append(Sounded, Call(what, Host(next)))
          <6> DEFINE x == Call(what, Host(next))
          <6>1. x \in Answers
            BY <5>2
          <6> HIDE DEF x
          <6>2. Sounded \o <<x>> = Append(Sounded, x)
            BY <1>2, <6>1, AppendIsConcat
          <6> QED
            BY <6>2 DEF x
        <5>4. {d \in OwedDeeds : Turn(d) = <<a, 4, next>>} = {<<what, Host(next)>>}
          BY <2>3, <4>3 DEF what
        <5> QED
          BY <1>0, <1>1, <2>4, <2>5, <4>2, <5>1, <5>3, <5>4, CallGoesOn
      <4>4. CASE ~Second(host[next].kind)
        <5>1. OwnCall(next) = <<>>
          BY <4>4 DEF Second, OwnCall
        <5>2. Sounded' = Sounded
          BY <1>2, <4>2, <5>1
        <5> QED
          BY <1>0, <1>1, <2>3, <2>4, <2>5, <4>4, <5>2, NothingGoesOn
      <4> QED
        BY <4>3, <4>4
    <3>3. CASE PlayNothing
      <4>1. /\ host[next].kind # "on" /\ ~Parts(host[next].kind)
            /\ UNCHANGED <<batch, calls>>
        BY <3>3 DEF PlayNothing
      <4>2. ~Second(host[next].kind)
        BY <4>1 DEF Second, Parts
      <4>3. Sounded' = Sounded
        BY <4>1 DEF Sounded, Flushed
      <4> QED
        BY <1>0, <1>1, <2>3, <2>4, <2>5, <4>2, <4>3, NothingGoesOn
    <3> QED
      BY <1>4, <3>1, <3>2, <3>3
  <2> QED
    BY <1>0, <2>2, <2>6, BlockStays
<1> QED
  BY <1>3, <1>4

\* From one pass or walk to another.
LEMMA PhasesKeepTurns ==
    ASSUME ShapeInv, TurnInv,
           SnapshotConditioned \/ SnapshotGathered \/ GroupConditioned \/ EndGroup
    PROVE  TurnInv'
<1> DEFINE a == IF Together THEN 2 ELSE 0
<1>0. /\ GroupShape /\ WalkShape
      /\ Len(gestures) \in Nat /\ DOMAIN gestures = 1 .. Len(gestures)
      /\ Len(host) \in Nat /\ DOMAIN host = 1 .. Len(host)
      /\ UNCHANGED <<host, gestures>>
      /\ start \in Nat /\ next \in start .. Len(host) + 1 /\ slot \in Nat
      /\ batch \in Seq(Ev) /\ calls \in Seq(Answers)
  <2>1. GroupShape /\ WalkShape
    BY DEF ShapeInv
  <2>2. /\ Len(gestures) \in Nat /\ DOMAIN gestures = 1 .. Len(gestures)
        /\ Len(host) \in Nat /\ DOMAIN host = 1 .. Len(host)
    BY <2>1, LenProperties DEF GroupShape
  <2> QED
    BY <2>1, <2>2
    DEF GroupShape, SnapshotConditioned, SnapshotGathered, GroupConditioned, EndGroup
<1>1. Sounded' = Sounded
  <2>1. \/ UNCHANGED <<batch, calls>>
        \/ batch' = <<>> /\ calls' = Flushed(batch, calls)
    BY DEF SnapshotConditioned, SnapshotGathered, GroupConditioned, EndGroup
  <2> QED
    BY <2>1 DEF Sounded, Flushed
<1>2. SUFFICES Due' = Due
  BY <1>0, <1>1, BlockStays DEF TurnInv
<1>3. /\ \A i \in DOMAIN host : Raw(i) \in Nat /\ i \in Nat /\ i >= 1
      /\ \A i, j \in DOMAIN host : i <= j => Raw(i) <= Raw(j)
      /\ Together => \A i \in DOMAIN host : Raw(i) >= Raw(1) /\ Raw(1) = 1
      /\ Together => 1 \in DOMAIN host
      /\ \A i \in DOMAIN gestures : i \in Nat /\ i >= 1
      /\ Together \in BOOLEAN
  <2>1. Together => 1 \in DOMAIN host
    BY <1>0 DEF Together
  <2>2. Together \in BOOLEAN
    BY DEF Together
  <2> QED
    BY <1>0, <2>1, <2>2, RawOrder
<1>4. CASE SnapshotConditioned
  <2>1. /\ phase = "snapshot" /\ slot = Len(gestures) + 1 /\ slot' = 1
        /\ phase' = (IF Together THEN "condition" ELSE "gather")
        /\ start = 1 /\ next = 1 /\ start' = 1 /\ next' = 1
    <3>1. slot \in 1 .. Len(gestures) + 1
      BY <1>0 DEF GroupShape
    <3>2. /\ phase = "snapshot" /\ slot \notin DOMAIN gestures /\ slot' = 1
          /\ remainder' = Together /\ phase' = IF remainder' THEN "condition" ELSE "gather"
          /\ start' = start /\ next' = next
      BY <1>4 DEF SnapshotConditioned, Together
    <3>3. start = 1 /\ next = 1
      BY <1>0, <3>2 DEF WalkShape
    <3>4. slot = Len(gestures) + 1
      BY <1>0, <3>1, <3>2
    <3> QED
      BY <3>2, <3>3, <3>4
  <2>2. Due = Soon(<<0, 1, slot>>)
    BY <2>1 DEF Due, Now
  <2>3. CASE Together
    <3>1. Due' = Soon(<<2, 2, 1>>)
      BY <1>0, <1>3, <2>1, <2>3, BlockStays
    <3>2. ASSUME NEW i \in DOMAIN host, NEW b \in {2, 4}
          PROVE  Sooner(<<Raw(i) + 1, b, i>>, <<0, 1, slot>>)
                   <=> Sooner(<<Raw(i) + 1, b, i>>, <<2, 2, 1>>)
      BY <1>3, <2>3 DEF Sooner
    <3>3. ASSUME NEW i \in DOMAIN gestures
          PROVE  /\ Sooner(<<0, 1, i>>, <<0, 1, slot>>) <=> Sooner(<<0, 1, i>>, <<2, 2, 1>>)
                 /\ Sooner(<<a, 3, i>>, <<0, 1, slot>>) <=> Sooner(<<a, 3, i>>, <<2, 2, 1>>)
      BY <1>0, <1>3, <2>1, <2>3 DEF Sooner
    <3> QED
      BY <1>0, <2>2, <3>1, <3>2, <3>3, NoTurnBetween
  <2>4. CASE ~Together
    <3>1. Due' = Soon(<<0, 3, 1>>)
      BY <1>0, <2>1, <2>4, BlockStays
    <3>2. ASSUME NEW i \in DOMAIN host, NEW b \in {2, 4}
          PROVE  Sooner(<<Raw(i) + 1, b, i>>, <<0, 1, slot>>)
                   <=> Sooner(<<Raw(i) + 1, b, i>>, <<0, 3, 1>>)
      BY <1>3 DEF Sooner
    <3>3. ASSUME NEW i \in DOMAIN gestures
          PROVE  /\ Sooner(<<0, 1, i>>, <<0, 1, slot>>) <=> Sooner(<<0, 1, i>>, <<0, 3, 1>>)
                 /\ Sooner(<<a, 3, i>>, <<0, 1, slot>>) <=> Sooner(<<a, 3, i>>, <<0, 3, 1>>)
      BY <1>0, <1>3, <2>1, <2>4 DEF Sooner
    <3> QED
      BY <1>0, <2>2, <3>1, <3>2, <3>3, NoTurnBetween
  <2> QED
    BY <2>3, <2>4
<1>5. CASE SnapshotGathered
  <2>1. /\ phase = "gather" /\ slot = Len(gestures) + 1 /\ (remainder <=> Together)
        /\ remainder => phase' = "play"
        /\ ~remainder => phase' = IF host = <<>> THEN "done" ELSE "condition"
        /\ start = 1 /\ next = 1 /\ start' = 1 /\ next' = 1
    <3>1. slot \in 1 .. Len(gestures) + 1
      BY <1>0 DEF GroupShape
    <3> QED
      BY <1>0, <1>5, <3>1 DEF SnapshotGathered, WalkShape
  <2>2. Due = Soon(<<a, 3, slot>>)
    BY <2>1 DEF Due, Now
  <2>3. CASE Together
    <3>1. Due' = Soon(<<2, 4, 1>>)
      BY <1>0, <1>3, <2>1, <2>3, BlockStays
    <3>2. ASSUME NEW i \in DOMAIN host, NEW b \in {2, 4}
          PROVE  Sooner(<<Raw(i) + 1, b, i>>, <<a, 3, slot>>)
                   <=> Sooner(<<Raw(i) + 1, b, i>>, <<2, 4, 1>>)
      BY <1>3, <2>3 DEF Sooner
    <3>3. ASSUME NEW i \in DOMAIN gestures
          PROVE  /\ Sooner(<<0, 1, i>>, <<a, 3, slot>>) <=> Sooner(<<0, 1, i>>, <<2, 4, 1>>)
                 /\ Sooner(<<a, 3, i>>, <<a, 3, slot>>) <=> Sooner(<<a, 3, i>>, <<2, 4, 1>>)
      BY <1>0, <1>3, <2>1, <2>3 DEF Sooner
    <3> DEFINE t == <<a, 3, slot>>
               u == <<2, 4, 1>>
    <3>4. Due = Soon(t) /\ Due' = Soon(u)
      BY <2>2, <3>1
    <3>5. \A i \in DOMAIN host : \A b \in {2, 4} :
             Sooner(<<Raw(i) + 1, b, i>>, t) <=> Sooner(<<Raw(i) + 1, b, i>>, u)
      BY <3>2
    <3>6. \A i \in DOMAIN gestures :
             /\ Sooner(<<0, 1, i>>, t) <=> Sooner(<<0, 1, i>>, u)
             /\ Sooner(<<a, 3, i>>, t) <=> Sooner(<<a, 3, i>>, u)
      BY <3>3
    <3> HIDE DEF t, u
    <3> QED
      BY <1>0, <3>4, <3>5, <3>6, NoTurnBetween
  <2>4. CASE ~Together /\ host = <<>>
    <3>1. Due' = OwedDeeds
      BY <1>0, <2>1, <2>4, BlockStays
    <3>2. \A i \in DOMAIN host : FALSE
      BY <2>4
    <3>3. ASSUME NEW i \in DOMAIN gestures
          PROVE  Sooner(<<0, 1, i>>, <<a, 3, slot>>) /\ Sooner(<<a, 3, i>>, <<a, 3, slot>>)
      BY <1>0, <1>3, <2>1, <2>4 DEF Sooner
    <3> DEFINE t == <<a, 3, slot>>
    <3>4. Due = Soon(t)
      BY <2>2
    <3>5. \A i \in DOMAIN gestures : Sooner(<<0, 1, i>>, t) /\ Sooner(<<a, 3, i>>, t)
      BY <3>3
    <3> HIDE DEF t
    <3> QED
      BY <1>0, <3>1, <3>2, <3>4, <3>5, AllTurnsTaken
  <2>5. CASE ~Together /\ host # <<>>
    <3>0. 1 \in DOMAIN host
      BY <1>0, <2>5
    <3>1. Due' = Soon(<<Raw(1) + 1, 2, 1>>)
      BY <1>0, <2>1, <2>5, BlockStays
    <3>2. ASSUME NEW i \in DOMAIN host, NEW b \in {2, 4}
          PROVE  Sooner(<<Raw(i) + 1, b, i>>, <<a, 3, slot>>)
                   <=> Sooner(<<Raw(i) + 1, b, i>>, <<Raw(1) + 1, 2, 1>>)
      <4>1. Raw(1) \in Nat /\ Raw(i) \in Nat /\ Raw(1) <= Raw(i) /\ i \in Nat /\ i >= 1
        BY <1>3, <3>0
      <4> QED
        BY <2>5, <4>1 DEF Sooner
    <3>3. ASSUME NEW i \in DOMAIN gestures
          PROVE  /\ Sooner(<<0, 1, i>>, <<a, 3, slot>>)
                      <=> Sooner(<<0, 1, i>>, <<Raw(1) + 1, 2, 1>>)
                 /\ Sooner(<<a, 3, i>>, <<a, 3, slot>>)
                      <=> Sooner(<<a, 3, i>>, <<Raw(1) + 1, 2, 1>>)
      <4>1. Raw(1) \in Nat
        BY <1>3, <3>0
      <4> QED
        BY <1>0, <1>3, <2>1, <2>5, <4>1 DEF Sooner
    <3> DEFINE t == <<a, 3, slot>>
               u == <<Raw(1) + 1, 2, 1>>
    <3>4. Due = Soon(t) /\ Due' = Soon(u)
      BY <2>2, <3>1
    <3>5. \A i \in DOMAIN host : \A b \in {2, 4} :
             Sooner(<<Raw(i) + 1, b, i>>, t) <=> Sooner(<<Raw(i) + 1, b, i>>, u)
      BY <3>2
    <3>6. \A i \in DOMAIN gestures :
             /\ Sooner(<<0, 1, i>>, t) <=> Sooner(<<0, 1, i>>, u)
             /\ Sooner(<<a, 3, i>>, t) <=> Sooner(<<a, 3, i>>, u)
      BY <3>3
    <3> HIDE DEF t, u
    <3> QED
      BY <1>0, <3>4, <3>5, <3>6, NoTurnBetween
  <2> QED
    BY <2>3, <2>4, <2>5
<1>6. CASE GroupConditioned
  <2> DEFINE r == Raw(start)
  <2>1. /\ phase = "condition" /\ ~Walking /\ start \in DOMAIN host
        /\ next' = start /\ start' = start /\ slot' = slot
        /\ remainder <=> Together /\ start = 1
        /\ remainder => slot = 1
        /\ phase' = IF remainder THEN "gather" ELSE "play"
    BY <1>0, <1>6 DEF GroupConditioned, WalkShape, Together
  <2>2. Due = Soon(<<r + 1, 2, next>>)
    BY <2>1 DEF Due, Now
  <2>3. r \in Nat /\ next \in Nat
    BY <1>0, <1>3, <2>1
  <2>4. /\ \A i \in DOMAIN host : i < start <=> Raw(i) < r
        /\ \A i \in DOMAIN host : i >= next <=> Raw(i) > r
    BY <1>0, <2>1, GroupOrder
  <2>5. Together => r >= 1 /\ (r = 1 => start = 1)
    <3> SUFFICES ASSUME Together PROVE r >= 1 /\ (r = 1 => start = 1)
      OBVIOUS
    <3>1. 1 \in DOMAIN host /\ Raw(1) = 1 /\ r >= Raw(1)
      BY <1>3, <2>1
    <3>2. start # 1 => Raw(1) < r
      BY <1>0, <2>1, <2>4, <3>1
    <3> QED
      BY <2>3, <3>1, <3>2
  <2>6. CASE remainder
    <3>1. Due' = Soon(<<2, 3, 1>>)
      BY <1>0, <2>1, <2>6, BlockStays
    <3>2. Together /\ r = 1 /\ start = 1
      BY <1>3, <2>1, <2>6
    <3>3. ASSUME NEW i \in DOMAIN host, NEW b \in {2, 4}
          PROVE  Sooner(<<Raw(i) + 1, b, i>>, <<r + 1, 2, next>>)
                   <=> Sooner(<<Raw(i) + 1, b, i>>, <<2, 3, 1>>)
      <4>1. Raw(i) \in Nat /\ Raw(i) >= 1 /\ i \in Nat /\ (i >= next <=> Raw(i) > r)
        BY <1>3, <2>4, <3>2
      <4> HIDE DEF r
      <4> QED
        BY <2>3, <3>2, <4>1 DEF Sooner
    <3>4. ASSUME NEW i \in DOMAIN gestures
          PROVE  /\ Sooner(<<0, 1, i>>, <<r + 1, 2, next>>) <=> Sooner(<<0, 1, i>>, <<2, 3, 1>>)
                 /\ Sooner(<<a, 3, i>>, <<r + 1, 2, next>>) <=> Sooner(<<a, 3, i>>, <<2, 3, 1>>)
      <4> HIDE DEF r
      <4> QED
        BY <1>3, <2>3, <3>2 DEF Sooner
    <3> QED
      BY <1>0, <2>2, <3>1, <3>3, <3>4, NoTurnBetween
  <2>7. CASE ~remainder
    <3>1. Due' = Soon(<<r + 1, 4, start>>)
      BY <1>0, <2>1, <2>7, BlockStays
    <3>3. ASSUME NEW i \in DOMAIN host, NEW b \in {2, 4}
          PROVE  Sooner(<<Raw(i) + 1, b, i>>, <<r + 1, 2, next>>)
                   <=> Sooner(<<Raw(i) + 1, b, i>>, <<r + 1, 4, start>>)
      <4>1. /\ Raw(i) \in Nat /\ i \in Nat /\ (i >= next <=> Raw(i) > r)
            /\ i < start <=> Raw(i) < r
        BY <1>3, <2>4
      <4> HIDE DEF r
      <4> QED
        BY <1>0, <2>3, <4>1 DEF Sooner
    <3>4. ASSUME NEW i \in DOMAIN gestures
          PROVE  /\ Sooner(<<0, 1, i>>, <<r + 1, 2, next>>)
                      <=> Sooner(<<0, 1, i>>, <<r + 1, 4, start>>)
                 /\ Sooner(<<a, 3, i>>, <<r + 1, 2, next>>)
                      <=> Sooner(<<a, 3, i>>, <<r + 1, 4, start>>)
      <4>1. Together => r > 1
        BY <2>1, <2>3, <2>5, <2>7
      <4> HIDE DEF r
      <4> QED
        BY <1>3, <2>3, <4>1 DEF Sooner
    <3> QED
      BY <1>0, <2>2, <3>1, <3>3, <3>4, NoTurnBetween
  <2> QED
    BY <2>6, <2>7
<1>7. CASE EndGroup
  <2> DEFINE r == Raw(start)
  <2>1. /\ phase = "play" /\ ~Walking /\ start \in DOMAIN host
        /\ start' = next /\ next' = next
        /\ phase' = IF next > Len(host) THEN "done" ELSE "condition"
    BY <1>0, <1>7 DEF EndGroup, WalkShape
  <2>2. Due = Soon(<<r + 1, 4, next>>)
    BY <2>1 DEF Due, Now
  <2>3. r \in Nat /\ next \in Nat
    BY <1>0, <1>3, <2>1
  <2>4. /\ \A i \in DOMAIN host : i < start <=> Raw(i) < r
        /\ \A i \in DOMAIN host : i >= next <=> Raw(i) > r
    BY <1>0, <2>1, GroupOrder
  <2>5. Together => r >= 1
    BY <1>3, <2>1
  <2>6. ASSUME NEW i \in DOMAIN gestures
        PROVE  /\ Sooner(<<0, 1, i>>, <<r + 1, 4, next>>)
               /\ Sooner(<<a, 3, i>>, <<r + 1, 4, next>>)
    <3> HIDE DEF r
    <3> QED
      BY <1>3, <2>3, <2>5 DEF Sooner
  <2>7. CASE next > Len(host)
    <3>1. Due' = OwedDeeds
      BY <1>0, <2>1, <2>7, BlockStays
    <3>2. ASSUME NEW i \in DOMAIN host, NEW b \in {2, 4}
          PROVE  Sooner(<<Raw(i) + 1, b, i>>, <<r + 1, 4, next>>)
      <4>1. Raw(i) \in Nat /\ i \in Nat /\ i < next /\ ~(Raw(i) > r)
        BY <1>0, <1>3, <2>3, <2>4, <2>7
      <4> HIDE DEF r
      <4> QED
        BY <2>3, <4>1 DEF Sooner
    <3> QED
      BY <1>0, <2>2, <2>6, <3>1, <3>2, AllTurnsTaken
  <2>8. CASE next <= Len(host)
    <3> DEFINE s == Raw(next)
    <3>0. next \in DOMAIN host
      BY <1>0, <2>1, <2>3, <2>8
    <3>1. Due' = Soon(<<s + 1, 2, next>>)
      <4>1. phase' = "condition"
        BY <1>0, <2>1, <2>3, <2>8
      <4> QED
        BY <1>0, <2>1, <4>1, BlockStays
    <3>2. s \in Nat /\ s > r
      BY <1>3, <2>3, <2>4, <3>0
    <3>3. ASSUME NEW i \in DOMAIN host, NEW b \in {2, 4}
          PROVE  Sooner(<<Raw(i) + 1, b, i>>, <<r + 1, 4, next>>)
                   <=> Sooner(<<Raw(i) + 1, b, i>>, <<s + 1, 2, next>>)
      <4>1. /\ Raw(i) \in Nat /\ i \in Nat /\ (i >= next <=> Raw(i) > r)
            /\ i >= next => Raw(i) >= s
        BY <1>3, <2>4, <3>0
      <4> HIDE DEF r, s
      <4> QED
        BY <2>3, <3>2, <4>1 DEF Sooner
    <3>4. ASSUME NEW i \in DOMAIN gestures
          PROVE  /\ Sooner(<<0, 1, i>>, <<s + 1, 2, next>>)
                 /\ Sooner(<<a, 3, i>>, <<s + 1, 2, next>>)
      <4> HIDE DEF r, s
      <4> QED
        BY <1>3, <2>3, <2>5, <3>2 DEF Sooner
    <3> QED
      BY <1>0, <2>2, <2>6, <3>1, <3>3, <3>4, NoTurnBetween
  <2> QED
    BY <1>0, <2>3, <2>7, <2>8
<1> QED
  BY <1>4, <1>5, <1>6, <1>7

LEMMA InitialTurns == GroupInit => TurnInv
<1> SUFFICES ASSUME GroupInit PROVE TurnInv
  OBVIOUS
<1>1. GroupShape
  BY InitialShape DEF ShapeInv
<1>2. /\ phase = "snapshot" /\ slot = 1 /\ Sounded = <<>>
  BY DEF GroupInit, Sounded, Flushed
<1>3. Soon(<<0, 1, 1>>) = {}
  <2> SUFFICES ASSUME NEW d \in OwedDeeds, Sooner(Turn(d), <<0, 1, 1>>) PROVE FALSE
    BY DEF Soon
  <2>1. \/ \E i \in DOMAIN host : HostFirst(d, i) \/ HostSecond(d, i)
        \/ \E i \in DOMAIN gestures : EditorFirst(d, i) \/ EditorSecond(d, i)
    BY <1>1, OwedAre
  <2>2. CASE \E i \in DOMAIN host : HostFirst(d, i) \/ HostSecond(d, i)
    <3>1. PICK i \in DOMAIN host : HostFirst(d, i) \/ HostSecond(d, i)
      BY <2>2
    <3>2. Turn(d) = <<Raw(i) + 1, 2, i>> \/ Turn(d) = <<Raw(i) + 1, 4, i>>
      BY <1>1, <3>1, TurnsAre
    <3>3. Raw(i) \in Nat
      BY <1>1, RawOrder
    <3> QED
      BY <3>2, <3>3 DEF Sooner
  <2>3. CASE \E i \in DOMAIN gestures : EditorFirst(d, i) \/ EditorSecond(d, i)
    <3>1. PICK i \in DOMAIN gestures : EditorFirst(d, i) \/ EditorSecond(d, i)
      BY <2>3
    <3>2. Turn(d) = <<0, 1, i>> \/ Turn(d) = <<IF Together THEN 2 ELSE 0, 3, i>>
      BY <1>1, <3>1, TurnsAre
    <3>3. i \in Nat /\ i >= 1
      BY <1>1, LenProperties DEF GroupShape
    <3> QED
      BY <3>2, <3>3 DEF Sooner
  <2> QED
    BY <2>1, <2>2, <2>3
<1>4. Due = {}
  BY <1>2, <1>3 DEF Due, Now
<1>5. Places(<<>>) = {}
  BY DEF Places
<1> QED
  BY <1>2, <1>4, <1>5 DEF TurnInv, InTurn

LEMMA TurnsAreKept == ShapeInv /\ TurnInv /\ [GroupNext]_groupVars => TurnInv'
<1> SUFFICES ASSUME ShapeInv, TurnInv, [GroupNext]_groupVars PROVE TurnInv'
  OBVIOUS
<1>1. CASE UNCHANGED groupVars \/ Ended
  <2>1. UNCHANGED <<host, gestures, start, next, slot, phase, batch, calls>>
    BY <1>1 DEF Ended, groupVars
  <2>2. Due' = Due
    BY <2>1, BlockStays DEF Due, Now
  <2>3. Sounded' = Sounded
    BY <2>1 DEF Sounded, Flushed
  <2> QED
    BY <2>1, <2>2, <2>3, BlockStays DEF TurnInv
<1>2. CASE GroupNext /\ ~Ended
  <2>1. CASE ConditionFromGesture \/ GatherGesture
    BY <2>1, SnapshotKeepsTurns
  <2>2. CASE ConditionEvent \/ PlayAttack \/ PlayParting \/ PlayNothing
    BY <2>2, WalkKeepsTurns
  <2>3. CASE SnapshotConditioned \/ SnapshotGathered \/ GroupConditioned \/ EndGroup
    BY <2>3, PhasesKeepTurns
  <2> QED
    BY <1>2, <2>1, <2>2, <2>3 DEF GroupNext
<1> QED
  BY <1>1, <1>2

\* For blocks and snapshots of every length: once processBlock has come to the
\* end of a block, every deed of its events, the host's and the editor's, has
\* been done once, in the order of the stable partition.
THEOREM GroupsArePartitioned == GroupSpec => []GroupIsStablePartition
<1>1. GroupInit => ShapeInv /\ TurnInv
  BY InitialShape, InitialTurns
<1>2. ShapeInv /\ TurnInv /\ [GroupNext]_groupVars => (ShapeInv /\ TurnInv)'
  BY ShapeIsKept, TurnsAreKept
<1>3. ShapeInv /\ TurnInv => GroupIsStablePartition
  <2> SUFFICES ASSUME ShapeInv, TurnInv, phase = "done" PROVE InTurn(calls, OwedDeeds)
    BY DEF GroupIsStablePartition
  <2>1. batch = <<>>
    BY DEF ShapeInv, WalkShape
  <2>2. Sounded = calls
    BY <2>1 DEF Sounded, Flushed
  <2>3. Due = OwedDeeds
    BY DEF Due
  <2> QED
    BY <2>2, <2>3 DEF TurnInv
<1> QED
  BY <1>1, <1>2, <1>3, PTL DEF GroupSpec

-----------------------------------------------------------------------------
(***************************************************************************)
(* Chords.                                                                 *)
(***************************************************************************)
With(s, e) == {k \in DOMAIN s : s[k].does = "chord" /\ Contains(s[k].events, e)}
Full(s, e) == \E k \in With(s, e) : Len(s[k].events) = ChordEvents
Clear(i, n) == \A k \in i + 1 .. n - 1 : ~Separates(k)

\* Of the attacks a walk has come by: what waits is not separated from where
\* the walk is, what is not separated waits or is in a full chord, and of any two
\* what ChordsAreWhole says.
ChordShape(s, b, n) ==
    /\ \A i \in start .. n - 1 : Contains(b, Host(i)) => Clear(i, n)
    /\ \A i \in start .. n - 1 :
          host[i].kind = "on" /\ Clear(i, n) => Contains(b, Host(i)) \/ Full(s, Host(i))
    /\ \A i, j \in start .. n - 1 :
          i < j /\ host[i].kind = "on" /\ host[j].kind = "on" =>
             LET one == With(s, Host(i)) \intersect With(s, Host(j))
             IN  /\ ~Clear(i, j) => one = {}
                 /\ Clear(i, j) /\ one = {} => Full(s, Host(i))

ChordInv == phase = "play" => ChordShape(Sounded, batch, next)

LEMMA ContainsIs ==
    ASSUME NEW b \in Seq(Ev), NEW e \in Ev, NEW x
    PROVE  /\ Contains(Append(b, e), x) <=> Contains(b, x) \/ x = e
           /\ Contains(<<e>>, x) <=> x = e
           /\ ~Contains(<<>>, x)
<1>1. /\ Len(Append(b, e)) = Len(b) + 1 /\ Append(b, e)[Len(b) + 1] = e
      /\ \A i \in 1 .. Len(b) : Append(b, e)[i] = b[i]
      /\ Len(b) \in Nat
  BY AppendProperties, LenProperties
<1>2. Contains(Append(b, e), x) <=> Contains(b, x) \/ x = e
  <2>1. Contains(Append(b, e), x) <=> \E i \in 1 .. Len(b) + 1 : Append(b, e)[i] = x
    BY <1>1 DEF Contains
  <2>2. Contains(b, x) <=> \E i \in 1 .. Len(b) : b[i] = x
    BY DEF Contains
  <2>3. \A i \in 1 .. Len(b) + 1 : i \in 1 .. Len(b) \/ i = Len(b) + 1
    BY <1>1
  <2>4. /\ Len(b) + 1 \in 1 .. Len(b) + 1
        /\ \A i \in 1 .. Len(b) : i \in 1 .. Len(b) + 1
    BY <1>1
  <2> QED
    BY <1>1, <2>1, <2>2, <2>3, <2>4
<1>3. Contains(<<e>>, x) <=> x = e
  BY DEF Contains
<1>4. ~Contains(<<>>, x)
  BY DEF Contains
<1> QED
  BY <1>2, <1>3, <1>4

\* What another call adds.
LEMMA AnotherCall ==
    ASSUME NEW s \in Seq(Answers), NEW x \in Answers, NEW e
    PROVE  LET has == x.does = "chord" /\ Contains(x.events, e)
           IN /\ With(Append(s, x), e) =
                    With(s, e) \union IF has THEN {Len(s) + 1} ELSE {}
              /\ Full(Append(s, x), e) <=>
                    Full(s, e) \/ (has /\ Len(x.events) = ChordEvents)
              /\ Len(s) + 1 \notin With(s, e)
<1> DEFINE g == Append(s, x)
           m == Len(s) + 1
           has == x.does = "chord" /\ Contains(x.events, e)
<1>1. /\ g \in Seq(Answers) /\ Len(g) = m /\ g[m] = x /\ Len(s) \in Nat
      /\ \A i \in 1 .. Len(s) : g[i] = s[i]
      /\ DOMAIN g = 1 .. m /\ DOMAIN s = 1 .. Len(s)
  BY AppendProperties, LenProperties
<1>2. /\ \A i \in 1 .. m : i \in 1 .. Len(s) \/ i = m
      /\ m \in 1 .. m /\ m \notin 1 .. Len(s)
      /\ \A i \in 1 .. Len(s) : i \in 1 .. m
  BY <1>1
<1> HIDE DEF g, m
<1>3. m \notin With(s, e)
  BY <1>1, <1>2 DEF With
<1>4. With(g, e) = With(s, e) \union IF has THEN {m} ELSE {}
  <2> SUFFICES ASSUME NEW k
               PROVE  k \in With(g, e) <=> k \in With(s, e) \/ (has /\ k = m)
    OBVIOUS
  <2>1. CASE k = m
    BY <1>1, <1>2, <1>3, <2>1 DEF With
  <2>2. CASE k # m
    <3>1. k \in DOMAIN g <=> k \in DOMAIN s
      BY <1>1, <1>2, <2>2
    <3>2. k \in DOMAIN s => g[k] = s[k]
      BY <1>1
    <3> QED
      BY <2>2, <3>1, <3>2 DEF With
  <2> QED
    BY <2>1, <2>2
<1>5. \A k \in With(s, e) : g[k] = s[k]
  BY <1>1 DEF With
<1>6. Full(g, e) <=> Full(s, e) \/ (has /\ Len(x.events) = ChordEvents)
  <2> HIDE DEF has
  <2> QED
    BY <1>1, <1>4, <1>5 DEF Full
<1> QED
  BY <1>3, <1>4, <1>6 DEF g, m

\* What parts the batch is what separates attacks.
LEMMA PartsIsSeparates ==
    ASSUME ShapeInv, phase = "play"
    PROVE  Parts(host[next].kind) <=> Separates(next)
<1>1. accepted <=> \E k \in Group : host[k].kind = "zone"
  BY DEF ShapeInv, ZoneSeen
<1> QED
  BY <1>1 DEF Parts, Separates

\* No chord has an event the walk has not come by.
LEMMA NotYetHeard ==
    ASSUME ShapeInv, TurnInv, phase = "play", NEW j \in DOMAIN host, j >= next
    PROVE  With(Sounded, Host(j)) = {} /\ ~Contains(batch, Host(j))
<1>0. GroupShape /\ WalkShape
  BY DEF ShapeInv
<1>1. batch \in Seq(Ev) /\ calls \in Seq(Answers) /\ Sounded \in Seq(Answers)
  BY <1>0, FlushedIs DEF GroupShape, Sounded
<1>2. With(Sounded, Host(j)) = {}
  <2> SUFFICES ASSUME NEW k \in With(Sounded, Host(j)) PROVE FALSE
    OBVIOUS
  <2>1. /\ k \in 1 .. Len(Sounded) /\ Sounded[k].does = "chord"
        /\ Contains(Sounded[k].events, Host(j))
    BY <1>1, LenProperties DEF With
  <2>2. PICK n \in 1 .. Len(Sounded[k].events) : Sounded[k].events[n] = Host(j)
    BY <2>1 DEF Contains
  <2> DEFINE d == <<"chord", Host(j)>>
             t == <<Raw(start) + 1, 4, next>>
  <2>3. <<k, n>> \in Places(Sounded) /\ DeedAt(Sounded, <<k, n>>) = d
    <3>1. \E x \in 1 .. Len(Sounded) : \E y \in 1 .. Len(Sounded[x].events) : <<k, n>> = <<x, y>>
      BY <2>1
    <3> QED
      BY <1>1, <2>1, <2>2, <3>1, PlacesAre DEF DeedAt
  <2>4. d \in Due
    BY <2>3 DEF TurnInv, InTurn
  <2>5. d \in OwedDeeds /\ Sooner(Turn(d), t)
    BY <2>4 DEF Due, Now, Soon
  <2>6. Turn(d) = <<Raw(j) + 1, 4, j>>
    BY DEF Turn, Host, IsFirst, Raw
  <2>7. /\ Raw(j) \in Nat /\ Raw(start) \in Nat /\ start \in DOMAIN host /\ next \in Nat
        /\ j \in Nat /\ Raw(j) >= Raw(start) /\ start \in Nat
    <3>1. start \in DOMAIN host /\ start \in Nat /\ next \in Nat /\ start <= next /\ j \in Nat
      BY <1>0, RawOrder DEF GroupShape, WalkShape
    <3>2. start <= j
      BY <3>1
    <3> QED
      BY <1>0, <3>1, <3>2, RawOrder
  <2>8. Sooner(<<Raw(j) + 1, 4, j>>, <<Raw(start) + 1, 4, next>>)
    BY <2>5, <2>6
  <2> HIDE DEF d, t
  <2> QED
    BY <2>7, <2>8 DEF Sooner
<1>3. ~Contains(batch, Host(j))
  <2> SUFFICES ASSUME Contains(batch, Host(j)) PROVE FALSE
    OBVIOUS
  <2>1. batch # <<>>
    BY DEF Contains
  <2>2. Sounded = Append(calls, Chord(batch)) /\ Chord(batch) \in Answers
    <3>1. \A what \in Whats, x \in Seq(Ev) : [does |-> what, events |-> x] \in Answers
      BY DEF Answers
    <3>2. "chord" \in Whats
      BY DEF Whats
    <3> QED
      BY <1>1, <2>1, <3>1, <3>2 DEF Sounded, Flushed, Chord
  <2>3. Chord(batch).does = "chord" /\ Chord(batch).events = batch
    BY DEF Chord
  <2>4. Len(calls) + 1 \in With(Sounded, Host(j))
    BY <1>1, <2>2, <2>3, AnotherCall
  <2> QED
    BY <1>2, <2>4
<1> QED
  BY <1>2, <1>3

\* Where the walk stands, with the event it has come to.
LEMMA WalkRange ==
    ASSUME GroupShape
    PROVE  /\ start \in Nat /\ next \in Nat /\ start >= 1 /\ start <= next
           /\ \A i \in start .. (next + 1) - 1 : i \in start .. next - 1 \/ i = next
           /\ \A i \in start .. next - 1 : i \in Nat /\ i < next /\ i \in DOMAIN host
           /\ \A i \in start .. next - 1 :
                 Clear(i, next + 1) <=> Clear(i, next) /\ ~Separates(next)
           /\ Clear(next, next + 1)
<1>1. /\ start \in Nat /\ next \in Nat /\ start >= 1 /\ start <= next
      /\ Len(host) \in Nat /\ DOMAIN host = 1 .. Len(host) /\ next <= Len(host) + 1
  BY RawOrder DEF GroupShape
<1>2. \A i \in start .. (next + 1) - 1 : i \in start .. next - 1 \/ i = next
  BY <1>1
<1>3. \A i \in start .. next - 1 : i \in Nat /\ i < next /\ i \in DOMAIN host
  BY <1>1
<1>4. ASSUME NEW i \in start .. next - 1
      PROVE  Clear(i, next + 1) <=> Clear(i, next) /\ ~Separates(next)
  <2>1. \A k : k \in i + 1 .. (next + 1) - 1 <=> k \in i + 1 .. next - 1 \/ k = next
    BY <1>1, <1>3
  <2> QED
    BY <2>1 DEF Clear
<1>5. Clear(next, next + 1)
  BY <1>1 DEF Clear
<1> QED
  BY <1>1, <1>2, <1>3, <1>4, <1>5

\* An event that is no attack.
LEMMA NoAttackKeepsChords ==
    ASSUME GroupShape, NEW s, NEW r, NEW b, NEW c, ChordShape(s, b, next),
           host[next].kind # "on", \A e : With(r, e) = With(s, e),
           \A e : Full(s, e) => Full(r, e), ~Contains(b, Host(next)),
           \/ c = b /\ ~Separates(next)
           \/ (\A e : ~Contains(c, e)) /\ Separates(next)
    PROVE  ChordShape(r, c, next + 1)
<1>1. \A i \in start .. (next + 1) - 1 : Contains(c, Host(i)) => Clear(i, next + 1)
  BY WalkRange DEF ChordShape
<1>2. \A i \in start .. (next + 1) - 1 :
          host[i].kind = "on" /\ Clear(i, next + 1) => Contains(c, Host(i)) \/ Full(r, Host(i))
  BY WalkRange DEF ChordShape
<1>3. \A i, j \in start .. (next + 1) - 1 :
          i < j /\ host[i].kind = "on" /\ host[j].kind = "on" =>
             LET one == With(r, Host(i)) \intersect With(r, Host(j))
             IN  /\ ~Clear(i, j) => one = {}
                 /\ Clear(i, j) /\ one = {} => Full(r, Host(i))
  <2> SUFFICES ASSUME NEW i \in start .. (next + 1) - 1, NEW j \in start .. (next + 1) - 1,
                      i < j, host[i].kind = "on", host[j].kind = "on"
               PROVE  LET one == With(r, Host(i)) \intersect With(r, Host(j))
                      IN  /\ ~Clear(i, j) => one = {}
                          /\ Clear(i, j) /\ one = {} => Full(r, Host(i))
    OBVIOUS
  <2>1. i \in start .. next - 1 /\ j \in start .. next - 1
    BY WalkRange
  <2> QED
    BY <2>1 DEF ChordShape
<1> QED
  BY <1>1, <1>2, <1>3 DEF ChordShape

\* An attack: e of what waits is said to be where the new list has it.
LEMMA AttackKeepsChords ==
    ASSUME GroupShape, NEW s, NEW r, NEW b, NEW c, ChordShape(s, b, next),
           ~Separates(next), NEW m,
           \A i \in start .. next - 1 : With(r, Host(i)) = With(s, Host(i)),
           With(r, Host(next)) = {m}, Contains(c, Host(next)),
           \A i \in start .. next - 1 : Full(s, Host(i)) => Full(r, Host(i)),
           \/ /\ \A i \in start .. next - 1 :
                    /\ m \in With(s, Host(i)) <=> Contains(b, Host(i))
                    /\ Contains(c, Host(i)) <=> Contains(b, Host(i))
           \/ /\ \A i \in start .. next - 1 :
                    /\ m \notin With(s, Host(i)) /\ ~Contains(c, Host(i))
                    /\ Contains(b, Host(i)) => Full(r, Host(i))
    PROVE  ChordShape(r, c, next + 1)
<1>1. \A i \in start .. (next + 1) - 1 : Contains(c, Host(i)) => Clear(i, next + 1)
  BY WalkRange DEF ChordShape
<1>2. \A i \in start .. (next + 1) - 1 :
          host[i].kind = "on" /\ Clear(i, next + 1) => Contains(c, Host(i)) \/ Full(r, Host(i))
  BY WalkRange DEF ChordShape
<1>3. \A i, j \in start .. (next + 1) - 1 :
          i < j /\ host[i].kind = "on" /\ host[j].kind = "on" =>
             LET one == With(r, Host(i)) \intersect With(r, Host(j))
             IN  /\ ~Clear(i, j) => one = {}
                 /\ Clear(i, j) /\ one = {} => Full(r, Host(i))
  <2> SUFFICES ASSUME NEW i \in start .. (next + 1) - 1, NEW j \in start .. (next + 1) - 1,
                      i < j, host[i].kind = "on", host[j].kind = "on"
               PROVE  LET one == With(r, Host(i)) \intersect With(r, Host(j))
                      IN  /\ ~Clear(i, j) => one = {}
                          /\ Clear(i, j) /\ one = {} => Full(r, Host(i))
    OBVIOUS
  <2>1. i \in start .. next - 1
    BY WalkRange
  <2>2. CASE j \in start .. next - 1
    BY <2>1, <2>2 DEF ChordShape
  <2>3. CASE j = next
    <3> DEFINE one == With(r, Host(i)) \intersect With(r, Host(j))
    <3>1. one = {m} \intersect With(s, Host(i))
      BY <2>1, <2>3
    <3>2. ~Clear(i, next) => ~Contains(b, Host(i))
      BY <2>1 DEF ChordShape
    <3>3. Clear(i, next) => Contains(b, Host(i)) \/ Full(s, Host(i))
      BY <2>1 DEF ChordShape
    <3>4. m \in With(s, Host(i)) => Contains(b, Host(i))
      BY <2>1
    <3>5. Contains(b, Host(i)) => m \in With(s, Host(i)) \/ Full(r, Host(i))
      BY <2>1
    <3>6. Full(s, Host(i)) => Full(r, Host(i))
      BY <2>1
    <3> QED
      BY <2>3, <3>1, <3>2, <3>3, <3>4, <3>5, <3>6
  <2> QED
    BY <2>2, <2>3, WalkRange
<1> QED
  BY <1>1, <1>2, <1>3 DEF ChordShape

\* The zones stay as they are while the second walk goes on.
LEMMA WalkStays ==
    ASSUME Advance, ChordShape(Sounded', batch', next + 1)
    PROVE  ChordInv'
<1>1. UNCHANGED <<host, mpe, start, phase>> /\ next' = next + 1
  BY DEF Advance
<1>2. Group' = Group
  BY <1>1 DEF Group
<1>3. \A k : Separates(k)' <=> Separates(k)
  BY <1>1, <1>2 DEF Separates
<1>4. \A i, n : Clear(i, n)' <=> Clear(i, n)
  BY <1>3 DEF Clear
<1>5. /\ \A i \in start' .. next' - 1 : Contains(batch', Host(i)) => Clear(i, next')
      /\ \A i \in start' .. next' - 1 :
            host'[i].kind = "on" /\ Clear(i, next') =>
               Contains(batch', Host(i)) \/ Full(Sounded', Host(i))
      /\ \A i, j \in start' .. next' - 1 :
            i < j /\ host'[i].kind = "on" /\ host'[j].kind = "on" =>
               LET one == With(Sounded', Host(i)) \intersect With(Sounded', Host(j))
               IN  /\ ~Clear(i, j) => one = {}
                   /\ Clear(i, j) /\ one = {} => Full(Sounded', Host(i))
  BY <1>1 DEF ChordShape
<1> QED
  BY <1>4, <1>5 DEF ChordInv, ChordShape

LEMMA HostsDiffer == \A i, j : Host(i) = Host(j) => i = j
  BY DEF Host

LEMMA PlayAttackKeepsChords ==
    ASSUME ShapeInv, TurnInv, ChordInv, PlayAttack
    PROVE  ChordInv'
<1>0. /\ GroupShape /\ phase = "play" /\ Advance /\ host[next].kind = "on"
      /\ batch' = Batched(batch, calls, Host(next)).batch
      /\ calls' = Batched(batch, calls, Host(next)).calls
      /\ batch \in Seq(Ev) /\ Len(batch) <= ChordEvents /\ calls \in Seq(Answers)
      /\ next \in DOMAIN host /\ ChordShape(Sounded, batch, next)
  <2>1. GroupShape /\ WalkShape /\ phase = "play" /\ Walking
    BY DEF ShapeInv, PlayAttack, Advance
  <2>2. next \in DOMAIN host
    BY <2>1, GroupOrder
  <2> QED
    BY <2>1, <2>2 DEF GroupShape, ChordInv, PlayAttack
<1>1. ~Separates(next)
  BY <1>0 DEF Separates
<1>2. With(Sounded, Host(next)) = {} /\ Host(next) \in Ev
  <2>1. next \in Nat /\ next >= next
    BY <1>0, WalkRange
  <2> QED
    BY <1>0, <2>1, NotYetHeard, OwnCalls
<1>3. \A i \in start .. next - 1 : i # next /\ Host(i) # Host(next)
  BY <1>0, WalkRange, HostsDiffer
<1>4. /\ Sounded \in Seq(Answers) /\ "chord" \in Whats
      /\ Call("chord", Host(next)) \in Answers
      /\ Call("chord", Host(next)).does = "chord"
      /\ Call("chord", Host(next)).events = <<Host(next)>>
      /\ \A w \in Seq(Ev) : /\ Chord(w) \in Answers /\ Chord(w).does = "chord"
                            /\ Chord(w).events = w
  <2>1. "chord" \in Whats
    BY DEF Whats
  <2>2. \A what \in Whats, x \in Seq(Ev) : [does |-> what, events |-> x] \in Answers
    BY DEF Answers
  <2>3. \A w \in Seq(Ev) : Chord(w) \in Answers
    BY <2>1, <2>2 DEF Chord
  <2>4. Sounded \in Seq(Answers)
    BY <1>0, FlushedIs DEF Sounded
  <2> QED
    BY <1>2, <2>1, <2>3, <2>4, OneCallIs DEF Chord, Call
<1>5. Sounded' = Flushed(batch', calls')
  BY DEF Sounded, Flushed
<1>6. CASE batch # <<>> /\ Len(batch) # ChordEvents
  <2> DEFINE m == Len(calls) + 1
             w == Append(batch, Host(next))
  <2>1. /\ batch' = w /\ Sounded' = Append(calls, Chord(w))
        /\ Sounded = Append(calls, Chord(batch)) /\ w \in Seq(Ev)
    <3>1. /\ Batched(batch, calls, Host(next)).batch = w
          /\ Flushed(Batched(batch, calls, Host(next)).batch,
                     Batched(batch, calls, Host(next)).calls) = Append(calls, Chord(w))
      BY <1>0, <1>2, <1>6, AttackJoins
    <3>2. Sounded = Append(calls, Chord(batch))
      BY <1>0, <1>6, FlushedIs DEF Sounded
    <3>3. w \in Seq(Ev)
      BY <1>0, <1>2, AppendProperties
    <3> QED
      BY <1>0, <1>5, <3>1, <3>2, <3>3
  <2>2. \A e : /\ With(Sounded, e) = With(calls, e) \union IF Contains(batch, e) THEN {m} ELSE {}
               /\ Full(Sounded, e) <=> Full(calls, e)
               /\ With(Sounded', e) = With(calls, e) \union IF Contains(w, e) THEN {m} ELSE {}
               /\ Full(calls, e) => Full(Sounded', e)
               /\ m \notin With(calls, e)
    <3>1. /\ Chord(batch) \in Answers /\ Chord(batch).does = "chord"
          /\ Chord(batch).events = batch
          /\ Chord(w) \in Answers /\ Chord(w).does = "chord" /\ Chord(w).events = w
      BY <1>0, <1>4, <2>1
    <3> HIDE DEF w
    <3>2. ASSUME NEW e
          PROVE  /\ With(Sounded, e) =
                       With(calls, e) \union IF Contains(batch, e) THEN {m} ELSE {}
                 /\ Full(Sounded, e) <=> Full(calls, e)
                 /\ m \notin With(calls, e)
      BY <1>0, <1>6, <2>1, <3>1, AnotherCall
    <3>3. ASSUME NEW e
          PROVE  /\ With(Sounded', e) =
                       With(calls, e) \union IF Contains(w, e) THEN {m} ELSE {}
                 /\ Full(calls, e) => Full(Sounded', e)
      BY <1>0, <2>1, <3>1, AnotherCall
    <3> QED
      BY <3>2, <3>3
  <2>3. \A e : Contains(w, e) <=> Contains(batch, e) \/ e = Host(next)
    BY <1>0, <1>2, ContainsIs
  <2> HIDE DEF m, w
  <2>4. /\ \A i \in start .. next - 1 : With(Sounded', Host(i)) = With(Sounded, Host(i))
        /\ \A i \in start .. next - 1 : Full(Sounded, Host(i)) => Full(Sounded', Host(i))
        /\ \A i \in start .. next - 1 : m \in With(Sounded, Host(i)) <=> Contains(batch, Host(i))
        /\ \A i \in start .. next - 1 : Contains(w, Host(i)) <=> Contains(batch, Host(i))
    BY <1>3, <2>2, <2>3
  <2>5. With(Sounded', Host(next)) = {m} /\ Contains(w, Host(next))
    BY <1>2, <2>2, <2>3
  <2>6. ChordShape(Sounded', batch', next + 1)
    BY <1>0, <1>1, <2>1, <2>4, <2>5, AttackKeepsChords
  <2> QED
    BY <1>0, <2>6, WalkStays
<1>7. CASE ~(batch # <<>> /\ Len(batch) # ChordEvents)
  <2> DEFINE m == Len(Sounded) + 1
             x == Call("chord", Host(next))
  <2>1. batch' = <<Host(next)>> /\ Sounded' = Append(Sounded, x)
    <3>1. /\ Batched(batch, calls, Host(next)).batch = <<Host(next)>>
          /\ Flushed(Batched(batch, calls, Host(next)).batch,
                     Batched(batch, calls, Host(next)).calls) = Append(Sounded, x)
      BY <1>0, <1>2, <1>7, AttackSounds DEF Sounded
    <3> QED
      BY <1>0, <1>5, <3>1
  <2>2. \A e : Contains(<<Host(next)>>, e) <=> e = Host(next)
    BY <1>0, <1>2, ContainsIs
  <2>3. \A e : /\ With(Sounded', e) = With(Sounded, e) \union IF e = Host(next) THEN {m} ELSE {}
               /\ Full(Sounded, e) => Full(Sounded', e)
               /\ m \notin With(Sounded, e)
    BY <1>4, <2>1, <2>2, AnotherCall
  <2>4. \A e : Contains(batch, e) => Full(Sounded, e)
    <3> SUFFICES ASSUME NEW e, Contains(batch, e) PROVE Full(Sounded, e)
      OBVIOUS
    <3>1. batch # <<>>
      BY DEF Contains
    <3>2. Sounded = Append(calls, Chord(batch)) /\ Len(batch) = ChordEvents
      BY <1>0, <1>7, <3>1, FlushedIs DEF Sounded
    <3> QED
      BY <1>0, <1>4, <3>2, AnotherCall
  <2> HIDE DEF m, x
  <2>5. /\ \A i \in start .. next - 1 : With(Sounded', Host(i)) = With(Sounded, Host(i))
        /\ \A i \in start .. next - 1 : Full(Sounded, Host(i)) => Full(Sounded', Host(i))
        /\ \A i \in start .. next - 1 :
              /\ m \notin With(Sounded, Host(i)) /\ ~Contains(batch', Host(i))
              /\ Contains(batch, Host(i)) => Full(Sounded', Host(i))
    BY <1>3, <2>1, <2>2, <2>3, <2>4
  <2>6. With(Sounded', Host(next)) = {m} /\ Contains(batch', Host(next))
    BY <1>2, <2>1, <2>2, <2>3
  <2>7. ChordShape(Sounded', batch', next + 1)
    BY <1>0, <1>1, <2>5, <2>6, AttackKeepsChords
  <2> QED
    BY <1>0, <2>7, WalkStays
<1> QED
  BY <1>6, <1>7

LEMMA OtherEventsKeepChords ==
    ASSUME ShapeInv, TurnInv, ChordInv, PlayParting \/ PlayNothing
    PROVE  ChordInv'
<1>0. /\ GroupShape /\ phase = "play" /\ Advance
      /\ batch \in Seq(Ev) /\ calls \in Seq(Answers) /\ Sounded \in Seq(Answers)
      /\ next \in DOMAIN host /\ ChordShape(Sounded, batch, next)
  <2>1. GroupShape /\ WalkShape /\ phase = "play" /\ Walking /\ Advance
    BY DEF ShapeInv, PlayParting, PlayNothing, Advance
  <2>2. next \in DOMAIN host
    BY <2>1, GroupOrder
  <2>3. batch \in Seq(Ev) /\ calls \in Seq(Answers)
    BY <2>1 DEF GroupShape
  <2> QED
    BY <2>1, <2>2, <2>3, FlushedIs DEF ChordInv, Sounded
<1>1. ~Contains(batch, Host(next))
  <2>1. next \in Nat /\ next >= next
    BY <1>0, WalkRange
  <2> QED
    BY <1>0, <2>1, NotYetHeard
<1>2. Parts(host[next].kind) <=> Separates(next)
  BY <1>0, PartsIsSeparates
<1>3. CASE PlayNothing
  <2>1. /\ host[next].kind # "on" /\ ~Separates(next) /\ UNCHANGED <<batch, calls>>
    BY <1>2, <1>3 DEF PlayNothing
  <2>2. Sounded' = Sounded /\ batch' = batch
    BY <2>1 DEF Sounded, Flushed
  <2>3. ChordShape(Sounded', batch', next + 1)
    BY <1>0, <1>1, <2>1, <2>2, NoAttackKeepsChords
  <2> QED
    BY <1>0, <2>3, WalkStays
<1>4. CASE PlayParting
  <2>1. /\ Parts(host[next].kind) /\ Separates(next)
        /\ batch' = <<>> /\ Sounded' = Sounded \o OwnCall(next)
    <3>1. batch' = <<>> /\ calls' = Sounded \o OwnCall(next)
      BY <1>4 DEF PlayParting, Sounded
    <3> QED
      BY <1>2, <1>4, <3>1 DEF PlayParting, Sounded, Flushed
  <2>2. host[next].kind # "on"
    BY <2>1 DEF Separates
  <2>3. \A e : With(Sounded', e) = With(Sounded, e) /\ (Full(Sounded, e) => Full(Sounded', e))
    <3>1. CASE OwnCall(next) = <<>>
      <4>1. Sounded' = Sounded
        BY <1>0, <2>1, <3>1
      <4> QED
        BY <4>1
    <3>2. CASE OwnCall(next) # <<>>
      <4>1. PICK what \in {"reset", "release", "lift"} :
               OwnCall(next) = <<Call(what, Host(next))>>
        BY <3>2 DEF OwnCall
      <4> DEFINE x == Call(what, Host(next))
      <4>2. x \in Answers /\ x.does # "chord"
        <5>1. what \in Whats
          BY DEF Whats
        <5>2. Host(next) \in Ev
          BY <1>0, OwnCalls
        <5> QED
          BY <1>0, <5>1, <5>2, OneCallIs DEF Call
      <4>3. Sounded' = Sounded \o <<x>>
        BY <2>1, <4>1
      <4> HIDE DEF x
      <4>4. Sounded' = Append(Sounded, x)
        BY <1>0, <4>2, <4>3, AppendIsConcat
      <4> QED
        <5> SUFFICES ASSUME NEW e
                     PROVE  /\ With(Sounded', e) = With(Sounded, e)
                            /\ Full(Sounded, e) => Full(Sounded', e)
          OBVIOUS
        <5>1. With(Append(Sounded, x), e) = With(Sounded, e)
          <6>1. With(Append(Sounded, x), e) =
                  With(Sounded, e) \union
                  IF x.does = "chord" /\ Contains(x.events, e) THEN {Len(Sounded) + 1} ELSE {}
            BY <1>0, <4>2, AnotherCall
          <6> DEFINE more == IF x.does = "chord" /\ Contains(x.events, e)
                             THEN {Len(Sounded) + 1} ELSE {}
          <6>2. more = {}
            BY <4>2
          <6>3. With(Append(Sounded, x), e) = With(Sounded, e) \union more
            BY <6>1
          <6> HIDE DEF more
          <6> QED
            BY <6>2, <6>3
        <5>2. Full(Append(Sounded, x), e) <=> Full(Sounded, e)
          BY <1>0, <4>2, AnotherCall
        <5> QED
          BY <4>4, <5>1, <5>2
    <3> QED
      BY <3>1, <3>2
  <2>4. \A e : ~Contains(batch', e)
    BY <2>1 DEF Contains
  <2>5. ChordShape(Sounded', batch', next + 1)
    BY <1>0, <1>1, <2>1, <2>2, <2>3, <2>4, NoAttackKeepsChords
  <2> QED
    BY <1>0, <2>5, WalkStays
<1> QED
  BY <1>3, <1>4

LEMMA ChordsAreKept ==
    ShapeInv /\ TurnInv /\ ChordInv /\ [GroupNext]_groupVars => ChordInv'
<1> SUFFICES ASSUME ShapeInv, TurnInv, ChordInv, [GroupNext]_groupVars, phase' = "play"
             PROVE  ChordInv'
  BY DEF ChordInv
<1>0. GroupShape /\ WalkShape
  BY DEF ShapeInv
<1>1. CASE PlayAttack
  BY <1>1, PlayAttackKeepsChords
<1>2. CASE PlayParting \/ PlayNothing
  BY <1>2, OtherEventsKeepChords
<1>3. CASE SnapshotGathered \/ GroupConditioned
  <2>1. start' .. next' - 1 = {}
    <3>1. start \in Nat
      BY <1>0, WalkRange
    <3>2. start' = start /\ next' = start
      BY <1>0, <1>3 DEF SnapshotGathered, GroupConditioned, WalkShape
    <3> QED
      BY <3>1, <3>2
  <2> QED
    BY <2>1 DEF ChordInv, ChordShape
<1>4. CASE UNCHANGED groupVars \/ Ended
  <2>1. UNCHANGED <<host, mpe, start, next, phase, batch, calls>>
    BY <1>4 DEF Ended, groupVars
  <2>2. Sounded' = Sounded /\ Group' = Group
    BY <2>1 DEF Sounded, Flushed, Group
  <2>3. \A k : Separates(k)' <=> Separates(k)
    BY <2>1, <2>2 DEF Separates
  <2>4. \A i, n : Clear(i, n)' <=> Clear(i, n)
    BY <2>3 DEF Clear
  <2>5. ChordShape(Sounded, batch, next)
    BY <2>1 DEF ChordInv
  <2> QED
    BY <2>1, <2>2, <2>4, <2>5 DEF ChordInv, ChordShape
<1>5. CASE ConditionFromGesture \/ SnapshotConditioned \/ GatherGesture \/ ConditionEvent
           \/ EndGroup
  <2>1. phase' # "play"
    BY <1>5 DEF ConditionFromGesture, SnapshotConditioned, GatherGesture, PassOverSnapshot,
                ConditionEvent, EndGroup
  <2> QED
    BY <2>1
<1> QED
  BY <1>1, <1>2, <1>3, <1>4, <1>5 DEF GroupNext

\* For every chord limit: when the second walk over the events of one sample is
\* done, its attacks have reached noteOnChord together exactly where no Note Off,
\* reset or other message in charge of ordinary MIDI stands between them.
THEOREM ChordsStayWhole == GroupSpec => []ChordsAreWhole
<1>1. GroupInit => ShapeInv /\ TurnInv /\ ChordInv
  BY InitialShape, InitialTurns DEF GroupInit, ChordInv
<1>2. ShapeInv /\ TurnInv /\ ChordInv /\ [GroupNext]_groupVars
        => (ShapeInv /\ TurnInv /\ ChordInv)'
  BY ShapeIsKept, TurnsAreKept, ChordsAreKept
<1>3. ShapeInv /\ ChordInv => ChordsAreWhole
  <2> SUFFICES ASSUME ShapeInv, ChordInv, phase = "play", ~Walking,
                      NEW i \in Group, NEW j \in Group,
                      i < j, host[i].kind = "on", host[j].kind = "on"
               PROVE  LET one == ChordsWith(Host(i)) \intersect ChordsWith(Host(j))
                          apart == \E k \in i + 1 .. j - 1 : Separates(k)
                      IN  /\ apart => one = {}
                          /\ ~apart /\ one = {} =>
                                 \E k \in ChordsWith(Host(i)) :
                                     Len(Sounded[k].events) = ChordEvents
    BY DEF ChordsAreWhole
  <2>1. GroupShape /\ WalkShape
    BY DEF ShapeInv
  <2>2. i \in start .. next - 1 /\ j \in start .. next - 1
    <3>1. /\ \A k \in DOMAIN host : k < start <=> Raw(k) < Raw(start)
          /\ \A k \in DOMAIN host : k >= next <=> Raw(k) > Raw(start)
          /\ Group = {k \in DOMAIN host : Raw(k) = Raw(start)}
      BY <2>1, GroupOrder
    <3>2. /\ \A k \in DOMAIN host : Raw(k) \in Nat /\ k \in Nat
          /\ start \in Nat /\ next \in Nat
      BY <2>1, RawOrder, WalkRange
    <3> QED
      BY <3>1, <3>2
  <2>3. \A e : ChordsWith(e) = With(Sounded, e)
    BY DEF ChordsWith, With
  <2>4. ChordShape(Sounded, batch, next)
    BY DEF ChordInv
  <2> QED
    BY <2>2, <2>3, <2>4 DEF ChordShape, Clear, Full
<1> QED
  BY <1>1, <1>2, <1>3, PTL DEF GroupSpec

-----------------------------------------------------------------------------
(* The notes' owners: counting.                                            *)

\* A non-empty set of positions has a least one, and Min finds it.
LEMMA MinIsLeast ==
    ASSUME NEW S \in SUBSET Nat, S # {}
    PROVE  Min(S) \in S /\ \A x \in S : Min(S) <= x
<1>1. \E m \in S : \A y \in S : <<y, m>> \notin OpToRel(<, Nat)
  BY NatLessThanWellFounded, WFMin, Zenon
<1>2. PICK m \in S : \A y \in S : <<y, m>> \notin OpToRel(<, Nat)
  BY <1>1
<1>3. \A y \in S : m <= y
  <2> SUFFICES ASSUME NEW y \in S
               PROVE  m <= y
    OBVIOUS
  <2>1. <<y, m>> \notin OpToRel(<, Nat)
    BY <1>2
  <2>2. ~(y < m)
    BY <2>1 DEF OpToRel
  <2>3. QED
    BY <2>2
<1>4. QED
  BY <1>3, Zenon DEF Min

\* Where position j of a queue without its k-th entry was before.
Shift(k, j) == IF j < k THEN j ELSE j + 1

LEMMA ShiftSkips ==
    ASSUME NEW N \in Nat, NEW k \in 1 .. N, NEW j \in 1 .. N - 1
    PROVE  Shift(k, j) \in (1 .. N) \ {k}
  BY DEF Shift

LEMMA ShiftIsOneToOne ==
    ASSUME NEW k \in Nat, NEW i \in Nat, NEW j \in Nat,
           Shift(k, i) = Shift(k, j)
    PROVE  i = j
  BY DEF Shift

LEMMA ShiftReaches ==
    ASSUME NEW N \in Nat, NEW k \in 1 .. N, NEW m \in (1 .. N) \ {k}
    PROVE  \E j \in 1 .. N - 1 : Shift(k, j) = m
<1>1. CASE m < k
  <2>1. m \in 1 .. N - 1 /\ Shift(k, m) = m
    BY <1>1 DEF Shift
  <2>2. QED
    BY <2>1
<1>2. CASE ~(m < k)
  <2>1. m - 1 \in 1 .. N - 1 /\ Shift(k, m - 1) = m
    BY <1>2 DEF Shift
  <2>2. QED
    BY <2>1
<1>3. QED
  BY <1>1, <1>2

\* The positions of A in a queue of N, after its k-th entry has gone.
Without(A, N, k) == {j \in 1 .. N - 1 : Shift(k, j) \in A}

\* A set of positions, seen after the k-th entry has gone, has lost that one.
LEMMA ShiftedCount ==
    ASSUME NEW N \in Nat, NEW k \in 1 .. N, NEW A \in SUBSET (1 .. N)
    PROVE  Cardinality(Without(A, N, k))
                = IF k \in A THEN Cardinality(A) - 1 ELSE Cardinality(A)
<1> DEFINE B == Without(A, N, k)
           f == [j \in B |-> Shift(k, j)]
<1>1. IsFiniteSet(A) /\ IsFiniteSet(B)
  <2>1. IsFiniteSet(1 .. N) /\ B \in SUBSET (1 .. N)
    BY FS_Interval DEF Without
  <2>2. QED
    BY <2>1, FS_Subset, Zenon
<1>2. f \in [B -> A \ {k}]
  BY ShiftSkips DEF Without
<1>3. \A i, j \in B : f[i] = f[j] => i = j
  <2> SUFFICES ASSUME NEW i \in B, NEW j \in B, f[i] = f[j]
               PROVE  i = j
    OBVIOUS
  <2>1. Shift(k, i) = Shift(k, j) /\ i \in Nat /\ j \in Nat
    BY DEF Without
  <2>2. QED
    BY <2>1, ShiftIsOneToOne
<1>4. \A m \in A \ {k} : \E j \in B : f[j] = m
  <2> SUFFICES ASSUME NEW m \in A \ {k}
               PROVE  \E j \in B : f[j] = m
    OBVIOUS
  <2>1. PICK j \in 1 .. N - 1 : Shift(k, j) = m
    BY ShiftReaches
  <2>2. QED
    BY <2>1 DEF Without
<1>5. f \in Bijection(B, A \ {k})
  <2> HIDE DEF f, B
  <2>1. QED
    BY <1>2, <1>3, <1>4 DEF Bijection, Injection, Surjection, IsInjective
<1>6. Cardinality(A \ {k}) = Cardinality(B)
  <2>1. ExistsBijection(B, A \ {k})
    BY <1>5, Zenon DEF ExistsBijection
  <2>2. QED
    BY <2>1, <1>1, FS_Bijection, Zenon
<1>7. Cardinality(A \ {k}) = IF k \in A THEN Cardinality(A) - 1
                             ELSE Cardinality(A)
  BY <1>1, FS_RemoveElement, Zenon
<1>8. QED
  BY <1>6, <1>7, Zenon

-----------------------------------------------------------------------------
(* Queues of owners: what appending and removing an entry does to them.    *)

Owner == [channel : Sources, id : Identities]

LEMMA RemoveAtIs ==
    ASSUME NEW q \in Seq(Owner), NEW k \in 1 .. Len(q)
    PROVE  /\ RemoveAt(q, k) \in Seq(Owner)
           /\ Len(RemoveAt(q, k)) = Len(q) - 1
           /\ \A j \in 1 .. Len(q) - 1 : RemoveAt(q, k)[j] = q[Shift(k, j)]
<1> DEFINE a == SubSeq(q, 1, k - 1)
           b == SubSeq(q, k + 1, Len(q))
<1>1. Len(q) \in Nat /\ \A i \in 1 .. Len(q) : q[i] \in Owner
  BY LenProperties, ElementOfSeq
<1>2. /\ a \in Seq(Owner) /\ Len(a) = k - 1
      /\ \A i \in 1 .. k - 1 : a[i] = q[i]
  <2>1. \A i \in 1 .. k - 1 : q[i] \in Owner
    BY <1>1
  <2>2. /\ SubSeq(q, 1, k - 1) \in Seq(Owner)
        /\ Len(SubSeq(q, 1, k - 1)) = IF 1 <= k - 1 THEN (k - 1) - 1 + 1 ELSE 0
        /\ \A i \in 1 .. (k - 1) - 1 + 1 : SubSeq(q, 1, k - 1)[i] = q[1 + i - 1]
    <3>1. 1 \in Int /\ k - 1 \in Int
      BY <1>1
    <3>2. QED
      BY <2>1, <3>1, SubSeqProperties
  <2>3. QED
    BY <1>1, <2>2
<1>3. /\ b \in Seq(Owner) /\ Len(b) = Len(q) - k
      /\ \A i \in 1 .. Len(q) - k : b[i] = q[k + i]
  <2>1. \A i \in k + 1 .. Len(q) : q[i] \in Owner
    BY <1>1
  <2>2. /\ SubSeq(q, k + 1, Len(q)) \in Seq(Owner)
        /\ Len(SubSeq(q, k + 1, Len(q)))
              = IF k + 1 <= Len(q) THEN Len(q) - (k + 1) + 1 ELSE 0
        /\ \A i \in 1 .. Len(q) - (k + 1) + 1 :
              SubSeq(q, k + 1, Len(q))[i] = q[(k + 1) + i - 1]
    <3>1. k + 1 \in Int /\ Len(q) \in Int
      BY <1>1
    <3>2. QED
      BY <2>1, <3>1, SubSeqProperties
  <2>3. QED
    BY <1>1, <2>2
<1>4. /\ a \o b \in Seq(Owner) /\ Len(a \o b) = Len(a) + Len(b)
      /\ \A i \in 1 .. Len(a) + Len(b) :
            (a \o b)[i] = IF i <= Len(a) THEN a[i] ELSE b[i - Len(a)]
  <2> HIDE DEF a, b
  <2>1. QED
    BY <1>2, <1>3, ConcatProperties, Zenon
<1>5. RemoveAt(q, k) = a \o b
  BY DEF RemoveAt
<1>6. ASSUME NEW j \in 1 .. Len(q) - 1
      PROVE  (a \o b)[j] = q[Shift(k, j)]
  <2> HIDE DEF a, b
  <2>1. CASE j < k
    BY <1>1, <1>2, <1>3, <1>4, <2>1 DEF Shift
  <2>2. CASE ~(j < k)
    <3>1. /\ Shift(k, j) = j + 1
          /\ j \in 1 .. Len(a) + Len(b) /\ ~(j <= Len(a))
          /\ j - Len(a) \in 1 .. Len(q) - k /\ k + (j - Len(a)) = j + 1
      BY <1>1, <1>2, <1>3, <2>2 DEF Shift
    <3>2. (a \o b)[j] = b[j - Len(a)]
      BY <1>4, <3>1
    <3>3. b[j - Len(a)] = q[k + (j - Len(a))]
      BY <1>3, <3>1
    <3>4. QED
      BY <3>1, <3>2, <3>3
  <2>3. QED
    BY <2>1, <2>2
<1>7. QED
  <2> HIDE DEF a, b
  <2>1. QED
    BY <1>1, <1>2, <1>3, <1>4, <1>5, <1>6

\* The positions a queue gives a source or an identity are finitely many.
LEMMA PositionsAreFinite ==
    ASSUME NEW q \in Seq(Owner), NEW x
    PROVE  /\ OfSource(q, x) \in SUBSET (1 .. Len(q))
           /\ OfIdentity(q, x) \in SUBSET (1 .. Len(q))
           /\ IsFiniteSet(OfSource(q, x)) /\ IsFiniteSet(OfIdentity(q, x))
           /\ Cardinality(OfSource(q, x)) \in Nat
           /\ Cardinality(OfIdentity(q, x)) \in Nat
<1>1. Len(q) \in Nat /\ DOMAIN q = 1 .. Len(q)
  BY LenProperties
<1>2. /\ OfSource(q, x) \in SUBSET (1 .. Len(q))
      /\ OfIdentity(q, x) \in SUBSET (1 .. Len(q))
  BY <1>1 DEF OfSource, OfIdentity
<1>3. IsFiniteSet(1 .. Len(q))
  BY <1>1, FS_Interval
<1>4. IsFiniteSet(OfSource(q, x)) /\ IsFiniteSet(OfIdentity(q, x))
  BY <1>2, <1>3, FS_Subset, Zenon
<1>5. QED
  BY <1>2, <1>4, FS_CardinalityType, Zenon

LEMMA AppendedPositions ==
    ASSUME NEW q \in Seq(Owner), NEW o \in Owner, NEW x
    PROVE  /\ OfSource(Append(q, o), x) =
                IF o.channel = x THEN OfSource(q, x) \cup {Len(q) + 1}
                ELSE OfSource(q, x)
           /\ OfIdentity(Append(q, o), x) =
                IF o.id = x THEN OfIdentity(q, x) \cup {Len(q) + 1}
                ELSE OfIdentity(q, x)
<1> DEFINE r == Append(q, o)
<1>1. Len(q) \in Nat /\ DOMAIN q = 1 .. Len(q)
  BY LenProperties
<1>2. /\ r \in Seq(Owner) /\ Len(r) = Len(q) + 1
      /\ \A i \in 1 .. Len(q) : r[i] = q[i]
      /\ r[Len(q) + 1] = o
  BY AppendProperties
<1>3. DOMAIN r = (1 .. Len(q)) \cup {Len(q) + 1}
  <2>1. DOMAIN r = 1 .. Len(q) + 1
    BY <1>2, LenProperties
  <2>2. QED
    BY <1>1, <2>1
<1>4. QED
  <2> HIDE DEF r
  <2>1. OfSource(r, x) = IF o.channel = x THEN OfSource(q, x) \cup {Len(q) + 1}
                         ELSE OfSource(q, x)
    BY <1>1, <1>2, <1>3 DEF OfSource
  <2>2. OfIdentity(r, x) = IF o.id = x THEN OfIdentity(q, x) \cup {Len(q) + 1}
                           ELSE OfIdentity(q, x)
    BY <1>1, <1>2, <1>3 DEF OfIdentity
  <2>3. QED
    BY <2>1, <2>2 DEF r

LEMMA AppendedCount ==
    ASSUME NEW q \in Seq(Owner), NEW o \in Owner, NEW x
    PROVE  /\ Cardinality(OfSource(Append(q, o), x)) =
                IF o.channel = x THEN Cardinality(OfSource(q, x)) + 1
                ELSE Cardinality(OfSource(q, x))
           /\ Cardinality(OfIdentity(Append(q, o), x)) =
                IF o.id = x THEN Cardinality(OfIdentity(q, x)) + 1
                ELSE Cardinality(OfIdentity(q, x))
<1>1. Len(q) + 1 \notin OfSource(q, x) /\ Len(q) + 1 \notin OfIdentity(q, x)
  BY LenProperties DEF OfSource, OfIdentity
<1>2. /\ Cardinality(OfSource(q, x) \cup {Len(q) + 1})
            = Cardinality(OfSource(q, x)) + 1
      /\ Cardinality(OfIdentity(q, x) \cup {Len(q) + 1})
            = Cardinality(OfIdentity(q, x)) + 1
  BY <1>1, PositionsAreFinite, FS_AddElement, Zenon
<1>3. Cardinality(OfSource(Append(q, o), x)) =
          IF o.channel = x THEN Cardinality(OfSource(q, x)) + 1
          ELSE Cardinality(OfSource(q, x))
  <2>1. CASE o.channel = x
    <3>1. OfSource(Append(q, o), x) = OfSource(q, x) \cup {Len(q) + 1}
      BY <2>1, AppendedPositions, Zenon
    <3>2. QED
      BY <1>2, <2>1, <3>1, Zenon
  <2>2. CASE o.channel # x
    <3>1. OfSource(Append(q, o), x) = OfSource(q, x)
      BY <2>2, AppendedPositions, Zenon
    <3>2. QED
      BY <2>2, <3>1, Zenon
  <2>3. QED
    BY <2>1, <2>2
<1>4. Cardinality(OfIdentity(Append(q, o), x)) =
          IF o.id = x THEN Cardinality(OfIdentity(q, x)) + 1
          ELSE Cardinality(OfIdentity(q, x))
  <2>1. CASE o.id = x
    <3>1. OfIdentity(Append(q, o), x) = OfIdentity(q, x) \cup {Len(q) + 1}
      BY <2>1, AppendedPositions, Zenon
    <3>2. QED
      BY <1>2, <2>1, <3>1, Zenon
  <2>2. CASE o.id # x
    <3>1. OfIdentity(Append(q, o), x) = OfIdentity(q, x)
      BY <2>2, AppendedPositions, Zenon
    <3>2. QED
      BY <2>2, <3>1, Zenon
  <2>3. QED
    BY <2>1, <2>2
<1>5. QED
  BY <1>3, <1>4, Zenon

LEMMA RemovedPositions ==
    ASSUME NEW q \in Seq(Owner), NEW k \in 1 .. Len(q), NEW x
    PROVE  /\ OfSource(RemoveAt(q, k), x) =
                Without(OfSource(q, x), Len(q), k)
           /\ OfIdentity(RemoveAt(q, k), x) =
                Without(OfIdentity(q, x), Len(q), k)
<1> DEFINE r == RemoveAt(q, k)
<1>1. Len(q) \in Nat /\ DOMAIN q = 1 .. Len(q)
  BY LenProperties
<1>2. /\ r \in Seq(Owner) /\ Len(r) = Len(q) - 1
      /\ \A j \in 1 .. Len(q) - 1 : r[j] = q[Shift(k, j)]
  BY RemoveAtIs
<1>3. DOMAIN r = 1 .. Len(q) - 1
  BY <1>2, LenProperties
<1>4. \A j \in 1 .. Len(q) - 1 : Shift(k, j) \in 1 .. Len(q)
  BY <1>1, ShiftSkips
<1>5. QED
  <2> HIDE DEF r
  <2>1. OfSource(r, x) =
            Without(OfSource(q, x), Len(q), k)
    BY <1>1, <1>2, <1>3, <1>4 DEF OfSource, Without
  <2>2. OfIdentity(r, x) =
            Without(OfIdentity(q, x), Len(q), k)
    BY <1>1, <1>2, <1>3, <1>4 DEF OfIdentity, Without
  <2>3. QED
    BY <2>1, <2>2 DEF r

LEMMA RemovedCount ==
    ASSUME NEW q \in Seq(Owner), NEW k \in 1 .. Len(q), NEW x
    PROVE  /\ Cardinality(OfSource(RemoveAt(q, k), x)) =
                IF q[k].channel = x THEN Cardinality(OfSource(q, x)) - 1
                ELSE Cardinality(OfSource(q, x))
           /\ Cardinality(OfIdentity(RemoveAt(q, k), x)) =
                IF q[k].id = x THEN Cardinality(OfIdentity(q, x)) - 1
                ELSE Cardinality(OfIdentity(q, x))
<1>1. Len(q) \in Nat
  BY LenProperties
<1>2. /\ k \in OfSource(q, x) <=> q[k].channel = x
      /\ k \in OfIdentity(q, x) <=> q[k].id = x
  BY LenProperties DEF OfSource, OfIdentity
<1>3. Cardinality(Without(OfSource(q, x), Len(q), k))
        = IF k \in OfSource(q, x) THEN Cardinality(OfSource(q, x)) - 1
          ELSE Cardinality(OfSource(q, x))
  BY <1>1, PositionsAreFinite, ShiftedCount, Zenon
<1>4. Cardinality(Without(OfIdentity(q, x), Len(q), k))
        = IF k \in OfIdentity(q, x) THEN Cardinality(OfIdentity(q, x)) - 1
          ELSE Cardinality(OfIdentity(q, x))
  BY <1>1, PositionsAreFinite, ShiftedCount, Zenon
<1>5. QED
  BY <1>2, <1>3, <1>4, RemovedPositions, Zenon

\* A newcomer ranks last of its source, and disturbs nobody.
LEMMA AppendedRank ==
    ASSUME NEW q \in Seq(Owner), NEW o \in Owner
    PROVE  /\ \A k \in 1 .. Len(q) : Rank(Append(q, o), k) = Rank(q, k)
           /\ Rank(Append(q, o), Len(q) + 1)
                = Cardinality(OfSource(q, o.channel)) + 1
<1> DEFINE r == Append(q, o)
<1>1. Len(q) \in Nat /\ DOMAIN q = 1 .. Len(q)
  BY LenProperties
<1>2. /\ r \in Seq(Owner) /\ Len(r) = Len(q) + 1
      /\ \A i \in 1 .. Len(q) : r[i] = q[i]
      /\ r[Len(q) + 1] = o
  BY AppendProperties
<1>3. DOMAIN r = 1 .. Len(q) + 1
  BY <1>2, LenProperties
<1>4. ASSUME NEW k \in 1 .. Len(q)
      PROVE  Rank(r, k) = Rank(q, k)
  <2> HIDE DEF r
  <2>1. {j \in 1 .. k : r[j].channel = r[k].channel}
          = {j \in 1 .. k : q[j].channel = q[k].channel}
    BY <1>1, <1>2
  <2>2. QED
    BY <2>1 DEF Rank
<1>5. Rank(r, Len(q) + 1) = Cardinality(OfSource(r, o.channel))
  <2> HIDE DEF r
  <2>1. {j \in 1 .. Len(q) + 1 : r[j].channel = r[Len(q) + 1].channel}
          = OfSource(r, o.channel)
    BY <1>2, <1>3 DEF OfSource
  <2>2. QED
    BY <2>1 DEF Rank
<1>6. Cardinality(OfSource(r, o.channel))
        = Cardinality(OfSource(q, o.channel)) + 1
  BY AppendedCount
<1>7. QED
  BY <1>4, <1>5, <1>6

\* When an entry goes, those of its source behind it move up by one.
LEMMA RemovedRank ==
    ASSUME NEW q \in Seq(Owner), NEW k \in 1 .. Len(q),
           NEW m \in 1 .. Len(q) - 1
    PROVE  Rank(RemoveAt(q, k), m) =
              IF k <= m /\ q[k].channel = q[m + 1].channel
              THEN Rank(q, m + 1) - 1 ELSE Rank(q, Shift(k, m))
<1> DEFINE r == RemoveAt(q, k)
           M == Shift(k, m)
           A == {j \in 1 .. M : q[j].channel = q[M].channel}
<1>1. Len(q) \in Nat
  BY LenProperties
<1>2. \A j \in 1 .. Len(q) - 1 : r[j] = q[Shift(k, j)]
  BY RemoveAtIs
<1>3. CASE k <= m
  <2>1. M = m + 1 /\ M \in Nat /\ k \in 1 .. M /\ A \in SUBSET (1 .. M)
    BY <1>1, <1>3 DEF Shift
  <2>2. Cardinality(Without(A, M, k))
          = IF k \in A THEN Cardinality(A) - 1 ELSE Cardinality(A)
    <3> HIDE DEF M, A
    <3>1. QED
      BY <2>1, ShiftedCount, Zenon
  <2>3. {j \in 1 .. m : r[j].channel = r[m].channel}
          = Without(A, M, k)
    <3>1. \A j \in 1 .. m : Shift(k, j) \in 1 .. m + 1
      BY <1>1 DEF Shift
    <3>2. M - 1 = m /\ Shift(k, m) = M
      BY <2>1
    <3>3. \A j \in 1 .. m : r[j] = q[Shift(k, j)]
      BY <1>1, <1>2
    <3> HIDE DEF r
    <3>4. r[m] = q[m + 1]
      BY <3>2, <3>3, <2>1
    <3>5. QED
      BY <3>1, <3>2, <3>3, <3>4, <2>1 DEF Without
  <2>4. Rank(r, m) = IF k \in A THEN Rank(q, M) - 1 ELSE Rank(q, M)
    BY <2>2, <2>3, Zenon DEF Rank
  <2>5. k \in A <=> q[k].channel = q[m + 1].channel
    BY <2>1
  <2>6. QED
    <3> HIDE DEF r, A
    <3>1. QED
      BY <2>1, <2>4, <2>5, <1>3 DEF r
<1>4. CASE ~(k <= m)
  <2>1. M = m /\ \A j \in 1 .. m : Shift(k, j) = j
    BY <1>1, <1>4 DEF Shift
  <2>2. \A j \in 1 .. m : r[j] = q[j]
    BY <1>1, <1>2, <2>1
  <2>3. {j \in 1 .. m : r[j].channel = r[m].channel}
          = {j \in 1 .. m : q[j].channel = q[m].channel}
    <3> HIDE DEF r
    <3>1. QED
      BY <2>2
  <2>4. Rank(r, m) = Rank(q, m)
    BY <2>3 DEF Rank
  <2>5. QED
    BY <2>1, <2>4, <1>4
<1>5. QED
  BY <1>3, <1>4

-----------------------------------------------------------------------------
(* All the queues together.                                                *)

Queues == {o \in [Notes -> Seq(Owner)] :
              \A n \in Notes : Len(o[n]) <= OwnersPerNote}

\* OwnersOf, of any queues.
PairsOf(o, c) == {p \in Notes \X (1 .. OwnersPerNote) :
                    p[2] \in OfIdentity(o[p[1]], c)}

LEMMA PairsAreFinite ==
    ASSUME NEW o, NEW c
    PROVE  IsFiniteSet(PairsOf(o, c)) /\ Cardinality(PairsOf(o, c)) \in Nat
<1>1. IsFiniteSet(1 .. OwnersPerNote)
  BY QueueAssumption, FS_Interval
<1>2. IsFiniteSet(Notes \X (1 .. OwnersPerNote))
  BY <1>1, QueueAssumption, FS_Product, Zenon
<1>3. PairsOf(o, c) \in SUBSET (Notes \X (1 .. OwnersPerNote))
  BY DEF PairsOf
<1>4. QED
  BY <1>2, <1>3, FS_Subset, FS_CardinalityType, Zenon

\* The queues after an owner has joined key n's, or its k-th has left.
Joined(q, r, n, o) == r = [q EXCEPT ![n] = Append(@, o)]
Left(q, r, n, k) == r = [q EXCEPT ![n] = RemoveAt(@, k)]

\* c holds one owner more in r than in q if it is the identity i.
CountsOneMore(q, r, c, i) ==
    Cardinality(PairsOf(r, c)) = IF i = c THEN Cardinality(PairsOf(q, c)) + 1
                                 ELSE Cardinality(PairsOf(q, c))

LEMMA AppendedPairs ==
    ASSUME NEW q \in Queues, NEW n \in Notes, NEW o \in Owner, NEW c,
           Len(q[n]) < OwnersPerNote,
           NEW r, Joined(q, r, n, o)
    PROVE  /\ r \in Queues
           /\ CountsOneMore(q, r, c, o.id)
<1> DEFINE k == Len(q[n]) + 1
           S == PairsOf(q, c)
<1>1. q \in [Notes -> Seq(Owner)] /\ \A m \in Notes : Len(q[m]) <= OwnersPerNote
  BY DEF Queues
<1>2. q[n] \in Seq(Owner) /\ Len(q[n]) \in Nat
  BY <1>1, LenProperties
<1>3. Append(q[n], o) \in Seq(Owner) /\ Len(Append(q[n], o)) = k
  BY <1>2, AppendProperties
<1>4. /\ r[n] = Append(q[n], o)
      /\ \A m \in Notes : m # n => r[m] = q[m]
  BY <1>1 DEF Joined
<1>5. r \in Queues
  <2>1. r \in [Notes -> Seq(Owner)]
    BY <1>1, <1>3 DEF Joined
  <2>2. \A m \in Notes : Len(r[m]) <= OwnersPerNote
    BY <1>1, <1>2, <1>3, <1>4, QueueAssumption
  <2>3. QED
    BY <2>1, <2>2 DEF Queues
<1>6. OfIdentity(r[n], c) = IF o.id = c THEN OfIdentity(q[n], c) \cup {k}
                            ELSE OfIdentity(q[n], c)
  <2>1. OfIdentity(Append(q[n], o), c)
            = IF o.id = c THEN OfIdentity(q[n], c) \cup {Len(q[n]) + 1}
              ELSE OfIdentity(q[n], c)
    BY <1>2, AppendedPositions, Zenon
  <2>2. QED
    <3>1. r[n] = Append(q[n], o)
      BY <1>4
    <3>2. QED
      BY <2>1, <3>1
<1>7. k \in 1 .. OwnersPerNote
  BY <1>2, QueueAssumption
<1>8. PairsOf(r, c) = IF o.id = c THEN S \cup {<<n, k>>} ELSE S
  <2> HIDE DEF k
  <2>1. CASE o.id = c
    <3>1. OfIdentity(r[n], c) = OfIdentity(q[n], c) \cup {k}
      BY <1>6, <2>1
    <3>2. \A p \in Notes \X (1 .. OwnersPerNote) :
             p[2] \in OfIdentity(r[p[1]], c)
                <=> p[2] \in OfIdentity(q[p[1]], c) \/ p = <<n, k>>
      <4> SUFFICES ASSUME NEW p \in Notes \X (1 .. OwnersPerNote)
                   PROVE  p[2] \in OfIdentity(r[p[1]], c)
                            <=> p[2] \in OfIdentity(q[p[1]], c) \/ p = <<n, k>>
        OBVIOUS
      <4>1. CASE p[1] = n
        BY <3>1, <4>1
      <4>2. CASE p[1] # n
        BY <1>4, <4>2
      <4>3. QED
        BY <4>1, <4>2
    <3>3. <<n, k>> \in Notes \X (1 .. OwnersPerNote)
      BY <1>7
    <3>4. PairsOf(r, c) = S \cup {<<n, k>>}
      BY <3>2, <3>3 DEF PairsOf
    <3>5. QED
      BY <3>4, <2>1
  <2>2. CASE o.id # c
    BY <1>4, <1>6, <1>7, <2>2 DEF PairsOf
  <2>3. QED
    BY <2>1, <2>2
<1>9. <<n, k>> \notin S
  <2>1. k \notin OfIdentity(q[n], c)
    BY <1>2, PositionsAreFinite
  <2>2. QED
    BY <2>1 DEF PairsOf
<1>10. Cardinality(S \cup {<<n, k>>}) = Cardinality(S) + 1
  <2> HIDE DEF k
  <2>1. QED
    BY <1>9, PairsAreFinite, FS_AddElement, Zenon
<1>11. QED
  <2> HIDE DEF k
  <2>1. QED
    BY <1>5, <1>8, <1>10, Zenon DEF CountsOneMore

\* Where an owner was before the k-th of key n went.
PairBefore(n, k, p) == IF p[1] = n THEN <<n, Shift(k, p[2])>> ELSE p

LEMMA RemovedPairs ==
    ASSUME NEW q \in Queues, NEW n \in Notes, NEW k \in 1 .. Len(q[n]), NEW c,
           NEW r, Left(q, r, n, k)
    PROVE  /\ r \in Queues
           /\ q[n][k].id = c =>
                Cardinality(PairsOf(r, c)) = Cardinality(PairsOf(q, c)) - 1
           /\ q[n][k].id # c =>
                Cardinality(PairsOf(r, c)) = Cardinality(PairsOf(q, c))
<1> DEFINE S == PairsOf(q, c)
           R == PairsOf(r, c)
           T == S \ {<<n, k>>}
           f == [p \in R |-> PairBefore(n, k, p)]
           N == Len(q[n])
<1>1. q \in [Notes -> Seq(Owner)] /\ \A m \in Notes : Len(q[m]) <= OwnersPerNote
  BY DEF Queues
<1>2. q[n] \in Seq(Owner) /\ N \in Nat /\ k \in 1 .. N /\ N <= OwnersPerNote
  BY <1>1, LenProperties
<1>3. RemoveAt(q[n], k) \in Seq(Owner) /\ Len(RemoveAt(q[n], k)) = N - 1
  BY <1>2, RemoveAtIs
<1>4. /\ r[n] = RemoveAt(q[n], k)
      /\ \A m \in Notes : m # n => r[m] = q[m]
  BY <1>1 DEF Left
<1>5. r \in Queues
  <2>1. r \in [Notes -> Seq(Owner)]
    BY <1>1, <1>3 DEF Left
  <2>2. \A m \in Notes : Len(r[m]) <= OwnersPerNote
    BY <1>1, <1>2, <1>3, <1>4, QueueAssumption
  <2>3. QED
    BY <2>1, <2>2 DEF Queues
<1>6. OfIdentity(r[n], c) = Without(OfIdentity(q[n], c), N, k)
  BY <1>2, <1>4, RemovedPositions, Zenon
<1>7. OfIdentity(q[n], c) \in SUBSET (1 .. N)
  BY <1>2, PositionsAreFinite
<1>8. \A p \in R : p = <<p[1], p[2]>> /\ p[1] \in Notes /\ p[2] \in Nat
  BY QueueAssumption DEF PairsOf
<1>9. \A p \in R : p[1] = n => p[2] \in 1 .. N - 1
                               /\ Shift(k, p[2]) \in OfIdentity(q[n], c)
  <2> HIDE DEF N
  <2>1. QED
    BY <1>6 DEF PairsOf, Without
<1>10. f \in [R -> T]
  <2> SUFFICES ASSUME NEW p \in R
               PROVE  PairBefore(n, k, p) \in T
    BY DEF f
  <2>1. CASE p[1] = n
    <3>1. Shift(k, p[2]) \in OfIdentity(q[n], c) /\ Shift(k, p[2]) # k
      BY <1>2, <1>9, <2>1, ShiftSkips
    <3>2. Shift(k, p[2]) \in 1 .. OwnersPerNote
      BY <1>2, <1>7, <3>1, QueueAssumption
    <3>3. QED
      BY <2>1, <3>1, <3>2 DEF PairBefore, PairsOf
  <2>2. CASE p[1] # n
    <3>1. QED
      BY <1>4, <1>8, <2>2 DEF PairBefore, PairsOf
  <2>3. QED
    BY <2>1, <2>2
<1>11. ASSUME NEW p \in R, NEW s \in R, f[p] = f[s]
       PROVE  p = s
  <2>1. PairBefore(n, k, p) = PairBefore(n, k, s)
    BY <1>11
  <2>2. CASE p[1] = n /\ s[1] = n
    <3>1. Shift(k, p[2]) = Shift(k, s[2])
      BY <2>1, <2>2 DEF PairBefore
    <3>2. p[2] = s[2]
      <4> HIDE DEF R
      <4>1. k \in Nat
        BY <1>2
      <4>2. QED
        BY <3>1, <4>1, <1>8, ShiftIsOneToOne
    <3>3. QED
      BY <1>8, <2>2, <3>2
  <2>3. CASE p[1] # n \/ s[1] # n
    <3> HIDE DEF R
    <3>1. QED
      BY <1>8, <2>1, <2>3 DEF PairBefore
  <2>4. QED
    BY <2>2, <2>3
<1>12. ASSUME NEW s \in T
       PROVE  \E p \in R : f[p] = s
  <2>1. /\ s = <<s[1], s[2]>> /\ s[1] \in Notes /\ s[2] \in 1 .. OwnersPerNote
        /\ s[2] \in OfIdentity(q[s[1]], c) /\ s # <<n, k>>
    BY DEF PairsOf
  <2>2. CASE s[1] = n
    <3>1. s[2] \in (1 .. N) \ {k}
      BY <1>7, <2>1, <2>2
    <3>2. PICK j \in 1 .. N - 1 : Shift(k, j) = s[2]
      <4> DEFINE m == s[2]
      <4>1. N \in Nat /\ k \in 1 .. N /\ m \in (1 .. N) \ {k}
        BY <1>2, <3>1
      <4> HIDE DEF N, m
      <4>2. \E j \in 1 .. N - 1 : Shift(k, j) = m
        BY <4>1, ShiftReaches
      <4>3. QED
        BY <4>2 DEF m
    <3>3. j \in OfIdentity(r[n], c) /\ j \in 1 .. OwnersPerNote
      BY <1>2, <1>6, <2>1, <2>2, <3>2, QueueAssumption DEF Without
    <3>4. <<n, j>> \in R
      <4>1. QED
        BY <3>3 DEF PairsOf
    <3>5. PairBefore(n, k, <<n, j>>) = s
      BY <2>1, <2>2, <3>2 DEF PairBefore
    <3>6. QED
      <4> HIDE DEF R
      <4>1. f[<<n, j>>] = s
        BY <3>4, <3>5
      <4>2. QED
        BY <3>4, <4>1
  <2>3. CASE s[1] # n
    <3>1. s \in R
      <4>1. QED
        BY <1>4, <2>1, <2>3 DEF PairsOf
    <3>2. PairBefore(n, k, s) = s
      BY <2>3 DEF PairBefore
    <3>3. QED
      <4> HIDE DEF R
      <4>1. f[s] = s
        BY <3>1, <3>2
      <4>2. QED
        BY <3>1, <4>1
  <2>4. QED
    BY <2>2, <2>3
<1>13. Cardinality(T) = Cardinality(R)
  <2>1. f \in Bijection(R, T)
    <3> HIDE DEF f, R, T
    <3>1. QED
      BY <1>10, <1>11, <1>12 DEF Bijection, Injection, Surjection, IsInjective
  <2>2. IsFiniteSet(R)
    BY PairsAreFinite, Zenon
  <2>3. QED
    <3> HIDE DEF f, R, T
    <3>1. QED
      BY <2>1, <2>2, FS_Bijection, Zenon DEF ExistsBijection
<1>14. Cardinality(T) = IF <<n, k>> \in S THEN Cardinality(S) - 1
                        ELSE Cardinality(S)
  BY PairsAreFinite, FS_RemoveElement, Zenon
<1>15. <<n, k>> \in S <=> q[n][k].id = c
  <2>1. k \in OfIdentity(q[n], c) <=> q[n][k].id = c
    BY <1>2, LenProperties DEF OfIdentity
  <2>2. k \in 1 .. OwnersPerNote
    BY <1>2, QueueAssumption
  <2>3. QED
    BY <2>1, <2>2 DEF PairsOf
<1>16. QED
  BY <1>5, <1>13, <1>14, <1>15, Zenon

-----------------------------------------------------------------------------
(* One source's fingers on a key against its owners in the key's queue.    *)

Bounded(q, f, s) == Cardinality(OfSource(q, s)) <= Len(f)

Matches(q, f, s) ==
    /\ Cardinality(OfSource(q, s)) = Len(f)
    /\ \A k \in OfSource(q, s) : q[k].id = f[Rank(q, k)]

LEMMA RankIsAPlace ==
    ASSUME NEW q \in Seq(Owner), NEW s, NEW k \in OfSource(q, s)
    PROVE  Rank(q, k) \in 1 .. Cardinality(OfSource(q, s))
<1> DEFINE A == {j \in 1 .. k : q[j].channel = q[k].channel}
<1>1. Len(q) \in Nat /\ DOMAIN q = 1 .. Len(q) /\ k \in 1 .. Len(q)
      /\ q[k].channel = s
  BY LenProperties DEF OfSource
<1>2. A \in SUBSET OfSource(q, s) /\ k \in A
  BY <1>1 DEF OfSource
<1>3. IsFiniteSet(A) /\ Cardinality(A) <= Cardinality(OfSource(q, s))
  BY <1>2, PositionsAreFinite, FS_Subset, Zenon
<1>4. Cardinality(A) \in Nat /\ Cardinality(A) # 0
  <2> HIDE DEF A
  <2>1. QED
    BY <1>2, <1>3, FS_CardinalityType, FS_EmptySet
<1>5. Cardinality(OfSource(q, s)) \in Nat
  BY PositionsAreFinite
<1>6. Rank(q, k) = Cardinality(A)
  BY DEF Rank
<1>7. QED
  <2> HIDE DEF A
  <2>1. QED
    BY <1>3, <1>4, <1>5, <1>6

\* With no finger down there is nothing left to match.
LEMMA NoFingersMatch ==
    ASSUME NEW q \in Seq(Owner), NEW s, Bounded(q, <<>>, s)
    PROVE  Matches(q, <<>>, s)
<1>1. Cardinality(OfSource(q, s)) = 0
  BY PositionsAreFinite DEF Bounded
<1>2. OfSource(q, s) = {}
  BY <1>1, PositionsAreFinite, FS_EmptySet, Zenon
<1>3. QED
  BY <1>1, <1>2 DEF Matches

LEMMA PressMatches ==
    ASSUME NEW q \in Seq(Owner), NEW o \in Owner, NEW f \in Seq(Identities)
    PROVE  /\ Bounded(q, f, o.channel)
                => Bounded(Append(q, o), Append(f, o.id), o.channel)
           /\ Matches(q, f, o.channel)
                => Matches(Append(q, o), Append(f, o.id), o.channel)
<1> DEFINE r == Append(q, o)
           g == Append(f, o.id)
           s == o.channel
           c == Cardinality(OfSource(q, s))
<1>1. /\ r \in Seq(Owner) /\ Len(r) = Len(q) + 1
      /\ \A i \in 1 .. Len(q) : r[i] = q[i]
      /\ r[Len(q) + 1] = o
  BY AppendProperties
<1>2. o.id \in Identities
  BY DEF Owner
<1>3. /\ Len(f) \in Nat /\ Len(g) = Len(f) + 1
      /\ \A i \in 1 .. Len(f) : g[i] = f[i]
      /\ g[Len(f) + 1] = o.id
  BY <1>2, AppendProperties, LenProperties
<1>4. c \in Nat /\ Cardinality(OfSource(r, s)) = c + 1
  BY AppendedCount, PositionsAreFinite
<1>5. OfSource(r, s) = OfSource(q, s) \cup {Len(q) + 1}
  BY AppendedPositions
<1>6. OfSource(q, s) \in SUBSET (1 .. Len(q))
  BY PositionsAreFinite
<1>7. ASSUME Bounded(q, f, s) PROVE Bounded(r, g, s)
  <2> HIDE DEF r, g, s
  <2>1. QED
    BY <1>3, <1>4, <1>7 DEF Bounded
<1>8. ASSUME Matches(q, f, s) PROVE Matches(r, g, s)
  <2>1. c = Len(f)
    BY <1>8 DEF Matches
  <2>2. ASSUME NEW k \in OfSource(q, s)
        PROVE  r[k].id = g[Rank(r, k)]
    <3>1. Rank(q, k) \in 1 .. c
      BY RankIsAPlace, Zenon
    <3>2. Rank(r, k) = Rank(q, k)
      BY <1>6, AppendedRank
    <3>3. q[k].id = f[Rank(q, k)]
      BY <1>8 DEF Matches
    <3>4. k \in 1 .. Len(q)
      BY <1>6
    <3> HIDE DEF r, g, s, c
    <3>5. g[Rank(r, k)] = f[Rank(q, k)]
      BY <1>3, <2>1, <3>1, <3>2
    <3>6. r[k] = q[k]
      BY <1>1, <3>4
    <3>7. QED
      BY <3>3, <3>5, <3>6
  <2>3. r[Len(q) + 1].id = g[Rank(r, Len(q) + 1)]
    <3>1. Rank(r, Len(q) + 1) = Len(f) + 1
      BY <2>1, AppendedRank
    <3> HIDE DEF r, g, s, c
    <3>2. QED
      BY <1>1, <1>3, <3>1
  <2>4. QED
    <3> HIDE DEF r, g, s, c
    <3>1. \A k \in OfSource(r, s) : r[k].id = g[Rank(r, k)]
      BY <1>5, <2>2, <2>3
    <3>2. Cardinality(OfSource(r, s)) = Len(g)
      BY <1>3, <1>4, <2>1
    <3>3. QED
      BY <3>1, <3>2 DEF Matches
<1>9. QED
  BY <1>7, <1>8

LEMMA PressLeavesOthers ==
    ASSUME NEW q \in Seq(Owner), NEW o \in Owner, NEW f, NEW t, t # o.channel
    PROVE  /\ Bounded(q, f, t) => Bounded(Append(q, o), f, t)
           /\ Matches(q, f, t) => Matches(Append(q, o), f, t)
<1> DEFINE r == Append(q, o)
<1>1. OfSource(r, t) = OfSource(q, t)
  BY AppendedPositions
<1>2. ASSUME NEW k \in OfSource(q, t)
      PROVE  r[k] = q[k] /\ Rank(r, k) = Rank(q, k)
  <2>1. k \in 1 .. Len(q)
    BY PositionsAreFinite
  <2>2. QED
    BY <2>1, AppendProperties, AppendedRank
<1>3. QED
  <2> HIDE DEF r
  <2>1. /\ Bounded(q, f, t) => Bounded(r, f, t)
        /\ Matches(q, f, t) => Matches(r, f, t)
    BY <1>1, <1>2 DEF Bounded, Matches
  <2>2. QED
    BY <2>1 DEF r

\* The source's oldest owner goes with its oldest finger.
LEMMA LiftMatches ==
    ASSUME NEW q \in Seq(Owner), NEW f \in Seq(Identities), NEW s,
           NEW k \in OfSource(q, s), \A j \in OfSource(q, s) : k <= j,
           Bounded(q, f, s)
    PROVE  /\ f # <<>>
           /\ Bounded(RemoveAt(q, k), Tail(f), s)
           /\ Matches(q, f, s) => Matches(RemoveAt(q, k), Tail(f), s)
<1> DEFINE r == RemoveAt(q, k)
           g == Tail(f)
           c == Cardinality(OfSource(q, s))
<1>1. Len(q) \in Nat /\ k \in 1 .. Len(q) /\ q[k].channel = s
  BY LenProperties DEF OfSource
<1>2. c \in Nat /\ c # 0
  BY PositionsAreFinite, FS_EmptySet
<1>3. Len(f) \in Nat /\ c <= Len(f)
  BY LenProperties DEF Bounded
<1>4. f # <<>>
  BY <1>2, <1>3, EmptySeq
<1>5. /\ Len(g) = Len(f) - 1
      /\ \A i \in 1 .. Len(g) : g[i] = f[i + 1]
  BY <1>4, HeadTailProperties
<1>6. r \in Seq(Owner) /\ Cardinality(OfSource(r, s)) = c - 1
  BY <1>1, RemovedCount, RemoveAtIs
<1>7. Bounded(r, g, s)
  <2> HIDE DEF r, g, c
  <2>1. QED
    BY <1>2, <1>3, <1>5, <1>6 DEF Bounded
<1>8. ASSUME Matches(q, f, s) PROVE Matches(r, g, s)
  <2>1. c = Len(f)
    BY <1>8 DEF Matches
  <2>2. ASSUME NEW m \in OfSource(r, s)
        PROVE  r[m].id = g[Rank(r, m)]
    <3>1. m \in 1 .. Len(q) - 1 /\ Shift(k, m) \in OfSource(q, s)
      BY <1>1, RemovedPositions DEF Without
    <3>2. Shift(k, m) = m + 1 /\ k <= m
      <4>1. k <= Shift(k, m)
        BY <3>1
      <4>2. QED
        BY <1>1, <3>1, <4>1 DEF Shift
    <3>3. m + 1 \in OfSource(q, s) /\ q[m + 1].channel = s
      BY <3>1, <3>2 DEF OfSource
    <3>4. Rank(r, m) = Rank(q, m + 1) - 1
      BY <1>1, <3>1, <3>2, <3>3, RemovedRank
    <3>5. Rank(r, m) \in 1 .. Cardinality(OfSource(r, s))
      <4> HIDE DEF r
      <4>1. QED
        BY <1>6, RankIsAPlace, Zenon
    <3>6. Rank(q, m + 1) \in 1 .. c
      BY <3>3, RankIsAPlace, Zenon
    <3>7. q[m + 1].id = f[Rank(q, m + 1)]
      BY <1>8, <3>3 DEF Matches
    <3>8. r[m] = q[m + 1]
      <4>1. r[m] = q[Shift(k, m)]
        BY <1>1, <3>1, RemoveAtIs
      <4>2. QED
        BY <3>2, <4>1
    <3> HIDE DEF r, g, c
    <3>9. g[Rank(r, m)] = f[Rank(q, m + 1)]
      BY <1>2, <1>5, <1>6, <2>1, <3>4, <3>5, <3>6
    <3>10. QED
      BY <3>7, <3>8, <3>9
  <2>3. QED
    <3> HIDE DEF r, g, c
    <3>1. Cardinality(OfSource(r, s)) = Len(g)
      BY <1>5, <1>6, <2>1
    <3>2. QED
      BY <2>2, <3>1 DEF Matches
<1>9. QED
  BY <1>4, <1>7, <1>8

LEMMA LiftLeavesOthers ==
    ASSUME NEW q \in Seq(Owner), NEW k \in 1 .. Len(q), NEW f, NEW t,
           t # q[k].channel
    PROVE  /\ Bounded(q, f, t) => Bounded(RemoveAt(q, k), f, t)
           /\ Matches(q, f, t) => Matches(RemoveAt(q, k), f, t)
<1> DEFINE r == RemoveAt(q, k)
<1>1. Len(q) \in Nat
  BY LenProperties
<1>2. Cardinality(OfSource(r, t)) = Cardinality(OfSource(q, t))
  BY RemovedCount
<1>3. ASSUME NEW m \in OfSource(r, t)
      PROVE  /\ Shift(k, m) \in OfSource(q, t)
             /\ r[m] = q[Shift(k, m)]
             /\ Rank(r, m) = Rank(q, Shift(k, m))
  <2>1. m \in 1 .. Len(q) - 1 /\ Shift(k, m) \in OfSource(q, t)
    BY RemovedPositions DEF Without
  <2>2. r[m] = q[Shift(k, m)]
    BY <2>1, RemoveAtIs
  <2>3. k <= m => Shift(k, m) = m + 1
    BY <1>1, <2>1 DEF Shift
  <2>4. q[Shift(k, m)].channel = t
    BY <2>1 DEF OfSource
  <2>5. ~(k <= m /\ q[k].channel = q[m + 1].channel)
    BY <2>3, <2>4
  <2>6. Rank(r, m) = Rank(q, Shift(k, m))
    BY <2>1, <2>5, RemovedRank
  <2>7. QED
    BY <2>1, <2>2, <2>6
<1>4. QED
  <2> HIDE DEF r
  <2>1. Bounded(q, f, t) => Bounded(r, f, t)
    BY <1>2 DEF Bounded
  <2>2. Matches(q, f, t) => Matches(r, f, t)
    BY <1>2, <1>3 DEF Matches
  <2>3. QED
    BY <2>1, <2>2 DEF r

\* An owner fewer leaves no more owners than there were.
LEMMA RemovingKeepsBound ==
    ASSUME NEW q \in Seq(Owner), NEW k \in 1 .. Len(q),
           NEW f \in Seq(Identities), NEW t, Bounded(q, f, t)
    PROVE  Bounded(RemoveAt(q, k), f, t)
<1>1. Cardinality(OfSource(q, t)) \in Nat /\ Len(f) \in Nat
  BY PositionsAreFinite, LenProperties
<1>2. QED
  BY <1>1, RemovedCount DEF Bounded

-----------------------------------------------------------------------------
(* The steps that touch the queues.                                        *)

\* The types of what the queues, the totals, the performer and the fingers
\* hold.
OwnerType ==
    /\ owners \in Queues
    /\ totals \in [Channels -> Nat]
    /\ held \in [Notes -> [Identities -> Nat]]
    /\ fingers \in [Notes -> [Sources -> Seq(Identities)]]
    /\ stale \in BOOLEAN

\* The queues against the totals and the performer, and against the fingers.
OwnerInv ==
    /\ OwnerType
    /\ OwnersAgree
    /\ NoteOffKeepsIdentity

LEMMA KeptByKey ==
    NoteOffKeepsIdentity <=>
        \A n \in Notes, s \in Sources :
            /\ Bounded(owners[n], fingers[n][s], s)
            /\ ~stale => Matches(owners[n], fingers[n][s], s)
  BY DEF NoteOffKeepsIdentity, Bounded, Matches

LEMMA AgreeByPairs ==
    OwnersAgree <=>
        /\ \A c \in Channels : totals[c] = Cardinality(PairsOf(owners, c))
        /\ \A n \in Notes, i \in Identities :
                held[n][i] = Cardinality(OfIdentity(owners[n], i))
  BY DEF OwnersAgree, TotalsCountOwners, EveryHeldNoteHasAnOwner, OwnersOf,
         PairsOf

LEMMA LegacyIsNoChannel == Legacy \notin Channels
  BY ChannelAssumption DEF Legacy

\* The identity of an attack is its channel, or the legacy one.
Given(s, i) == i \in Identities /\ (i # Legacy => i = s /\ s \in Channels)

LEMMA AttackIsGiven ==
    ASSUME NEW s \in Sources
    PROVE  Given(s, IF s = Editor THEN Legacy ELSE IdentityFor(s))
  BY DEF Given, Sources, Editor, Legacy, IdentityFor, Identities

LEMMA AcceptKeepsAgreement ==
    ASSUME OwnerType, OwnersAgree, NEW n \in Notes, NEW s \in Sources, NEW i,
           Given(s, i), AcceptNoteOn(n, s, i)
    PROVE  OwnerType' /\ OwnersAgree'
<1> DEFINE o == [channel |-> s, id |-> i]
<1>1. o \in Owner /\ o.id = i
  BY DEF Owner, Given
<1>2. owners \in Queues /\ Len(owners[n]) < OwnersPerNote
      /\ owners' = [owners EXCEPT ![n] = Append(@, o)]
  BY DEF OwnerType, AcceptNoteOn
<1>3. owners' \in Queues
      /\ \A c : Cardinality(PairsOf(owners', c))
                  = IF i = c THEN Cardinality(PairsOf(owners, c)) + 1
                    ELSE Cardinality(PairsOf(owners, c))
  <2> HIDE DEF o
  <2>1. ASSUME NEW c
        PROVE  /\ owners' \in Queues
               /\ CountsOneMore(owners, owners', c, o.id)
    <3>1. Joined(owners, owners', n, o)
      BY <1>2 DEF Joined
    <3>2. o \in Owner /\ owners \in Queues /\ Len(owners[n]) < OwnersPerNote
      BY <1>1, <1>2
    <3>3. QED
      BY <3>1, <3>2, AppendedPairs, Zenon
  <2>2. QED
    BY <1>1, <2>1 DEF CountsOneMore
<1>4. totals' \in [Channels -> Nat]
      /\ \A c \in Channels : totals'[c] = IF i = c THEN totals[c] + 1 ELSE totals[c]
  <2>1. totals \in [Channels -> Nat]
    BY DEF OwnerType
  <2>2. CASE i = Legacy
    BY <2>1, <2>2, LegacyIsNoChannel DEF AcceptNoteOn
  <2>3. CASE i # Legacy
    <3>1. i = s /\ s \in Channels /\ totals' = [totals EXCEPT ![s] = @ + 1]
      BY <2>3 DEF AcceptNoteOn, Given
    <3>2. QED
      BY <2>1, <3>1
  <2>4. QED
    BY <2>2, <2>3
<1>5. held' \in [Notes -> [Identities -> Nat]]
      /\ \A m \in Notes, j \in Identities :
            held'[m][j] = IF m = n /\ j = i THEN held[m][j] + 1 ELSE held[m][j]
  BY DEF OwnerType, AcceptNoteOn, Given
<1>6. fingers' \in [Notes -> [Sources -> Seq(Identities)]]
  <2>1. fingers \in [Notes -> [Sources -> Seq(Identities)]]
    BY DEF OwnerType
  <2>2. Append(fingers[n][s], i) \in Seq(Identities)
    BY <2>1, AppendProperties DEF Given
  <2>3. fingers' = [fingers EXCEPT ![n][s] = Append(@, i)]
    BY DEF AcceptNoteOn, PressFinger
  <2>4. QED
    BY <2>1, <2>2, <2>3
<1>7. OwnerType'
  BY <1>3, <1>4, <1>5, <1>6 DEF OwnerType, AcceptNoteOn
<1>8. \A c \in Channels : totals'[c] = Cardinality(PairsOf(owners', c))
  BY <1>3, <1>4, AgreeByPairs
<1>9. ASSUME NEW m \in Notes, NEW j \in Identities
      PROVE  held'[m][j] = Cardinality(OfIdentity(owners'[m], j))
  <2>1. held[m][j] = Cardinality(OfIdentity(owners[m], j))
    BY AgreeByPairs
  <2>2. owners \in [Notes -> Seq(Owner)]
    BY <1>2 DEF Queues
  <2>3. CASE m = n
    <3>1. owners'[m] = Append(owners[m], o)
      BY <1>2, <2>2, <2>3
    <3>2. owners[m] \in Seq(Owner)
      BY <2>2
    <3> HIDE DEF o
    <3>3. Cardinality(OfIdentity(Append(owners[m], o), j))
            = IF o.id = j THEN Cardinality(OfIdentity(owners[m], j)) + 1
              ELSE Cardinality(OfIdentity(owners[m], j))
      BY <1>1, <3>2, AppendedCount
    <3>4. QED
      BY <1>1, <1>5, <2>1, <2>3, <3>1, <3>3
  <2>4. CASE m # n
    BY <1>2, <1>5, <2>1, <2>2, <2>4
  <2>5. QED
    BY <2>3, <2>4
<1>10. QED
  <2>1. OwnersAgree'
    BY <1>8, <1>9 DEF OwnersAgree, TotalsCountOwners, EveryHeldNoteHasAnOwner,
                      OwnersOf, PairsOf
  <2>2. QED
    BY <1>7, <2>1

LEMMA AcceptKeepsFingers ==
    ASSUME OwnerInv, NEW n \in Notes, NEW s \in Sources, NEW i,
           Given(s, i), AcceptNoteOn(n, s, i)
    PROVE  NoteOffKeepsIdentity'
<1> DEFINE o == [channel |-> s, id |-> i]
<1>1. o \in Owner /\ o.id = i /\ o.channel = s
  BY DEF Owner, Given
<1>2. /\ owners \in [Notes -> Seq(Owner)]
      /\ fingers \in [Notes -> [Sources -> Seq(Identities)]]
      /\ owners' = [owners EXCEPT ![n] = Append(@, o)]
      /\ fingers' = [fingers EXCEPT ![n][s] = Append(@, i)]
      /\ stale' = stale
  BY DEF OwnerInv, OwnerType, Queues, AcceptNoteOn, PressFinger
<1>3. \A m \in Notes, t \in Sources :
          /\ Bounded(owners[m], fingers[m][t], t)
          /\ ~stale => Matches(owners[m], fingers[m][t], t)
  BY KeptByKey DEF OwnerInv
<1>4. ASSUME NEW m \in Notes, NEW t \in Sources
      PROVE  /\ Bounded(owners'[m], fingers'[m][t], t)
             /\ ~stale' => Matches(owners'[m], fingers'[m][t], t)
  <2>1. owners[m] \in Seq(Owner) /\ fingers[m][t] \in Seq(Identities)
    BY <1>2
  <2>2. CASE m = n /\ t = s
    <3>1. owners'[m] = Append(owners[m], o) /\ fingers'[m][t] = Append(fingers[m][t], i)
      BY <1>2, <2>2
    <3> HIDE DEF o
    <3>2. /\ Bounded(Append(owners[m], o), Append(fingers[m][t], o.id), o.channel)
          /\ ~stale => Matches(Append(owners[m], o), Append(fingers[m][t], o.id),
                               o.channel)
      <4>1. /\ Bounded(owners[m], fingers[m][t], o.channel)
            /\ ~stale => Matches(owners[m], fingers[m][t], o.channel)
        BY <1>1, <1>3, <2>2
      <4>2. QED
        BY <1>1, <2>1, <4>1, PressMatches, Zenon
    <3>3. QED
      BY <1>1, <1>2, <2>2, <3>1, <3>2
  <2>3. CASE m = n /\ t # s
    <3>1. owners'[m] = Append(owners[m], o) /\ fingers'[m][t] = fingers[m][t]
      BY <1>2, <2>3
    <3> HIDE DEF o
    <3>2. t # o.channel
      BY <1>1, <2>3
    <3>3. QED
      BY <1>1, <1>2, <1>3, <2>1, <3>1, <3>2, PressLeavesOthers, Zenon
  <2>4. CASE m # n
    <3>1. owners'[m] = owners[m] /\ fingers'[m][t] = fingers[m][t]
      BY <1>2, <2>4
    <3>2. QED
      BY <1>2, <1>3, <3>1
  <2>5. QED
    BY <2>2, <2>3, <2>4
<1>5. QED
  BY <1>4 DEF NoteOffKeepsIdentity, Bounded, Matches

LEMMA DropKeeps ==
    ASSUME OwnerInv, NEW n \in Notes, NEW s \in Sources, NEW i,
           Given(s, i), DropNoteOn(n, s, i)
    PROVE  OwnerInv'
<1>1. /\ owners \in [Notes -> Seq(Owner)]
      /\ fingers \in [Notes -> [Sources -> Seq(Identities)]]
      /\ owners' = owners /\ stale' = TRUE
      /\ fingers' = [fingers EXCEPT ![n][s] = Append(@, i)]
  BY DEF OwnerInv, OwnerType, Queues, DropNoteOn, PressFinger
<1>2. Append(fingers[n][s], i) \in Seq(Identities)
      /\ Len(Append(fingers[n][s], i)) = Len(fingers[n][s]) + 1
      /\ Len(fingers[n][s]) \in Nat
  BY <1>1, AppendProperties, LenProperties DEF Given
<1>3. OwnerType'
  <2>1. fingers' \in [Notes -> [Sources -> Seq(Identities)]]
    BY <1>1, <1>2
  <2>2. QED
    BY <1>1, <2>1 DEF OwnerInv, OwnerType, DropNoteOn
<1>4. OwnersAgree'
  BY DEF OwnerInv, OwnersAgree, TotalsCountOwners, EveryHeldNoteHasAnOwner,
         OwnersOf, DropNoteOn
<1>5. ASSUME NEW m \in Notes, NEW t \in Sources
      PROVE  Bounded(owners'[m], fingers'[m][t], t)
  <2>1. Bounded(owners[m], fingers[m][t], t)
    BY KeptByKey DEF OwnerInv
  <2>2. Cardinality(OfSource(owners[m], t)) \in Nat
    BY <1>1, PositionsAreFinite
  <2>3. CASE m = n /\ t = s
    BY <1>1, <1>2, <2>1, <2>2, <2>3 DEF Bounded
  <2>4. CASE ~(m = n /\ t = s)
    <3>1. fingers'[m][t] = fingers[m][t]
      BY <1>1, <2>4
    <3>2. QED
      BY <1>1, <2>1, <3>1
  <2>5. QED
    BY <2>3, <2>4
<1>6. NoteOffKeepsIdentity'
  BY <1>1, <1>5 DEF NoteOffKeepsIdentity, Bounded
<1>7. QED
  BY <1>3, <1>4, <1>6 DEF OwnerInv

\* Which owner a release takes: the oldest of its source if there is one.
LEMMA TakenOwner ==
    ASSUME OwnerType, NEW n \in Notes, NEW s \in Sources,
           Candidates(n, s, AllowsAnyLegacy(s)) # {},
           NEW k, k = Min(Candidates(n, s, AllowsAnyLegacy(s)))
    PROVE  /\ k \in 1 .. Len(owners[n])
           /\ owners[n][k].id \in Identities
           /\ owners[n][k].channel = s =>
                 /\ k \in OfSource(owners[n], s)
                 /\ \A j \in OfSource(owners[n], s) : k <= j
           /\ owners[n][k].channel # s => OfSource(owners[n], s) = {}
<1> DEFINE q == owners[n]
           ks == Candidates(n, s, AllowsAnyLegacy(s))
<1>1. q \in Seq(Owner) /\ DOMAIN q = 1 .. Len(q) /\ Len(q) \in Nat
  BY LenProperties DEF OwnerType, Queues
<1>2. ks \in SUBSET (1 .. Len(q))
  BY <1>1, PositionsAreFinite DEF Candidates
<1>3. k \in ks /\ \A j \in ks : k <= j
  <2>1. ks \in SUBSET Nat /\ ks # {}
    BY <1>1, <1>2
  <2> HIDE DEF ks
  <2>2. k = Min(ks)
    BY DEF ks
  <2>3. QED
    BY <2>1, <2>2, MinIsLeast
<1>4. OfSource(q, s) # {} => ks = OfSource(q, s)
  BY DEF Candidates
<1>5. k \in 1 .. Len(q) /\ q[k] \in Owner
  BY <1>1, <1>2, <1>3, ElementOfSeq
<1>6. k \in OfSource(q, s) <=> q[k].channel = s
  BY <1>1, <1>5 DEF OfSource
<1>7. q[k].id \in Identities
  BY <1>5 DEF Owner
<1>8. QED
  <2> HIDE DEF ks, q
  <2>1. q[k].channel = s => /\ k \in OfSource(q, s)
                            /\ \A j \in OfSource(q, s) : k <= j
    BY <1>3, <1>4, <1>6
  <2>2. q[k].channel # s => OfSource(q, s) = {}
    BY <1>3, <1>4, <1>6
  <2>3. QED
    BY <1>5, <1>7, <2>1, <2>2, Zenon DEF q

LEMMA LiftType ==
    ASSUME OwnerType, NEW n \in Notes, NEW s \in Sources, LiftFinger(n, s)
    PROVE  /\ fingers' \in [Notes -> [Sources -> Seq(Identities)]]
           /\ fingers'[n][s] = IF fingers[n][s] = <<>> THEN <<>>
                               ELSE Tail(fingers[n][s])
           /\ \A m \in Notes, t \in Sources :
                 ~(m = n /\ t = s) => fingers'[m][t] = fingers[m][t]
<1>1. fingers \in [Notes -> [Sources -> Seq(Identities)]]
      /\ fingers[n][s] \in Seq(Identities)
  BY DEF OwnerType
<1>2. (IF fingers[n][s] = <<>> THEN <<>> ELSE Tail(fingers[n][s]))
          \in Seq(Identities)
  BY <1>1, EmptySeq, HeadTailProperties
<1>3. QED
  BY <1>1, <1>2 DEF LiftFinger

\* When every finger is up, what is bounded is matched.
LEMMA AllUpMatches ==
    ASSUME NEW q \in Queues, NEW f, AllUp(f),
           \A n \in Notes, s \in Sources : Bounded(q[n], f[n][s], s)
    PROVE  \A n \in Notes, s \in Sources : Matches(q[n], f[n][s], s)
<1> SUFFICES ASSUME NEW n \in Notes, NEW s \in Sources
             PROVE  Matches(q[n], f[n][s], s)
  OBVIOUS
<1>1. q[n] \in Seq(Owner) /\ f[n][s] = <<>> /\ Bounded(q[n], f[n][s], s)
  BY DEF Queues, AllUp
<1>2. QED
  BY <1>1, NoFingersMatch

LEMMA UnmatchedKeeps ==
    ASSUME OwnerInv, NEW n \in Notes, NEW s \in Sources, UnmatchedNoteOff(n, s)
    PROVE  OwnerInv'
<1>1. OwnerType /\ LiftFinger(n, s) /\ owners' = owners
      /\ stale' = (stale /\ ~AllUp(fingers'))
  BY DEF OwnerInv, UnmatchedNoteOff
<1>2. /\ owners \in Queues /\ owners \in [Notes -> Seq(Owner)]
      /\ fingers \in [Notes -> [Sources -> Seq(Identities)]]
      /\ stale \in BOOLEAN
  BY <1>1 DEF OwnerType, Queues
<1>3. OwnerType'
  BY <1>1, LiftType DEF OwnerType, UnmatchedNoteOff
<1>4. OwnersAgree'
  BY DEF OwnerInv, OwnersAgree, TotalsCountOwners, EveryHeldNoteHasAnOwner,
         OwnersOf, UnmatchedNoteOff
<1>5. Cardinality(OfSource(owners[n], s)) = 0
  <2>1. OfSource(owners[n], s) = {}
    BY DEF UnmatchedNoteOff, Candidates
  <2>2. QED
    BY <2>1, FS_EmptySet
<1>6. ASSUME NEW m \in Notes, NEW t \in Sources
      PROVE  /\ Bounded(owners'[m], fingers'[m][t], t)
             /\ ~stale => Matches(owners'[m], fingers'[m][t], t)
  <2>1. /\ Bounded(owners[m], fingers[m][t], t)
        /\ ~stale => Matches(owners[m], fingers[m][t], t)
    BY KeptByKey DEF OwnerInv
  <2>2. CASE m = n /\ t = s
    <3>1. fingers'[m][t] \in Seq(Identities) /\ fingers[m][t] \in Seq(Identities)
      BY <1>1, <1>2, LiftType
    <3>2. Len(fingers'[m][t]) \in Nat
      BY <3>1, LenProperties
    <3>3. Bounded(owners'[m], fingers'[m][t], t)
      BY <1>1, <1>5, <2>2, <3>2 DEF Bounded
    <3>4. ASSUME ~stale
          PROVE  fingers'[m][t] = fingers[m][t]
      <4>1. Len(fingers[m][t]) = 0
        BY <1>5, <2>1, <2>2, <3>4 DEF Matches
      <4>2. fingers[m][t] = <<>>
        BY <3>1, <4>1, EmptySeq
      <4>3. QED
        BY <1>1, <2>2, <4>2, LiftType
    <3>5. QED
      BY <1>1, <2>1, <3>3, <3>4
  <2>3. CASE ~(m = n /\ t = s)
    <3>1. fingers'[m][t] = fingers[m][t]
      BY <1>1, <2>3, LiftType
    <3>2. QED
      BY <1>1, <2>1, <3>1
  <2>4. QED
    BY <2>2, <2>3
<1>7. ASSUME AllUp(fingers')
      PROVE  \A m \in Notes, t \in Sources :
                Matches(owners'[m], fingers'[m][t], t)
  BY <1>1, <1>2, <1>6, <1>7, AllUpMatches
<1>8. ~stale' => ~stale \/ AllUp(fingers')
  BY <1>1, <1>2
<1>9. NoteOffKeepsIdentity'
  <2>1. \A m \in Notes, t \in Sources :
            /\ Bounded(owners'[m], fingers'[m][t], t)
            /\ ~stale' => Matches(owners'[m], fingers'[m][t], t)
    BY <1>6, <1>7, <1>8
  <2>2. QED
    BY <2>1 DEF NoteOffKeepsIdentity, Bounded, Matches
<1>10. QED
  BY <1>3, <1>4, <1>9 DEF OwnerInv

LEMMA MatchedKeepsAgreement ==
    ASSUME OwnerInv, NEW n \in Notes, NEW s \in Sources, MatchedNoteOff(n, s)
    PROVE  OwnerType' /\ OwnersAgree'
<1> DEFINE k == Min(Candidates(n, s, AllowsAnyLegacy(s)))
           i == owners[n][k].id
<1>1. OwnerType /\ OwnersAgree
  BY DEF OwnerInv
<1>2. k \in 1 .. Len(owners[n]) /\ i \in Identities
  BY <1>1, TakenOwner DEF MatchedNoteOff
<1>3. /\ owners' = [owners EXCEPT ![n] = RemoveAt(@, k)]
      /\ held' = [held EXCEPT ![n][i] = @ - 1]
      /\ totals' = IF i = Legacy THEN totals ELSE [totals EXCEPT ![i] = @ - 1]
      /\ LiftFinger(n, s)
      /\ stale' \in BOOLEAN
  BY DEF MatchedNoteOff
<1> HIDE DEF k, i
<1>4. /\ owners \in Queues /\ owners \in [Notes -> Seq(Owner)]
      /\ totals \in [Channels -> Nat] /\ held \in [Notes -> [Identities -> Nat]]
  BY <1>1 DEF OwnerType, Queues
<1>5. owners' \in Queues
      /\ \A c : Cardinality(PairsOf(owners', c))
                  = IF i = c THEN Cardinality(PairsOf(owners, c)) - 1
                    ELSE Cardinality(PairsOf(owners, c))
  <2>1. ASSUME NEW c
        PROVE  /\ owners' \in Queues
               /\ owners[n][k].id = c => Cardinality(PairsOf(owners', c))
                                = Cardinality(PairsOf(owners, c)) - 1
               /\ owners[n][k].id # c => Cardinality(PairsOf(owners', c))
                                = Cardinality(PairsOf(owners, c))
    <3>1. Left(owners, owners', n, k)
      BY <1>3 DEF Left
    <3>2. QED
      BY <1>2, <1>4, <3>1, RemovedPairs, Zenon
  <2>2. QED
    BY <2>1 DEF i
<1>6. \A c \in Channels : Cardinality(PairsOf(owners', c)) \in Nat
  BY PairsAreFinite
<1>7. \A c \in Channels : totals'[c] = Cardinality(PairsOf(owners', c))
  <2>1. \A c \in Channels : totals[c] = Cardinality(PairsOf(owners, c))
    BY <1>1, AgreeByPairs
  <2>2. CASE i = Legacy
    BY <1>3, <1>5, <2>1, <2>2, LegacyIsNoChannel
  <2>3. CASE i # Legacy
    <3>1. i \in Channels
      BY <1>2, <2>3 DEF Identities
    <3>2. totals' = [totals EXCEPT ![i] = @ - 1]
      BY <1>3, <2>3
    <3>3. QED
      BY <1>4, <1>5, <2>1, <3>1, <3>2
  <2>4. QED
    BY <2>2, <2>3
<1>8. totals' \in [Channels -> Nat]
  <2>1. totals' = [c \in Channels |-> totals'[c]]
    BY <1>3, <1>4
  <2>2. QED
    BY <1>6, <1>7, <2>1
<1>9. ASSUME NEW m \in Notes, NEW j \in Identities
      PROVE  /\ held'[m][j] = Cardinality(OfIdentity(owners'[m], j))
             /\ held'[m][j] \in Nat
  <2>1. held[m][j] = Cardinality(OfIdentity(owners[m], j))
    BY <1>1, AgreeByPairs
  <2>2. owners'[m] \in Seq(Owner)
    BY <1>5 DEF Queues
  <2>3. Cardinality(OfIdentity(owners'[m], j)) \in Nat
    BY <2>2, PositionsAreFinite
  <2>4. CASE m = n
    <3>1. owners'[m] = RemoveAt(owners[m], k) /\ owners[m] \in Seq(Owner)
      BY <1>3, <1>4, <2>4
    <3>2. Cardinality(OfIdentity(RemoveAt(owners[m], k), j))
            = IF i = j THEN Cardinality(OfIdentity(owners[m], j)) - 1
              ELSE Cardinality(OfIdentity(owners[m], j))
      BY <1>2, <2>4, <3>1, RemovedCount DEF i
    <3>3. held'[m][j] = IF i = j THEN held[m][j] - 1 ELSE held[m][j]
      BY <1>2, <1>3, <1>4, <2>4
    <3>4. QED
      BY <2>1, <2>3, <3>1, <3>2, <3>3
  <2>5. CASE m # n
    BY <1>3, <1>4, <2>1, <2>3, <2>5
  <2>6. QED
    BY <2>4, <2>5
<1>10. held' \in [Notes -> [Identities -> Nat]]
  <2>1. held' = [m \in Notes |-> [j \in Identities |-> held'[m][j]]]
    BY <1>2, <1>3, <1>4
  <2>2. QED
    BY <1>9, <2>1
<1>11. OwnerType'
  BY <1>1, <1>3, <1>5, <1>8, <1>10, LiftType DEF OwnerType
<1>12. OwnersAgree'
  BY <1>7, <1>9 DEF OwnersAgree, TotalsCountOwners, EveryHeldNoteHasAnOwner,
                    OwnersOf, PairsOf
<1>13. QED
  BY <1>11, <1>12

LEMMA MatchedKeepsFingers ==
    ASSUME OwnerInv, NEW n \in Notes, NEW s \in Sources, MatchedNoteOff(n, s)
    PROVE  NoteOffKeepsIdentity'
<1> DEFINE k == Min(Candidates(n, s, AllowsAnyLegacy(s)))
           q == owners[n]
<1>1. OwnerType
  BY DEF OwnerInv
<1>2. /\ k \in 1 .. Len(q)
      /\ q[k].channel = s => /\ k \in OfSource(q, s)
                             /\ \A j \in OfSource(q, s) : k <= j
      /\ q[k].channel # s => OfSource(q, s) = {}
  BY <1>1, TakenOwner, Zenon DEF MatchedNoteOff
<1>3. /\ owners' = [owners EXCEPT ![n] = RemoveAt(@, k)]
      /\ LiftFinger(n, s)
      /\ stale' = ((stale \/ q[k].channel # s) /\ ~AllUp(fingers'))
  BY DEF MatchedNoteOff
<1> HIDE DEF k
<1>4. /\ owners \in [Notes -> Seq(Owner)] /\ q \in Seq(Owner)
      /\ fingers \in [Notes -> [Sources -> Seq(Identities)]]
      /\ stale \in BOOLEAN
  BY <1>1 DEF OwnerType, Queues
<1>5. owners'[n] = RemoveAt(q, k) /\ \A m \in Notes : m # n => owners'[m] = owners[m]
  BY <1>3, <1>4
<1>6. \A m \in Notes, t \in Sources :
          /\ Bounded(owners[m], fingers[m][t], t)
          /\ ~stale => Matches(owners[m], fingers[m][t], t)
  BY KeptByKey DEF OwnerInv
<1>7. /\ fingers'[n][s] = IF fingers[n][s] = <<>> THEN <<>> ELSE Tail(fingers[n][s])
      /\ \A m \in Notes, t \in Sources :
            ~(m = n /\ t = s) => fingers'[m][t] = fingers[m][t]
  BY <1>1, <1>3, LiftType
<1>8. owners' \in Queues /\ owners'[n] \in Seq(Owner)
      /\ fingers' \in [Notes -> [Sources -> Seq(Identities)]]
  BY MatchedKeepsAgreement DEF OwnerType, Queues
<1>9. ASSUME NEW m \in Notes, NEW t \in Sources
      PROVE  /\ Bounded(owners'[m], fingers'[m][t], t)
             /\ ~stale /\ q[k].channel = s
                  => Matches(owners'[m], fingers'[m][t], t)
  <2>1. CASE m = n /\ t = s /\ q[k].channel = s
    <3>1. k \in OfSource(q, s) /\ \A j \in OfSource(q, s) : k <= j
      BY <1>2, <2>1
    <3>2. fingers[n][s] \in Seq(Identities) /\ Bounded(q, fingers[n][s], s)
      BY <1>4, <1>6
    <3>3. /\ fingers[n][s] # <<>>
          /\ Bounded(RemoveAt(q, k), Tail(fingers[n][s]), s)
          /\ Matches(q, fingers[n][s], s)
                => Matches(RemoveAt(q, k), Tail(fingers[n][s]), s)
      <4> HIDE DEF q
      <4>1. q \in Seq(Owner)
        BY <1>4
      <4>2. QED
        BY <3>1, <3>2, <4>1, LiftMatches, Zenon
    <3>4. fingers'[m][t] = Tail(fingers[n][s]) /\ owners'[m] = RemoveAt(q, k)
      BY <1>5, <1>7, <2>1, <3>3
    <3>5. ~stale => Matches(q, fingers[n][s], s)
      BY <1>6
    <3>6. QED
      BY <2>1, <3>3, <3>4, <3>5, Zenon
  <2>2. CASE m = n /\ t = s /\ q[k].channel # s
    <3>1. Cardinality(OfSource(q, s)) = 0
      BY <1>2, <2>2, FS_EmptySet
    <3>2. Cardinality(OfSource(RemoveAt(q, k), s)) = 0
      BY <1>2, <1>4, <2>2, <3>1, RemovedCount
    <3>3. Len(fingers'[m][t]) \in Nat
      BY <1>8, LenProperties
    <3>4. QED
      BY <1>5, <2>2, <3>2, <3>3 DEF Bounded
  <2>3. CASE m = n /\ t # s
    <3>1. owners'[m] = RemoveAt(q, k) /\ fingers'[m][t] = fingers[m][t]
          /\ fingers[m][t] \in Seq(Identities)
      BY <1>4, <1>5, <1>7, <2>3
    <3>2. Bounded(q, fingers[m][t], t)
          /\ (~stale => Matches(q, fingers[m][t], t))
      BY <1>6, <2>3
    <3>3. Bounded(RemoveAt(q, k), fingers[m][t], t)
      BY <1>2, <1>4, <3>1, <3>2, RemovingKeepsBound
    <3>4. q[k].channel = s /\ Matches(q, fingers[m][t], t)
              => Matches(RemoveAt(q, k), fingers[m][t], t)
      BY <1>2, <1>4, <2>3, LiftLeavesOthers
    <3>5. QED
      BY <3>1, <3>2, <3>3, <3>4
  <2>4. CASE m # n
    <3>1. owners'[m] = owners[m] /\ fingers'[m][t] = fingers[m][t]
      BY <1>5, <1>7, <2>4
    <3>2. QED
      BY <1>6, <3>1
  <2>5. QED
    BY <2>1, <2>2, <2>3, <2>4
<1>10. ASSUME AllUp(fingers')
       PROVE  \A m \in Notes, t \in Sources :
                 Matches(owners'[m], fingers'[m][t], t)
  BY <1>8, <1>9, <1>10, AllUpMatches
<1>11. ~stale' => (~stale /\ q[k].channel = s) \/ AllUp(fingers')
  BY <1>3, <1>4
<1>12. \A m \in Notes, t \in Sources :
           /\ Bounded(owners'[m], fingers'[m][t], t)
           /\ ~stale' => Matches(owners'[m], fingers'[m][t], t)
  BY <1>9, <1>10, <1>11
<1>13. QED
  BY <1>12 DEF NoteOffKeepsIdentity, Bounded, Matches

LEMMA ClearKeeps ==
    ASSUME OwnerInv, ClearOwnership
    PROVE  OwnerInv'
<1> DEFINE none == [n \in Notes |-> <<>>]
<1>1. /\ owners' = none
      /\ totals' = [c \in Channels |-> 0]
      /\ held' = [n \in Notes |-> [i \in Identities |-> 0]]
      /\ fingers' = fingers /\ stale' = ~AllUp(fingers)
  BY DEF ClearOwnership
<1>2. fingers \in [Notes -> [Sources -> Seq(Identities)]]
  BY DEF OwnerInv, OwnerType
<1>3. \A x : OfSource(<<>>, x) = {} /\ OfIdentity(<<>>, x) = {}
  BY DEF OfSource, OfIdentity
<1>4. none \in Queues
  <2>1. <<>> \in Seq(Owner) /\ Len(<<>>) = 0
    BY EmptySeq
  <2>2. QED
    BY <2>1, QueueAssumption DEF Queues
<1>5. \A c : PairsOf(none, c) = {}
  BY <1>3 DEF PairsOf
<1>6. OwnerType'
  <2>1. (~AllUp(fingers)) \in BOOLEAN
    BY DEF AllUp
  <2>2. QED
    BY <1>1, <1>2, <1>4, <2>1 DEF OwnerType
<1>7. OwnersAgree'
  <2>1. Cardinality({}) = 0
    BY FS_EmptySet
  <2>2. \A c \in Channels : totals'[c] = Cardinality(PairsOf(owners', c))
    <3> HIDE DEF none
    <3>1. QED
      BY <1>1, <1>5, <2>1
  <2>3. \A n \in Notes, i \in Identities :
            held'[n][i] = Cardinality(OfIdentity(owners'[n], i))
    BY <1>1, <1>3, <2>1
  <2>4. QED
    BY <2>2, <2>3 DEF OwnersAgree, TotalsCountOwners,
                      EveryHeldNoteHasAnOwner, OwnersOf, PairsOf
<1>8. \A n \in Notes, s \in Sources : Bounded(owners'[n], fingers'[n][s], s)
  <2> SUFFICES ASSUME NEW n \in Notes, NEW s \in Sources
               PROVE  Bounded(owners'[n], fingers'[n][s], s)
    OBVIOUS
  <2>1. Cardinality(OfSource(owners'[n], s)) = 0
    BY <1>1, <1>3, FS_EmptySet
  <2>2. Len(fingers'[n][s]) \in Nat
    BY <1>1, <1>2, LenProperties
  <2>3. QED
    BY <2>1, <2>2 DEF Bounded
<1>9. NoteOffKeepsIdentity'
  <2>1. ASSUME AllUp(fingers')
        PROVE  \A n \in Notes, s \in Sources :
                  Matches(owners'[n], fingers'[n][s], s)
    <3>1. owners' \in Queues
      BY <1>1, <1>4
    <3>2. QED
      BY <1>8, <2>1, <3>1, AllUpMatches
  <2>2. ~stale' => AllUp(fingers')
    BY <1>1
  <2>3. QED
    BY <1>8, <2>1, <2>2 DEF NoteOffKeepsIdentity, Bounded, Matches
<1>10. QED
  BY <1>6, <1>7, <1>9 DEF OwnerInv

LEMMA QuietKeeps ==
    ASSUME OwnerInv, UNCHANGED ownerVars
    PROVE  OwnerInv'
<1>1. owners' = owners /\ totals' = totals /\ held' = held
      /\ fingers' = fingers /\ stale' = stale
  BY DEF ownerVars
<1>2. OwnerType'
  BY <1>1 DEF OwnerInv, OwnerType
<1>3. OwnersAgree'
  BY <1>1 DEF OwnerInv, OwnersAgree, TotalsCountOwners,
              EveryHeldNoteHasAnOwner, OwnersOf
<1>4. NoteOffKeepsIdentity'
  BY <1>1 DEF OwnerInv, NoteOffKeepsIdentity
<1>5. QED
  BY <1>2, <1>3, <1>4 DEF OwnerInv

LEMMA OwnerInvStart == MpeInit => OwnerInv
<1> SUFFICES ASSUME MpeInit
             PROVE  OwnerInv
  OBVIOUS
<1>1. /\ owners = [n \in Notes |-> <<>>]
      /\ totals = [c \in Channels |-> 0]
      /\ held = [n \in Notes |-> [i \in Identities |-> 0]]
      /\ fingers = [n \in Notes |-> [s \in Sources |-> <<>>]]
      /\ stale = FALSE
  BY DEF MpeInit
<1>2. \A x : OfSource(<<>>, x) = {} /\ OfIdentity(<<>>, x) = {}
  BY DEF OfSource, OfIdentity
<1>3. Cardinality({}) = 0
  BY FS_EmptySet
<1>4. <<>> \in Seq(Owner) /\ <<>> \in Seq(Identities) /\ Len(<<>>) = 0
  BY EmptySeq
<1>5. OwnerType
  <2>1. owners \in Queues
    BY <1>1, <1>4, QueueAssumption DEF Queues
  <2>2. QED
    BY <1>1, <1>4, <2>1 DEF OwnerType
<1>6. \A c : OwnersOf(c) = {}
  BY <1>1, <1>2 DEF OwnersOf
<1>7. OwnersAgree
  BY <1>1, <1>2, <1>3, <1>6 DEF OwnersAgree, TotalsCountOwners,
                                EveryHeldNoteHasAnOwner
<1>8. NoteOffKeepsIdentity
  <2> SUFFICES ASSUME NEW n \in Notes, NEW s \in Sources
               PROVE  /\ Bounded(owners[n], fingers[n][s], s)
                      /\ ~stale => Matches(owners[n], fingers[n][s], s)
    BY KeptByKey
  <2>1. owners[n] = <<>> /\ fingers[n][s] = <<>>
    BY <1>1
  <2>2. Bounded(<<>>, <<>>, s)
    BY <1>2, <1>3, <1>4 DEF Bounded
  <2>3. QED
    BY <1>4, <2>1, <2>2, NoFingersMatch
<1>9. QED
  BY <1>5, <1>7, <1>8 DEF OwnerInv

LEMMA OwnerInvStep == OwnerInv /\ [MpeNext]_mpeVars => OwnerInv'
<1> SUFFICES ASSUME OwnerInv, [MpeNext]_mpeVars
             PROVE  OwnerInv'
  OBVIOUS
<1>1. ASSUME NEW n \in Notes, NEW s \in Sources, NoteOn(n, s)
      PROVE  OwnerInv'
  <2> DEFINE i == IF s = Editor THEN Legacy ELSE IdentityFor(s)
  <2>1. Given(s, i) /\ (DropNoteOn(n, s, i) \/ AcceptNoteOn(n, s, i))
    BY <1>1, AttackIsGiven DEF NoteOn
  <2> HIDE DEF i
  <2>2. CASE DropNoteOn(n, s, i)
    BY <2>1, <2>2, DropKeeps
  <2>3. CASE AcceptNoteOn(n, s, i)
    BY <2>1, <2>3, AcceptKeepsAgreement, AcceptKeepsFingers DEF OwnerInv
  <2>4. QED
    BY <2>1, <2>2, <2>3
<1>2. ASSUME NEW n \in Notes, NEW s \in Sources, NoteOff(n, s)
      PROVE  OwnerInv'
  <2>1. CASE UnmatchedNoteOff(n, s)
    BY <2>1, UnmatchedKeeps
  <2>2. CASE MatchedNoteOff(n, s)
    BY <2>2, MatchedKeepsAgreement, MatchedKeepsFingers DEF OwnerInv
  <2>3. QED
    BY <1>2, <2>1, <2>2 DEF NoteOff
<1>3. CASE \E z \in Zones, l \in Layouts : ConfigureZone(z, l)
  BY <1>3, QuietKeeps DEF ConfigureZone
<1>4. CASE \E z \in Zones, r \in Ranges :
             SetMemberRange(z, r) \/ SetMasterRange(z, r)
  BY <1>4, QuietKeeps DEF SetMemberRange, SetMasterRange
<1>5. CASE \E c \in Channels, w \in Wheel : PitchWheel(c, w)
  BY <1>5, QuietKeeps DEF PitchWheel
<1>6. CASE \E c \in Channels : Glide(c)
  BY <1>6, QuietKeeps DEF Glide
<1>7. CASE ReleasePlayableNotes \/ AllSoundOff \/ Panic \/ Prepare
  BY <1>7, ClearKeeps DEF ReleasePlayableNotes, AllSoundOff, Panic, Prepare
<1>8. CASE ResetControllers
  BY <1>8, QuietKeeps DEF ResetControllers
<1>9. CASE UNCHANGED mpeVars
  BY <1>9, QuietKeeps DEF mpeVars
<1>10. QED
  BY <1>1, <1>2, <1>3, <1>4, <1>5, <1>6, <1>7, <1>8, <1>9 DEF MpeNext

-----------------------------------------------------------------------------
(* Bends.                                                                  *)

BendInv ==
    /\ totals \in [Channels -> Nat]
    /\ bends \in [Channels -> Wheel]
    /\ OwnedBendIsCurrent

\* A member's bend looks at its own wheel only.
LEMMA BendIsOwn ==
    ASSUME NEW l, NEW ranges, NEW a, NEW b, NEW c, a[c] = b[c]
    PROVE  MemberBend(l, ranges, a, c) = MemberBend(l, ranges, b, c)
  BY DEF MemberBend

\* The wheel of a channel that is no member bends nothing.
LEMMA NoMemberNoBend ==
    ASSUME NEW ranges, NEW a, NEW b, NEW c, ZoneOf(c) = {}
    PROVE  MemberBend(layout, ranges, a, c) = MemberBend(layout, ranges, b, c)
<1>1. c \notin layout["lower"] /\ c \notin layout["upper"]
  BY DEF ZoneOf, Zones
<1>2. QED
  BY <1>1 DEF MemberBend

\* A refreshed channel is bent as it should be.
LEMMA RefreshedIsCurrent ==
    ASSUME NEW cs, Refresh(cs), NEW c \in Channels
    PROVE  /\ c \in cs => target'[c] = MemberBend(layout', memberRange', bends', c)
           /\ c \notin cs => target'[c] = target[c]
  BY DEF Refresh

\* A step that moves no wheel of a channel that keeps a note, and leaves the
\* zones and the targets alone, leaves every owned bend where it should be.
LEMMA StillCurrent ==
    ASSUME OwnedBendIsCurrent, layout' = layout, memberRange' = memberRange,
           NEW c \in Channels, target'[c] = target[c], totals[c] > 0,
           bends'[c] = bends[c]
    PROVE  target'[c] = MemberBend(layout', memberRange', bends', c)
<1>1. target[c] = MemberBend(layout, memberRange, bends, c)
  BY DEF OwnedBendIsCurrent
<1>2. MemberBend(layout, memberRange, bends', c)
          = MemberBend(layout, memberRange, bends, c)
  BY BendIsOwn
<1>3. QED
  BY <1>1, <1>2

LEMMA EveryRefreshIsCurrent ==
    ASSUME Refresh(Channels)
    PROVE  OwnedBendIsCurrent'
  BY RefreshedIsCurrent DEF OwnedBendIsCurrent

LEMMA UntouchedBends ==
    ASSUME BendInv, UNCHANGED <<layout, memberRange, bends, totals, target>>
    PROVE  BendInv'
  BY DEF BendInv, OwnedBendIsCurrent

LEMMA NobodyOwnsBends ==
    ASSUME totals' = [c \in Channels |-> 0]
    PROVE  totals' \in [Channels -> Nat] /\ OwnedBendIsCurrent'
  BY DEF OwnedBendIsCurrent

LEMMA AcceptBends ==
    ASSUME BendInv, NEW n \in Notes, NEW s \in Sources, NEW i,
           Given(s, i), AcceptNoteOn(n, s, i)
    PROVE  BendInv'
<1>1. /\ layout' = layout /\ memberRange' = memberRange /\ bends' = bends
      /\ totals \in [Channels -> Nat] /\ bends \in [Channels -> Wheel]
  BY DEF AcceptNoteOn, BendInv, zoneVars
<1>2. CASE i = Legacy
  BY <1>1, <1>2, UntouchedBends DEF AcceptNoteOn, engineVars
<1>3. CASE i # Legacy
  <2>1. s \in Channels /\ totals' = [totals EXCEPT ![s] = @ + 1]
    BY <1>3 DEF Given, AcceptNoteOn
  <2>2. totals' \in [Channels -> Nat]
        /\ \A c \in Channels : c # s => totals'[c] = totals[c]
    BY <1>1, <2>1
  <2>3. ASSUME NEW c \in Channels, totals'[c] > 0
        PROVE  target'[c] = MemberBend(layout', memberRange', bends', c)
    <3>1. CASE totals[s] > 0
      <4>1. target' = target /\ totals[c] > 0
        BY <1>3, <2>2, <2>3, <3>1 DEF AcceptNoteOn, engineVars
      <4>2. QED
        BY <1>1, <4>1, StillCurrent DEF BendInv
    <3>2. CASE ~(totals[s] > 0)
      <4>1. Refresh({s})
        BY <1>3, <3>2 DEF AcceptNoteOn
      <4>2. CASE c = s
        BY <4>1, <4>2, RefreshedIsCurrent
      <4>3. CASE c # s
        <5>1. target'[c] = target[c] /\ totals[c] > 0
          BY <2>2, <2>3, <4>1, <4>3, RefreshedIsCurrent
        <5>2. QED
          BY <1>1, <5>1, StillCurrent DEF BendInv
      <4>4. QED
        BY <4>2, <4>3
    <3>3. QED
      BY <3>1, <3>2
  <2>4. QED
    BY <1>1, <2>2, <2>3 DEF BendInv, OwnedBendIsCurrent
<1>4. QED
  BY <1>2, <1>3

LEMMA MatchedBends ==
    ASSUME BendInv, OwnerType, OwnerType', NEW n \in Notes, NEW s \in Sources,
           MatchedNoteOff(n, s)
    PROVE  BendInv'
<1> DEFINE k == Min(Candidates(n, s, AllowsAnyLegacy(s)))
           i == owners[n][k].id
<1>1. i \in Identities
  BY TakenOwner DEF MatchedNoteOff
<1>2. /\ totals' = IF i = Legacy THEN totals ELSE [totals EXCEPT ![i] = @ - 1]
      /\ bends' = IF i # Legacy /\ totals[i] = 1 THEN [bends EXCEPT ![i] = 0]
                  ELSE bends
      /\ layout' = layout /\ memberRange' = memberRange /\ target' = target
  BY DEF MatchedNoteOff, zoneVars, engineVars
<1> HIDE DEF i
<1>3. totals \in [Channels -> Nat] /\ bends \in [Channels -> Wheel]
      /\ totals' \in [Channels -> Nat]
  BY DEF BendInv, OwnerType
<1>4. CASE i = Legacy
  BY <1>2, <1>4, UntouchedBends
<1>5. CASE i # Legacy
  <2>1. i \in Channels
    BY <1>1, <1>5 DEF Identities
  <2>2. totals' = [totals EXCEPT ![i] = @ - 1]
    BY <1>2, <1>5
  <2>3. bends' \in [Channels -> Wheel]
    BY <1>2, <1>3, <2>1, RangeAssumption
  <2>4. ASSUME NEW c \in Channels, totals'[c] > 0
        PROVE  totals[c] > 0 /\ bends'[c] = bends[c]
    <3>1. CASE c = i
      <4>1. totals'[i] = totals[i] - 1 /\ totals[i] \in Nat
        BY <1>3, <2>1, <2>2
      <4>2. totals[i] # 1 /\ totals[i] > 0
        BY <2>4, <3>1, <4>1
      <4>3. QED
        BY <1>2, <3>1, <4>2
    <3>2. CASE c # i
      BY <1>2, <1>3, <2>2, <2>4, <3>2
    <3>3. QED
      BY <3>1, <3>2
  <2>5. OwnedBendIsCurrent'
    <3> SUFFICES ASSUME NEW c \in Channels, totals'[c] > 0
                 PROVE  target'[c] = MemberBend(layout', memberRange', bends', c)
      BY DEF OwnedBendIsCurrent
    <3>1. QED
      BY <1>2, <2>4, StillCurrent DEF BendInv
  <2>6. QED
    BY <1>3, <2>3, <2>5 DEF BendInv
<1>6. QED
  BY <1>4, <1>5

LEMMA WheelBends ==
    ASSUME BendInv, NEW c \in Channels, NEW w \in Wheel, PitchWheel(c, w)
    PROVE  BendInv'
<1>1. /\ bends' = [bends EXCEPT ![c] = w] /\ totals' = totals
      /\ layout' = layout /\ memberRange' = memberRange
  BY DEF PitchWheel, zoneVars, ownerVars
<1>2. /\ totals' \in [Channels -> Nat] /\ bends' \in [Channels -> Wheel]
      /\ \A d \in Channels : d # c => bends'[d] = bends[d]
  BY <1>1 DEF BendInv
<1>3. ASSUME NEW d \in Channels, totals'[d] > 0
      PROVE  target'[d] = MemberBend(layout', memberRange', bends', d)
  <2>1. totals[d] > 0 /\ OwnedBendIsCurrent
    BY <1>1, <1>3 DEF BendInv
  <2>2. CASE ZoneOf(c) = {} /\ ~ActiveMaster(c)
    <3>1. target' = target
      BY <2>2 DEF PitchWheel
    <3>2. CASE d = c
      <4>1. MemberBend(layout, memberRange, bends, c)
              = MemberBend(layout, memberRange, bends', c)
        BY <2>2, NoMemberNoBend
      <4>2. QED
        BY <1>1, <2>1, <3>1, <3>2, <4>1 DEF OwnedBendIsCurrent
    <3>3. CASE d # c
      BY <1>1, <1>2, <2>1, <3>1, <3>3, StillCurrent
    <3>4. QED
      BY <3>2, <3>3
  <2>3. CASE ZoneOf(c) # {}
    <3>1. Refresh({c})
      BY <2>3 DEF PitchWheel
    <3>2. CASE d = c
      BY <3>1, <3>2, RefreshedIsCurrent
    <3>3. CASE d # c
      <4>1. target'[d] = target[d]
        BY <3>1, <3>3, RefreshedIsCurrent
      <4>2. QED
        BY <1>1, <1>2, <2>1, <3>3, <4>1, StillCurrent
    <3>4. QED
      BY <3>2, <3>3
  <2>4. CASE ZoneOf(c) = {} /\ ActiveMaster(c)
    <3>1. Refresh(Channels)
      BY <2>4 DEF PitchWheel
    <3>2. QED
      BY <3>1, RefreshedIsCurrent
  <2>5. QED
    BY <2>2, <2>3, <2>4
<1>4. QED
  BY <1>2, <1>3 DEF BendInv, OwnedBendIsCurrent

LEMMA ResetBends ==
    ASSUME BendInv
    PROVE  /\ ClearedBends \in [Channels -> Wheel]
           /\ [c \in Channels |-> 0] \in [Channels -> Wheel]
  BY RangeAssumption DEF BendInv, ClearedBends

LEMMA BendInvStart == MpeInit => BendInv
  BY RangeAssumption DEF MpeInit, BendInv, OwnedBendIsCurrent

LEMMA BendInvStep == BendInv /\ OwnerInv /\ OwnerInv' /\ [MpeNext]_mpeVars => BendInv'
<1> SUFFICES ASSUME BendInv, OwnerInv, OwnerInv', [MpeNext]_mpeVars
             PROVE  BendInv'
  OBVIOUS
<1>1. ASSUME NEW n \in Notes, NEW s \in Sources, NoteOn(n, s)
      PROVE  BendInv'
  <2> DEFINE i == IF s = Editor THEN Legacy ELSE IdentityFor(s)
  <2>1. Given(s, i) /\ (DropNoteOn(n, s, i) \/ AcceptNoteOn(n, s, i))
    BY <1>1, AttackIsGiven DEF NoteOn
  <2> HIDE DEF i
  <2>2. CASE DropNoteOn(n, s, i)
    BY <2>2, UntouchedBends DEF DropNoteOn, zoneVars, engineVars
  <2>3. CASE AcceptNoteOn(n, s, i)
    BY <2>1, <2>3, AcceptBends
  <2>4. QED
    BY <2>1, <2>2, <2>3
<1>2. ASSUME NEW n \in Notes, NEW s \in Sources, NoteOff(n, s)
      PROVE  BendInv'
  <2>1. CASE UnmatchedNoteOff(n, s)
    BY <2>1, UntouchedBends DEF UnmatchedNoteOff, zoneVars, engineVars
  <2>2. CASE MatchedNoteOff(n, s)
    BY <2>2, MatchedBends DEF OwnerInv
  <2>3. QED
    BY <1>2, <2>1, <2>2 DEF NoteOff
<1>3. ASSUME Refresh(Channels), UNCHANGED <<bends, ownerVars>>
      PROVE  BendInv'
  BY <1>3, EveryRefreshIsCurrent DEF BendInv, ownerVars
<1>4. CASE \E z \in Zones, l \in Layouts : ConfigureZone(z, l)
  BY <1>3, <1>4 DEF ConfigureZone
<1>5. CASE \E z \in Zones, r \in Ranges :
             SetMemberRange(z, r) \/ SetMasterRange(z, r)
  BY <1>3, <1>5 DEF SetMemberRange, SetMasterRange
<1>6. CASE \E c \in Channels, w \in Wheel : PitchWheel(c, w)
  BY <1>6, WheelBends
<1>7. CASE \E c \in Channels : Glide(c)
  BY <1>7, UntouchedBends DEF Glide, zoneVars, ownerVars
<1>8. CASE ReleasePlayableNotes \/ AllSoundOff \/ Panic \/ Prepare
  <2>1. totals' = [c \in Channels |-> 0]
    BY <1>8 DEF ReleasePlayableNotes, AllSoundOff, Panic, Prepare, ClearOwnership
  <2>2. bends' = ClearedBends \/ bends' = [c \in Channels |-> 0]
    BY <1>8 DEF ReleasePlayableNotes, AllSoundOff, Panic, Prepare
  <2>3. bends' \in [Channels -> Wheel]
    BY <2>2, ResetBends
  <2>4. QED
    BY <2>1, <2>3, NobodyOwnsBends DEF BendInv
<1>9. CASE ResetControllers
  <2>1. Refresh(Channels) /\ totals' = totals /\ bends' = [c \in Channels |-> 0]
    BY <1>9 DEF ResetControllers, ownerVars
  <2>2. QED
    BY <2>1, ResetBends, EveryRefreshIsCurrent DEF BendInv
<1>10. CASE UNCHANGED mpeVars
  BY <1>10, UntouchedBends DEF mpeVars, zoneVars, ownerVars, engineVars
<1>11. QED
  BY <1>1, <1>2, <1>4, <1>5, <1>6, <1>7, <1>8, <1>9, <1>10 DEF MpeNext

-----------------------------------------------------------------------------
(* A member and its master's wheel.                                        *)

FollowsOrLetGo ==
    \A c \in Channels : FollowsMaster(c) => FollowsMaster(c)' \/ MasterLetsGo(c)

LayoutAllowed == layout \in Layouts

\* A step that moves no wheel of the channel's master, and leaves the zones,
\* the ranges and the target alone, leaves the channel bent by its master.
LEMMA StillFollows ==
    ASSUME layout' = layout, masterRange' = masterRange,
           NEW c \in Channels, FollowsMaster(c), totals[c] > 0,
           masterTarget'[c] = masterTarget[c],
           \A z \in Zones : c \in layout[z] /\ Master[z] \in Channels
                               => bends'[Master[z]] = bends[Master[z]]
    PROVE  FollowsMaster(c)'
<1>1. masterTarget[c] = MasterBend(layout, masterRange, bends, c)
  BY DEF FollowsMaster
<1>2. MasterBend(layout, masterRange, bends', c)
         = MasterBend(layout, masterRange, bends, c)
  BY DEF MasterBend, Zones
<1>3. QED
  BY <1>1, <1>2 DEF FollowsMaster

LEMMA RefreshedFollows ==
    ASSUME NEW cs, Refresh(cs), NEW c \in Channels
    PROVE  /\ c \in cs => FollowsMaster(c)'
           /\ c \notin cs => masterTarget'[c] = masterTarget[c]
  BY DEF Refresh, FollowsMaster

LEMMA EveryRefreshFollows ==
    ASSUME Refresh(Channels)
    PROVE  FollowsOrLetGo
  BY RefreshedFollows DEF FollowsOrLetGo

LEMMA UntouchedFollows ==
    ASSUME UNCHANGED <<layout, masterRange, bends, totals, masterTarget>>
    PROVE  FollowsOrLetGo
  BY DEF FollowsOrLetGo, FollowsMaster

LEMMA NobodyFollows ==
    ASSUME totals' = [c \in Channels |-> 0]
    PROVE  FollowsOrLetGo
  BY DEF FollowsOrLetGo, FollowsMaster

LEMMA AcceptFollows ==
    ASSUME OwnerType, NEW n \in Notes, NEW s \in Sources, NEW i,
           Given(s, i), AcceptNoteOn(n, s, i)
    PROVE  FollowsOrLetGo
<1>1. /\ layout' = layout /\ masterRange' = masterRange /\ bends' = bends
      /\ totals \in [Channels -> Nat]
  BY DEF AcceptNoteOn, OwnerType, zoneVars
<1>2. CASE i = Legacy
  BY <1>1, <1>2, UntouchedFollows DEF AcceptNoteOn, engineVars
<1>3. CASE i # Legacy
  <2>1. s \in Channels /\ totals' = [totals EXCEPT ![s] = @ + 1]
    BY <1>3 DEF Given, AcceptNoteOn
  <2>2. \A c \in Channels : c # s => totals'[c] = totals[c]
    BY <1>1, <2>1
  <2> SUFFICES ASSUME NEW c \in Channels, FollowsMaster(c), totals'[c] > 0
               PROVE  FollowsMaster(c)'
    BY DEF FollowsOrLetGo, FollowsMaster
  <2>3. CASE totals[s] > 0
    <3>1. masterTarget' = masterTarget /\ totals[c] > 0
      BY <1>3, <2>2, <2>3 DEF AcceptNoteOn, engineVars
    <3>2. QED
      BY <1>1, <3>1, StillFollows
  <2>4. CASE ~(totals[s] > 0)
    <3>1. Refresh({s})
      BY <1>3, <2>4 DEF AcceptNoteOn
    <3>2. CASE c = s
      BY <3>1, <3>2, RefreshedFollows
    <3>3. CASE c # s
      <4>1. masterTarget'[c] = masterTarget[c] /\ totals[c] > 0
        BY <2>2, <3>1, <3>3, RefreshedFollows
      <4>2. QED
        BY <1>1, <4>1, StillFollows
    <3>4. QED
      BY <3>2, <3>3
  <2>5. QED
    BY <2>3, <2>4
<1>4. QED
  BY <1>2, <1>3

LEMMA MatchedFollows ==
    ASSUME OwnerType, NEW n \in Notes, NEW s \in Sources, MatchedNoteOff(n, s)
    PROVE  FollowsOrLetGo
<1> DEFINE k == Min(Candidates(n, s, AllowsAnyLegacy(s)))
           i == owners[n][k].id
<1>1. i \in Identities
  BY TakenOwner DEF MatchedNoteOff
<1>2. /\ totals' = IF i = Legacy THEN totals ELSE [totals EXCEPT ![i] = @ - 1]
      /\ bends' = IF i # Legacy /\ totals[i] = 1 THEN [bends EXCEPT ![i] = 0]
                  ELSE bends
      /\ layout' = layout /\ masterRange' = masterRange
      /\ masterTarget' = masterTarget
  BY DEF MatchedNoteOff, zoneVars, engineVars
<1> HIDE DEF i
<1>3. totals \in [Channels -> Nat]
  BY DEF OwnerType
<1>4. CASE i = Legacy
  BY <1>2, <1>4, UntouchedFollows
<1>5. CASE i # Legacy
  <2>1. i \in Channels
    BY <1>1, <1>5 DEF Identities
  <2>2. totals' = [totals EXCEPT ![i] = @ - 1]
    BY <1>2, <1>5
  <2> SUFFICES ASSUME NEW c \in Channels, FollowsMaster(c), totals'[c] > 0,
                      ~MasterLetsGo(c)
               PROVE  FollowsMaster(c)'
    BY DEF FollowsOrLetGo, FollowsMaster
  <2>3. totals[c] > 0
    <3>1. CASE c = i
      <4>1. totals'[i] = totals[i] - 1 /\ totals[i] \in Nat
        BY <1>3, <2>1, <2>2
      <4>2. QED
        BY <3>1, <4>1
    <3>2. CASE c # i
      BY <1>3, <2>2, <3>2
    <3>3. QED
      BY <3>1, <3>2
  <2>4. ASSUME NEW z \in Zones, c \in layout[z], Master[z] \in Channels
        PROVE  bends'[Master[z]] = bends[Master[z]]
    <3>1. CASE Master[z] = i
      <4>1. ~(totals[i] > 0 /\ totals'[i] = 0)
        BY <2>4, <3>1 DEF MasterLetsGo
      <4>2. totals'[i] = totals[i] - 1 /\ totals[i] \in Nat
        BY <1>3, <2>1, <2>2
      <4>3. totals[i] # 1
        BY <4>1, <4>2
      <4>4. QED
        BY <1>2, <4>3
    <3>2. CASE Master[z] # i
      BY <1>2, <3>2
    <3>3. QED
      BY <3>1, <3>2
  <2>5. QED
    BY <1>2, <2>3, <2>4, StillFollows
<1>6. QED
  BY <1>4, <1>5

LEMMA WheelFollows ==
    ASSUME LayoutAllowed, NEW x \in Channels, NEW w \in Wheel, PitchWheel(x, w)
    PROVE  FollowsOrLetGo
<1>1. /\ bends' = [bends EXCEPT ![x] = w] /\ totals' = totals
      /\ layout' = layout /\ masterRange' = masterRange
  BY DEF PitchWheel, zoneVars, ownerVars
<1> SUFFICES ASSUME NEW c \in Channels, FollowsMaster(c), totals'[c] > 0
             PROVE  FollowsMaster(c)'
  BY DEF FollowsOrLetGo, FollowsMaster
<1>2. totals[c] > 0
  BY <1>1
<1>3. ASSUME \A z \in Zones : c \in layout[z] => Master[z] # x,
             masterTarget'[c] = masterTarget[c]
      PROVE  FollowsMaster(c)'
  <2>1. \A z \in Zones : c \in layout[z] /\ Master[z] \in Channels
                            => bends'[Master[z]] = bends[Master[z]]
    BY <1>1, <1>3
  <2>2. QED
    BY <1>1, <1>2, <1>3, <2>1, StillFollows
<1>4. CASE ZoneOf(x) = {} /\ ~ActiveMaster(x)
  <2>1. masterTarget' = masterTarget
    BY <1>4 DEF PitchWheel
  <2>2. \A z \in Zones : c \in layout[z] => Master[z] # x
    BY <1>4 DEF ActiveMaster
  <2>3. QED
    BY <1>3, <2>1, <2>2
<1>5. CASE ZoneOf(x) # {}
  <2>1. Refresh({x})
    BY <1>5 DEF PitchWheel
  <2>2. x \in layout["lower"] \cup layout["upper"]
    BY <1>5 DEF ZoneOf, Zones
  <2>3. \A z \in Zones : c \in layout[z] => Master[z] # x
    BY <2>2, LayoutAssumption DEF LayoutAllowed, Zones, Master
  <2>4. CASE c = x
    BY <2>1, <2>4, RefreshedFollows
  <2>5. CASE c # x
    BY <1>3, <2>1, <2>3, <2>5, RefreshedFollows
  <2>6. QED
    BY <2>4, <2>5
<1>6. CASE ZoneOf(x) = {} /\ ActiveMaster(x)
  <2>1. Refresh(Channels)
    BY <1>6 DEF PitchWheel
  <2>2. QED
    BY <2>1, RefreshedFollows
<1>7. QED
  BY <1>4, <1>5, <1>6

LEMMA FollowsStep ==
    LayoutAllowed /\ OwnerInv /\ [MpeNext]_mpeVars => FollowsOrLetGo
<1> SUFFICES ASSUME LayoutAllowed, OwnerInv, [MpeNext]_mpeVars
             PROVE  FollowsOrLetGo
  OBVIOUS
<1>1. ASSUME NEW n \in Notes, NEW s \in Sources, NoteOn(n, s)
      PROVE  FollowsOrLetGo
  <2> DEFINE i == IF s = Editor THEN Legacy ELSE IdentityFor(s)
  <2>1. Given(s, i) /\ (DropNoteOn(n, s, i) \/ AcceptNoteOn(n, s, i))
    BY <1>1, AttackIsGiven DEF NoteOn
  <2> HIDE DEF i
  <2>2. CASE DropNoteOn(n, s, i)
    BY <2>2, UntouchedFollows DEF DropNoteOn, zoneVars, engineVars
  <2>3. CASE AcceptNoteOn(n, s, i)
    BY <2>1, <2>3, AcceptFollows DEF OwnerInv
  <2>4. QED
    BY <2>1, <2>2, <2>3
<1>2. ASSUME NEW n \in Notes, NEW s \in Sources, NoteOff(n, s)
      PROVE  FollowsOrLetGo
  <2>1. CASE UnmatchedNoteOff(n, s)
    BY <2>1, UntouchedFollows DEF UnmatchedNoteOff, zoneVars, engineVars
  <2>2. CASE MatchedNoteOff(n, s)
    BY <2>2, MatchedFollows DEF OwnerInv
  <2>3. QED
    BY <1>2, <2>1, <2>2 DEF NoteOff
<1>3. CASE \E z \in Zones, l \in Layouts : ConfigureZone(z, l)
  BY <1>3, EveryRefreshFollows DEF ConfigureZone
<1>4. CASE \E z \in Zones, r \in Ranges :
             SetMemberRange(z, r) \/ SetMasterRange(z, r)
  BY <1>4, EveryRefreshFollows DEF SetMemberRange, SetMasterRange
<1>5. CASE \E c \in Channels, w \in Wheel : PitchWheel(c, w)
  BY <1>5, WheelFollows
<1>6. CASE \E c \in Channels : Glide(c)
  BY <1>6, UntouchedFollows DEF Glide, zoneVars, ownerVars
<1>7. CASE ReleasePlayableNotes \/ AllSoundOff \/ Panic \/ Prepare
  BY <1>7, NobodyFollows DEF ReleasePlayableNotes, AllSoundOff, Panic, Prepare,
                             ClearOwnership
<1>8. CASE ResetControllers
  BY <1>8, EveryRefreshFollows DEF ResetControllers
<1>9. CASE UNCHANGED mpeVars
  BY <1>9, UntouchedFollows DEF mpeVars, zoneVars, ownerVars, engineVars
<1>10. QED
  BY <1>1, <1>2, <1>3, <1>4, <1>5, <1>6, <1>7, <1>8, <1>9 DEF MpeNext

LEMMA LayoutStart == MpeInit => LayoutAllowed
  BY LayoutAssumption DEF MpeInit, LayoutAllowed

LEMMA LayoutStep == LayoutAllowed /\ [MpeNext]_mpeVars => LayoutAllowed'
<1> SUFFICES ASSUME LayoutAllowed, [MpeNext]_mpeVars
             PROVE  layout' = layout \/ layout' \in Layouts
  BY DEF LayoutAllowed
<1>1. CASE \E n \in Notes, s \in Sources : NoteOn(n, s) \/ NoteOff(n, s)
  <2>1. PICK n \in Notes, s \in Sources : NoteOn(n, s) \/ NoteOff(n, s)
    BY <1>1
  <2>2. CASE NoteOn(n, s)
    BY <2>2 DEF NoteOn, DropNoteOn, AcceptNoteOn, zoneVars
  <2>3. CASE NoteOff(n, s)
    BY <2>3 DEF NoteOff, UnmatchedNoteOff, MatchedNoteOff, zoneVars
  <2>4. QED
    BY <2>1, <2>2, <2>3
<1>2. CASE \E z \in Zones, l \in Layouts : ConfigureZone(z, l)
  BY <1>2 DEF ConfigureZone
<1>3. CASE \E z \in Zones, r \in Ranges :
             SetMemberRange(z, r) \/ SetMasterRange(z, r)
  BY <1>3 DEF SetMemberRange, SetMasterRange
<1>4. CASE \E c \in Channels, w \in Wheel : PitchWheel(c, w)
  BY <1>4 DEF PitchWheel, zoneVars
<1>5. CASE \E c \in Channels : Glide(c)
  BY <1>5 DEF Glide, zoneVars
<1>6. CASE ReleasePlayableNotes \/ AllSoundOff \/ Panic \/ ResetControllers \/ Prepare
  BY <1>6 DEF ReleasePlayableNotes, AllSoundOff, Panic, ResetControllers, Prepare,
              zoneVars
<1>7. CASE UNCHANGED mpeVars
  BY <1>7 DEF mpeVars, zoneVars
<1>8. QED
  BY <1>1, <1>2, <1>3, <1>4, <1>5, <1>6, <1>7 DEF MpeNext

-----------------------------------------------------------------------------
(* The theorems.                                                           *)

LEMMA InvHolds == MpeSpec => [](OwnerInv /\ BendInv)
<1>1. OwnerInv /\ BendInv /\ [MpeNext]_mpeVars => (OwnerInv /\ BendInv)'
  BY OwnerInvStep, BendInvStep
<1>2. QED
  BY <1>1, OwnerInvStart, BendInvStart, PTL DEF MpeSpec

\* What the queues record, what the totals count and what the performer holds
\* are the same notes, for any keys, channels, layouts and queue lengths
\* (recordNoteOwnership, takeNoteOwnership, clearMpeNoteOwnership).
THEOREM OwnersAlwaysAgree == MpeSpec => []OwnersAgree
<1>1. OwnerInv => OwnersAgree
  BY DEF OwnerInv
<1>2. QED
  BY <1>1, InvHolds, PTL

\* A channel owns no more of a key than it has fingers on it, and while no key
\* has been forgotten each finger's Note Off releases what its own Note On was
\* given, in whatever order the layouts, the fingers and the releases come.
THEOREM EachFingerLiftsItsOwn == MpeSpec => []NoteOffKeepsIdentity
<1>1. OwnerInv => NoteOffKeepsIdentity
  BY DEF OwnerInv
<1>2. QED
  BY <1>1, InvHolds, PTL

LEMMA OwnBendStays == MpeSpec => []OwnedBendIsCurrent
<1>1. BendInv => OwnedBendIsCurrent
  BY DEF BendInv
<1>2. QED
  BY <1>1, InvHolds, PTL

LEMMA OnlyReleasesMissTheMaster == MpeSpec => OnlyAReleaseMissesTheMaster
<1>1. LayoutAllowed /\ OwnerInv /\ [MpeNext]_mpeVars
         => [FollowsOrLetGo]_mpeVars
  BY FollowsStep
<1>2. MpeSpec => []LayoutAllowed
  BY LayoutStart, LayoutStep, PTL DEF MpeSpec
<1>3. [][FollowsOrLetGo]_mpeVars => OnlyAReleaseMissesTheMaster
  BY PTL DEF OnlyAReleaseMissesTheMaster, FollowsOrLetGo
<1>4. QED
  BY <1>1, <1>2, <1>3, InvHolds, PTL DEF MpeSpec

\* A member channel that holds a note is always told its own wheel over its
\* own zone's member range.  By its master's wheel, over the range of masters,
\* it stays bent through every zone, range, wheel, attack, release and reset
\* but one: the release of the last note that the master itself struck while
\* it was a member (dispatchHostNoteOff centres its wheel and refreshes
\* nobody, PluginProcessor.cpp 885-894).
THEOREM OwnedBendsAreCurrent == MpeSpec => OwnedBendsFollow
<1>1. MpeSpec => []OwnedBendIsCurrent
  BY OwnBendStays
<1>2. MpeSpec => OnlyAReleaseMissesTheMaster
  BY OnlyReleasesMissTheMaster
<1> QED
  BY <1>1, <1>2 DEF OwnedBendsFollow

=============================================================================

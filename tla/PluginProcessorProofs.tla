------------------------ MODULE PluginProcessorProofs ------------------------
(***************************************************************************)
(* No on-screen key hangs, for every capacity of the ring, every number of *)
(* keys and styles, and every way the editor's gestures, its panics, the   *)
(* callback and the host's prepare and release fall between each other.    *)
(***************************************************************************)
EXTENDS PluginProcessor, TLAPS

Indices == Ring!Indices
Distance(i, j) == Ring!Distance(i, j)
On(k) == [kind |-> "on", key |-> k]

-----------------------------------------------------------------------------
(***************************************************************************)
(* Where everybody stands.                                                 *)
(***************************************************************************)
Answering == {"discard", "discarding", "snapshot"}

\* Which calls of the host run which part of the ring's reader.
ControlInv ==
    /\ host = [pc |-> host.pc, latch |-> host.latch]
    /\ performer = [base |-> performer.base, hold |-> performer.hold,
                    held |-> performer.held]
    /\ \/ host.pc \in {"away", "releasing"} /\ consumer.pc = "idle"
       \/ host.pc \in {"entered", "tail"} /\ engineReady /\ consumer.pc = "idle"
       \/ host.pc = "answering" /\ engineReady /\ consumer.pc \in Answering
       \/ /\ host.pc = "reading" /\ engineReady
          /\ consumer.pc \in {"snapshot", "conditioning", "remainder"}
       \/ host.pc \in {"preparing", "released"} /\ consumer.pc \in Answering
       \/ host.pc = "prepared" /\ consumer.pc = "snapshot"
    /\ host.pc \in {"preparing", "prepared", "releasing", "released"} =>
           ~engineReady
    /\ editor.pc = "post" => editor.event \in Clicks

\* The reader's snapshot is published, its cursor is in it, and a gesture that
\* was accepted has its slot (see BlockProofs).
RingInv ==
    /\ Ring!TypeOk
    /\ consumer.pc \in {"discarding", "conditioning", "remainder"} =>
           Distance(uiReadIndex, consumer.end) <= Distance(uiReadIndex, uiWriteIndex)
    /\ consumer.pc \in {"conditioning", "remainder"} =>
           Distance(uiReadIndex, consumer.cursor) <= Distance(uiReadIndex, consumer.end)
    /\ producer.pc \in {"store", "publish"} =>
           Distance(uiReadIndex, uiWriteIndex) < Capacity - 1
    /\ producer.pc = "publish" => uiMidiQueue[uiWriteIndex] = producer.event

-----------------------------------------------------------------------------
(***************************************************************************)
(* What the performer has still to hear.                                   *)
(***************************************************************************)

\* The first slot that has neither been played nor is being discarded.
From == IF consumer.pc = "discarding" THEN consumer.end
        ELSE IF consumer.pc = "remainder" THEN consumer.cursor
        ELSE uiReadIndex

Waits(i) == Distance(From, i) < Distance(From, uiWriteIndex)
Posting(e) == producer.pc \in {"store", "publish"} /\ producer.event = e

\* A release of k that will be heard; one that will be heard after slot i.
OffAhead(k) ==
    Posting(Off(k)) \/ \E j \in Indices : Waits(j) /\ uiMidiQueue[j] = Off(k)
OffAfter(k, i) ==
    \/ Posting(Off(k))
    \/ \E j \in Indices : /\ Waits(j) /\ uiMidiQueue[j] = Off(k)
                          /\ Distance(From, i) < Distance(From, j)

\* All that is published now will be discarded unheard.
Doomed ==
    \/ panicRequested \/ producer.pc = "alarm" \/ consumer.pc = "discard"
    \/ ~engineReady /\ host.pc \notin {"preparing", "prepared"}

\* Every attack that will be heard is let go again or its key is down.
OnsEnd ==
    ~Doomed => \A k \in Keys, i \in Indices :
        Waits(i) /\ uiMidiQueue[i] = On(k) => k \in keysDown \/ OffAfter(k, i)

\* So is every key the performer holds, if no reset lets go of it.
HeldEnd ==
    ~ResetUnderWay => \A k \in performer.held : k \in keysDown \/ OffAhead(k)

KeyInv ==
    /\ performer.held \subseteq Keys
    /\ ~engineReady /\ host.pc \in {"away", "released"} => performer.held = {}
    /\ \A k \in Keys : Posting(On(k)) => k \in keysDown
    /\ OnsEnd
    /\ HeldEnd

-----------------------------------------------------------------------------
(***************************************************************************)
(* Which style the performer has still to hear.                            *)
(***************************************************************************)
Style(s) == [kind |-> "style", style |-> s]

\* The first slot the conditioning pass has neither played nor discarded.
FromClicks == CASE consumer.pc \in {"discarding", "remainder"} -> consumer.end
                [] consumer.pc = "conditioning" -> consumer.cursor
                [] OTHER -> uiReadIndex

Pending(i) == Distance(FromClicks, i) < Distance(FromClicks, uiWriteIndex)
Shown(i) == Pending(i) /\ uiMidiQueue[i] = Style(playStyleIndex)

\* The style the strip shows will be heard; will be heard after slot i.
Coming == editor.pc = "post" \/ Posting(Style(playStyleIndex))
ShownAhead == playStyleIndex \in ClickStyles
              /\ (Coming \/ \E j \in Indices : Shown(j))
ShownAfter(i) ==
    playStyleIndex \in ClickStyles
    /\ \/ Coming
       \/ \E j \in Indices :
             Shown(j) /\ Distance(FromClicks, i) < Distance(FromClicks, j)

\* A reset of the performer that is due because of a saved session, a panic, or
\* the host's calls.
Restoring == editor.pc \in {"restoreHold", "restorePanic"}
ResetDue == ResetUnderWay \/ Restoring \/ ~engineReady

\* Every click that will be heard is the strip's style or is followed by it.
ClicksEnd ==
    ~Doomed /\ ~Restoring => \A s \in ClickStyles, i \in Indices :
        Pending(i) /\ uiMidiQueue[i] = Style(s) => s = playStyleIndex \/ ShownAfter(i)

\* A click posts the style the strip shows.
StripPosts ==
    /\ editor.pc = "post" => editor.event = Style(playStyleIndex)
    /\ \A s \in ClickStyles : Posting(Style(s)) => s = playStyleIndex

\* Only the strip selects styles.
StripInv ==
    /\ StripPosts
    /\ ClicksEnd
    /\ ~ResetDue => performer.base = playStyleIndex \/ ShownAhead
ByStrip == HostStyles = {} => host.latch = Blank /\ StripInv

\* Only the host's keyswitches do: the strip is told of each of them before
\* anything else happens to the performer.
HostInv ==
    /\ host.latch # Blank => /\ host.pc \in {"reading", "tail"}
                             /\ performer.base = host.latch
    /\ ~ResetDue /\ host.latch = Blank => performer.base = playStyleIndex
ByHost == ClickStyles = {} => HostInv

Inv == ControlInv /\ RingInv /\ KeyInv

-----------------------------------------------------------------------------
(***************************************************************************)
(* Going round the ring.                                                   *)
(***************************************************************************)
LEMMA NextOnRing == ASSUME NEW i \in Indices PROVE Ring!NextIndex(i) \in Indices
BY RingAssumption DEF Indices, Ring!Indices, Ring!NextIndex

LEMMA DistanceRange ==
    ASSUME NEW i \in Indices, NEW j \in Indices
    PROVE  /\ Distance(i, j) \in 0 .. Capacity - 1
           /\ Distance(i, j) = 0 <=> i = j
BY RingAssumption DEF Indices, Ring!Indices, Distance, Ring!Distance

\* Two slots equally far from a third are one.
LEMMA DistanceTells ==
    ASSUME NEW i \in Indices, NEW j \in Indices, NEW k \in Indices,
           Distance(i, j) = Distance(i, k)
    PROVE  j = k
BY RingAssumption DEF Indices, Ring!Indices, Distance, Ring!Distance

LEMMA DistanceOfNext ==
    ASSUME NEW i \in Indices, NEW j \in Indices, Distance(i, j) < Capacity - 1
    PROVE  Distance(i, Ring!NextIndex(j)) = Distance(i, j) + 1
BY RingAssumption
   DEF Indices, Ring!Indices, Distance, Ring!Distance, Ring!NextIndex

\* Every other slot is one step nearer from the next one.
LEMMA DistanceFromNext ==
    ASSUME NEW i \in Indices, NEW j \in Indices, i # j
    PROVE  Distance(Ring!NextIndex(i), j) = Distance(i, j) - 1
BY RingAssumption
   DEF Indices, Ring!Indices, Distance, Ring!Distance, Ring!NextIndex

LEMMA DistanceFromMiddle ==
    ASSUME NEW i \in Indices, NEW j \in Indices, NEW k \in Indices,
           Distance(i, j) <= Distance(i, k)
    PROVE  Distance(j, k) = Distance(i, k) - Distance(i, j)
BY RingAssumption DEF Indices, Ring!Indices, Distance, Ring!Distance

\* What lies before a slot that is passed lies before those behind it.
LEMMA WaitingIsQueued ==
    ASSUME NEW i \in Indices, NEW f \in Indices, NEW w \in Indices,
           NEW j \in Indices, Distance(i, f) <= Distance(i, w),
           Distance(f, j) < Distance(f, w)
    PROVE  Distance(i, j) < Distance(i, w)
BY RingAssumption DEF Indices, Ring!Indices, Distance, Ring!Distance

\* A slot is as many steps ahead as it is distant.
LEMMA AheadIsThere ==
    ASSUME NEW i \in Indices, NEW j \in Indices
    PROVE  Ring!Ahead(i, Distance(i, j)) = j
BY RingAssumption
   DEF Indices, Ring!Indices, Distance, Ring!Distance, Ring!Ahead

\* The fullness test of enqueueUiMidiEvent leaves a slot free.
LEMMA NotFull ==
    ASSUME NEW i \in Indices, NEW j \in Indices, Ring!NextIndex(j) # i
    PROVE  Distance(i, j) < Capacity - 1
BY RingAssumption
   DEF Indices, Ring!Indices, Distance, Ring!Distance, Ring!NextIndex

-----------------------------------------------------------------------------
(***************************************************************************)
(* Every step that touches the ring, as the ring sees it.                  *)
(***************************************************************************)
Posts(e) == e \in Gestures /\ Enqueue(e)

\* The host's calls raise or drop a panic and start or end the reader between
\* two of its passes.
Interrupts ==
    /\ UNCHANGED <<uiMidiQueue, uiWriteIndex, uiReadIndex, producer>>
    /\ panicRequested' \in BOOLEAN
    /\ consumer' = consumer \/ \E p \in {"idle", "discard"} :
                                   consumer' = [consumer EXCEPT !.pc = p]

LEMMA RingMoves ==
    ASSUME Next, ControlInv, panicRequested \in BOOLEAN
    PROVE  \/ \E e : Posts(e)
           \/ Ring!ProducerContinues
           \/ Ring!ExchangePanic \/ Ring!DiscardLoad \/ Ring!DiscardStore
           \/ Ring!Snapshot \/ Ring!RestartWithRemainder \/ Ring!ReleaseSlots
           \/ \E e \in Gestures : Ring!Dispatch(e)
           \/ Ring!Skip
           \/ Interrupts
<1>1. ASSUME Ring!RequestPanic PROVE Interrupts
  BY <1>1 DEF Ring!RequestPanic, Interrupts
<1>2. ASSUME UNCHANGED ringVars PROVE Interrupts
  BY <1>2 DEF ringVars, Interrupts
<1>3. CASE MessageThreadContinues \/ MessageThreadStarts
  <2>1. ASSUME NEW k \in Keys, PressKey(k) \/ LiftKey(k)
        PROVE  \E e : Posts(e)
    BY <2>1 DEF PressKey, LiftKey, Posts, Gestures, KeyGestures
  <2>2. CASE ClickPost
    BY <2>2 DEF ClickPost, Posts, Gestures, ControlInv
  <2> QED
    BY <1>1, <1>2, <1>3, <2>1, <2>2
    DEF MessageThreadContinues, MessageThreadStarts, ClickLatch, RestoreStyle,
        RestoreHold, RestorePanic, SetHold, PanicButton
<1>4. CASE LifecycleContinues \/ LifecycleStarts
  <2>1. CASE PrepareBegin \/ PrepareReset \/ ReleaseReset \/ ReleaseEnd
             \/ MalformedBlock
    BY <2>1 DEF PrepareBegin, PrepareReset, ReleaseReset, ReleaseEnd,
                MalformedBlock, Interrupts
  <2> QED
    BY <1>2, <1>4, <2>1
    DEF LifecycleContinues, LifecycleStarts, PrepareDiscard, PrepareMode,
        ReleaseBegin, ReleaseDiscard, ContinueRing
<1>5. CASE BlockStep \/ HostLatch \/ \E s \in HostStyles : HostKeyswitch(s)
  BY <1>2, <1>5
  DEF BlockStep, EnterBlock, ExchangePanic, AnswerDiscard, AnswerReset, ReadRing,
      EndBlock, DispatchGesture, HostLatch, HostKeyswitch, ContinueRing
<1> QED
  BY <1>3, <1>4, <1>5 DEF Next

\* The ring keeps its promises under all of them.
LEMMA RingKept == ControlInv /\ RingInv /\ [Next]_vars => RingInv'
<1> SUFFICES ASSUME ControlInv, RingInv, [Next]_vars PROVE RingInv'
  OBVIOUS
<1>0. /\ uiReadIndex \in Indices /\ uiWriteIndex \in Indices
      /\ consumer.end \in Indices /\ consumer.cursor \in Indices
      /\ panicRequested \in BOOLEAN
      /\ uiMidiQueue \in [Indices -> Gestures \cup {Blank}]
      /\ producer \in [pc : {"idle", "store", "publish", "alarm"},
                       event : Gestures \cup {Blank}]
      /\ consumer \in [pc : {"idle", "discard", "discarding", "snapshot",
                             "conditioning", "remainder"},
                       end : Indices, cursor : Indices]
      /\ Capacity \in Nat /\ Capacity >= 2
  BY RingAssumption DEF RingInv, Ring!TypeOk, Indices
<1>00. /\ Distance(uiReadIndex, uiWriteIndex) \in 0 .. Capacity - 1
       /\ Distance(uiReadIndex, consumer.end) \in 0 .. Capacity - 1
       /\ Distance(uiReadIndex, consumer.cursor) \in 0 .. Capacity - 1
       /\ Distance(uiReadIndex, uiReadIndex) = 0
  BY <1>0, DistanceRange
<1> USE <1>0, <1>00 DEF RingInv, Ring!TypeOk
<1>1. ASSUME NEW e, Posts(e) PROVE RingInv'
  <2>1. CASE Ring!EnqueueAccept(e)
    <3>1. Distance(uiReadIndex, uiWriteIndex) < Capacity - 1
      BY <2>1, NotFull DEF Ring!EnqueueAccept
    <3> QED
      BY <1>1, <2>1, <3>1 DEF Posts, Ring!EnqueueAccept
  <2>2. CASE Ring!EnqueueRefuse(e)
    BY <1>1, <2>2 DEF Posts, Ring!EnqueueRefuse
  <2> QED
    BY <1>1, <2>1, <2>2 DEF Posts, Enqueue
<1>2. CASE Ring!RaisePanic
  BY <1>2 DEF Ring!RaisePanic
<1>3. CASE Ring!StoreSlot
  BY <1>3 DEF Ring!StoreSlot
<1>4. CASE Ring!PublishWrite
  <2>1. /\ Ring!NextIndex(uiWriteIndex) \in Indices
        /\ Distance(uiReadIndex, Ring!NextIndex(uiWriteIndex))
             = Distance(uiReadIndex, uiWriteIndex) + 1
    BY <1>4, NextOnRing, DistanceOfNext DEF Ring!PublishWrite
  <2> QED
    BY <1>4, <2>1 DEF Ring!PublishWrite
<1>5. CASE Ring!ExchangePanic
  BY <1>5 DEF Ring!ExchangePanic
<1>6. CASE Ring!DiscardLoad
  <2>1. /\ consumer' = [pc |-> "discarding", end |-> uiWriteIndex,
                         cursor |-> consumer.cursor]
        /\ UNCHANGED <<uiMidiQueue, uiWriteIndex, uiReadIndex, panicRequested,
                       producer>>
    BY <1>6 DEF Ring!DiscardLoad
  <2> QED
    BY <2>1
<1>7. CASE Ring!DiscardStore
  <2>1. Distance(consumer.end, uiWriteIndex)
          = Distance(uiReadIndex, uiWriteIndex) - Distance(uiReadIndex, consumer.end)
    BY <1>7, DistanceFromMiddle DEF Ring!DiscardStore
  <2> QED
    BY <1>7, <2>1 DEF Ring!DiscardStore
<1>8. CASE Ring!Snapshot
  BY <1>8 DEF Ring!Snapshot
<1>9. CASE Ring!RestartWithRemainder
  <2>1. /\ consumer.pc = "conditioning"
        /\ consumer' = [pc |-> "remainder", end |-> consumer.end,
                         cursor |-> uiReadIndex]
        /\ UNCHANGED <<uiMidiQueue, uiWriteIndex, uiReadIndex, panicRequested,
                       producer>>
    BY <1>9 DEF Ring!RestartWithRemainder
  <2> QED
    BY <2>1
<1>10. CASE Ring!ReleaseSlots
  <2>1. Distance(consumer.end, uiWriteIndex)
          = Distance(uiReadIndex, uiWriteIndex) - Distance(uiReadIndex, consumer.end)
    BY <1>10, DistanceFromMiddle DEF Ring!ReleaseSlots
  <2> QED
    BY <1>10, <2>1 DEF Ring!ReleaseSlots
<1>11. ASSUME consumer.pc \in {"conditioning", "remainder"},
              consumer.cursor # consumer.end, Ring!AdvanceCursor
       PROVE  RingInv'
  <2>1. Distance(uiReadIndex, consumer.cursor) < Distance(uiReadIndex, consumer.end)
    <3>1. Distance(uiReadIndex, consumer.cursor) # Distance(uiReadIndex, consumer.end)
      BY <1>11, DistanceTells
    <3> QED
      BY <1>11, <3>1
  <2>2. /\ Ring!NextIndex(consumer.cursor) \in Indices
        /\ Distance(uiReadIndex, Ring!NextIndex(consumer.cursor))
             = Distance(uiReadIndex, consumer.cursor) + 1
    BY <2>1, NextOnRing, DistanceOfNext
  <2> QED
    BY <1>11, <2>1, <2>2 DEF Ring!AdvanceCursor
<1>12. CASE Interrupts
  BY <1>12 DEF Interrupts
<1>13. CASE UNCHANGED vars
  BY <1>13 DEF vars, ringVars
<1>14. CASE Next
  <2> HIDE <1>0, <1>00 DEF RingInv, Ring!TypeOk
  <2>1. ASSUME NEW e, Ring!Dispatch(e) \/ Ring!Skip
        PROVE  /\ consumer.pc \in {"conditioning", "remainder"}
               /\ consumer.cursor # consumer.end /\ Ring!AdvanceCursor
    BY <2>1 DEF Ring!Dispatch, Ring!Skip, Ring!DispatchSlot, Ring!SkipSlot
  <2> QED
    BY <1>0, <1>1, <1>2, <1>3, <1>4, <1>5, <1>6, <1>7, <1>8, <1>9, <1>10, <1>11,
       <1>12, <1>14, <2>1, RingMoves
    DEF Ring!ProducerContinues
<1> QED
  BY <1>13, <1>14

\* Each call of the host runs its own part of the reader.
LEMMA ControlKept == ControlInv /\ RingInv /\ [Next]_vars => ControlInv'
<1> SUFFICES ASSUME ControlInv, RingInv, [Next]_vars PROVE ControlInv'
  OBVIOUS
<1>0. /\ host = [pc |-> host.pc, latch |-> host.latch]
      /\ performer = [base |-> performer.base, hold |-> performer.hold,
                      held |-> performer.held]
      /\ consumer = [pc |-> consumer.pc, end |-> consumer.end,
                     cursor |-> consumer.cursor]
  BY DEF ControlInv, RingInv, Ring!TypeOk
<1> USE <1>0 DEF ControlInv
<1>1. CASE MessageThreadStarts
  <2>1. ASSUME NEW s \in ClickStyles, ClickLatch(s) PROVE ControlInv'
    BY <2>1 DEF ClickLatch, Clicks, ringVars
  <2>2. CASE ~ \E s \in ClickStyles : ClickLatch(s)
    BY <1>1, <2>2
    DEF MessageThreadStarts, PressKey, LiftKey, RestoreStyle, SetHold,
        PanicButton, Enqueue, Ring!EnqueueAccept, Ring!EnqueueRefuse,
        Ring!RequestPanic, ringVars, editorVars
  <2> QED
    BY <2>1, <2>2
<1>2. CASE MessageThreadContinues
  <2>1. /\ UNCHANGED <<engineReady, host, performer, consumer>>
        /\ editor' = editor \/ editor'.pc \in {"idle", "restorePanic"}
    <3>1. CASE ClickPost
      BY <3>1 DEF ClickPost, Enqueue, Ring!EnqueueAccept, Ring!EnqueueRefuse
    <3>2. CASE RestorePanic
      BY <3>2 DEF RestorePanic, Ring!RequestPanic
    <3>3. ASSUME NEW h, RestoreHold(h)
          PROVE  /\ UNCHANGED <<engineReady, host, performer, consumer>>
                 /\ editor'.pc = "restorePanic"
      BY <3>3 DEF RestoreHold, ringVars, ControlInv
    <3>4. CASE Ring!ProducerContinues /\ UNCHANGED <<engineReady, host, performer,
                                                    editor>>
      BY <3>4 DEF Ring!ProducerContinues, Ring!RaisePanic, Ring!StoreSlot,
                  Ring!PublishWrite
    <3> QED
      BY <1>2, <3>1, <3>2, <3>3, <3>4 DEF MessageThreadContinues, editorVars
  <2> QED
    BY <2>1
<1>3. CASE LifecycleStarts
  <2>1. CASE PrepareBegin
    BY <2>1 DEF PrepareBegin, editorVars, Answering
  <2>2. CASE ReleaseBegin
    BY <2>2 DEF ReleaseBegin, ringVars, editorVars
  <2>3. CASE MalformedBlock
    BY <2>3 DEF MalformedBlock, editorVars
  <2> QED
    BY <1>3, <2>1, <2>2, <2>3 DEF LifecycleStarts
<1>4. CASE LifecycleContinues
  <2>1. CASE PrepareDiscard
    BY <2>1 DEF PrepareDiscard, ContinueRing, Ring!DiscardLoad,
                Ring!DiscardStore, editorVars, Answering
  <2>2. CASE PrepareMode
    BY <2>2 DEF PrepareMode, ringVars, editorVars
  <2>3. CASE PrepareReset
    BY <2>3 DEF PrepareReset, ResetFromLatches, editorVars
  <2>4. CASE ReleaseReset
    BY <2>4 DEF ReleaseReset, ResetFromLatches, editorVars, Answering
  <2>5. CASE ReleaseDiscard
    BY <2>5 DEF ReleaseDiscard, ContinueRing, Ring!DiscardLoad,
                Ring!DiscardStore, editorVars, Answering
  <2>6. CASE ReleaseEnd
    BY <2>6 DEF ReleaseEnd, editorVars
  <2> QED
    BY <1>4, <2>1, <2>2, <2>3, <2>4, <2>5, <2>6 DEF LifecycleContinues
<1>5. CASE BlockStep
  <2>1. CASE EnterBlock
    BY <2>1 DEF EnterBlock, ringVars, editorVars
  <2>2. CASE ExchangePanic
    BY <2>2 DEF ExchangePanic, ContinueRing, Ring!ExchangePanic, editorVars,
                Answering
  <2>3. CASE AnswerDiscard
    BY <2>3 DEF AnswerDiscard, ContinueRing, Ring!DiscardLoad,
                Ring!DiscardStore, editorVars, Answering
  <2>4. CASE AnswerReset
    BY <2>4 DEF AnswerReset, ResetFromLatches, ringVars, editorVars
  <2>5. CASE ReadRing
    <3>1. /\ UNCHANGED <<engineReady, editor, performer>>
          /\ host.pc = "reading" /\ engineReady
          /\ host' = [host EXCEPT !.pc = host'.pc]
          /\ \/ /\ host'.pc = "reading"
                /\ Ring!Snapshot \/ Ring!Skip \/ Ring!RestartWithRemainder
             \/ host'.pc = "tail" /\ Ring!ReleaseSlots
      BY <2>5 DEF ReadRing, ContinueRing, editorVars
    <3>2. /\ Ring!Snapshot => consumer'.pc = "conditioning"
          /\ Ring!RestartWithRemainder => consumer'.pc = "remainder"
          /\ Ring!ReleaseSlots => consumer'.pc = "idle"
          /\ Ring!Skip => /\ consumer.pc \in {"conditioning", "remainder"}
                          /\ consumer'.pc = consumer.pc
      <4>1. Ring!Snapshot => consumer'.pc = "conditioning"
        BY DEF Ring!Snapshot
      <4>2. Ring!RestartWithRemainder => consumer'.pc = "remainder"
        BY <1>0 DEF Ring!RestartWithRemainder
      <4>3. Ring!ReleaseSlots => consumer'.pc = "idle"
        BY <1>0 DEF Ring!ReleaseSlots
      <4>4. Ring!Skip => /\ consumer.pc \in {"conditioning", "remainder"}
                        /\ consumer'.pc = consumer.pc
        BY <1>0 DEF Ring!Skip, Ring!SkipSlot, Ring!AdvanceCursor
      <4> QED
        BY <4>1, <4>2, <4>3, <4>4
    <3> QED
      BY <3>1, <3>2
  <2>6. CASE EndBlock
    BY <2>6 DEF EndBlock, ringVars, editorVars
  <2>7. ASSUME NEW e \in Gestures, DispatchGesture(e) PROVE ControlInv'
    <3>1. Played(e) = [base |-> Played(e).base, hold |-> Played(e).hold,
                       held |-> Played(e).held]
      BY <2>7 DEF Played, Gestures, KeyGestures, Clicks
    <3> QED
      BY <2>7, <3>1 DEF DispatchGesture, Ring!Dispatch, Ring!DispatchSlot,
                        Ring!AdvanceCursor, editorVars
  <2> QED
    BY <1>5, <2>1, <2>2, <2>3, <2>4, <2>5, <2>6, <2>7 DEF BlockStep
<1>6. CASE HostLatch \/ \E s \in HostStyles : HostKeyswitch(s)
  BY <1>6 DEF HostLatch, HostKeyswitch, ringVars, editorVars
<1>7. CASE UNCHANGED vars
  BY <1>7 DEF vars, ringVars, editorVars
<1> QED
  BY <1>1, <1>2, <1>3, <1>4, <1>5, <1>6, <1>7 DEF Next

-----------------------------------------------------------------------------
(***************************************************************************)
(* What each step leaves of the story the performer has still to hear.     *)
(***************************************************************************)

\* The first unheard slot is on the ring, and not beyond the last.
LEMMA FromInside ==
    ASSUME RingInv
    PROVE  /\ From \in Indices /\ uiWriteIndex \in Indices
           /\ Distance(uiReadIndex, From) <= Distance(uiReadIndex, uiWriteIndex)
           /\ producer.pc \in {"store", "publish"} =>
                 Distance(From, uiWriteIndex) < Capacity - 1
<1>0. /\ uiReadIndex \in Indices /\ uiWriteIndex \in Indices
      /\ consumer.end \in Indices /\ consumer.cursor \in Indices
      /\ Capacity \in Nat /\ Capacity >= 2
  BY RingAssumption DEF RingInv, Ring!TypeOk, Indices
<1>1. From \in Indices
  BY <1>0 DEF From
<1>2. Distance(uiReadIndex, From) <= Distance(uiReadIndex, uiWriteIndex)
  <2>1. /\ Distance(uiReadIndex, uiReadIndex) = 0
        /\ Distance(uiReadIndex, uiWriteIndex) \in 0 .. Capacity - 1
        /\ Distance(uiReadIndex, consumer.end) \in 0 .. Capacity - 1
        /\ Distance(uiReadIndex, consumer.cursor) \in 0 .. Capacity - 1
    BY <1>0, DistanceRange
  <2> QED
    BY <1>0, <2>1 DEF From, RingInv
<1>3. /\ Distance(From, uiWriteIndex)
           = Distance(uiReadIndex, uiWriteIndex) - Distance(uiReadIndex, From)
      /\ Distance(uiReadIndex, From) \in 0 .. Capacity - 1
      /\ Distance(uiReadIndex, uiWriteIndex) \in 0 .. Capacity - 1
  BY <1>0, <1>1, <1>2, DistanceFromMiddle, DistanceRange
<1> QED
  BY <1>0, <1>1, <1>2, <1>3 DEF RingInv

\* A reset may come or go, and what is published may come to be doomed, as
\* long as nothing moves on the ring.
LEMMA CalmStep ==
    ASSUME KeyInv,
           UNCHANGED <<From, uiMidiQueue, uiWriteIndex, producer, keysDown>>,
           performer'.held \in {performer.held, {}},
           performer'.held = {}
              \/ /\ ~ResetUnderWay' => ~ResetUnderWay
                 /\ ~(~engineReady' /\ host'.pc \in {"away", "released"}),
           ~Doomed' => ~Doomed
    PROVE  KeyInv'
<1>1. \A i \in Indices : Waits(i)' <=> Waits(i)
  BY DEF Waits
<1>2. \A e : Posting(e)' <=> Posting(e)
  BY DEF Posting
<1>3. \A k : OffAhead(k)' <=> OffAhead(k)
  BY <1>1, <1>2 DEF OffAhead
<1>4. \A k, i : OffAfter(k, i)' <=> OffAfter(k, i)
  BY <1>1, <1>2 DEF OffAfter
<1>5. OnsEnd'
  BY <1>1, <1>4 DEF KeyInv, OnsEnd
<1>6. HeldEnd'
  BY <1>3 DEF KeyInv, HeldEnd
<1> QED
  BY <1>2, <1>5, <1>6 DEF KeyInv

\* The message thread may press and lift keys as it posts, and raise a panic.
LEMMA PostStep ==
    ASSUME RingInv, RingInv', KeyInv, producer.pc = "idle",
           NEW e, Posts(e),
           UNCHANGED <<engineReady, host, performer>>,
           \/ keysDown' = keysDown /\ \A k \in Keys : e # On(k)
           \/ \E k \in Keys : e = On(k) /\ keysDown' = keysDown \cup {k}
           \/ \E k \in Keys : e = Off(k) /\ keysDown' = keysDown \ {k}
    PROVE  KeyInv'
<1>0. /\ UNCHANGED <<uiMidiQueue, uiWriteIndex, uiReadIndex, panicRequested,
                    consumer>>
      /\ \/ producer' = [pc |-> "store", event |-> e]
         \/ producer' = [pc |-> "alarm", event |-> e]
  BY DEF Posts, Enqueue, Ring!EnqueueAccept, Ring!EnqueueRefuse
<1>1. ASSUME NEW k, NEW l PROVE (On(k) = On(l) => k = l) /\ (Off(k) = Off(l) => k = l)
                                /\ On(k) # Off(l)
  BY DEF On, Off
<1>2. \A x : ~Posting(x) /\ (Posting(x)' => x = e)
  BY <1>0 DEF Posting
<1>3. \A k \in Keys : Posting(On(k))' => k \in keysDown'
  BY <1>1, <1>2
<1>4. CASE producer' = [pc |-> "alarm", event |-> e]
  <2>1. Doomed' /\ ResetUnderWay'
    BY <1>4 DEF Doomed, ResetUnderWay
  <2> QED
    BY <1>3, <2>1 DEF KeyInv, OnsEnd, HeldEnd
<1>5. CASE producer' = [pc |-> "store", event |-> e]
  <2>1. /\ Posting(e)'
        /\ \A i \in Indices : Waits(i)' <=> Waits(i)
        /\ From' = From
    BY <1>0, <1>5 DEF Posting, Waits, From
  <2>2. ASSUME NEW k, k \in keysDown, k \notin keysDown'
        PROVE  OffAhead(k)' /\ \A i : OffAfter(k, i)'
    BY <1>1, <2>1, <2>2 DEF OffAfter, OffAhead
  <2>3. \A k : OffAhead(k) => OffAhead(k)'
    BY <1>0, <1>2, <2>1 DEF OffAhead
  <2>4. \A k, i : OffAfter(k, i) => OffAfter(k, i)'
    BY <1>0, <1>2, <2>1 DEF OffAfter
  <2>5. (Doomed' <=> Doomed) /\ (ResetUnderWay' <=> ResetUnderWay)
    BY <1>0, <1>5 DEF Doomed, ResetUnderWay
  <2>6. OnsEnd'
    BY <1>0, <2>1, <2>2, <2>4, <2>5 DEF KeyInv, OnsEnd
  <2>7. HeldEnd'
    BY <1>0, <2>2, <2>3, <2>5 DEF KeyInv, HeldEnd
  <2> QED
    BY <1>3, <2>6, <2>7 DEF KeyInv
<1> QED
  BY <1>0, <1>4, <1>5

\* A gesture on its way into the ring is still one on its way.
LEMMA ProducerStep ==
    ASSUME RingInv, KeyInv, Ring!ProducerContinues,
           UNCHANGED <<engineReady, host, performer, keysDown>>
    PROVE  KeyInv'
<1>0. /\ From \in Indices /\ uiWriteIndex \in Indices
      /\ uiMidiQueue \in [Indices -> Gestures \cup {Blank}]
      /\ producer = [pc |-> producer.pc, event |-> producer.event]
      /\ Capacity \in Nat
  BY FromInside, RingAssumption DEF RingInv, Ring!TypeOk, Indices
<1>1. CASE Ring!RaisePanic
  <2>1. /\ producer.pc = "alarm" /\ producer'.pc = "idle" /\ panicRequested' = TRUE
    BY <1>0, <1>1 DEF Ring!RaisePanic
  <2>2. Doomed' /\ ResetUnderWay' /\ \A x : ~Posting(x)'
    BY <2>1 DEF Doomed, ResetUnderWay, Posting
  <2> QED
    BY <2>2 DEF KeyInv, OnsEnd, HeldEnd
<1>2. CASE Ring!StoreSlot
  <2>1. /\ producer.pc = "store"
        /\ producer' = [pc |-> "publish", event |-> producer.event]
        /\ uiMidiQueue' = [uiMidiQueue EXCEPT ![uiWriteIndex] = producer.event]
        /\ UNCHANGED <<uiWriteIndex, uiReadIndex, panicRequested, consumer>>
    BY <1>0, <1>2 DEF Ring!StoreSlot
  <2>2. /\ \A x : Posting(x)' <=> Posting(x)
        /\ From' = From
        /\ \A i \in Indices : Waits(i)' <=> Waits(i)
    BY <2>1 DEF Posting, From, Waits
  <2>3. \A i \in Indices : Waits(i) => uiMidiQueue'[i] = uiMidiQueue[i]
    <3>1. Distance(From, uiWriteIndex) \in Nat
      BY <1>0, DistanceRange
    <3> QED
      BY <1>0, <2>1, <3>1 DEF Waits
  <2>4. /\ \A k : OffAhead(k) => OffAhead(k)'
        /\ \A k, i : OffAfter(k, i) => OffAfter(k, i)'
    BY <2>2, <2>3 DEF OffAhead, OffAfter
  <2>5. (Doomed' <=> Doomed) /\ (ResetUnderWay' <=> ResetUnderWay)
    BY <2>1 DEF Doomed, ResetUnderWay
  <2>6. OnsEnd' /\ HeldEnd'
    BY <2>2, <2>3, <2>4, <2>5 DEF KeyInv, OnsEnd, HeldEnd
  <2> QED
    BY <2>2, <2>6 DEF KeyInv
<1>3. CASE Ring!PublishWrite
  <2> DEFINE d == Distance(From, uiWriteIndex)
  <2>1. /\ producer.pc = "publish" /\ producer'.pc = "idle"
        /\ uiWriteIndex' = Ring!NextIndex(uiWriteIndex)
        /\ UNCHANGED <<uiMidiQueue, uiReadIndex, panicRequested, consumer>>
    BY <1>0, <1>3 DEF Ring!PublishWrite
  <2>2. d \in 0 .. Capacity - 1 /\ d < Capacity - 1
    BY <1>0, <2>1, FromInside, DistanceRange
  <2>3. From' = From /\ Distance(From, uiWriteIndex') = d + 1
    BY <1>0, <2>1, <2>2, DistanceOfNext DEF From
  <2>4. \A i \in Indices : Distance(From, i) \in Nat
                           /\ (Distance(From, i) = d => i = uiWriteIndex)
    BY <1>0, DistanceRange, DistanceTells
  <2>5. \A i \in Indices : Waits(i)' <=> Waits(i) \/ i = uiWriteIndex
    BY <1>0, <2>2, <2>3, <2>4 DEF Waits
  <2>6. uiMidiQueue[uiWriteIndex] = producer.event
    BY <2>1 DEF RingInv
  <2>7. \A x : /\ ~Posting(x)'
               /\ Posting(x) <=> x = uiMidiQueue[uiWriteIndex]
    BY <2>1, <2>6 DEF Posting
  <2>8. \A k : OffAhead(k) => OffAhead(k)'
    BY <1>0, <2>1, <2>5, <2>7 DEF OffAhead
  <2>9. \A k : \A i \in Indices : Waits(i) /\ OffAfter(k, i) => OffAfter(k, i)'
    BY <1>0, <2>1, <2>3, <2>5, <2>7 DEF OffAfter, Waits
  <2>10. (Doomed' <=> Doomed) /\ (ResetUnderWay' <=> ResetUnderWay)
    BY <2>1 DEF Doomed, ResetUnderWay
  <2>11. HeldEnd'
    BY <2>8, <2>10 DEF KeyInv, HeldEnd
  <2>12. OnsEnd'
    <3> SUFFICES ASSUME ~Doomed', NEW k \in Keys, NEW i \in Indices,
                        Waits(i)', uiMidiQueue[i] = On(k), k \notin keysDown
                 PROVE  OffAfter(k, i)'
      BY <2>1 DEF OnsEnd
    <3>1. i # uiWriteIndex
      BY <2>7 DEF KeyInv
    <3>2. Waits(i) /\ OffAfter(k, i)
      BY <2>5, <2>10, <3>1 DEF KeyInv, OnsEnd
    <3> QED
      BY <2>9, <3>2
  <2> QED
    BY <2>7, <2>11, <2>12 DEF KeyInv
<1> QED
  BY <1>1, <1>2, <1>3 DEF Ring!ProducerContinues

\* A discard begins a new story.
LEMMA DiscardStep ==
    ASSUME ControlInv, RingInv, KeyInv, Ring!DiscardLoad,
           host.pc \in {"answering", "preparing", "released"},
           UNCHANGED <<engineReady, host, performer, keysDown>>
    PROVE  KeyInv'
<1>1. /\ From' = uiWriteIndex' /\ UNCHANGED <<uiWriteIndex, producer>>
      /\ panicRequested' = panicRequested
  BY DEF Ring!DiscardLoad, RingInv, Ring!TypeOk, From
<1>2. uiWriteIndex \in Indices
  BY FromInside
<1>3. \A i \in Indices : ~Waits(i)'
  BY <1>1, <1>2, DistanceRange, RingAssumption DEF Waits
<1>4. \A x : Posting(x)' <=> Posting(x)
  BY <1>1 DEF Posting
<1>5. OnsEnd'
  BY <1>3 DEF OnsEnd
<1>6. HeldEnd'
  <2>1. host.pc = "released" => performer.held = {}
    BY DEF ControlInv, KeyInv
  <2> QED
    BY <2>1 DEF HeldEnd, ResetUnderWay
<1> QED
  BY <1>4, <1>5, <1>6 DEF KeyInv

\* The performer hears the gesture at the cursor.
LEMMA HearStep ==
    ASSUME ControlInv, RingInv, KeyInv, consumer.pc = "remainder",
           consumer.cursor # consumer.end, Ring!AdvanceCursor,
           UNCHANGED <<engineReady, host, keysDown>>,
           NEW e, uiMidiQueue[consumer.cursor] = e,
           \/ \E k \in Keys : /\ e = On(k)
                             /\ performer'.held = performer.held \cup {k}
           \/ \E k \in Keys : /\ e = Off(k)
                             /\ performer'.held = performer.held \ {k}
           \/ /\ \A k \in Keys : e # On(k) /\ e # Off(k)
              /\ performer'.held = performer.held
    PROVE  KeyInv'
<1> DEFINE c == consumer.cursor
<1>0. /\ c \in Indices /\ uiWriteIndex \in Indices /\ From = c
      /\ Capacity \in Nat /\ consumer.end \in Indices /\ uiReadIndex \in Indices
      /\ consumer = [pc |-> consumer.pc, end |-> consumer.end,
                     cursor |-> consumer.cursor]
  BY FromInside, RingAssumption DEF RingInv, Ring!TypeOk, Indices, From
<1>1. /\ From' = Ring!NextIndex(c)
      /\ consumer'.pc = "remainder"
      /\ UNCHANGED <<uiMidiQueue, uiWriteIndex, panicRequested, producer>>
  BY <1>0 DEF Ring!AdvanceCursor, From
<1>2. host.pc = "reading" /\ engineReady
  BY DEF ControlInv, Answering
<1>3. c # uiWriteIndex
  <2>1. /\ Distance(uiReadIndex, c) <= Distance(uiReadIndex, consumer.end)
        /\ Distance(uiReadIndex, consumer.end) <= Distance(uiReadIndex, uiWriteIndex)
        /\ Distance(uiReadIndex, c) \in Nat /\ Distance(uiReadIndex, consumer.end) \in Nat
    BY <1>0, DistanceRange DEF RingInv
  <2>2. Distance(uiReadIndex, c) # Distance(uiReadIndex, consumer.end)
    BY <1>0, DistanceTells
  <2> QED
    BY <2>1, <2>2
<1> HIDE DEF c
<1>4. /\ \A i \in Indices : Distance(c, i) \in 0 .. Capacity - 1
                            /\ (Distance(c, i) = 0 <=> c = i)
      /\ \A i \in Indices : i # c => Distance(From', i) = Distance(c, i) - 1
  BY <1>0, <1>1, DistanceRange, DistanceFromNext
<1>5. Distance(From', c) = Capacity - 1
  BY <1>0, <1>1, RingAssumption
  DEF Indices, Ring!Indices, Distance, Ring!Distance, Ring!NextIndex
<1>6. /\ Waits(c)
      /\ \A i \in Indices : Waits(i)' <=> Waits(i) /\ i # c
  BY <1>0, <1>1, <1>3, <1>4, <1>5 DEF Waits
<1>7. \A x : Posting(x)' <=> Posting(x)
  BY <1>1 DEF Posting
<1>8. \A k : \A i \in Indices : i # c /\ OffAfter(k, i) => OffAfter(k, i)'
  BY <1>0, <1>1, <1>4, <1>6, <1>7 DEF OffAfter
<1>9. \A k : OffAfter(k, c) => OffAhead(k)'
  BY <1>0, <1>1, <1>4, <1>6, <1>7 DEF OffAfter, OffAhead
<1>10. \A k : OffAhead(k) /\ e # Off(k) => OffAhead(k)'
  BY <1>1, <1>6, <1>7 DEF OffAhead, c
<1>11. /\ Doomed' <=> Doomed
       /\ ResetUnderWay' <=> ResetUnderWay
       /\ ~ResetUnderWay => ~Doomed
  BY <1>1, <1>2 DEF Doomed, ResetUnderWay
<1>12. OnsEnd'
  BY <1>1, <1>6, <1>8, <1>11 DEF KeyInv, OnsEnd
<1>13. HeldEnd'
  <2> SUFFICES ASSUME ~ResetUnderWay, NEW k \in performer'.held, k \notin keysDown
               PROVE  OffAhead(k)'
    BY <1>11 DEF HeldEnd
  <2>1. CASE k \in performer.held /\ e # Off(k)
    BY <1>10, <2>1 DEF KeyInv, HeldEnd
  <2>2. CASE k \in Keys /\ e = On(k)
    BY <1>0, <1>6, <1>9, <1>11, <2>2 DEF KeyInv, OnsEnd, c
  <2> QED
    BY <2>1, <2>2 DEF KeyInv, On, Off
<1>14. performer'.held \subseteq Keys
  BY DEF KeyInv
<1> QED
  BY <1>1, <1>2, <1>7, <1>12, <1>13, <1>14 DEF KeyInv

-----------------------------------------------------------------------------
(***************************************************************************)
(* Every step of the three callers.                                        *)
(***************************************************************************)
LEMMA MessageThreadStep ==
    ASSUME ControlInv, RingInv, RingInv', KeyInv,
           MessageThreadStarts \/ MessageThreadContinues
    PROVE  KeyInv'
<1>1. ASSUME NEW k \in Keys, PressKey(k) \/ LiftKey(k) PROVE KeyInv'
  <2>1. \/ Posts(On(k)) /\ keysDown' = keysDown \cup {k}
        \/ Posts(Off(k)) /\ keysDown' = keysDown \ {k}
    BY <1>1 DEF PressKey, LiftKey, On, Off, Posts, Gestures, KeyGestures
  <2>2. /\ producer.pc = "idle"
        /\ UNCHANGED <<engineReady, host, performer>>
    BY <1>1 DEF PressKey, LiftKey, MessageThreadFree
  <2> QED
    BY <2>1, <2>2, PostStep
<1>2. CASE ClickPost
  <2>1. /\ Posts(editor.event) /\ producer.pc = "idle"
        /\ UNCHANGED <<engineReady, host, performer, keysDown>>
    BY <1>2 DEF ClickPost, Posts, Gestures, ControlInv
  <2>2. \A k \in Keys : editor.event # On(k)
    BY <1>2 DEF ClickPost, ControlInv, Clicks, On
  <2> QED
    BY <2>1, <2>2, PostStep
<1>3. ASSUME Ring!ProducerContinues, UNCHANGED <<engineReady, host, performer, keysDown>>
      PROVE  KeyInv'
  BY <1>3, ProducerStep
<1>4. ASSUME UNCHANGED <<uiMidiQueue, uiWriteIndex, uiReadIndex, producer, consumer,
                         engineReady, host, performer, keysDown>>,
             panicRequested' = panicRequested \/ panicRequested' = TRUE
      PROVE  KeyInv'
  <2>1. From' = From
    BY <1>4 DEF From
  <2>2. (Doomed => Doomed') /\ (ResetUnderWay => ResetUnderWay')
    BY <1>4 DEF Doomed, ResetUnderWay
  <2>3. ~engineReady /\ host.pc \in {"away", "released"} => performer.held = {}
    BY DEF KeyInv
  <2> QED
    BY <1>4, <2>1, <2>2, <2>3, CalmStep
<1>5. ASSUME Ring!RequestPanic, UNCHANGED <<engineReady, host, performer, keysDown>>
      PROVE  KeyInv'
  BY <1>4, <1>5 DEF Ring!RequestPanic
<1>6. ASSUME UNCHANGED <<ringVars, engineReady, host, performer, keysDown>>
      PROVE  KeyInv'
  BY <1>4, <1>6 DEF ringVars
<1> QED
  BY <1>1, <1>2, <1>3, <1>5, <1>6
  DEF MessageThreadStarts, MessageThreadContinues, ClickLatch, SetHold,
      RestoreStyle, RestoreHold, RestorePanic, PanicButton, editorVars

\* A reset of the performer, or a call that leaves it and the story alone.
LEMMA CallStep ==
    ASSUME ControlInv, RingInv, KeyInv,
           UNCHANGED <<uiMidiQueue, uiWriteIndex, producer, keysDown, From>>,
           performer'.held \in {performer.held, {}},
           performer'.held = {} \/ (ResetUnderWay => ResetUnderWay'),
           ~engineReady' /\ host'.pc \in {"away", "released"} =>
               performer'.held = {},
           Doomed => Doomed'
    PROVE  KeyInv'
BY CalmStep

LEMMA LifecycleStep ==
    ASSUME ControlInv, RingInv, KeyInv, LifecycleStarts \/ LifecycleContinues
    PROVE  KeyInv'
<1>0. /\ host = [pc |-> host.pc, latch |-> host.latch]
      /\ performer = [base |-> performer.base, hold |-> performer.hold,
                      held |-> performer.held]
      /\ consumer = [pc |-> consumer.pc, end |-> consumer.end,
                     cursor |-> consumer.cursor]
  BY DEF ControlInv, RingInv, Ring!TypeOk
<1>1. CASE PrepareBegin
  <2>1. consumer.pc = "idle"
    BY <1>1 DEF PrepareBegin, ControlInv
  <2>2. From' = From /\ Doomed' /\ ResetUnderWay'
    BY <1>0, <1>1, <2>1 DEF PrepareBegin, From, Doomed, ResetUnderWay
  <2> QED
    BY <1>0, <1>1, <2>2, CallStep DEF PrepareBegin, editorVars
<1>2. ASSUME Ring!DiscardLoad, host.pc \in {"preparing", "released"},
             host' = [host EXCEPT !.pc = host.pc],
             UNCHANGED <<engineReady, performer, keysDown>>
      PROVE  KeyInv'
  <2>1. host' = host
    BY <1>0, <1>2
  <2> QED
    BY <1>2, <2>1, DiscardStep
<1>3. ASSUME Ring!DiscardStore, host.pc \in {"preparing", "released"},
             host' = [host EXCEPT !.pc = host.pc],
             UNCHANGED <<engineReady, performer, keysDown>>
      PROVE  KeyInv'
  <2>1. /\ host' = host
        /\ consumer.pc = "discarding" /\ consumer'.pc = "snapshot"
        /\ uiReadIndex' = consumer.end
        /\ UNCHANGED <<uiMidiQueue, uiWriteIndex, panicRequested, producer>>
    BY <1>0, <1>3 DEF Ring!DiscardStore
  <2>2. From' = From /\ (Doomed => Doomed') /\ (ResetUnderWay => ResetUnderWay')
    BY <1>3, <2>1 DEF From, Doomed, ResetUnderWay
  <2>3. ~engineReady /\ host.pc \in {"away", "released"} => performer.held = {}
    BY DEF KeyInv
  <2> QED
    BY <1>3, <2>1, <2>2, <2>3, CallStep
<1>4. CASE PrepareDiscard \/ ReleaseDiscard
  <2>1. \/ host.pc = "preparing" /\ host' = [host EXCEPT !.pc = "preparing"]
        \/ host.pc = "released" /\ host' = [host EXCEPT !.pc = "released"]
    BY <1>4 DEF PrepareDiscard, ReleaseDiscard, ContinueRing
  <2>2. /\ Ring!DiscardLoad \/ Ring!DiscardStore
        /\ UNCHANGED <<engineReady, performer, keysDown>>
    BY <1>4 DEF PrepareDiscard, ReleaseDiscard, ContinueRing, editorVars
  <2> QED
    BY <1>2, <1>3, <2>1, <2>2
<1>5. CASE PrepareMode
  <2>1. /\ host.pc = "preparing" /\ host'.pc = "prepared"
        /\ performer'.held = performer.held
        /\ UNCHANGED <<uiMidiQueue, uiWriteIndex, uiReadIndex, panicRequested,
                       producer, consumer, engineReady, keysDown>>
    BY <1>0, <1>5 DEF PrepareMode, ringVars, editorVars
  <2>2. From' = From /\ (Doomed => Doomed') /\ ResetUnderWay'
    BY <2>1 DEF From, Doomed, ResetUnderWay
  <2> QED
    BY <2>1, <2>2, CallStep
<1>6. CASE PrepareReset
  <2>1. /\ host.pc = "prepared" /\ host'.pc = "away" /\ engineReady'
        /\ performer'.held = {}
        /\ consumer.pc = "snapshot" /\ consumer'.pc = "idle"
        /\ UNCHANGED <<uiMidiQueue, uiWriteIndex, uiReadIndex, panicRequested,
                       producer, keysDown>>
    BY <1>0, <1>6 DEF PrepareReset, ResetFromLatches, editorVars, ControlInv
  <2>2. From' = From /\ (Doomed => Doomed')
    BY <2>1 DEF From, Doomed
  <2> QED
    BY <2>1, <2>2, CallStep
<1>7. CASE ReleaseBegin
  <2>1. /\ host.pc = "away" /\ host'.pc = "releasing" /\ ~engineReady'
        /\ UNCHANGED <<uiMidiQueue, uiWriteIndex, uiReadIndex, panicRequested,
                       producer, consumer, performer, keysDown>>
    BY <1>0, <1>7 DEF ReleaseBegin, ringVars, editorVars
  <2>2. From' = From /\ Doomed' /\ ResetUnderWay'
    BY <2>1 DEF From, Doomed, ResetUnderWay
  <2> QED
    BY <2>1, <2>2, CallStep
<1>8. CASE ReleaseReset
  <2>1. /\ host.pc = "releasing" /\ host'.pc = "released"
        /\ performer'.held = {}
        /\ consumer.pc = "idle" /\ consumer'.pc = "discard"
        /\ UNCHANGED <<uiMidiQueue, uiWriteIndex, uiReadIndex, panicRequested,
                       producer, keysDown>>
    BY <1>0, <1>8 DEF ReleaseReset, ResetFromLatches, editorVars, ControlInv
  <2>2. From' = From /\ Doomed'
    BY <2>1 DEF From, Doomed
  <2> QED
    BY <2>1, <2>2, CallStep
<1>9. CASE ReleaseEnd
  <2>1. /\ host.pc = "released" /\ host'.pc = "away" /\ ~engineReady'
        /\ performer'.held = {} /\ performer.held = {}
        /\ consumer.pc = "snapshot" /\ consumer'.pc = "idle"
        /\ UNCHANGED <<uiMidiQueue, uiWriteIndex, uiReadIndex, producer, keysDown>>
    BY <1>0, <1>9 DEF ReleaseEnd, editorVars, ControlInv, KeyInv
  <2>2. From' = From /\ Doomed'
    BY <2>1 DEF From, Doomed
  <2> QED
    BY <2>1, <2>2, CallStep
<1>10. CASE MalformedBlock
  <2>1. /\ panicRequested' = TRUE
        /\ UNCHANGED <<uiMidiQueue, uiWriteIndex, uiReadIndex, producer, consumer,
                       keysDown, engineReady, host, performer>>
    BY <1>10 DEF MalformedBlock, editorVars
  <2>2. From' = From /\ Doomed' /\ ResetUnderWay'
    BY <2>1 DEF From, Doomed, ResetUnderWay
  <2>3. ~engineReady /\ host.pc \in {"away", "released"} => performer.held = {}
    BY DEF KeyInv
  <2> QED
    BY <2>1, <2>2, <2>3, CallStep
<1> QED
  BY <1>1, <1>4, <1>5, <1>6, <1>7, <1>8, <1>9, <1>10
  DEF LifecycleStarts, LifecycleContinues

LEMMA CallbackStep ==
    ASSUME ControlInv, RingInv, KeyInv,
           BlockStep \/ HostLatch \/ \E s \in HostStyles : HostKeyswitch(s)
    PROVE  KeyInv'
<1>0. /\ host = [pc |-> host.pc, latch |-> host.latch]
      /\ performer = [base |-> performer.base, hold |-> performer.hold,
                      held |-> performer.held]
      /\ consumer = [pc |-> consumer.pc, end |-> consumer.end,
                     cursor |-> consumer.cursor]
  BY DEF ControlInv, RingInv, Ring!TypeOk
<1>1. CASE EnterBlock
  <2>1. /\ host.pc = "away" /\ host'.pc = "entered" /\ engineReady /\ engineReady'
        /\ performer'.held = performer.held
        /\ UNCHANGED <<uiMidiQueue, uiWriteIndex, uiReadIndex, panicRequested,
                       producer, consumer, keysDown>>
    BY <1>0, <1>1 DEF EnterBlock, ringVars, editorVars
  <2>2. From' = From /\ (Doomed => Doomed') /\ (ResetUnderWay => ResetUnderWay')
    BY <2>1 DEF From, Doomed, ResetUnderWay
  <2> QED
    BY <2>1, <2>2, CallStep
<1>2. CASE ExchangePanic
  <2>1. /\ host.pc = "entered" /\ engineReady /\ engineReady'
        /\ consumer.pc = "idle" /\ performer' = performer
        /\ IF panicRequested
           THEN host'.pc = "answering" /\ consumer'.pc = "discard"
           ELSE /\ host'.pc = "reading" /\ consumer'.pc = "snapshot"
                /\ ~panicRequested'
        /\ UNCHANGED <<uiMidiQueue, uiWriteIndex, uiReadIndex, producer, keysDown>>
    BY <1>0, <1>2
    DEF ExchangePanic, ContinueRing, Ring!ExchangePanic, editorVars, ControlInv
  <2>2. From' = From /\ (Doomed => Doomed') /\ (ResetUnderWay => ResetUnderWay')
    BY <2>1 DEF From, Doomed, ResetUnderWay
  <2> QED
    BY <2>1, <2>2, CallStep
<1>3. CASE AnswerDiscard
  <2>1. /\ host.pc = "answering" /\ host' = host /\ engineReady
        /\ Ring!DiscardLoad \/ Ring!DiscardStore
        /\ UNCHANGED <<engineReady, performer, keysDown>>
    BY <1>0, <1>3 DEF AnswerDiscard, ContinueRing, editorVars, ControlInv
  <2>2. CASE Ring!DiscardLoad
    BY <2>1, <2>2, DiscardStep
  <2>3. CASE Ring!DiscardStore
    <3>1. /\ consumer.pc = "discarding" /\ consumer'.pc = "snapshot"
          /\ uiReadIndex' = consumer.end
          /\ UNCHANGED <<uiMidiQueue, uiWriteIndex, panicRequested, producer>>
      BY <1>0, <2>3 DEF Ring!DiscardStore
    <3>2. From' = From /\ (Doomed => Doomed') /\ ResetUnderWay'
      BY <2>1, <3>1 DEF From, Doomed, ResetUnderWay
    <3> QED
      BY <2>1, <3>1, <3>2, CallStep
  <2> QED
    BY <2>1, <2>2, <2>3
<1>4. CASE AnswerReset
  <2>1. /\ engineReady /\ engineReady' /\ performer'.held = {}
        /\ UNCHANGED <<uiMidiQueue, uiWriteIndex, uiReadIndex, panicRequested,
                       producer, consumer, keysDown>>
    BY <1>0, <1>4
    DEF AnswerReset, ResetFromLatches, ringVars, editorVars, ControlInv
  <2>2. From' = From /\ (Doomed => Doomed')
    BY <2>1 DEF From, Doomed
  <2> QED
    BY <2>1, <2>2, CallStep
<1>5. CASE ReadRing
  <2>1. /\ host.pc = "reading" /\ host'.pc \in {"reading", "tail"}
        /\ host' = [host EXCEPT !.pc = host'.pc]
        /\ engineReady /\ engineReady'
        /\ UNCHANGED <<performer, keysDown>>
        /\ Ring!ReleaseSlots \/ host'.pc = "reading"
        /\ \/ Ring!Snapshot \/ Ring!RestartWithRemainder \/ Ring!ReleaseSlots
           \/ Ring!Skip
    BY <1>0, <1>5 DEF ReadRing, ContinueRing, editorVars, ControlInv
  <2>2. ASSUME UNCHANGED <<uiMidiQueue, uiWriteIndex, panicRequested, producer, From>>,
               consumer.pc # "discard"
        PROVE  KeyInv'
    <3>1. (Doomed => Doomed') /\ (ResetUnderWay => ResetUnderWay')
      BY <2>1, <2>2 DEF Doomed, ResetUnderWay
    <3> QED
      BY <2>1, <2>2, <3>1, CallStep
  <2>3. CASE Ring!Snapshot
    BY <2>2, <2>3 DEF Ring!Snapshot, From
  <2>4. CASE Ring!RestartWithRemainder
    <3>1. /\ consumer.pc = "conditioning"
          /\ consumer' = [pc |-> "remainder", end |-> consumer.end,
                          cursor |-> uiReadIndex]
          /\ UNCHANGED <<uiMidiQueue, uiWriteIndex, uiReadIndex, panicRequested,
                         producer>>
      BY <1>0, <2>4 DEF Ring!RestartWithRemainder
    <3> QED
      BY <2>2, <3>1 DEF From
  <2>5. CASE Ring!ReleaseSlots
    <3>1. /\ consumer.pc = "remainder" /\ consumer.cursor = consumer.end
          /\ consumer'.pc = "idle" /\ uiReadIndex' = consumer.end
          /\ UNCHANGED <<uiMidiQueue, uiWriteIndex, panicRequested, producer>>
      BY <1>0, <2>5 DEF Ring!ReleaseSlots
    <3> QED
      BY <2>2, <3>1 DEF From
  <2>6. CASE Ring!Skip
    <3>1. CASE Ring!SkipSlot("conditioning", Clicks)
      <4>1. /\ consumer.pc = "conditioning" /\ consumer'.pc = "conditioning"
            /\ UNCHANGED <<uiMidiQueue, uiWriteIndex, uiReadIndex, panicRequested,
                           producer>>
        BY <1>0, <3>1 DEF Ring!SkipSlot, Ring!AdvanceCursor
      <4> QED
        BY <2>2, <4>1 DEF From
    <3>2. CASE Ring!SkipSlot("remainder", Gestures \ Clicks)
      <4> DEFINE e == uiMidiQueue[consumer.cursor]
      <4>1. /\ consumer.pc = "remainder" /\ consumer.cursor # consumer.end
            /\ e \notin Gestures \ Clicks /\ Ring!AdvanceCursor
        BY <3>2 DEF Ring!SkipSlot
      <4>2. \A k \in Keys : e # On(k) /\ e # Off(k)
        BY <4>1 DEF On, Off, Gestures, KeyGestures, Clicks
      <4>3. host' = host
        BY <1>0, <2>1, <4>1 DEF Ring!AdvanceCursor, Ring!ReleaseSlots
      <4> HIDE DEF e
      <4> QED
        BY <2>1, <4>1, <4>2, <4>3, HearStep DEF e
    <3> QED
      BY <2>6, <3>1, <3>2 DEF Ring!Skip, Ring!Remainder
  <2> QED
    BY <2>1, <2>3, <2>4, <2>5, <2>6
<1>6. ASSUME NEW e \in Gestures, DispatchGesture(e) PROVE KeyInv'
  <2>1. /\ host.pc = "reading" /\ engineReady
        /\ performer' = Played(e)
        /\ UNCHANGED <<engineReady, keysDown, host>>
        /\ \/ Ring!DispatchSlot("conditioning", Clicks, e)
           \/ Ring!DispatchSlot("remainder", Gestures \ Clicks, e)
    BY <1>6 DEF DispatchGesture, Ring!Dispatch, Ring!Remainder, editorVars,
                ControlInv
  <2>2. CASE Ring!DispatchSlot("conditioning", Clicks, e)
    <3>1. /\ consumer.pc = "conditioning" /\ consumer'.pc = "conditioning"
          /\ UNCHANGED <<uiMidiQueue, uiWriteIndex, uiReadIndex, panicRequested,
                         producer>>
      BY <1>0, <2>2 DEF Ring!DispatchSlot, Ring!AdvanceCursor
    <3>2. performer'.held = performer.held
      BY <1>0, <2>1, <2>2 DEF Played, Ring!DispatchSlot, Clicks
    <3>3. From' = From /\ (Doomed => Doomed') /\ (ResetUnderWay => ResetUnderWay')
      BY <2>1, <3>1 DEF From, Doomed, ResetUnderWay
    <3> QED
      BY <2>1, <3>1, <3>2, <3>3, CallStep
  <2>3. CASE Ring!DispatchSlot("remainder", Gestures \ Clicks, e)
    <3>1. /\ consumer.pc = "remainder" /\ consumer.cursor # consumer.end
          /\ uiMidiQueue[consumer.cursor] = e /\ Ring!AdvanceCursor
          /\ e \in KeyGestures
      BY <2>3 DEF Ring!DispatchSlot, Gestures
    <3>2. PICK k \in Keys : e = On(k) \/ e = Off(k)
      BY <3>1 DEF KeyGestures, On, Off
    <3>3. \/ e = On(k) /\ performer'.held = performer.held \cup {k}
          \/ e = Off(k) /\ performer'.held = performer.held \ {k}
      BY <1>0, <2>1, <3>2 DEF Played, On, Off
    <3> QED
      BY <2>1, <3>1, <3>3, HearStep
  <2> QED
    BY <2>1, <2>2, <2>3
<1>7. CASE EndBlock \/ HostLatch \/ \E s \in HostStyles : HostKeyswitch(s)
  <2>1. /\ engineReady' = engineReady
        /\ host.pc = host'.pc \/ (host.pc = "tail" /\ host'.pc = "away")
        /\ performer'.held = performer.held
        /\ UNCHANGED <<uiMidiQueue, uiWriteIndex, uiReadIndex, panicRequested,
                       producer, consumer, keysDown>>
    BY <1>0, <1>7 DEF EndBlock, HostLatch, HostKeyswitch, ringVars, editorVars
  <2>2. From' = From /\ (Doomed => Doomed') /\ (ResetUnderWay => ResetUnderWay')
    BY <2>1 DEF From, Doomed, ResetUnderWay
  <2>3. ~engineReady' /\ host'.pc \in {"away", "released"} => performer.held = {}
    BY <2>1 DEF KeyInv, ControlInv
  <2> QED
    BY <2>1, <2>2, <2>3, CallStep
<1> QED
  BY <1>1, <1>2, <1>3, <1>4, <1>5, <1>6, <1>7 DEF BlockStep

-----------------------------------------------------------------------------
(***************************************************************************)
(* The strip, when only the strip selects styles.                          *)
(***************************************************************************)

\* A reset of the performer, or nothing it hears.
LEMMA StripCalm ==
    ASSUME StripInv,
           UNCHANGED <<FromClicks, uiMidiQueue, uiWriteIndex, producer,
                       playStyleIndex, editor>>,
           \/ performer'.base = playStyleIndex
           \/ performer'.base = performer.base /\ (~ResetDue' => ~ResetDue),
           ~Doomed' => ~Doomed
    PROVE  StripInv'
<1>1. \A i \in Indices : Pending(i)' <=> Pending(i)
  BY DEF Pending
<1>2. Coming' <=> Coming
  BY DEF Coming, Posting
<1>3. \A i \in Indices : Shown(i)' <=> Shown(i)
  BY <1>1 DEF Shown
<1>4. (ShownAhead' <=> ShownAhead) /\ \A i : ShownAfter(i)' <=> ShownAfter(i)
  BY <1>2, <1>3 DEF ShownAhead, ShownAfter
<1>5. ClicksEnd'
  BY <1>1, <1>4 DEF StripInv, ClicksEnd, Restoring
<1>6. StripPosts'
  BY DEF StripInv, StripPosts, Posting
<1> QED
  BY <1>4, <1>5, <1>6 DEF StripInv

\* The style the strip shows is being posted, or a reset is going to read it.
LEMMA StripPromises ==
    ASSUME StripPosts',
           \/ playStyleIndex' \in ClickStyles /\ Coming'
           \/ (Doomed' \/ Restoring') /\ ResetDue'
    PROVE  StripInv'
<1>1. CASE (Doomed' \/ Restoring') /\ ResetDue'
  BY <1>1 DEF StripInv, ClicksEnd
<1>2. CASE playStyleIndex' \in ClickStyles /\ Coming'
  <2>1. ShownAhead' /\ \A i \in Indices : ShownAfter(i)'
    BY <1>2 DEF ShownAhead, ShownAfter
  <2> QED
    BY <2>1 DEF StripInv, ClicksEnd
<1> QED
  BY <1>1, <1>2

\* The first slot that may hold a click to be heard is on the ring, and not
\* beyond the last.
LEMMA FromClicksInside ==
    ASSUME RingInv
    PROVE  /\ FromClicks \in Indices /\ uiWriteIndex \in Indices
           /\ producer.pc \in {"store", "publish"} =>
                 Distance(FromClicks, uiWriteIndex) < Capacity - 1
<1>0. /\ uiReadIndex \in Indices /\ uiWriteIndex \in Indices
      /\ consumer.end \in Indices /\ consumer.cursor \in Indices
      /\ Capacity \in Nat /\ Capacity >= 2
  BY RingAssumption DEF RingInv, Ring!TypeOk, Indices
<1>1. FromClicks \in Indices
  BY <1>0 DEF FromClicks
<1>2. Distance(uiReadIndex, FromClicks) <= Distance(uiReadIndex, uiWriteIndex)
  <2>1. /\ Distance(uiReadIndex, uiReadIndex) = 0
        /\ Distance(uiReadIndex, uiWriteIndex) \in 0 .. Capacity - 1
        /\ Distance(uiReadIndex, consumer.end) \in 0 .. Capacity - 1
        /\ Distance(uiReadIndex, consumer.cursor) \in 0 .. Capacity - 1
    BY <1>0, DistanceRange
  <2> QED
    BY <1>0, <2>1 DEF FromClicks, RingInv
<1>3. /\ Distance(FromClicks, uiWriteIndex)
           = Distance(uiReadIndex, uiWriteIndex) - Distance(uiReadIndex, FromClicks)
      /\ Distance(uiReadIndex, FromClicks) \in 0 .. Capacity - 1
      /\ Distance(uiReadIndex, uiWriteIndex) \in 0 .. Capacity - 1
  BY <1>0, <1>1, <1>2, DistanceFromMiddle, DistanceRange
<1> QED
  BY <1>0, <1>1, <1>3 DEF RingInv

\* A click on its way into the ring is still one on its way.
LEMMA StripProducer ==
    ASSUME RingInv, StripInv, Ring!ProducerContinues,
           UNCHANGED <<engineReady, host, performer, playStyleIndex, editor>>
    PROVE  StripInv'
<1>0. /\ FromClicks \in Indices /\ uiWriteIndex \in Indices
      /\ uiMidiQueue \in [Indices -> Gestures \cup {Blank}]
      /\ producer = [pc |-> producer.pc, event |-> producer.event]
      /\ Capacity \in Nat
  BY FromClicksInside, RingAssumption DEF RingInv, Ring!TypeOk, Indices
<1>00. StripPosts'
  BY <1>0 DEF StripInv, StripPosts, Posting, Ring!ProducerContinues,
              Ring!RaisePanic, Ring!StoreSlot, Ring!PublishWrite
<1>1. CASE Ring!RaisePanic
  <2>1. panicRequested' = TRUE
    BY <1>0, <1>1 DEF Ring!RaisePanic
  <2>2. Doomed' /\ ResetDue'
    BY <2>1 DEF Doomed, ResetDue, ResetUnderWay
  <2> QED
    BY <1>00, <2>2, StripPromises
<1>2. CASE Ring!StoreSlot
  <2>1. /\ producer.pc = "store"
        /\ producer' = [pc |-> "publish", event |-> producer.event]
        /\ uiMidiQueue' = [uiMidiQueue EXCEPT ![uiWriteIndex] = producer.event]
        /\ UNCHANGED <<uiWriteIndex, uiReadIndex, panicRequested, consumer>>
    BY <1>0, <1>2 DEF Ring!StoreSlot
  <2>2. /\ Coming' <=> Coming
        /\ FromClicks' = FromClicks
        /\ \A i \in Indices : Pending(i)' <=> Pending(i)
    BY <2>1 DEF Coming, Posting, FromClicks, Pending
  <2>3. \A i \in Indices : Pending(i) => uiMidiQueue'[i] = uiMidiQueue[i]
    <3>1. Distance(FromClicks, uiWriteIndex) \in Nat
      BY <1>0, DistanceRange
    <3> QED
      BY <1>0, <2>1, <3>1 DEF Pending
  <2>4. \A i \in Indices : Shown(i)' <=> Shown(i)
    BY <2>2, <2>3 DEF Shown
  <2>5. (ShownAhead' <=> ShownAhead) /\ \A i : ShownAfter(i) => ShownAfter(i)'
    BY <2>2, <2>4 DEF ShownAhead, ShownAfter
  <2>6. /\ Doomed' <=> Doomed
        /\ Restoring' <=> Restoring
        /\ ResetDue' <=> ResetDue
    BY <2>1 DEF Doomed, Restoring, ResetDue, ResetUnderWay
  <2>7. ClicksEnd'
    BY <2>2, <2>3, <2>5, <2>6 DEF StripInv, ClicksEnd
  <2> QED
    BY <1>00, <2>5, <2>6, <2>7 DEF StripInv
<1>3. CASE Ring!PublishWrite
  <2> DEFINE d == Distance(FromClicks, uiWriteIndex)
  <2>1. /\ producer.pc = "publish" /\ producer'.pc = "idle"
        /\ uiWriteIndex' = Ring!NextIndex(uiWriteIndex)
        /\ UNCHANGED <<uiMidiQueue, uiReadIndex, panicRequested, consumer>>
    BY <1>0, <1>3 DEF Ring!PublishWrite
  <2>2. d \in 0 .. Capacity - 1 /\ d < Capacity - 1
    BY <1>0, <2>1, FromClicksInside, DistanceRange
  <2>3. FromClicks' = FromClicks /\ Distance(FromClicks, uiWriteIndex') = d + 1
    BY <1>0, <2>1, <2>2, DistanceOfNext DEF FromClicks
  <2>4. \A i \in Indices : Distance(FromClicks, i) \in Nat
                           /\ (Distance(FromClicks, i) = d => i = uiWriteIndex)
    BY <1>0, DistanceRange, DistanceTells
  <2>5. \A i \in Indices : Pending(i)' <=> Pending(i) \/ i = uiWriteIndex
    BY <1>0, <2>2, <2>3, <2>4 DEF Pending
  <2>6. uiMidiQueue[uiWriteIndex] = producer.event
    BY <2>1 DEF RingInv
  <2>7. /\ \A i \in Indices : Shown(i) => Shown(i)'
        /\ Coming /\ ~Coming' =>
              \A i \in Indices : i = uiWriteIndex => Shown(i)'
    BY <1>0, <2>1, <2>5, <2>6 DEF Shown, Coming, Posting
  <2>8. ShownAhead => ShownAhead'
    BY <1>0, <2>7 DEF ShownAhead
  <2>9. \A i \in Indices : Pending(i) /\ ShownAfter(i) => ShownAfter(i)'
    BY <1>0, <2>3, <2>7 DEF ShownAfter, Pending
  <2>10. /\ Doomed' <=> Doomed
         /\ Restoring' <=> Restoring
         /\ ResetDue' <=> ResetDue
    BY <2>1 DEF Doomed, Restoring, ResetDue, ResetUnderWay
  <2>11. ClicksEnd'
    <3> SUFFICES ASSUME ~Doomed', ~Restoring', NEW s \in ClickStyles,
                        NEW i \in Indices, Pending(i)', uiMidiQueue[i] = Style(s),
                        s # playStyleIndex
                 PROVE  ShownAfter(i)'
      BY <2>1 DEF ClicksEnd
    <3>1. i # uiWriteIndex
      BY <2>1, <2>6 DEF StripInv, StripPosts, Posting
    <3> QED
      BY <2>5, <2>9, <2>10, <3>1 DEF StripInv, ClicksEnd
  <2> QED
    BY <1>00, <2>8, <2>10, <2>11 DEF StripInv
<1> QED
  BY <1>1, <1>2, <1>3 DEF Ring!ProducerContinues

\* The conditioning pass hears or skips the gesture at the cursor.
LEMMA StripHear ==
    ASSUME ControlInv, RingInv, StripInv, consumer.pc = "conditioning",
           consumer.cursor # consumer.end, Ring!AdvanceCursor,
           UNCHANGED <<engineReady, host, playStyleIndex, editor>>,
           NEW e, uiMidiQueue[consumer.cursor] = e,
           \/ \E s \in ClickStyles : e = Style(s) /\ performer'.base = s
           \/ /\ \A s \in ClickStyles : e # Style(s)
              /\ performer'.base = performer.base
    PROVE  StripInv'
<1> DEFINE c == consumer.cursor
<1>0. /\ c \in Indices /\ uiWriteIndex \in Indices /\ FromClicks = c
      /\ Capacity \in Nat /\ consumer.end \in Indices /\ uiReadIndex \in Indices
      /\ consumer = [pc |-> consumer.pc, end |-> consumer.end,
                     cursor |-> consumer.cursor]
  BY FromClicksInside, RingAssumption
  DEF RingInv, Ring!TypeOk, Indices, FromClicks
<1>1. /\ FromClicks' = Ring!NextIndex(c)
      /\ consumer'.pc = "conditioning"
      /\ UNCHANGED <<uiMidiQueue, uiWriteIndex, panicRequested, producer>>
  BY <1>0 DEF Ring!AdvanceCursor, FromClicks
<1>2. host.pc = "reading" /\ engineReady
  BY DEF ControlInv, Answering
<1>3. c # uiWriteIndex
  <2>1. /\ Distance(uiReadIndex, c) <= Distance(uiReadIndex, consumer.end)
        /\ Distance(uiReadIndex, consumer.end) <= Distance(uiReadIndex, uiWriteIndex)
        /\ Distance(uiReadIndex, c) \in Nat /\ Distance(uiReadIndex, consumer.end) \in Nat
    BY <1>0, DistanceRange DEF RingInv
  <2>2. Distance(uiReadIndex, c) # Distance(uiReadIndex, consumer.end)
    BY <1>0, DistanceTells
  <2> QED
    BY <2>1, <2>2
<1> HIDE DEF c
<1>4. /\ \A i \in Indices : Distance(c, i) \in 0 .. Capacity - 1
                            /\ (Distance(c, i) = 0 <=> c = i)
      /\ \A i \in Indices : i # c => Distance(FromClicks', i) = Distance(c, i) - 1
  BY <1>0, <1>1, DistanceRange, DistanceFromNext
<1>5. Distance(FromClicks', c) = Capacity - 1
  BY <1>0, <1>1, RingAssumption
  DEF Indices, Ring!Indices, Distance, Ring!Distance, Ring!NextIndex
<1>6. /\ Pending(c)
      /\ \A i \in Indices : Pending(i)' <=> Pending(i) /\ i # c
  BY <1>0, <1>1, <1>3, <1>4, <1>5 DEF Pending
<1>7. /\ Coming' <=> Coming
      /\ \A i \in Indices : Shown(i)' <=> Shown(i) /\ i # c
  BY <1>1, <1>6 DEF Coming, Posting, Shown
<1>8. \A i \in Indices : i # c /\ ShownAfter(i) => ShownAfter(i)'
  BY <1>0, <1>4, <1>7 DEF ShownAfter
<1>9. ShownAfter(c) => ShownAhead'
  BY <1>0, <1>4, <1>7 DEF ShownAfter, ShownAhead
<1>10. ShownAhead /\ e # Style(playStyleIndex) => ShownAhead'
  BY <1>7 DEF ShownAhead, Shown, c
<1>11. /\ Doomed' <=> Doomed
       /\ Restoring' <=> Restoring
       /\ ResetDue' <=> ResetDue
       /\ ~ResetDue => ~Doomed /\ ~Restoring
  BY <1>1, <1>2 DEF Doomed, Restoring, ResetDue, ResetUnderWay
<1>12. ClicksEnd'
  BY <1>1, <1>6, <1>8, <1>11 DEF StripInv, ClicksEnd
<1>13. ~ResetDue' => performer'.base = playStyleIndex \/ ShownAhead'
  <2> SUFFICES ASSUME ~ResetDue PROVE performer'.base = playStyleIndex \/ ShownAhead'
    BY <1>11
  <2>1. ASSUME NEW s \in ClickStyles, e = Style(s), performer'.base = s
        PROVE  performer'.base = playStyleIndex \/ ShownAhead'
    BY <1>0, <1>6, <1>9, <1>11, <2>1 DEF StripInv, ClicksEnd, c
  <2>2. CASE performer'.base = performer.base /\ \A s \in ClickStyles : e # Style(s)
    BY <1>10, <2>2 DEF StripInv, ShownAhead
  <2> QED
    BY <2>1, <2>2
<1>14. StripPosts'
  BY <1>1 DEF StripInv, StripPosts, Posting
<1> QED
  BY <1>12, <1>13, <1>14 DEF StripInv

\* A discard leaves no click to be heard, and a reset follows it.
LEMMA StripDiscard ==
    ASSUME ControlInv, RingInv, StripInv,
           Ring!DiscardLoad \/ Ring!DiscardStore,
           host.pc \in {"answering", "preparing"},
           UNCHANGED <<engineReady, host, performer, playStyleIndex, editor>>
    PROVE  StripInv'
<1>0. consumer = [pc |-> consumer.pc, end |-> consumer.end,
                  cursor |-> consumer.cursor]
  BY DEF RingInv, Ring!TypeOk
<1>1. CASE Ring!DiscardLoad
  <2>1. /\ FromClicks' = uiWriteIndex'
        /\ UNCHANGED <<uiWriteIndex, producer, panicRequested>>
    BY <1>0, <1>1 DEF Ring!DiscardLoad, FromClicks
  <2>2. \A i \in Indices : ~Pending(i)'
    BY <2>1, FromClicksInside, DistanceRange, RingAssumption DEF Pending
  <2>3. ClicksEnd' /\ ResetDue' /\ StripPosts'
    BY <2>1, <2>2
    DEF ClicksEnd, ResetDue, ResetUnderWay, StripInv, StripPosts, Posting
  <2> QED
    BY <2>3 DEF StripInv
<1>2. CASE Ring!DiscardStore
  <2>1. /\ consumer.pc = "discarding" /\ consumer'.pc = "snapshot"
        /\ uiReadIndex' = consumer.end
        /\ UNCHANGED <<uiMidiQueue, uiWriteIndex, panicRequested, producer>>
    BY <1>0, <1>2 DEF Ring!DiscardStore
  <2>2. FromClicks' = FromClicks /\ (Doomed => Doomed') /\ ResetDue'
    BY <2>1 DEF FromClicks, Doomed, ResetDue, ResetUnderWay
  <2> QED
    BY <2>1, <2>2, StripCalm
<1> QED
  BY <1>1, <1>2

LEMMA StripMessageThread ==
    ASSUME RingInv, ControlInv, StripInv,
           MessageThreadStarts \/ MessageThreadContinues
    PROVE  StripInv'
<1>0. /\ producer = [pc |-> producer.pc, event |-> producer.event]
      /\ producer.pc \in {"idle", "store", "publish", "alarm"}
  BY DEF RingInv, Ring!TypeOk
<1>1. ASSUME NEW e, e \in Gestures, Enqueue(e), producer.pc = "idle",
             playStyleIndex' = playStyleIndex, editor'.pc # "post",
             \A s \in ClickStyles : e = Style(s) => s = playStyleIndex
      PROVE  StripPosts'
  BY <1>1 DEF StripPosts, Posting, Enqueue, Ring!EnqueueAccept, Ring!EnqueueRefuse
<1>2. ASSUME NEW k \in Keys, PressKey(k) \/ LiftKey(k) PROVE StripInv'
  <2>1. PICK e \in Gestures : Enqueue(e) /\ \A s : e # Style(s)
    BY <1>2 DEF PressKey, LiftKey, Gestures, KeyGestures, Style
  <2>2. /\ producer.pc = "idle" /\ editor.pc = "idle"
        /\ UNCHANGED <<playStyleIndex, engineReady, editor, host, performer,
                       uiMidiQueue, uiWriteIndex, uiReadIndex, panicRequested,
                       consumer>>
    BY <1>2, <2>1 DEF PressKey, LiftKey, MessageThreadFree, Enqueue,
                      Ring!EnqueueAccept, Ring!EnqueueRefuse
  <2>3. StripPosts'
    BY <1>1, <2>1, <2>2
  <2>4. CASE Ring!EnqueueRefuse(e)
    <3>1. Doomed' /\ ResetDue'
      BY <2>4 DEF Ring!EnqueueRefuse, Doomed, ResetDue, ResetUnderWay
    <3> QED
      BY <2>3, <3>1, StripPromises
  <2>5. CASE Ring!EnqueueAccept(e)
    <3>1. producer' = [pc |-> "store", event |-> e]
      BY <2>5 DEF Ring!EnqueueAccept
    <3>2. /\ Coming' <=> Coming
          /\ \A i \in Indices : /\ Pending(i)' <=> Pending(i)
                                /\ Shown(i)' <=> Shown(i)
          /\ FromClicks' = FromClicks
      BY <2>1, <2>2, <3>1 DEF Coming, Posting, Shown, Pending, FromClicks
    <3>3. (ShownAhead' <=> ShownAhead) /\ \A i : ShownAfter(i)' <=> ShownAfter(i)
      BY <2>2, <3>2 DEF ShownAhead, ShownAfter
    <3>4. /\ Doomed' <=> Doomed
          /\ Restoring' <=> Restoring
          /\ ResetDue' <=> ResetDue
      BY <2>2, <3>1 DEF Doomed, Restoring, ResetDue, ResetUnderWay
    <3>5. ClicksEnd'
      BY <2>2, <3>2, <3>3, <3>4 DEF StripInv, ClicksEnd
    <3> QED
      BY <2>2, <2>3, <3>3, <3>4, <3>5 DEF StripInv
  <2> QED
    BY <2>1, <2>4, <2>5 DEF Enqueue
<1>3. ASSUME NEW s \in ClickStyles, ClickLatch(s) PROVE StripInv'
  <2>1. /\ playStyleIndex' = s /\ editor' = [pc |-> "post", event |-> Style(s)]
        /\ producer.pc = "idle" /\ producer' = producer
    BY <1>3 DEF ClickLatch, MessageThreadFree, Style, ringVars
  <2>2. StripPosts' /\ Coming'
    BY <2>1 DEF StripPosts, Posting, Coming
  <2> QED
    BY <2>1, <2>2, StripPromises
<1>4. CASE ClickPost
  <2>1. /\ editor.event = Style(playStyleIndex) /\ editor.event \in Clicks
        /\ Enqueue(editor.event) /\ producer.pc = "idle"
        /\ editor'.pc = "idle" /\ UNCHANGED <<playStyleIndex, engineReady, host>>
    BY <1>4 DEF ClickPost, StripInv, StripPosts, ControlInv
  <2>2. playStyleIndex \in ClickStyles
    BY <2>1 DEF Clicks, Style
  <2>3. StripPosts'
    BY <1>1, <2>1 DEF Gestures, Style
  <2>4. Coming' \/ (Doomed' /\ ResetDue')
    BY <2>1
    DEF Enqueue, Ring!EnqueueAccept, Ring!EnqueueRefuse, Coming, Posting,
        Doomed, ResetDue, ResetUnderWay
  <2> QED
    BY <2>1, <2>2, <2>3, <2>4, StripPromises
<1>5. ASSUME Ring!ProducerContinues,
             UNCHANGED <<playStyleIndex, engineReady, editor, host, performer>>
      PROVE  StripInv'
  BY <1>5, StripProducer
<1>6. ASSUME NEW s \in Styles, RestoreStyle(s) PROVE StripInv'
  <2>1. /\ editor'.pc = "restoreHold" /\ producer' = producer
        /\ producer.pc = "idle"
    BY <1>6 DEF RestoreStyle, MessageThreadFree, ringVars
  <2>2. StripPosts' /\ Restoring' /\ ResetDue'
    BY <2>1 DEF StripPosts, Posting, Restoring, ResetDue
  <2> QED
    BY <2>2, StripPromises
<1>7. ASSUME NEW h, RestoreHold(h) PROVE StripInv'
  <2>1. /\ editor'.pc = "restorePanic"
        /\ UNCHANGED <<producer, playStyleIndex>>
    BY <1>7 DEF RestoreHold, ControlInv, ringVars
  <2>2. StripPosts' /\ Restoring' /\ ResetDue'
    BY <2>1 DEF StripInv, StripPosts, Posting, Restoring, ResetDue
  <2> QED
    BY <2>2, StripPromises
<1>8. CASE RestorePanic \/ PanicButton
  <2>1. /\ panicRequested' = TRUE /\ editor'.pc = "idle"
        /\ UNCHANGED <<producer, playStyleIndex>>
    BY <1>8 DEF RestorePanic, PanicButton, Ring!RequestPanic, editorVars
  <2>2. StripPosts' /\ Doomed' /\ ResetDue'
    BY <2>1 DEF StripInv, StripPosts, Posting, Doomed, ResetDue, ResetUnderWay
  <2> QED
    BY <2>2, StripPromises
<1>9. ASSUME NEW h, SetHold(h) PROVE StripInv'
  <2>1. UNCHANGED <<uiMidiQueue, uiWriteIndex, uiReadIndex, panicRequested,
                    producer, consumer, playStyleIndex, engineReady, editor, host,
                    performer>>
    BY <1>9 DEF SetHold, ringVars, editorVars
  <2>2. FromClicks' = FromClicks /\ (Doomed' <=> Doomed) /\ (ResetDue' <=> ResetDue)
    BY <2>1 DEF FromClicks, Doomed, ResetDue, ResetUnderWay, Restoring
  <2> QED
    BY <2>1, <2>2, StripCalm
<1> QED
  BY <1>2, <1>3, <1>4, <1>5, <1>6, <1>7, <1>8, <1>9
  DEF MessageThreadStarts, MessageThreadContinues, editorVars

LEMMA StripLifecycle ==
    ASSUME ControlInv, RingInv, StripInv, LifecycleStarts \/ LifecycleContinues
    PROVE  StripInv'
<1>0. /\ host = [pc |-> host.pc, latch |-> host.latch]
      /\ performer = [base |-> performer.base, hold |-> performer.hold,
                      held |-> performer.held]
      /\ consumer = [pc |-> consumer.pc, end |-> consumer.end,
                     cursor |-> consumer.cursor]
  BY DEF ControlInv, RingInv, Ring!TypeOk
<1>1. ASSUME UNCHANGED <<producer, playStyleIndex, editor>>,
             Doomed' /\ ResetDue'
      PROVE  StripInv'
  BY <1>1, StripPromises DEF StripInv, StripPosts, Posting
<1>2. CASE PrepareBegin
  BY <1>0, <1>1, <1>2
  DEF PrepareBegin, Doomed, ResetDue, ResetUnderWay, editorVars
<1>3. CASE ReleaseBegin
  BY <1>0, <1>1, <1>3
  DEF ReleaseBegin, Doomed, ResetDue, ResetUnderWay, ringVars, editorVars
<1>4. CASE MalformedBlock
  BY <1>1, <1>4
  DEF MalformedBlock, Doomed, ResetDue, ResetUnderWay, editorVars
<1>5. CASE ReleaseReset
  <2>1. /\ host'.pc = "released" /\ ~engineReady /\ engineReady' = engineReady
        /\ UNCHANGED <<producer, playStyleIndex, editor>>
    BY <1>0, <1>5 DEF ReleaseReset, ControlInv, editorVars
  <2> QED
    BY <1>1, <2>1 DEF Doomed, ResetDue
<1>6. CASE ReleaseEnd
  <2>1. /\ host'.pc = "away" /\ ~engineReady /\ engineReady' = engineReady
        /\ UNCHANGED <<producer, playStyleIndex, editor>>
    BY <1>0, <1>6 DEF ReleaseEnd, ControlInv, editorVars
  <2> QED
    BY <1>1, <2>1 DEF Doomed, ResetDue
<1>7. CASE ReleaseDiscard
  <2>1. /\ host.pc = "released" /\ host' = [host EXCEPT !.pc = "released"]
        /\ ~engineReady /\ engineReady' = engineReady
        /\ Ring!DiscardLoad \/ Ring!DiscardStore
        /\ UNCHANGED <<playStyleIndex, editor>>
    BY <1>0, <1>7 DEF ReleaseDiscard, ContinueRing, ControlInv, editorVars
  <2>2. host'.pc = "released" /\ producer' = producer
    BY <1>0, <2>1 DEF Ring!DiscardLoad, Ring!DiscardStore
  <2> QED
    BY <1>1, <2>1, <2>2 DEF Doomed, ResetDue
<1>8. CASE PrepareDiscard
  <2>1. /\ host.pc = "preparing" /\ host' = host
        /\ Ring!DiscardLoad \/ Ring!DiscardStore
        /\ UNCHANGED <<playStyleIndex, engineReady, editor, performer>>
    BY <1>0, <1>8 DEF PrepareDiscard, ContinueRing, editorVars
  <2> QED
    BY <2>1, StripDiscard
<1>9. CASE PrepareMode
  <2>1. /\ host.pc = "preparing" /\ host'.pc = "prepared"
        /\ performer'.base = performer.base
        /\ UNCHANGED <<uiMidiQueue, uiWriteIndex, uiReadIndex, panicRequested,
                       producer, consumer, engineReady, playStyleIndex, editor>>
    BY <1>0, <1>9 DEF PrepareMode, ringVars, editorVars
  <2>2. FromClicks' = FromClicks /\ (Doomed => Doomed') /\ ResetDue'
    BY <2>1 DEF FromClicks, Doomed, ResetDue, ResetUnderWay
  <2> QED
    BY <2>1, <2>2, StripCalm
<1>10. CASE PrepareReset
  <2>1. /\ host.pc = "prepared" /\ host'.pc = "away" /\ engineReady'
        /\ performer'.base = playStyleIndex
        /\ consumer.pc = "snapshot" /\ consumer'.pc = "idle"
        /\ UNCHANGED <<uiMidiQueue, uiWriteIndex, uiReadIndex, panicRequested,
                       producer, playStyleIndex, editor>>
    BY <1>0, <1>10 DEF PrepareReset, ResetFromLatches, editorVars, ControlInv
  <2>2. FromClicks' = FromClicks /\ (Doomed => Doomed')
    BY <2>1 DEF FromClicks, Doomed
  <2> QED
    BY <2>1, <2>2, StripCalm
<1> QED
  BY <1>2, <1>3, <1>4, <1>5, <1>6, <1>7, <1>8, <1>9, <1>10
  DEF LifecycleStarts, LifecycleContinues

LEMMA StripCallback ==
    ASSUME ControlInv, RingInv, StripInv, BlockStep PROVE StripInv'
<1>0. /\ host = [pc |-> host.pc, latch |-> host.latch]
      /\ performer = [base |-> performer.base, hold |-> performer.hold,
                      held |-> performer.held]
      /\ consumer = [pc |-> consumer.pc, end |-> consumer.end,
                     cursor |-> consumer.cursor]
  BY DEF ControlInv, RingInv, Ring!TypeOk
<1>1. CASE EnterBlock \/ EndBlock
  <2>1. /\ host.pc \in {"away", "tail"} /\ host'.pc \in {"entered", "away"}
        /\ engineReady /\ engineReady' /\ performer'.base = performer.base
        /\ UNCHANGED <<uiMidiQueue, uiWriteIndex, uiReadIndex, panicRequested,
                       producer, consumer, playStyleIndex, editor>>
    BY <1>0, <1>1 DEF EnterBlock, EndBlock, ringVars, editorVars, ControlInv
  <2>2. FromClicks' = FromClicks /\ (Doomed => Doomed') /\ (ResetDue => ResetDue')
    BY <2>1 DEF FromClicks, Doomed, ResetDue, ResetUnderWay, Restoring
  <2> QED
    BY <2>1, <2>2, StripCalm
<1>2. CASE ExchangePanic
  <2>1. /\ host.pc = "entered" /\ engineReady /\ engineReady'
        /\ consumer.pc = "idle" /\ performer' = performer
        /\ IF panicRequested
           THEN host'.pc = "answering" /\ consumer'.pc = "discard"
           ELSE /\ host'.pc = "reading" /\ consumer'.pc = "snapshot"
                /\ ~panicRequested'
        /\ UNCHANGED <<uiMidiQueue, uiWriteIndex, uiReadIndex, producer,
                       playStyleIndex, editor>>
    BY <1>0, <1>2
    DEF ExchangePanic, ContinueRing, Ring!ExchangePanic, editorVars, ControlInv
  <2>2. FromClicks' = FromClicks /\ (Doomed => Doomed') /\ (ResetDue => ResetDue')
    BY <2>1 DEF FromClicks, Doomed, ResetDue, ResetUnderWay, Restoring
  <2> QED
    BY <2>1, <2>2, StripCalm
<1>3. CASE AnswerDiscard
  <2>1. /\ host.pc = "answering" /\ host' = host
        /\ Ring!DiscardLoad \/ Ring!DiscardStore
        /\ UNCHANGED <<engineReady, performer, playStyleIndex, editor>>
    BY <1>0, <1>3 DEF AnswerDiscard, ContinueRing, editorVars
  <2> QED
    BY <2>1, StripDiscard
<1>4. CASE AnswerReset
  <2>1. /\ engineReady /\ engineReady' /\ performer'.base = playStyleIndex
        /\ UNCHANGED <<uiMidiQueue, uiWriteIndex, uiReadIndex, panicRequested,
                       producer, consumer, playStyleIndex, editor>>
    BY <1>0, <1>4
    DEF AnswerReset, ResetFromLatches, ringVars, editorVars, ControlInv
  <2>2. FromClicks' = FromClicks /\ (Doomed => Doomed')
    BY <2>1 DEF FromClicks, Doomed
  <2> QED
    BY <2>1, <2>2, StripCalm
<1>5. ASSUME host.pc = "reading", engineReady,
             UNCHANGED <<FromClicks, uiMidiQueue, uiWriteIndex, producer,
                         panicRequested, playStyleIndex, editor, engineReady>>,
             performer'.base = performer.base, consumer.pc # "discard"
      PROVE  StripInv'
  <2>1. (Doomed => Doomed') /\ (ResetDue => ResetDue')
    BY <1>5 DEF Doomed, ResetDue, ResetUnderWay, Restoring
  <2> QED
    BY <1>5, <2>1, StripCalm
<1>6. ASSUME host.pc = "reading", engineReady, consumer.pc = "remainder",
             Ring!AdvanceCursor, performer'.base = performer.base,
             UNCHANGED <<engineReady, playStyleIndex, editor>>
      PROVE  StripInv'
  <2>1. /\ consumer'.pc = "remainder" /\ consumer'.end = consumer.end
        /\ UNCHANGED <<uiMidiQueue, uiWriteIndex, uiReadIndex, panicRequested,
                       producer>>
    BY <1>0, <1>6 DEF Ring!AdvanceCursor
  <2> QED
    BY <1>5, <1>6, <2>1 DEF FromClicks
<1>7. CASE ReadRing
  <2>1. /\ host.pc = "reading" /\ engineReady
        /\ UNCHANGED <<engineReady, performer, playStyleIndex, editor>>
        /\ \/ Ring!Snapshot \/ Ring!RestartWithRemainder \/ Ring!ReleaseSlots
           \/ Ring!Skip /\ host' = host
    BY <1>0, <1>7 DEF ReadRing, ContinueRing, editorVars, ControlInv
  <2>2. CASE Ring!Snapshot
    <3>1. /\ consumer.pc = "snapshot" /\ consumer'.pc = "conditioning"
          /\ consumer'.cursor = uiReadIndex
          /\ UNCHANGED <<uiMidiQueue, uiWriteIndex, uiReadIndex, panicRequested,
                         producer>>
      BY <2>2 DEF Ring!Snapshot
    <3> QED
      BY <1>5, <2>1, <3>1 DEF FromClicks
  <2>3. CASE Ring!RestartWithRemainder
    <3>1. /\ consumer.pc = "conditioning" /\ consumer.cursor = consumer.end
          /\ consumer' = [pc |-> "remainder", end |-> consumer.end,
                          cursor |-> uiReadIndex]
          /\ UNCHANGED <<uiMidiQueue, uiWriteIndex, uiReadIndex, panicRequested,
                         producer>>
      BY <1>0, <2>3 DEF Ring!RestartWithRemainder
    <3> QED
      BY <1>5, <2>1, <3>1 DEF FromClicks
  <2>4. CASE Ring!ReleaseSlots
    <3>1. /\ consumer.pc = "remainder" /\ consumer.cursor = consumer.end
          /\ consumer'.pc = "idle" /\ uiReadIndex' = consumer.end
          /\ UNCHANGED <<uiMidiQueue, uiWriteIndex, panicRequested, producer>>
      BY <1>0, <2>4 DEF Ring!ReleaseSlots
    <3> QED
      BY <1>5, <2>1, <3>1 DEF FromClicks
  <2>5. CASE Ring!SkipSlot("remainder", Gestures \ Clicks)
    BY <1>6, <2>1, <2>5 DEF Ring!SkipSlot
  <2>6. CASE Ring!SkipSlot("conditioning", Clicks) /\ host' = host
    <3> DEFINE e == uiMidiQueue[consumer.cursor]
    <3>1. /\ consumer.pc = "conditioning" /\ consumer.cursor # consumer.end
          /\ e \notin Clicks /\ Ring!AdvanceCursor
      BY <2>6 DEF Ring!SkipSlot
    <3>2. \A s \in ClickStyles : e # Style(s)
      BY <3>1 DEF Style, Clicks
    <3> HIDE DEF e
    <3> QED
      BY <2>1, <2>6, <3>1, <3>2, StripHear DEF e
  <2> QED
    BY <2>1, <2>2, <2>3, <2>4, <2>5, <2>6 DEF Ring!Skip, Ring!Remainder
<1>8. ASSUME NEW e \in Gestures, DispatchGesture(e) PROVE StripInv'
  <2>1. /\ host.pc = "reading" /\ engineReady
        /\ performer' = Played(e)
        /\ UNCHANGED <<engineReady, host, playStyleIndex, editor>>
        /\ \/ Ring!DispatchSlot("conditioning", Clicks, e)
           \/ Ring!DispatchSlot("remainder", Gestures \ Clicks, e)
    BY <1>8 DEF DispatchGesture, Ring!Dispatch, Ring!Remainder, editorVars,
                ControlInv
  <2>2. CASE Ring!DispatchSlot("conditioning", Clicks, e)
    <3>1. /\ consumer.pc = "conditioning" /\ consumer.cursor # consumer.end
          /\ uiMidiQueue[consumer.cursor] = e /\ Ring!AdvanceCursor
          /\ e \in Clicks
      BY <2>2 DEF Ring!DispatchSlot
    <3>2. PICK s \in ClickStyles : e = Style(s)
      BY <3>1 DEF Clicks, Style
    <3>3. performer'.base = s
      BY <1>0, <2>1, <3>2 DEF Played, Style
    <3> QED
      BY <2>1, <3>1, <3>2, <3>3, StripHear
  <2>3. CASE Ring!DispatchSlot("remainder", Gestures \ Clicks, e)
    <3>1. consumer.pc = "remainder" /\ Ring!AdvanceCursor /\ e \in KeyGestures
      BY <2>3 DEF Ring!DispatchSlot, Gestures
    <3>2. performer'.base = performer.base
      BY <1>0, <2>1, <3>1 DEF Played, KeyGestures
    <3> QED
      BY <1>6, <2>1, <3>1, <3>2
  <2> QED
    BY <2>1, <2>2, <2>3
<1> QED
  BY <1>1, <1>2, <1>3, <1>4, <1>7, <1>8 DEF BlockStep

\* Only a keyswitch of the host is latched for the strip.
LEMMA LatchStays ==
    ASSUME ControlInv, RingInv, host.latch = Blank,
           \/ MessageThreadStarts \/ MessageThreadContinues
           \/ LifecycleStarts \/ LifecycleContinues \/ BlockStep
    PROVE  host'.latch = Blank
<1>0. host = [pc |-> host.pc, latch |-> host.latch]
  BY DEF ControlInv
<1>1. CASE MessageThreadStarts \/ MessageThreadContinues
  BY <1>1
  DEF MessageThreadStarts, MessageThreadContinues, PressKey, LiftKey, ClickLatch,
      ClickPost, SetHold, RestoreStyle, RestoreHold, RestorePanic, PanicButton
<1>2. CASE LifecycleStarts \/ LifecycleContinues
  BY <1>0, <1>2
  DEF LifecycleStarts, LifecycleContinues, PrepareBegin, ReleaseBegin,
      MalformedBlock, PrepareDiscard, PrepareMode, PrepareReset, ReleaseReset,
      ReleaseDiscard, ReleaseEnd, ContinueRing
<1>3. CASE BlockStep
  BY <1>0, <1>3
  DEF BlockStep, EnterBlock, ExchangePanic, AnswerDiscard, AnswerReset, ReadRing,
      EndBlock, DispatchGesture, ContinueRing
<1> QED
  BY <1>1, <1>2, <1>3

-----------------------------------------------------------------------------
(***************************************************************************)
(* The strip, when only the host's keyswitches select styles.              *)
(***************************************************************************)
LEMMA HostStep ==
    ASSUME ControlInv, RingInv, ClickStyles = {}, HostInv, Next
    PROVE  HostInv'
<1>0. /\ host = [pc |-> host.pc, latch |-> host.latch]
      /\ performer = [base |-> performer.base, hold |-> performer.hold,
                      held |-> performer.held]
      /\ consumer = [pc |-> consumer.pc, end |-> consumer.end,
                     cursor |-> consumer.cursor]
      /\ producer = [pc |-> producer.pc, event |-> producer.event]
      /\ panicRequested \in BOOLEAN
      /\ Clicks = {}
  BY DEF ControlInv, RingInv, Ring!TypeOk, Clicks
<1> DEFINE TakesItsTurn ==
       /\ host'.latch = host.latch /\ playStyleIndex' = playStyleIndex
       /\ host.latch # Blank => /\ host'.pc \in {"reading", "tail"}
                                /\ performer'.base = performer.base
       /\ host.latch = Blank =>
             \/ ResetDue'
             \/ performer'.base = playStyleIndex
             \/ ~ResetDue /\ performer'.base = performer.base
<1>1. ASSUME TakesItsTurn PROVE HostInv'
  BY <1>1 DEF HostInv
<1> HIDE DEF TakesItsTurn
<1>2. CASE MessageThreadStarts \/ MessageThreadContinues
  <2>1. /\ UNCHANGED <<engineReady, host, performer>>
        /\ editor.pc # "post"
        /\ panicRequested' = panicRequested \/ panicRequested' = TRUE
        /\ \/ editor' = editor \/ panicRequested' = TRUE
           \/ editor'.pc \in {"restoreHold", "restorePanic"}
        /\ \/ playStyleIndex' = playStyleIndex
           \/ editor'.pc = "restoreHold"
        /\ producer.pc = "alarm" => producer' = producer \/ panicRequested' = TRUE
    <3>1. ASSUME NEW k \in Keys, PressKey(k) \/ LiftKey(k)
          PROVE  /\ UNCHANGED <<engineReady, host, performer, panicRequested,
                                editor, playStyleIndex>>
                 /\ producer.pc = "idle" /\ editor.pc = "idle"
      BY <3>1 DEF PressKey, LiftKey, MessageThreadFree, Enqueue,
                  Ring!EnqueueAccept, Ring!EnqueueRefuse
    <3>2. editor.pc # "post"
      BY <1>0 DEF ControlInv
    <3>3. ASSUME NEW s \in Styles, RestoreStyle(s)
          PROVE  /\ UNCHANGED <<engineReady, host, performer, panicRequested,
                                producer>>
                 /\ editor'.pc = "restoreHold"
      BY <3>3 DEF RestoreStyle, ringVars
    <3>4. ASSUME NEW h, RestoreHold(h)
          PROVE  /\ UNCHANGED <<engineReady, host, performer, panicRequested,
                                producer, playStyleIndex>>
                 /\ editor'.pc = "restorePanic"
      BY <3>4 DEF RestoreHold, ringVars, ControlInv
    <3>7. ASSUME NEW h, SetHold(h)
          PROVE  UNCHANGED <<engineReady, host, performer, panicRequested,
                             producer, playStyleIndex, editor>>
      BY <3>7 DEF SetHold, ringVars, editorVars
    <3>5. CASE RestorePanic \/ PanicButton
      BY <3>2, <3>5 DEF RestorePanic, PanicButton, Ring!RequestPanic, editorVars
    <3>6. CASE Ring!ProducerContinues /\ UNCHANGED <<playStyleIndex, engineReady,
                                                    editor, host, performer>>
      BY <1>0, <3>2, <3>6 DEF Ring!ProducerContinues, Ring!RaisePanic,
                              Ring!StoreSlot, Ring!PublishWrite
    <3> QED
      BY <1>2, <3>1, <3>2, <3>3, <3>4, <3>5, <3>6, <3>7
      DEF MessageThreadStarts, MessageThreadContinues, ClickPost, ClickLatch,
          editorVars
  <2>2. ResetDue => ResetDue'
    BY <1>0, <2>1 DEF ResetDue, ResetUnderWay, Restoring
  <2>3. playStyleIndex' # playStyleIndex => ResetDue'
    BY <2>1 DEF ResetDue, Restoring
  <2> QED
    BY <2>1, <2>2, <2>3 DEF HostInv
<1>3. CASE LifecycleStarts \/ LifecycleContinues
  <2>1. /\ playStyleIndex' = playStyleIndex /\ host'.latch = host.latch
        /\ host.pc \notin {"reading", "tail"} \/ UNCHANGED <<host, performer>>
        /\ ResetDue' \/ performer'.base = playStyleIndex
    <3>1. CASE PrepareBegin \/ ReleaseBegin \/ MalformedBlock
      BY <1>0, <3>1
      DEF PrepareBegin, ReleaseBegin, MalformedBlock, ResetDue, ResetUnderWay,
          ringVars, editorVars
    <3>2. CASE PrepareDiscard \/ ReleaseDiscard
      <4>1. /\ UNCHANGED <<playStyleIndex, engineReady>>
            /\ ~engineReady
            /\ host.pc \in {"preparing", "released"} /\ host'.latch = host.latch
        BY <1>0, <3>2 DEF PrepareDiscard, ReleaseDiscard, ContinueRing, ControlInv
      <4> QED
        BY <4>1 DEF ResetDue
    <3>3. CASE PrepareMode
      BY <1>0, <3>3 DEF PrepareMode, ResetDue, ResetUnderWay
    <3>4. CASE PrepareReset \/ ReleaseReset
      BY <1>0, <3>4 DEF PrepareReset, ReleaseReset, ResetFromLatches
    <3>5. CASE ReleaseEnd
      <4>1. /\ UNCHANGED <<playStyleIndex, engineReady>> /\ ~engineReady
            /\ host.pc = "released" /\ host'.latch = host.latch
        BY <1>0, <3>5 DEF ReleaseEnd, ControlInv
      <4> QED
        BY <4>1 DEF ResetDue
    <3> QED
      BY <1>3, <3>1, <3>2, <3>3, <3>4, <3>5 DEF LifecycleStarts, LifecycleContinues
  <2> QED
    BY <1>1, <2>1 DEF HostInv, TakesItsTurn
<1>4. CASE BlockStep
  <2>1. CASE EnterBlock \/ EndBlock
    <3>1. /\ host.pc = "away" \/ host.latch = Blank
          /\ host'.latch = host.latch
          /\ performer'.base = performer.base
          /\ UNCHANGED <<panicRequested, producer, engineReady, playStyleIndex, editor>>
          /\ host.pc \in {"away", "tail"}
      BY <1>0, <2>1 DEF EnterBlock, EndBlock, ringVars, editorVars
    <3>2. ResetDue => ResetDue'
      BY <3>1 DEF ResetDue, ResetUnderWay, Restoring
    <3> QED
      BY <3>1, <3>2 DEF HostInv
  <2>2. CASE ExchangePanic
    <3>1. /\ host.pc = "entered" /\ host'.latch = host.latch
          /\ performer' = performer
          /\ host'.pc = "answering" \/ ~panicRequested
          /\ UNCHANGED <<producer, engineReady, playStyleIndex, editor>>
      BY <1>0, <2>2
      DEF ExchangePanic, ContinueRing, Ring!ExchangePanic, editorVars
    <3>2. ResetDue => ResetDue'
      BY <3>1 DEF ResetDue, ResetUnderWay, Restoring
    <3> QED
      BY <3>1, <3>2 DEF HostInv
  <2>3. CASE AnswerDiscard
    <3>1. /\ host.pc = "answering" /\ host' = host
          /\ UNCHANGED <<performer, playStyleIndex>>
      BY <1>0, <2>3 DEF AnswerDiscard, ContinueRing
    <3> QED
      BY <3>1 DEF HostInv, ResetDue, ResetUnderWay
  <2>4. CASE AnswerReset
    <3>1. /\ host.pc = "answering" /\ host'.latch = host.latch
          /\ performer'.base = playStyleIndex /\ playStyleIndex' = playStyleIndex
      BY <1>0, <2>4 DEF AnswerReset, ResetFromLatches
    <3> QED
      BY <3>1 DEF HostInv
  <2>5. ASSUME host.pc = "reading", host.latch = Blank, host'.latch = Blank,
               performer'.base = performer.base,
               UNCHANGED <<panicRequested, producer, engineReady, playStyleIndex,
                           editor>>
        PROVE  HostInv'
    <3>1. ResetDue => ResetDue'
      BY <2>5 DEF ResetDue, ResetUnderWay, Restoring
    <3> QED
      BY <2>5, <3>1 DEF HostInv
  <2>6. CASE ReadRing
    <3>1. /\ host.pc = "reading" /\ host.latch = Blank /\ host'.latch = Blank
          /\ UNCHANGED <<engineReady, performer, playStyleIndex, editor>>
          /\ \/ Ring!Snapshot \/ Ring!RestartWithRemainder \/ Ring!ReleaseSlots
             \/ Ring!Skip
      BY <1>0, <2>6 DEF ReadRing, ContinueRing, editorVars
    <3>2. UNCHANGED <<panicRequested, producer>>
      BY <3>1
      DEF Ring!Snapshot, Ring!RestartWithRemainder, Ring!ReleaseSlots, Ring!Skip,
          Ring!SkipSlot, Ring!AdvanceCursor
    <3> QED
      BY <2>5, <3>1, <3>2
  <2>7. ASSUME NEW e \in Gestures, DispatchGesture(e) PROVE HostInv'
    <3>1. /\ host.pc = "reading" /\ host.latch = Blank /\ host' = host
          /\ UNCHANGED <<engineReady, playStyleIndex, editor, panicRequested,
                         producer>>
          /\ performer' = Played(e)
      BY <2>7 DEF DispatchGesture, editorVars, Ring!Dispatch, Ring!DispatchSlot,
                  Ring!AdvanceCursor
    <3>2. performer'.base = performer.base
      BY <1>0, <2>7, <3>1 DEF Played, Gestures, KeyGestures
    <3> QED
      BY <2>5, <3>1, <3>2
  <2> QED
    BY <1>4, <2>1, <2>2, <2>3, <2>4, <2>6, <2>7 DEF BlockStep
<1>5. CASE HostLatch
  <2>1. /\ host.latch # Blank /\ playStyleIndex' = host.latch
        /\ host'.latch = Blank /\ performer' = performer
    BY <1>0, <1>5 DEF HostLatch
  <2> QED
    BY <2>1 DEF HostInv
<1>6. ASSUME NEW s \in HostStyles, HostKeyswitch(s) PROVE HostInv'
  <2>1. /\ host'.latch = s /\ host'.pc = host.pc /\ performer'.base = s
        /\ host.pc \in {"reading", "tail"} /\ s # Blank
    BY <1>0, <1>6, StylesAssumption DEF HostKeyswitch, HostTurn
  <2> QED
    BY <2>1 DEF HostInv
<1> QED
  BY <1>2, <1>3, <1>4, <1>5, <1>6 DEF Next

-----------------------------------------------------------------------------
LEMMA InvStarts == Init => Inv
<1> SUFFICES ASSUME Init PROVE Inv
  OBVIOUS
<1>1. 0 \in Indices
  BY RingAssumption DEF Indices, Ring!Indices
<1>2. Ring!TypeOk
  BY <1>1 DEF Init, Ring!Init, Ring!TypeOk, Indices
<1>3. /\ producer.pc = "idle" /\ consumer.pc = "idle" /\ ~panicRequested
      /\ ~engineReady /\ host = [pc |-> "away", latch |-> Blank]
      /\ performer = [base |-> playStyleIndex, hold |-> FALSE, held |-> {}]
      /\ editor.pc = "idle"
  BY DEF Init, Ring!Init
<1>4. ControlInv
  BY <1>3 DEF ControlInv
<1>5. RingInv
  BY <1>2, <1>3 DEF RingInv
<1>6. KeyInv
  BY <1>3 DEF KeyInv, Posting, OnsEnd, HeldEnd, Doomed
<1> QED
  BY <1>4, <1>5, <1>6 DEF Inv

LEMMA InvKept == Inv /\ [Next]_vars => Inv'
<1> SUFFICES ASSUME Inv, [Next]_vars PROVE Inv'
  OBVIOUS
<1>1. ControlInv' /\ RingInv'
  BY ControlKept, RingKept DEF Inv
<1>2. CASE Next
  <2>1. KeyInv'
    BY <1>1, <1>2, MessageThreadStep, LifecycleStep, CallbackStep DEF Inv, Next
  <2> QED
    BY <1>1, <2>1 DEF Inv
<1>3. CASE UNCHANGED vars
  <2>1. /\ UNCHANGED <<uiMidiQueue, uiWriteIndex, uiReadIndex, panicRequested,
                       producer, consumer, engineReady, keysDown, host, performer>>
    BY <1>3 DEF vars, ringVars, editorVars
  <2>2. /\ UNCHANGED From /\ (Doomed => Doomed') /\ (ResetUnderWay => ResetUnderWay')
    BY <2>1 DEF From, Doomed, ResetUnderWay
  <2>3. ~engineReady /\ host.pc \in {"away", "released"} => performer.held = {}
    BY DEF Inv, KeyInv
  <2>4. KeyInv'
    BY <2>1, <2>2, <2>3, CallStep DEF Inv
  <2> QED
    BY <1>1, <2>4 DEF Inv
<1> QED
  BY <1>2, <1>3

\* The performer never holds an on-screen key that is up while neither its
\* release nor a reset is on the way: the release is in the ring, the message
\* thread is storing it, or a panic, a prepare or a release of the processor
\* lets go of every key (enqueueUiMidiEvent, processBlock, prepareToPlay).
THEOREM NoKeyHangs == Spec => []NoHangingKey
<1>1. Inv => NoHangingKey
  <2> SUFFICES ASSUME Inv, NEW k \in performer.held, k \notin keysDown,
                      ~ResetUnderWay
               PROVE  ReleaseUnderWay(k)
    BY DEF NoHangingKey
  <2>1. OffAhead(k)
    BY DEF Inv, KeyInv, HeldEnd
  <2>2. CASE Posting(Off(k))
    BY <2>2 DEF Posting, ReleaseUnderWay
  <2>3. ASSUME NEW j \in Indices, Waits(j), uiMidiQueue[j] = Off(k)
        PROVE  ReleaseUnderWay(k)
    <3>0. uiReadIndex \in Indices /\ uiWriteIndex \in Indices /\ Capacity \in Nat
      BY RingAssumption DEF Inv, RingInv, Ring!TypeOk, Indices
    <3>1. Distance(uiReadIndex, j) < Distance(uiReadIndex, uiWriteIndex)
      <4>1. /\ From \in Indices /\ Distance(From, j) < Distance(From, uiWriteIndex)
            /\ Distance(uiReadIndex, From) <= Distance(uiReadIndex, uiWriteIndex)
        BY <2>3, FromInside DEF Inv, Waits
      <4> QED
        BY <3>0, <4>1, WaitingIsQueued
    <3>2. /\ Distance(uiReadIndex, j) \in Nat
          /\ Distance(uiReadIndex, uiWriteIndex) \in Nat
          /\ Ring!Ahead(uiReadIndex, Distance(uiReadIndex, j)) = j
      BY <3>0, DistanceRange, AheadIsThere
    <3> DEFINE n == Distance(uiReadIndex, j) + 1
               queued == [m \in 1 .. Distance(uiReadIndex, uiWriteIndex) |->
                             uiMidiQueue[Ring!Ahead(uiReadIndex, m - 1)]]
    <3>3. n \in 1 .. Distance(uiReadIndex, uiWriteIndex) /\ n - 1 = Distance(uiReadIndex, j)
      BY <3>1, <3>2
    <3>4. Ring!Queued = queued
      BY DEF Ring!Queued, Ring!Between, Distance
    <3> HIDE DEF n
    <3>5. n \in DOMAIN queued /\ queued[n] = Off(k)
      BY <2>3, <3>2, <3>3
    <3> QED
      BY <3>4, <3>5 DEF ReleaseUnderWay
  <2> QED
    BY <2>1, <2>2, <2>3 DEF OffAhead
<1> QED
  BY <1>1, InvStarts, InvKept, PTL DEF Spec

\* The host's prepare and release calls, which restart the reader between its
\* passes, leave the ring safe: the message thread never writes a slot that a
\* pass still has to read (discardUiMidiEvents, "do not release the queue
\* slots until both GUI passes have read them").
THEOREM RingStaysSafe == Spec => []Ring!ProducerKeepsOut
<1>1. Inv => Ring!ProducerKeepsOut
  <2> SUFFICES ASSUME Inv, Ring!Reading
               PROVE  /\ Distance(uiReadIndex, consumer.end)
                           <= Distance(uiReadIndex, uiWriteIndex)
                      /\ \A n \in 0 .. Distance(uiReadIndex, consumer.end) - 1 :
                            Ring!Ahead(uiReadIndex, n) # uiWriteIndex
    BY DEF Ring!ProducerKeepsOut, Distance
  <2>1. /\ uiReadIndex \in Indices /\ uiWriteIndex \in Indices
        /\ consumer.end \in Indices
        /\ Distance(uiReadIndex, consumer.end) <= Distance(uiReadIndex, uiWriteIndex)
    BY DEF Inv, RingInv, Ring!TypeOk, Ring!Reading, Indices
  <2>2. ASSUME NEW n \in 0 .. Distance(uiReadIndex, consumer.end) - 1
        PROVE  Ring!Ahead(uiReadIndex, n) # uiWriteIndex
    BY <2>1, RingAssumption
    DEF Indices, Ring!Indices, Distance, Ring!Distance, Ring!Ahead
  <2> QED
    BY <2>1, <2>2
<1> QED
  BY <1>1, InvStarts, InvKept, PTL DEF Spec

\* "The strip and session state retain this base style" (PluginProcessor.h):
\* whenever no call, gesture, panic or reset is under way, the performer plays
\* the style the strip shows, as long as one of the two - the strip or the
\* host's keyswitches - selects styles.
THEOREM StripIsTrue ==
    Spec => []((ClickStyles = {} \/ HostStyles = {}) => StripShowsBaseStyle)
<1> DEFINE StyleInv == Inv /\ ByStrip /\ ByHost
<1>1. Init => StyleInv
  <2> SUFFICES ASSUME Init PROVE ByStrip /\ ByHost
    BY InvStarts
  <2>1. /\ producer.pc = "idle" /\ editor.pc = "idle" /\ ~engineReady
        /\ host = [pc |-> "away", latch |-> Blank]
    BY DEF Init, Ring!Init
  <2> QED
    BY <2>1 DEF ByStrip, ByHost, StripInv, HostInv, StripPosts, Posting, ClicksEnd,
                Doomed, ResetDue
<1>2. StyleInv /\ [Next]_vars => StyleInv'
  <2> SUFFICES ASSUME StyleInv, [Next]_vars PROVE ByStrip' /\ ByHost'
    BY InvKept
  <2>0. ControlInv /\ RingInv
    BY DEF Inv
  <2>1. CASE Next
    <3>1. ASSUME HostStyles = {} PROVE host'.latch = Blank /\ StripInv'
      <4>1. host.latch = Blank /\ StripInv
        BY <3>1 DEF ByStrip
      <4>2. \/ MessageThreadStarts \/ MessageThreadContinues
            \/ LifecycleStarts \/ LifecycleContinues \/ BlockStep
        BY <2>1, <3>1, <4>1 DEF Next, HostLatch
      <4>3. StripInv'
        BY <2>0, <4>1, <4>2, StripMessageThread, StripLifecycle, StripCallback
      <4>4. host'.latch = Blank
        BY <2>0, <3>1, <4>1, <4>2, LatchStays
      <4> QED
        BY <4>3, <4>4
    <3> QED
      BY <2>0, <2>1, <3>1, HostStep DEF ByStrip, ByHost
  <2>2. CASE UNCHANGED vars
    <3>1. UNCHANGED <<uiMidiQueue, uiWriteIndex, uiReadIndex, panicRequested,
                      producer, consumer, playStyleIndex, engineReady, editor, host,
                      performer>>
      BY <2>2 DEF vars, ringVars, editorVars
    <3>2. FromClicks' = FromClicks /\ (Doomed' <=> Doomed) /\ (ResetDue' <=> ResetDue)
      BY <3>1 DEF FromClicks, Doomed, ResetDue, ResetUnderWay, Restoring
    <3>3. ByStrip'
      BY <3>1, <3>2, StripCalm DEF ByStrip
    <3>4. ByHost'
      BY <3>1, <3>2 DEF ByHost, HostInv
    <3> QED
      BY <3>3, <3>4
  <2> QED
    BY <2>1, <2>2
<1>3. StyleInv => ((ClickStyles = {} \/ HostStyles = {}) => StripShowsBaseStyle)
  <2> SUFFICES ASSUME StyleInv, ClickStyles = {} \/ HostStyles = {}, Quiet
               PROVE  performer.base = playStyleIndex
    BY DEF StripShowsBaseStyle
  <2>1. ~ResetDue
    BY DEF Quiet, MessageThreadFree, ResetDue, ResetUnderWay, Restoring
  <2>2. CASE HostStyles = {}
    <3>1. FromClicks = uiWriteIndex /\ uiWriteIndex \in Indices /\ ~Coming
      BY FromClicksInside
      DEF Quiet, MessageThreadFree, Inv, ControlInv, FromClicks, Coming, Posting
    <3>2. \A j \in Indices : ~Shown(j)
      BY <3>1, DistanceRange, RingAssumption DEF Shown, Pending
    <3> QED
      BY <2>1, <2>2, <3>1, <3>2 DEF ByStrip, StripInv, ShownAhead
  <2>3. CASE ClickStyles = {}
    BY <2>1, <2>3 DEF ByHost, HostInv, Quiet
  <2> QED
    BY <2>2, <2>3
<1> HIDE DEF StyleInv
<1> QED
  BY <1>1, <1>2, <1>3, PTL DEF Spec
=============================================================================

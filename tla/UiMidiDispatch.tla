--------------------------- MODULE UiMidiDispatch ---------------------------
(***************************************************************************)
(* The gesture ring with a history of what the running block has           *)
(* dispatched, and what the two passes over the snapshot promise           *)
(* (processBlock in Source/PluginProcessor.cpp).                           *)
(***************************************************************************)
EXTENDS UiMidiQueue, FiniteSets

VARIABLE heard \* the gestures the current block has dispatched, in order

RecordHeard ==
    heard' = CASE consumer.pc = "snapshot" /\ consumer'.pc = "conditioning" -> <<>>
               [] \E e \in Events : Dispatch(e) ->
                      Append(heard, uiMidiQueue[consumer.cursor])
               [] OTHER -> heard

HistoryInit == heard = <<>> /\ Init

HistoryNext == Next /\ RecordHeard

HistorySpec == HistoryInit /\ [][HistoryNext]_<<vars, heard>>

\* The fairness of FairSpec, with the history kept alongside.
HistoryFairSpec ==
    /\ HistorySpec
    /\ WF_vars(ConsumerStep)
    /\ WF_vars(ProducerContinues)

-----------------------------------------------------------------------------
(* Properties                                                              *)

\* The attack-conditioning gestures of a window, by place.
First(window) == {i \in DOMAIN window : window[i] \in Conditioning}

\* Where a stable partition puts the gesture at place i: after those of its kind
\* before it, and after all conditioning ones if it is none.
Place(window, i) ==
    IF i \in First(window)
    THEN Cardinality(First(window) \cap 1 .. i)
    ELSE Cardinality(First(window)) + Cardinality((1 .. i) \ First(window))

IsStablePartition(played, window) ==
    /\ Len(played) = Len(window)
    /\ \A i \in DOMAIN window : played[Place(window, i)] = window[i]

\* A block hands over its whole snapshot once each: the attack-conditioning
\* gestures first and the rest after them, both in the order they were posted
\* (the two dispatchUiMidiEventPass calls of processBlock).
StablePartition ==
    [][ReleaseSlots =>
          IsStablePartition(heard, Between(uiReadIndex, consumer.end))]_<<vars, heard>>
=============================================================================

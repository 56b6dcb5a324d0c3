--------------------------- MODULE PluginProcessor ---------------------------
(***************************************************************************)
(* The processor's three callers around one performer                      *)
(* (Source/PluginProcessor.cpp): the message thread (on-screen keys,       *)
(* articulation strip, HOLD button, panic button, session restore), the    *)
(* audio callback, and the host's prepareToPlay / releaseResources, which  *)
(* the host never runs while a callback is running.  They share the        *)
(* gesture ring of UiMidiQueue, the panic flag and two latches, the base   *)
(* play style and the HOLD mode, each an atomic of its own.                *)
(*                                                                         *)
(* Of the performer this module keeps what those races can spoil: the base *)
(* play style it plays, the key mode it applies, and which on-screen keys  *)
(* it holds.  ElectryPerformer has the rest.                               *)
(***************************************************************************)
EXTENDS Naturals, Sequences

CONSTANTS Capacity,    \* uiQueueCapacity
          Keys,        \* keys of the on-screen keyboard
          Styles,      \* play styles
          ClickStyles, \* those the player clicks on the articulation strip
          HostStyles,  \* those the host's own MIDI keyswitches select
          Blank        \* an unwritten slot, or no style

ASSUME StylesAssumption ==
    /\ ClickStyles \subseteq Styles /\ HostStyles \subseteq Styles /\ Styles # {}
    /\ Blank \notin Styles
ASSUME RingAssumption == Capacity \in Nat /\ Capacity >= 2

VARIABLES
    uiMidiQueue, uiWriteIndex, uiReadIndex, panicRequested,
    producer, consumer, \* the ring: see UiMidiQueue
    playStyleIndex,     \* the strip's and the session's base style
    playStyleKeysHold,  \* the HOLD button
    engineReady,
    editor,             \* [pc, event]: a message-thread call under way
    host,               \* [pc, latch]: where the host's call stands
    performer,          \* [base, hold, held]
    keysDown            \* on-screen keys the player holds down

ringVars == <<uiMidiQueue, uiWriteIndex, uiReadIndex, panicRequested,
              producer, consumer>>
editorVars == <<editor, keysDown>>
vars == <<ringVars, playStyleIndex, playStyleKeysHold, engineReady, editorVars,
          host, performer>>

KeyGestures == [kind : {"on", "off"}, key : Keys]
Clicks == [kind : {"style"}, style : ClickStyles]
Gestures == KeyGestures \cup Clicks

Ring == INSTANCE UiMidiQueue WITH Events <- Gestures, Conditioning <- Clicks

Init ==
    /\ Ring!Init
    /\ playStyleIndex \in Styles
    /\ playStyleKeysHold = FALSE
    /\ engineReady = FALSE
    /\ editor = [pc |-> "idle", event |-> Blank]
    /\ host = [pc |-> "away", latch |-> Blank]
    /\ performer = [base |-> playStyleIndex, hold |-> FALSE, held |-> {}]
    /\ keysDown = {}

-----------------------------------------------------------------------------
(* Message thread                                                          *)

MessageThreadFree == producer.pc = "idle" /\ editor.pc = "idle"

Enqueue(e) == Ring!EnqueueAccept(e) \/ Ring!EnqueueRefuse(e)

\* handleNoteOn / handleNoteOff of the on-screen keyboard.
PressKey(k) ==
    /\ MessageThreadFree
    /\ k \notin keysDown
    /\ Enqueue([kind |-> "on", key |-> k])
    /\ keysDown' = keysDown \cup {k}
    /\ UNCHANGED <<playStyleIndex, playStyleKeysHold, engineReady, editor,
                   host, performer>>

LiftKey(k) ==
    /\ MessageThreadFree
    /\ k \in keysDown
    /\ Enqueue([kind |-> "off", key |-> k])
    /\ keysDown' = keysDown \ {k}
    /\ UNCHANGED <<playStyleIndex, playStyleKeysHold, engineReady, editor,
                   host, performer>>

\* triggerArticulation latches the base style first ...
ClickLatch(s) ==
    /\ MessageThreadFree
    /\ playStyleIndex' = s
    /\ editor' = [pc |-> "post", event |-> [kind |-> "style", style |-> s]]
    /\ UNCHANGED <<ringVars, playStyleKeysHold, engineReady, keysDown, host,
                   performer>>

\* ... and then enqueues the keyswitch that selects it.
ClickPost ==
    /\ editor.pc = "post"
    /\ producer.pc = "idle"
    /\ Enqueue(editor.event)
    /\ editor' = [pc |-> "idle", event |-> Blank]
    /\ UNCHANGED <<playStyleIndex, playStyleKeysHold, engineReady, keysDown,
                   host, performer>>

\* setPlayStyleKeysHold, the editor's KEYS button.
SetHold(h) ==
    /\ MessageThreadFree
    /\ playStyleKeysHold' = h
    /\ UNCHANGED <<ringVars, playStyleIndex, engineReady, editorVars, host,
                   performer>>

\* setStateInformation stores the two latches one after the other ...
RestoreStyle(s) ==
    /\ MessageThreadFree
    /\ playStyleIndex' = s
    /\ editor' = [pc |-> "restoreHold", event |-> Blank]
    /\ UNCHANGED <<ringVars, playStyleKeysHold, engineReady, keysDown, host,
                   performer>>

RestoreHold(h) ==
    /\ editor.pc = "restoreHold"
    /\ playStyleKeysHold' = h
    /\ editor' = [editor EXCEPT !.pc = "restorePanic"]
    /\ UNCHANGED <<ringVars, playStyleIndex, engineReady, keysDown, host,
                   performer>>

\* ... and only then asks for the reset that makes the performer read them.
RestorePanic ==
    /\ editor.pc = "restorePanic"
    /\ Ring!RequestPanic
    /\ editor' = [pc |-> "idle", event |-> Blank]
    /\ UNCHANGED <<playStyleIndex, playStyleKeysHold, engineReady, keysDown,
                   host, performer>>

\* The panic button.
PanicButton ==
    /\ editor.pc = "idle"
    /\ Ring!RequestPanic
    /\ UNCHANGED <<playStyleIndex, playStyleKeysHold, engineReady, editorVars,
                   host, performer>>

MessageThreadContinues ==
    \/ /\ Ring!ProducerContinues
       /\ UNCHANGED <<playStyleIndex, playStyleKeysHold, engineReady,
                      editorVars, host, performer>>
    \/ ClickPost
    \/ \E h \in BOOLEAN : RestoreHold(h)
    \/ RestorePanic

MessageThreadStarts ==
    \/ \E k \in Keys : PressKey(k) \/ LiftKey(k)
    \/ \E s \in ClickStyles : ClickLatch(s)
    \/ \E s \in Styles : RestoreStyle(s)
    \/ \E h \in BOOLEAN : SetHold(h)
    \/ PanicButton

-----------------------------------------------------------------------------
(* Host: prepareToPlay, processBlock and releaseResources, one at a time   *)

\* performer.reset(pickStyleIndex, playStyleIndex) and clearMpeNoteOwnership.
ResetFromLatches == performer' = [performer EXCEPT !.base = playStyleIndex,
                                                   !.held = {}]

ContinueRing(action, next) ==
    /\ action
    /\ host' = [host EXCEPT !.pc = next]
    /\ UNCHANGED <<playStyleIndex, playStyleKeysHold, engineReady, editorVars,
                   performer>>

\* prepareToPlay retires an older panic before it reads any latch.
PrepareBegin ==
    /\ host.pc = "away"
    /\ panicRequested' = FALSE
    /\ engineReady' = FALSE
    /\ consumer' = [consumer EXCEPT !.pc = "discard"]
    /\ host' = [host EXCEPT !.pc = "preparing"]
    /\ UNCHANGED <<uiMidiQueue, uiWriteIndex, uiReadIndex, producer,
                   playStyleIndex, playStyleKeysHold, editorVars, performer>>

PrepareDiscard ==
    /\ host.pc = "preparing"
    /\ ContinueRing(Ring!DiscardLoad \/ Ring!DiscardStore, "preparing")

\* setPlayStyleKeysHold, after "retiring older queued gestures".
PrepareMode ==
    /\ host.pc = "preparing"
    /\ consumer.pc = "snapshot"
    /\ performer' = [performer EXCEPT !.hold = playStyleKeysHold]
    /\ host' = [host EXCEPT !.pc = "prepared"]
    /\ UNCHANGED <<ringVars, playStyleIndex, playStyleKeysHold, engineReady,
                   editorVars>>

PrepareReset ==
    /\ host.pc = "prepared"
    /\ ResetFromLatches
    /\ engineReady' = TRUE
    /\ consumer' = [consumer EXCEPT !.pc = "idle"]
    /\ host' = [host EXCEPT !.pc = "away"]
    /\ UNCHANGED <<uiMidiQueue, uiWriteIndex, uiReadIndex, panicRequested,
                   producer, playStyleIndex, playStyleKeysHold, editorVars>>

\* releaseResources resets the performer, then discards, then drops the panic.
ReleaseBegin ==
    /\ host.pc = "away"
    /\ engineReady' = FALSE
    /\ host' = [host EXCEPT !.pc = "releasing"]
    /\ UNCHANGED <<ringVars, playStyleIndex, playStyleKeysHold, editorVars,
                   performer>>

ReleaseReset ==
    /\ host.pc = "releasing"
    /\ ResetFromLatches
    /\ consumer' = [consumer EXCEPT !.pc = "discard"]
    /\ host' = [host EXCEPT !.pc = "released"]
    /\ UNCHANGED <<uiMidiQueue, uiWriteIndex, uiReadIndex, panicRequested,
                   producer, playStyleIndex, playStyleKeysHold, engineReady,
                   editorVars>>

ReleaseDiscard ==
    /\ host.pc = "released"
    /\ ContinueRing(Ring!DiscardLoad \/ Ring!DiscardStore, "released")

ReleaseEnd ==
    /\ host.pc = "released"
    /\ consumer.pc = "snapshot"
    /\ panicRequested' = FALSE
    /\ consumer' = [consumer EXCEPT !.pc = "idle"]
    /\ host' = [host EXCEPT !.pc = "away"]
    /\ UNCHANGED <<uiMidiQueue, uiWriteIndex, uiReadIndex, producer,
                   playStyleIndex, playStyleKeysHold, engineReady, editorVars,
                   performer>>

\* A callback with fewer than two channels: its events are lost.
MalformedBlock ==
    /\ host.pc = "away"
    /\ engineReady
    /\ panicRequested' = TRUE
    /\ UNCHANGED <<uiMidiQueue, uiWriteIndex, uiReadIndex, producer, consumer,
                   playStyleIndex, playStyleKeysHold, engineReady, editorVars,
                   host, performer>>

\* processBlock, up to synchronisePlayStyleKeyMode.
EnterBlock ==
    /\ host.pc = "away"
    /\ engineReady
    /\ performer' = [performer EXCEPT !.hold = playStyleKeysHold]
    /\ host' = [host EXCEPT !.pc = "entered"]
    /\ UNCHANGED <<ringVars, playStyleIndex, playStyleKeysHold, engineReady,
                   editorVars>>

ExchangePanic ==
    /\ host.pc = "entered"
    /\ ContinueRing(Ring!ExchangePanic,
                    IF panicRequested THEN "answering" ELSE "reading")

AnswerDiscard ==
    /\ host.pc = "answering"
    /\ ContinueRing(Ring!DiscardLoad \/ Ring!DiscardStore, "answering")

\* A panic that discards the queue and forgets to reset the performer.
AnswerWithoutReset ==
    /\ host.pc = "answering"
    /\ consumer.pc = "snapshot"
    /\ host' = [host EXCEPT !.pc = "reading"]
    /\ UNCHANGED <<ringVars, playStyleIndex, playStyleKeysHold, engineReady,
                   editorVars, performer>>

AnswerReset ==
    /\ host.pc = "answering"
    /\ consumer.pc = "snapshot"
    /\ ResetFromLatches
    /\ host' = [host EXCEPT !.pc = "reading"]
    /\ UNCHANGED <<ringVars, playStyleIndex, playStyleKeysHold, engineReady,
                   editorVars>>

\* What the performer makes of one gesture.  A click selects the base style
\* whatever the key mode is, and leaves the latch to triggerArticulation.
Played(e) ==
    CASE e.kind = "on" -> [performer EXCEPT !.held = @ \cup {e.key}]
      [] e.kind = "off" -> [performer EXCEPT !.held = @ \ {e.key}]
      [] e.kind = "style" -> [performer EXCEPT !.base = e.style]

DispatchGesture(e) ==
    /\ host.pc = "reading"
    /\ host.latch = Blank
    /\ Ring!Dispatch(e)
    /\ performer' = Played(e)
    /\ UNCHANGED <<playStyleIndex, playStyleKeysHold, engineReady, editorVars,
                   host>>

ReadRing ==
    /\ host.pc = "reading"
    /\ host.latch = Blank
    /\ \/ ContinueRing(Ring!Snapshot \/ Ring!Skip \/ Ring!RestartWithRemainder,
                       "reading")
       \/ ContinueRing(Ring!ReleaseSlots, "tail")

\* The host's events come between the two passes over the gestures when one
\* of them is at sample 0, and after both otherwise.
HostTurn ==
    /\ host.latch = Blank
    /\ \/ host.pc = "tail"
       \/ host.pc = "reading" /\ consumer.pc = "remainder"
          /\ consumer.cursor = uiReadIndex

\* dispatchNoteOn of a play-style keyswitch.  A HOLD key is momentary; a
\* latching one moves the base style and then the strip's latch.
HostKeyswitch(s) ==
    /\ HostTurn
    /\ ~performer.hold
    /\ performer' = [performer EXCEPT !.base = s]
    /\ host' = [host EXCEPT !.latch = s]
    /\ UNCHANGED <<ringVars, playStyleIndex, playStyleKeysHold, engineReady,
                   editorVars>>

\* A MIDI keyswitch the strip is not told about.
HostForgetsLatch ==
    /\ host.latch # Blank
    /\ host' = [host EXCEPT !.latch = Blank]
    /\ UNCHANGED <<ringVars, playStyleIndex, playStyleKeysHold, engineReady,
                   editorVars, performer>>

HostLatch ==
    /\ host.latch # Blank
    /\ playStyleIndex' = host.latch
    /\ host' = [host EXCEPT !.latch = Blank]
    /\ UNCHANGED <<ringVars, playStyleKeysHold, engineReady, editorVars,
                   performer>>

EndBlock ==
    /\ host.pc = "tail"
    /\ host.latch = Blank
    /\ host' = [host EXCEPT !.pc = "away"]
    /\ UNCHANGED <<ringVars, playStyleIndex, playStyleKeysHold, engineReady,
                   editorVars, performer>>

\* What runs by itself once the host keeps calling processBlock.
BlockStep ==
    \/ EnterBlock \/ ExchangePanic \/ AnswerDiscard \/ AnswerReset
    \/ ReadRing \/ EndBlock
    \/ \E e \in Gestures : DispatchGesture(e)

LifecycleContinues ==
    \/ PrepareDiscard \/ PrepareMode \/ PrepareReset
    \/ ReleaseReset \/ ReleaseDiscard \/ ReleaseEnd

LifecycleStarts ==
    PrepareBegin \/ ReleaseBegin \/ MalformedBlock

Next ==
    \/ MessageThreadStarts
    \/ MessageThreadContinues
    \/ BlockStep
    \/ HostLatch
    \/ \E s \in HostStyles : HostKeyswitch(s)
    \/ LifecycleContinues
    \/ LifecycleStarts

Spec == Init /\ [][Next]_vars

(***************************************************************************)
(* The host finishes the call it is in and keeps calling processBlock      *)
(* while the processor is prepared; a block holds finitely many events, so *)
(* those of the host cannot keep it from ending.  The message thread       *)
(* finishes the call it is in.                                             *)
(***************************************************************************)
Fairness ==
    /\ SF_vars(BlockStep)
    /\ WF_vars(HostLatch)
    /\ WF_vars(LifecycleContinues)
    /\ WF_vars(MessageThreadContinues)

FairSpec == Spec /\ Fairness

-----------------------------------------------------------------------------
(* Properties                                                              *)

Off(k) == [kind |-> "off", key |-> k]

\* A release of k that is still on its way to the performer.
ReleaseUnderWay(k) ==
    \/ \E n \in DOMAIN Ring!Queued : Ring!Queued[n] = Off(k)
    \/ producer.pc \in {"store", "publish"} /\ producer.event = Off(k)

\* A reset of the performer that is due whatever the player does.
ResetUnderWay ==
    \/ panicRequested
    \/ producer.pc = "alarm"
    \/ host.pc \in {"answering", "preparing", "prepared", "releasing"}

\* No on-screen key hangs.  A key the performer holds is still down, or its
\* release is on the way, or - when the ring was full and the release was
\* dropped - a panic is on the way; never none of them.
NoHangingKey ==
    \A k \in performer.held :
        k \in keysDown \/ ReleaseUnderWay(k) \/ ResetUnderWay

\* Nobody is in the middle of anything and nothing waits to be read.
Quiet ==
    /\ engineReady
    /\ host.pc = "away"
    /\ MessageThreadFree
    /\ uiReadIndex = uiWriteIndex
    /\ ~panicRequested

\* "The strip and session state retain this base style"
\* (PluginProcessor.h): whenever nothing is under way, the base style the
\* performer plays is the one the strip shows and a saved session keeps.
StripShowsBaseStyle == Quiet => performer.base = playStyleIndex

\* A key that is lifted stops sounding, also when its release was dropped.
LiftedKeysFallSilent ==
    \A k \in Keys : k \notin keysDown ~> k \notin performer.held

=============================================================================

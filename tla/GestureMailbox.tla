--------------------------- MODULE GestureMailbox ---------------------------
(***************************************************************************)
(* What the processor's GUI gesture queue promises, without its ring: a    *)
(* bounded first-in first-out mailbox between the message thread and the   *)
(* audio callback, plus one alarm the callback answers by resetting the    *)
(* instrument.  UiMidiQueue is shown to implement it.                      *)
(***************************************************************************)
EXTENDS Naturals, Sequences

CONSTANTS Events, \* the gestures the editor can post
          Room    \* how many gestures the mailbox holds

VARIABLES queue, \* accepted and not yet consumed, oldest first
          alarm  \* a panic the callback has not answered yet

mailboxVars == <<queue, alarm>>

MailboxInit == queue = <<>> /\ alarm = FALSE

\* The message thread posts a gesture while there is room for it.
Accept(e) ==
    /\ Len(queue) < Room
    /\ queue' = Append(queue, e)
    /\ UNCHANGED alarm

\* A refused gesture, the panic button or a restored session.
RaiseAlarm ==
    /\ alarm' = TRUE
    /\ UNCHANGED queue

\* The callback takes note of the alarm at the top of a block.
AnswerAlarm ==
    /\ alarm
    /\ alarm' = FALSE
    /\ UNCHANGED queue

\* The callback consumes the oldest gestures, never one from the middle.
Consume ==
    /\ \E n \in 1 .. Len(queue) : queue' = SubSeq(queue, n + 1, Len(queue))
    /\ UNCHANGED alarm

MailboxNext ==
    \/ \E e \in Events : Accept(e)
    \/ RaiseAlarm
    \/ AnswerAlarm
    \/ Consume

MailboxSpec == MailboxInit /\ [][MailboxNext]_mailboxVars
=============================================================================

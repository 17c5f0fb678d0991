----------------------------- MODULE BlockQueue -----------------------------
(***************************************************************************)
(* What a RingbufferPointer promises: a queue of at most SIZE blocks whose *)
(* push fails when it is full, whose pop fails when it is empty, and which *)
(* hands over each block once.  Nothing is said about the block a caller   *)
(* gets back from push.                                                    *)
(***************************************************************************)
EXTENDS Naturals, Sequences

CONSTANTS Block, SIZE

VARIABLES queue,      (* the blocks held, oldest first                      *)
          answer      (* what the last call returned, and the popped block  *)

queueVars == <<queue, answer>>

Pushed(ok) == [op |-> "push", ok |-> ok]
PopFailed == [op |-> "pop", ok |-> FALSE]
Popped(block) == [op |-> "pop", ok |-> TRUE, block |-> block]
ResetDone == [op |-> "reset"]

QueueInit == queue = <<>> /\ answer = ResetDone

QueuePush(block) ==
  \/ /\ Len(queue) < SIZE
     /\ queue' = Append(queue, block)
     /\ answer' = Pushed(TRUE)
  \/ /\ Len(queue) = SIZE
     /\ answer' = Pushed(FALSE)
     /\ UNCHANGED queue

QueuePop ==
  \/ /\ queue # <<>>
     /\ answer' = Popped(Head(queue))
     /\ queue' = Tail(queue)
  \/ /\ queue = <<>>
     /\ answer' = PopFailed
     /\ UNCHANGED queue

QueueReset == queue' = <<>> /\ answer' = ResetDone

QueueNext == (\E block \in Block : QueuePush(block)) \/ QueuePop \/ QueueReset

QueueSpec == QueueInit /\ [][QueueNext]_queueVars
=============================================================================

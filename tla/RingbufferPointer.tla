------------------------- MODULE RingbufferPointer -------------------------
(***************************************************************************)
(* RingbufferPointer (audio-sinks/include/unix/ALSAAudioSink.h): SIZE      *)
(* slots of owning pointers.  push and pop swap the caller's pointer with  *)
(* the slot's, so nothing is copied and a popped slot keeps what the       *)
(* caller held before; equal indices mean empty or full according to a     *)
(* flag.  Each call holds the mutex for its whole body.                    *)
(***************************************************************************)
EXTENDS Integers, Sequences

CONSTANTS Block,      (* the objects pointed to                             *)
          Blank,      (* an object as the constructor makes it, or none     *)
          SIZE

ASSUME SlotAssumption == SIZE \in Nat \ {0}

VARIABLES buf_, head_, tail_, full_,
          answer      (* what the last call returned, and the popped block  *)

slots == <<buf_, head_, tail_, full_>>
slotVars == <<slots, answer>>

Slot == 0..(SIZE - 1)
Content == Block \union {Blank}

Pushed(ok) == [op |-> "push", ok |-> ok]
PopFailed == [op |-> "pop", ok |-> FALSE]
Popped(block) == [op |-> "pop", ok |-> TRUE, block |-> block]
ResetDone == [op |-> "reset"]

Init ==
  /\ buf_ = [i \in Slot |-> Blank]
  /\ head_ = 0 /\ tail_ = 0 /\ full_ = FALSE
  /\ answer = ResetDone

empty == ~full_ /\ head_ = tail_

size ==
  IF full_ THEN SIZE
  ELSE IF head_ >= tail_ THEN head_ - tail_ ELSE SIZE + head_ - tail_

PushFull(block) ==
  /\ full_
  /\ answer' = Pushed(FALSE)
  /\ UNCHANGED slots

(* Mutant: a push into a full ring takes the oldest block's slot.          *)
PushSlot_Overwrites(block) ==
  /\ buf_' = [buf_ EXCEPT ![head_] = block]
  /\ tail_' = IF full_ THEN (tail_ + 1) % SIZE ELSE tail_
  /\ head_' = (head_ + 1) % SIZE
  /\ full_' = (head_' = tail_')
  /\ answer' = Pushed(TRUE)

PushSlot(block) ==
  /\ ~full_
  /\ buf_' = [buf_ EXCEPT ![head_] = block]
  /\ head_' = (head_ + 1) % SIZE
  /\ full_' = (head_' = tail_)
  /\ answer' = Pushed(TRUE)
  /\ UNCHANGED tail_

Push(block) == PushFull(block) \/ PushSlot(block)

PopEmpty ==
  /\ empty
  /\ answer' = PopFailed
  /\ UNCHANGED slots

(* held is what the caller's pointer held before.                          *)
PopSlot(held) ==
  /\ ~empty
  /\ answer' = Popped(buf_[tail_])
  /\ buf_' = [buf_ EXCEPT ![tail_] = held]
  /\ full_' = FALSE
  /\ tail_' = (tail_ + 1) % SIZE
  /\ UNCHANGED head_

Pop(held) == PopEmpty \/ PopSlot(held)

Reset ==
  /\ head_' = tail_
  /\ full_' = FALSE
  /\ answer' = ResetDone
  /\ UNCHANGED <<buf_, tail_>>

Next ==
  \/ \E block \in Block : Push(block)
  \/ \E held \in Content : Pop(held)
  \/ Reset

Spec == Init /\ [][Next]_slotVars

(***************************************************************************)
(* Properties.                                                             *)
(***************************************************************************)
(* The indices name slots, and the flag is up only when they meet.         *)
TypeOK ==
  /\ buf_ \in [Slot -> Content]
  /\ head_ \in Slot /\ tail_ \in Slot
  /\ full_ \in BOOLEAN
  /\ full_ => head_ = tail_

Contents == [i \in 1..size |-> buf_[(tail_ + i - 1) % SIZE]]

Blocks == INSTANCE BlockQueue WITH queue <- Contents

(* The swapping ring is a bounded queue: a block goes in once and comes    *)
(* out once, in order, and what is swapped into a slot by pop never does.  *)
ImplementsQueue == Blocks!QueueSpec
=============================================================================

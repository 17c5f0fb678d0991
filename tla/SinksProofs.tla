---------------------------- MODULE SinksProofs ----------------------------
(***************************************************************************)
(* The Unix sink for every number of slots, every size of block and every  *)
(* length of stream: first the ring of slots by itself, then the two threads*)
(* around it; the S/PDIF sink for every block, ring and stream; and the    *)
(* codecs' registers for every sequence of calls and of failures.          *)
(***************************************************************************)
EXTENDS AlsaSink, Codecs, I2sSinks, SequenceFacts

(***************************************************************************)
(* RingbufferPointer for every number of slots and every set of blocks:    *)
(* TypeOK is inductive, and with it each call is the call of BlockQueue on *)
(* Contents.  What it takes is where the i-th block of Contents lies, and  *)
(* that neither a push nor a pop moves another one.                        *)
(***************************************************************************)
(* Indices are at most one round ahead.                                    *)
LEMMA Wrap ==
  ASSUME NEW k \in Nat, k < 2 * SIZE
  PROVE  k % SIZE = IF k < SIZE THEN k ELSE k - SIZE
<1>1. CASE k < SIZE
  BY <1>1, SlotAssumption
<1>2. CASE k >= SIZE
  <2>1. (k - SIZE) % SIZE = k - SIZE
    BY <1>2, SlotAssumption
  <2> QED
    BY <1>2, <2>1, SlotAssumption
<1> QED
  BY <1>1, <1>2, SlotAssumption

LEMMA NextSlot ==
  ASSUME NEW i \in Slot
  PROVE  (i + 1) % SIZE = IF i + 1 = SIZE THEN 0 ELSE i + 1
<1>1. i + 1 \in Nat /\ i + 1 < 2 * SIZE /\ i + 1 <= SIZE
  BY SlotAssumption DEF Slot
<1> QED
  BY <1>1, Wrap, SlotAssumption

(***************************************************************************)
(* The invariant.                                                          *)
(***************************************************************************)
LEMMA InitType == Init => TypeOK
<1>1. 0 \in Slot
  BY SlotAssumption DEF Slot
<1> QED
  BY <1>1 DEF Init, TypeOK, Content

LEMMA StepType == TypeOK /\ [Next]_slotVars => TypeOK'
<1> SUFFICES ASSUME TypeOK, [Next]_slotVars PROVE TypeOK'
  OBVIOUS
<1>1. \A i \in Slot : (i + 1) % SIZE \in Slot
  BY NextSlot, SlotAssumption DEF Slot
<1>2. ASSUME NEW block \in Block, Push(block) PROVE TypeOK'
  <2>1. CASE PushFull(block)
    BY <2>1 DEF PushFull, slots, TypeOK
  <2>2. CASE PushSlot(block)
    BY <1>1, <2>2 DEF PushSlot, TypeOK, Content
  <2> QED
    BY <1>2, <2>1, <2>2 DEF Push
<1>3. ASSUME NEW held \in Content, Pop(held) PROVE TypeOK'
  <2>1. CASE PopEmpty
    BY <2>1 DEF PopEmpty, slots, TypeOK
  <2>2. CASE PopSlot(held)
    BY <1>1, <2>2 DEF PopSlot, TypeOK
  <2> QED
    BY <1>3, <2>1, <2>2 DEF Pop
<1>4. CASE Reset
  BY <1>4 DEF Reset, TypeOK
<1>5. CASE UNCHANGED slotVars
  BY <1>5 DEF slotVars, slots, TypeOK
<1> QED
  BY <1>2, <1>3, <1>4, <1>5 DEF Next

(* Whatever calls came before: indices name slots, and full_ is up only    *)
(* where they meet.                                                        *)
THEOREM SlotsTypeCorrect == Spec => []TypeOK
BY InitType, StepType, PTL DEF Spec

(***************************************************************************)
(* Where the blocks lie.                                                   *)
(***************************************************************************)
(* The slot of the i-th block from a tail on.                              *)
At(tail, i) == IF tail + i - 1 < SIZE THEN tail + i - 1 ELSE tail + i - 1 - SIZE

(* What the contents are, in this state and in the next one.               *)
ContentsOK ==
  /\ size \in 0..SIZE
  /\ size = 0 <=> empty
  /\ size = SIZE <=> full_
  /\ ~full_ => head_ = At(tail_, size + 1)
  /\ Contents \in Seq(Content)
  /\ Len(Contents) = size
  /\ \A i \in 1..size : Contents[i] = buf_[At(tail_, i)]

LEMMA ContentsType == TypeOK => ContentsOK
<1> SUFFICES ASSUME TypeOK PROVE ContentsOK
  OBVIOUS
<1>1. /\ size \in 0..SIZE
      /\ size = 0 <=> empty
      /\ size = SIZE <=> full_
      /\ ~full_ => head_ = At(tail_, size + 1)
  BY SlotAssumption DEF TypeOK, Slot, size, empty, At
<1>2. \A i \in 1..size : /\ (tail_ + i - 1) % SIZE = At(tail_, i)
                         /\ At(tail_, i) \in Slot
  <2> TAKE i \in 1..size
  <2> DEFINE k == tail_ + i - 1
  <2>1. k \in Nat /\ k < 2 * SIZE
    BY <1>1, SlotAssumption DEF TypeOK, Slot
  <2> HIDE DEF k
  <2>2. k % SIZE = (IF k < SIZE THEN k ELSE k - SIZE)
    BY <2>1, Wrap
  <2>3. (IF k < SIZE THEN k ELSE k - SIZE) \in Slot
    BY <2>1, SlotAssumption DEF Slot
  <2>4. tail_ \in Int /\ i \in Int /\ SIZE \in Int
    BY <1>1, SlotAssumption DEF TypeOK, Slot
  <2>5. At(tail_, i) = (IF k < SIZE THEN k ELSE k - SIZE)
    BY <2>4 DEF At, k
  <2> QED
    BY <2>2, <2>3, <2>5 DEF k
<1>3. Contents = [i \in 1..size |-> buf_[At(tail_, i)]]
  BY <1>2 DEF Contents
<1>4. \A i \in 1..size : buf_[At(tail_, i)] \in Content
  BY <1>2 DEF TypeOK
<1> HIDE DEF size
<1>5. Contents \in Seq(Content) /\ Len(Contents) = size
  BY <1>1, <1>3, <1>4
<1> QED
  BY <1>1, <1>3, <1>5 DEF ContentsOK

LEMMA NextContentsType == TypeOK' => ContentsOK'
  BY ContentsType, PTL

(* push appends: the caller's block lands behind the others.               *)
LEMMA PushContents ==
  ASSUME TypeOK, TypeOK', NEW block \in Block, PushSlot(block)
  PROVE  Contents' = Append(Contents, block)
<1> DEFINE next == Append(Contents, block)
<1>1. ContentsOK /\ ContentsOK'
  BY ContentsType, NextContentsType
<1>2. size' = size + 1
  <2>1. head_' = IF head_ + 1 = SIZE THEN 0 ELSE head_ + 1
    BY NextSlot DEF PushSlot, TypeOK
  <2>2. /\ ~full_
        /\ tail_' = tail_
        /\ full_' <=> (head_' = tail_)
        /\ head_ \in 0..(SIZE - 1) /\ tail_ \in 0..(SIZE - 1)
    BY DEF PushSlot, TypeOK, Slot
  <2> QED
    BY <2>1, <2>2, SlotAssumption DEF size
<1>3. size \in Nat /\ size < SIZE /\ head_ = At(tail_, size + 1)
  BY <1>1, SlotAssumption DEF ContentsOK, PushSlot
<1>4. \A i \in 1..size : At(tail_, i) # head_ /\ At(tail_, i) \in Slot
  BY <1>3, SlotAssumption DEF At, TypeOK, Slot
<1> HIDE DEF size
<1>5. /\ Contents' \in Seq(Content)
      /\ Len(Contents') = size + 1
      /\ \A i \in 1..(size + 1) : Contents'[i] = buf_'[At(tail_, i)]
  BY <1>1, <1>2 DEF ContentsOK, PushSlot, At
<1>6. /\ next \in Seq(Content)
      /\ Len(next) = size + 1
      /\ next[size + 1] = block
      /\ \A i \in 1..size : next[i] = buf_[At(tail_, i)]
  BY <1>1, <1>3 DEF ContentsOK, Content
<1>7. /\ \A i \in 1..size : buf_'[At(tail_, i)] = buf_[At(tail_, i)]
      /\ buf_'[At(tail_, size + 1)] = block
  BY <1>3, <1>4 DEF PushSlot, TypeOK
<1> HIDE DEF next
<1>8. \A i \in 1..Len(Contents') : Contents'[i] = next[i]
  <2> TAKE i \in 1..Len(Contents')
  <2>1. CASE i \in 1..size
    BY <1>3, <1>5, <1>6, <1>7, <2>1
  <2>2. CASE i = size + 1
    BY <1>3, <1>5, <1>6, <1>7, <2>2
  <2> QED
    BY <1>3, <1>5, <2>1, <2>2
<1> QED
  BY <1>5, <1>6, <1>8, SeqEqual DEF next

(* pop hands over the oldest block, and the swap leaves the others alone.  *)
LEMMA PopContents ==
  ASSUME TypeOK, TypeOK', NEW held \in Content, PopSlot(held)
  PROVE  /\ Contents # <<>>
         /\ Contents' = Tail(Contents)
         /\ answer' = Popped(Head(Contents))
<1> DEFINE rest == Tail(Contents)
<1>1. ContentsOK /\ ContentsOK'
  BY ContentsType, NextContentsType
<1>2. tail_' = IF tail_ + 1 = SIZE THEN 0 ELSE tail_ + 1
  BY NextSlot DEF PopSlot, TypeOK
<1>3. size \in 1..SIZE
  BY <1>1, SlotAssumption DEF ContentsOK, PopSlot
<1>4. size' = size - 1
  BY <1>2, SlotAssumption DEF PopSlot, TypeOK, Slot, size, empty
<1>5. \A i \in 1..(size - 1) : /\ At(tail_', i) = At(tail_, i + 1)
                               /\ At(tail_, i + 1) # tail_
                               /\ At(tail_, i + 1) \in Slot
  BY <1>2, <1>3, SlotAssumption DEF At, TypeOK, Slot
<1>6. At(tail_, 1) = tail_
  BY SlotAssumption DEF At, TypeOK, Slot
<1> HIDE DEF size
<1>7. /\ Contents' \in Seq(Content)
      /\ Len(Contents') = size - 1
      /\ \A i \in 1..(size - 1) : Contents'[i] = buf_'[At(tail_', i)]
  BY <1>1, <1>4 DEF ContentsOK, At
<1>8. /\ Contents # <<>>
      /\ Head(Contents) = buf_[tail_]
      /\ rest \in Seq(Content)
      /\ Len(rest) = size - 1
      /\ \A i \in 1..(size - 1) : rest[i] = Contents[i + 1]
  BY <1>1, <1>3, <1>6 DEF ContentsOK
<1>9. \A i \in 1..(size - 1) : rest[i] = buf_[At(tail_, i + 1)]
  BY <1>1, <1>3, <1>8 DEF ContentsOK
<1>10. \A i \in 1..(size - 1) : buf_'[At(tail_', i)] = buf_[At(tail_, i + 1)]
  BY <1>5 DEF PopSlot, TypeOK
<1> HIDE DEF rest
<1>11. Contents' = rest
  BY <1>7, <1>8, <1>9, <1>10, SeqEqual, SMTT(30)
<1> QED
  BY <1>8, <1>11 DEF PopSlot, rest

(* A ring whose indices meet with the flag down holds nothing.             *)
LEMMA NothingHeld ==
  ASSUME TypeOK, empty
  PROVE  Contents = <<>>
BY ContentsType DEF ContentsOK

(***************************************************************************)
(* The refinement.                                                         *)
(***************************************************************************)
LEMMA InitRefines == Init => Blocks!QueueInit
BY InitType, NothingHeld
DEF Init, empty, ResetDone, Blocks!QueueInit, Blocks!ResetDone

LEMMA StepRefines == TypeOK /\ [Next]_slotVars => [Blocks!QueueNext]_(Blocks!queueVars)
<1> SUFFICES ASSUME TypeOK, [Next]_slotVars
             PROVE  Blocks!QueueNext \/ UNCHANGED <<Contents, answer>>
  BY DEF Blocks!queueVars
<1>1. TypeOK' /\ ContentsOK
  BY StepType, ContentsType
<1>2. ASSUME UNCHANGED slots PROVE Contents' = Contents
  BY <1>2 DEF slots, Contents, size
<1>3. ASSUME NEW block \in Block, Push(block) PROVE Blocks!QueuePush(block)
  <2>1. CASE PushFull(block)
    BY <1>1, <1>2, <2>1
    DEF PushFull, ContentsOK, Pushed, Blocks!QueuePush, Blocks!Pushed
  <2>2. CASE PushSlot(block)
    <3>1. Len(Contents) < SIZE
      BY <1>1, <2>2, SlotAssumption DEF ContentsOK, PushSlot
    <3> QED
      BY <1>1, <2>2, <3>1, PushContents
      DEF PushSlot, Pushed, Blocks!QueuePush, Blocks!Pushed
  <2> QED
    BY <1>3, <2>1, <2>2 DEF Push
<1>4. ASSUME NEW held \in Content, Pop(held) PROVE Blocks!QueuePop
  <2>1. CASE PopEmpty
    BY <1>2, <2>1, NothingHeld
    DEF PopEmpty, PopFailed, Blocks!QueuePop, Blocks!PopFailed
  <2>2. CASE PopSlot(held)
    BY <1>1, <2>2, PopContents DEF Popped, Blocks!QueuePop, Blocks!Popped
  <2> QED
    BY <1>4, <2>1, <2>2 DEF Pop
<1>5. CASE Reset
  <2>1. empty'
    BY <1>5 DEF Reset, empty
  <2>2. Contents' = <<>>
    BY <1>1, <2>1, NextContentsType DEF ContentsOK
  <2> QED
    BY <1>5, <2>2 DEF Reset, ResetDone, Blocks!QueueReset, Blocks!ResetDone,
                      Blocks!QueueNext
<1>6. CASE UNCHANGED slotVars
  BY <1>2, <1>6 DEF slotVars
<1> QED
  BY <1>3, <1>4, <1>5, <1>6 DEF Next, Blocks!QueueNext

(* For every number of slots, the calls of the ring are those of a bounded *)
(* queue: a block comes out once and in order, and what pop swaps into a   *)
(* slot never does.                                                        *)
THEOREM SlotsImplementQueue == Spec => ImplementsQueue
<1>1. Init => Blocks!QueueInit
  BY InitRefines
<1>2. TypeOK /\ [Next]_slotVars => [Blocks!QueueNext]_(Blocks!queueVars)
  BY StepRefines
<1> QED
  BY <1>1, <1>2, SlotsTypeCorrect, PTL DEF Spec, ImplementsQueue, Blocks!QueueSpec

(***************************************************************************)
(* The sink around the ring.  A block is a run of the numbers of the bytes *)
(* fed, so that a piece cut from what was gathered is a block.             *)
(***************************************************************************)
InTask == IF player = "write" THEN <<dataPtr>> ELSE <<>>
InFeeder == IF feeder = "push" THEN <<ptr>> ELSE <<>>
Line == handed \o InTask \o Contents \o InFeeder
Run(n) == [i \in 1..n |-> i]

SinkInv ==
  /\ TypeOK /\ Contents \in Seq(Block)
  /\ fed \in Nat /\ fed <= MaxBytes /\ buff \in Seq(Nat)
  /\ feeder \in {"idle", "cut", "push"} /\ player \in {"pop", "write"}
  /\ ptr \in Content /\ dataPtr \in Content
  /\ feeder = "push" => ptr \in Block
  /\ player = "write" => dataPtr \in Block
  /\ handed \in Seq(Block)
  /\ NothingLost

LEMMA SinkSizes ==
  /\ buff_size \in Nat \ {0} /\ MaxFeed \in Nat \ {0} /\ MaxBytes \in Nat \ {0}
  /\ Block \subseteq Seq(Nat)
  /\ \A s \in Seq(Block) : s \in Seq(Seq(Nat))
<1>1. buff_size \in Nat \ {0} /\ MaxFeed \in Nat \ {0} /\ MaxBytes \in Nat \ {0}
  BY SinkAssumption
<1>2. ASSUME NEW at \in 0..MaxBytes
      PROVE  [i \in 1..buff_size |-> at + i] \in Seq(Nat)
  <2>1. at \in Nat
    BY <1>1
  <2> QED
    BY <1>1, <2>1
<1>3. Block \subseteq Seq(Nat)
  BY <1>2, SinkAssumption
<1>4. \A s \in Seq(Block) : s \in Seq(Seq(Nat))
  BY <1>3
<1> QED
  BY <1>1, <1>3, <1>4

(* The parts of the line, each a sequence of blocks.                       *)
LEMMA LineType ==
  ASSUME SinkInv
  PROVE  /\ InTask \in Seq(Block) /\ InFeeder \in Seq(Block)
         /\ handed \o InTask \in Seq(Block) /\ handed \o InTask \o Contents \in Seq(Block)
         /\ Line \in Seq(Block) /\ FlattenSeq(Line) \in Seq(Nat)
         /\ FlattenSeq(Line) \o buff = Run(fed)
<1>1. InTask \in Seq(Block) /\ InFeeder \in Seq(Block)
  BY DEF SinkInv, InTask, InFeeder
<1>2. handed \o InTask \in Seq(Block)
  BY <1>1, ConcatParts DEF SinkInv
<1>3. handed \o InTask \o Contents \in Seq(Block)
  BY <1>2, ConcatParts DEF SinkInv
<1>4. Line \in Seq(Block)
  BY <1>1, <1>3, ConcatParts DEF Line
<1>5. FlattenSeq(Line) \in Seq(Nat)
  BY <1>4, SinkSizes, FlattenType
<1>6. FlattenSeq(Line) \o buff = Run(fed)
  BY DEF SinkInv, NothingLost, Line, InTask, InFeeder, Run
<1> QED
  BY <1>1, <1>2, <1>3, <1>4, <1>5, <1>6

LEMMA SinkInvInit == SinkInit => SinkInv
<1> SUFFICES ASSUME SinkInit PROVE SinkInv
  OBVIOUS
<1>1. TypeOK /\ Contents = <<>>
  BY InitType, NothingHeld DEF SinkInit, Init, empty
<1>2. NothingLost
  <2>1. handed = <<>> /\ player = "pop" /\ feeder = "idle" /\ buff = <<>> /\ fed = 0
    BY DEF SinkInit
  <2>2. FlattenSeq(<<>> \o <<>> \o <<>> \o <<>>) \o <<>> = <<>>
    <3>1. <<>> \o <<>> = <<>>
      OBVIOUS
    <3> QED
      BY <3>1, FlattenEmpty
  <2>3. [i \in 1..0 |-> i] = <<>>
    OBVIOUS
  <2> QED
    BY <1>1, <2>1, <2>2, <2>3 DEF NothingLost
<1> QED
  BY <1>1, <1>2, SinkSizes DEF SinkInit, SinkInv, Content

(***************************************************************************)
(* The steps.                                                              *)
(***************************************************************************)
(* What is fed is appended to the run of what was fed before.              *)
LEMMA RunLonger ==
  ASSUME NEW n \in Nat, NEW k \in Nat
  PROVE  Run(n + k) = Run(n) \o [i \in 1..k |-> n + i]
<1> DEFINE more == [i \in 1..k |-> n + i]
           all == Run(n + k)
<1>1. Run(n) \in Seq(Nat) /\ more \in Seq(Nat) /\ all \in Seq(Nat)
  BY DEF Run
<1>2. Len(Run(n)) = n /\ Len(more) = k /\ Len(all) = n + k
  BY DEF Run
<1>3. /\ \A i \in 1..Len(Run(n)) : all[i] = Run(n)[i]
      /\ \A i \in 1..Len(more) : all[Len(Run(n)) + i] = more[i]
  BY <1>2 DEF Run
<1> HIDE DEF more, all
<1>4. all = Run(n) \o more
  <2> DEFINE front == Run(n)
  <2>1. /\ front \in Seq(Nat) /\ Len(all) = Len(front) + Len(more)
        /\ \A i \in 1..Len(front) : all[i] = front[i]
        /\ \A i \in 1..Len(more) : all[Len(front) + i] = more[i]
    BY <1>1, <1>2, <1>3
  <2> HIDE DEF front
  <2>2. all = front \o more
    BY <1>1, <2>1, ConcatIs
  <2> QED
    BY <2>2 DEF front
<1> QED
  BY <1>4 DEF more, all

LEMMA FeedKeeps ==
  ASSUME SinkInv, NEW bytes \in 1..MaxFeed, FeedPCMFrames(bytes)
  PROVE  SinkInv'
<1> DEFINE more == [i \in 1..bytes |-> fed + i]
           gathered == FlattenSeq(Line)
<1>0. bytes \in Nat /\ fed \in Nat /\ buff \in Seq(Nat) /\ more \in Seq(Nat)
  BY SinkSizes DEF SinkInv
<1>1. /\ fed' = fed + bytes /\ fed' <= MaxBytes /\ feeder = "idle" /\ feeder' = "cut"
      /\ UNCHANGED <<slotVars, ptr, taskVars>>
      /\ buff' = buff \o more
  BY DEF FeedPCMFrames
<1> HIDE DEF more
<1>2. UNCHANGED <<Contents, InTask>> /\ InFeeder = <<>> /\ InFeeder' = <<>> /\ UNCHANGED handed
  BY <1>1 DEF slotVars, slots, taskVars, Contents, size, InTask, InFeeder
<1>3. Line' = Line
  BY <1>2 DEF Line
<1>4. gathered \in Seq(Nat) /\ gathered \o buff = Run(fed)
  BY LineType
<1> HIDE DEF gathered
<1>5. gathered \o (buff \o more) = (gathered \o buff) \o more
  <2>1. gathered \in Seq(Nat) /\ buff \in Seq(Nat) /\ more \in Seq(Nat)
    BY <1>0, <1>4
  <2> QED
    BY <2>1, ConcatGroups, SMTT(30)
<1>6. Run(fed + bytes) = Run(fed) \o more
  BY <1>0, RunLonger DEF more
<1>7. gathered \o buff' = Run(fed')
  BY <1>1, <1>4, <1>5, <1>6
<1>8. NothingLost'
  BY <1>3, <1>7 DEF gathered, NothingLost, Line, InTask, InFeeder, Run
<1>9. buff' \in Seq(Nat) /\ fed' \in Nat
  BY <1>0, <1>1, ConcatParts
<1>10. TypeOK'
  BY <1>1 DEF SinkInv, TypeOK, slotVars, slots
<1> QED
  BY <1>1, <1>2, <1>8, <1>9, <1>10 DEF SinkInv, taskVars

(* The piece that is cut is a block: it goes on where the line ends.       *)
LEMMA CutIsBlock ==
  ASSUME SinkInv, Len(buff) > buff_size
  PROVE  /\ SubSeq(buff, 1, buff_size) \in Block
         /\ SubSeq(buff, buff_size + 1, Len(buff)) \in Seq(Nat)
         /\ buff = SubSeq(buff, 1, buff_size) \o SubSeq(buff, buff_size + 1, Len(buff))
<1> DEFINE gathered == FlattenSeq(Line)
           n == Len(gathered)
           piece == SubSeq(buff, 1, buff_size)
<1>1. /\ gathered \in Seq(Nat) /\ gathered \o buff = Run(fed) /\ buff \in Seq(Nat)
      /\ fed \in Nat /\ fed <= MaxBytes
  BY LineType DEF SinkInv
<1>2. /\ piece \in Seq(Nat) /\ Len(piece) = buff_size
      /\ SubSeq(buff, buff_size + 1, Len(buff)) \in Seq(Nat)
      /\ \A i \in 1..buff_size : piece[i] = buff[i]
      /\ buff = piece \o SubSeq(buff, buff_size + 1, Len(buff))
  <2>1. buff_size \in Nat /\ buff_size <= Len(buff)
    BY <1>1, SinkSizes
  <2> QED
    BY <1>1, <2>1, CutParts, ZenonT(60)
<1> HIDE DEF gathered, piece
<1>3. /\ n \in Nat /\ Len(buff) \in Nat /\ Len(Run(fed)) = n + Len(buff)
      /\ \A i \in 1..Len(buff) : Run(fed)[n + i] = buff[i]
  BY <1>1, ConcatParts
<1>4. Len(Run(fed)) = fed
  BY <1>1 DEF Run
<1>5. \A i \in 1..buff_size : piece[i] = n + i
  <2> TAKE i \in 1..buff_size
  <2>1. i \in 1..Len(buff) /\ n + i \in 1..fed
    BY <1>1, <1>3, <1>4, SinkSizes
  <2>2. Run(fed)[n + i] = n + i
    BY <2>1 DEF Run
  <2> QED
    BY <1>2, <1>3, <2>1, <2>2
<1>6. piece = [i \in 1..buff_size |-> n + i]
  <2> DEFINE block == [i \in 1..buff_size |-> n + i]
  <2>1. block \in Seq(Nat) /\ Len(block) = buff_size /\ \A i \in 1..buff_size : block[i] = n + i
    BY <1>3, SinkSizes
  <2> HIDE DEF block
  <2>2. piece = block
    BY <1>2, <1>5, <2>1, SeqEqual
  <2> QED
    BY <2>2 DEF block
<1>7. n \in 0..MaxBytes
  BY <1>1, <1>3, <1>4, SinkSizes
<1>8. piece \in Block
  BY <1>6, <1>7, SinkAssumption
<1> QED
  BY <1>2, <1>8 DEF piece

LEMMA CutKeeps ==
  ASSUME SinkInv, Cut
  PROVE  SinkInv'
<1> DEFINE gathered == FlattenSeq(Line)
           piece == SubSeq(buff, 1, buff_size)
           left == SubSeq(buff, buff_size + 1, Len(buff))
<1>1. feeder = "cut" /\ UNCHANGED <<slotVars, fed, taskVars>>
  BY DEF Cut
<1>2. UNCHANGED <<Contents, InTask, handed, player, dataPtr>> /\ InFeeder = <<>> /\ TypeOK'
  BY <1>1 DEF slotVars, slots, taskVars, Contents, size, InTask, InFeeder, SinkInv, TypeOK
<1>3. /\ Line \in Seq(Block) /\ gathered \in Seq(Nat) /\ gathered \o buff = Run(fed)
      /\ handed \o InTask \o Contents \in Seq(Block)
  BY LineType
<1>4. Line = handed \o InTask \o Contents
  <2> DEFINE s == handed \o InTask \o Contents
  <2>1. s \in Seq(Block)
    BY <1>3
  <2> HIDE DEF s
  <2>2. s \o <<>> = s
    BY <2>1
  <2> QED
    BY <1>2, <2>2 DEF s, Line
<1>5. CASE Len(buff) > buff_size
  <2>1. ptr' = piece /\ buff' = left /\ feeder' = "push"
    BY <1>5 DEF Cut
  <2>2. piece \in Block /\ left \in Seq(Nat) /\ buff = piece \o left
    BY <1>5, CutIsBlock
  <2> HIDE DEF piece, left
  <2>3. InFeeder' = <<piece>>
    BY <2>1 DEF InFeeder
  <2>4. Line' = Line \o <<piece>>
    BY <1>2, <1>4, <2>3 DEF Line
  <2>5. piece \in Seq(Nat) /\ Line \in Seq(Seq(Nat)) /\ <<piece>> \in Seq(Seq(Nat))
    BY <1>3, <2>2, SinkSizes
  <2>6. FlattenSeq(Line \o <<piece>>) = gathered \o FlattenSeq(<<piece>>)
    BY <2>5, FlattenConcat
  <2>7. FlattenSeq(<<piece>>) = piece
    BY <2>5, FlattenOne
  <2> HIDE DEF gathered
  <2>8. gathered \o (piece \o left) = (gathered \o piece) \o left
    <3>1. gathered \in Seq(Nat) /\ piece \in Seq(Nat) /\ left \in Seq(Nat)
      BY <1>3, <2>2, <2>5
    <3> QED
      BY <3>1, ConcatGroups, SMTT(30)
  <2>9. FlattenSeq(Line') \o buff' = Run(fed')
    BY <1>1, <1>3, <2>1, <2>2, <2>4, <2>6, <2>7, <2>8
  <2>10. NothingLost'
    BY <2>9 DEF NothingLost, Line, InTask, InFeeder, Run
  <2>11. ptr' \in Content /\ ptr' \in Block /\ buff' \in Seq(Nat)
    BY <2>1, <2>2 DEF Content
  <2> QED
    BY <1>1, <1>2, <2>1, <2>10, <2>11 DEF SinkInv
<1>6. CASE ~(Len(buff) > buff_size)
  <2>1. UNCHANGED buff /\ ptr' = Blank /\ feeder' = "idle"
    BY <1>6 DEF Cut
  <2>2. InFeeder' = <<>>
    BY <2>1 DEF InFeeder
  <2>3. Line' = Line
    BY <1>2, <2>2 DEF Line
  <2>4. NothingLost'
    BY <1>1, <1>3, <2>1, <2>3 DEF NothingLost, Line, InTask, InFeeder, Run
  <2> QED
    BY <1>1, <1>2, <2>1, <2>4 DEF SinkInv, Content
<1> QED
  BY <1>5, <1>6

(***************************************************************************)
(* A block that goes from one place to the next leaves the line as it is.  *)
(***************************************************************************)
LEMMA SameLine ==
  ASSUME SinkInv, Line' = Line, UNCHANGED <<fed, buff>>,
         TypeOK', Contents' \in Seq(Block),
         feeder' \in {"idle", "cut", "push"}, player' \in {"pop", "write"},
         ptr' \in Content, dataPtr' \in Content, handed' \in Seq(Block),
         feeder' = "push" => ptr' \in Block, player' = "write" => dataPtr' \in Block
  PROVE  SinkInv'
<1>1. FlattenSeq(Line') \o buff' = Run(fed')
  BY LineType
<1>2. NothingLost'
  BY <1>1 DEF NothingLost, Line, InTask, InFeeder, Run
<1> QED
  BY <1>2 DEF SinkInv

LEMMA PushKeeps ==
  ASSUME SinkInv, PushBlock
  PROVE  SinkInv' /\ Push(ptr) /\ ptr \in Block
<1>1. feeder = "push" /\ Push(ptr) /\ ptr \in Block /\ UNCHANGED <<fed, buff, taskVars>>
  BY DEF PushBlock, SinkInv
<1>2. UNCHANGED <<InTask, handed, player, dataPtr>> /\ InFeeder = <<ptr>>
  BY <1>1 DEF taskVars, InTask, InFeeder
<1>3. TypeOK /\ TypeOK'
  <2>1. TypeOK /\ [Next]_slotVars
    BY <1>1 DEF SinkInv, Next
  <2> QED
    BY <2>1, StepType
<1>4. CASE PushFull(ptr)
  <2>1. UNCHANGED <<Contents, ptr, feeder>>
    BY <1>4 DEF PushBlock, PushFull, Pushed, slots, Contents, size
  <2>2. Line' = Line
    BY <1>2, <2>1 DEF Line, InFeeder
  <2> QED
    BY <1>1, <1>2, <1>3, <2>1, <2>2, SameLine DEF SinkInv
<1>5. CASE PushSlot(ptr)
  <2>1. ptr' = buf_[head_] /\ feeder' = "cut" /\ Contents' = Append(Contents, ptr)
    BY <1>1, <1>3, <1>5, PushContents DEF PushBlock, PushSlot, Pushed, Content
  <2>2. ptr' \in Content
    BY <1>3, <2>1 DEF TypeOK
  <2>3. InFeeder' = <<>> /\ Contents' \in Seq(Block) /\ Contents' = Contents \o <<ptr>>
    BY <1>1, <2>1 DEF InFeeder, SinkInv
  <2>4. Line' = Line
    <3> DEFINE front == handed \o InTask
               c == Contents
    <3>1. front \in Seq(Block) /\ c \in Seq(Block) /\ <<ptr>> \in Seq(Block)
      BY <1>1, LineType DEF SinkInv
    <3>2. Line = (front \o c) \o <<ptr>> /\ Line' = (front \o (c \o <<ptr>>)) \o <<>>
      BY <1>2, <2>3 DEF Line
    <3> HIDE DEF front, c
    <3>3. front \o (c \o <<ptr>>) = (front \o c) \o <<ptr>>
      BY <3>1, ConcatGroups
    <3>4. (front \o c) \o <<ptr>> \in Seq(Block)
      BY <3>1
    <3> QED
      BY <3>2, <3>3, <3>4
  <2> QED
    BY <1>1, <1>2, <1>3, <2>1, <2>2, <2>3, <2>4, SameLine DEF SinkInv
<1> QED
  BY <1>1, <1>4, <1>5 DEF Push

LEMMA PopKeeps ==
  ASSUME SinkInv, PopBlock
  PROVE  SinkInv' /\ Pop(dataPtr) /\ dataPtr \in Content
<1>1. player = "pop" /\ Pop(dataPtr) /\ dataPtr \in Content /\ UNCHANGED <<feederVars, handed>>
  BY DEF PopBlock, SinkInv
<1>2. UNCHANGED <<InFeeder, handed, fed, buff, feeder, ptr>> /\ InTask = <<>>
  BY <1>1 DEF feederVars, InTask, InFeeder
<1>3. TypeOK /\ TypeOK'
  <2>1. TypeOK /\ [Next]_slotVars
    BY <1>1 DEF SinkInv, Next
  <2> QED
    BY <2>1, StepType
<1>4. CASE PopEmpty
  <2>1. UNCHANGED <<Contents, dataPtr, player>>
    BY <1>4 DEF PopBlock, PopEmpty, PopFailed, slots, Contents, size
  <2>2. Line' = Line
    BY <1>2, <2>1 DEF Line, InTask
  <2> QED
    BY <1>1, <1>2, <1>3, <2>1, <2>2, SameLine DEF SinkInv
<1>5. CASE PopSlot(dataPtr)
  <2>1. Contents # <<>> /\ Contents' = Tail(Contents) /\ answer' = Popped(Head(Contents))
    BY <1>1, <1>3, <1>5, PopContents
  <2>2. dataPtr' = Head(Contents) /\ player' = "write"
    BY <2>1 DEF PopBlock, Popped
  <2>3. /\ dataPtr' \in Block /\ Contents' \in Seq(Block)
        /\ Contents = <<dataPtr'>> \o Contents'
    BY <2>1, <2>2, HeadTailProperties DEF SinkInv
  <2>4. InTask' = <<dataPtr'>>
    BY <2>2 DEF InTask
  <2>5. Line' = Line
    <3> DEFINE d == dataPtr'
               c == Contents'
               h == handed
    <3>1. h \in Seq(Block) /\ c \in Seq(Block) /\ <<d>> \in Seq(Block)
      BY <2>3 DEF SinkInv
    <3>2. Line = ((h \o <<>>) \o (<<d>> \o c)) \o InFeeder /\ Line' = ((h \o <<d>>) \o c) \o InFeeder
      BY <1>2, <2>3, <2>4 DEF Line
    <3> HIDE DEF d, c, h
    <3>3. h \o (<<d>> \o c) = (h \o <<d>>) \o c
      BY <3>1, ConcatGroups
    <3>4. h \o <<>> = h
      BY <3>1
    <3> QED
      BY <3>2, <3>3, <3>4
  <2>6. dataPtr' \in Content
    BY <2>3 DEF Content
  <2> QED
    BY <1>1, <1>2, <1>3, <2>2, <2>3, <2>5, <2>6, SameLine DEF SinkInv
<1> QED
  BY <1>1, <1>4, <1>5 DEF Pop

LEMMA WriteKeeps ==
  ASSUME SinkInv, WriteBlock
  PROVE  SinkInv'
<1>1. /\ player = "write" /\ handed' = Append(handed, dataPtr) /\ player' = "pop"
      /\ UNCHANGED <<slotVars, feederVars, dataPtr>>
  BY DEF WriteBlock
<1>2. UNCHANGED <<Contents, InFeeder, fed, buff, feeder, ptr>> /\ TypeOK'
  BY <1>1 DEF slotVars, slots, feederVars, Contents, size, InFeeder, SinkInv, TypeOK
<1>3. InTask = <<dataPtr>> /\ InTask' = <<>> /\ dataPtr \in Block
  BY <1>1 DEF InTask, SinkInv
<1>4. handed' \in Seq(Block) /\ handed' \o <<>> = handed \o <<dataPtr>>
  BY <1>1, <1>3 DEF SinkInv
<1>5. Line' = Line
  BY <1>2, <1>3, <1>4 DEF Line
<1> QED
  BY <1>1, <1>2, <1>4, <1>5, SameLine DEF SinkInv

LEMMA SinkInvStep ==
  ASSUME SinkInv, [SinkNext]_vars
  PROVE  SinkInv'
<1>1. CASE UNCHANGED vars
  <2>1. UNCHANGED <<Contents, InTask, InFeeder, handed>> /\ TypeOK'
    BY <1>1 DEF vars, slotVars, slots, feederVars, taskVars, Contents, size, InTask, InFeeder,
                SinkInv, TypeOK
  <2>2. Line' = Line
    BY <2>1 DEF Line
  <2> QED
    BY <1>1, <2>1, <2>2, SameLine DEF SinkInv, vars, feederVars, taskVars
<1> QED
  BY <1>1, FeedKeeps, CutKeeps, PushKeeps, PopKeeps, WriteKeeps DEF SinkNext

(* Everything fed is somewhere, once and in order, whatever the order in   *)
(* which the player's thread and the sink's task take their steps and how  *)
(* often they find the ring full or empty.                                 *)
THEOREM SinkLosesNothing == SinkSpec => []NothingLost
<1>1. SinkInit => SinkInv
  BY SinkInvInit
<1>2. SinkInv /\ [SinkNext]_vars => SinkInv'
  BY SinkInvStep
<1>3. SinkInv => NothingLost
  BY DEF SinkInv
<1> QED
  BY <1>1, <1>2, <1>3, PTL DEF SinkSpec

(* The two threads use the ring as SlotsImplementQueue assumes: what they  *)
(* see of it is a bounded queue of blocks.                                 *)
THEOREM SinkSeesQueue == SinkSpec => ImplementsQueue
<1>1. SinkInit => SinkInv /\ Init
  BY SinkInvInit DEF SinkInit
<1>2. SinkInv /\ [SinkNext]_vars => SinkInv' /\ [Next]_slotVars
  <2> SUFFICES ASSUME SinkInv, [SinkNext]_vars PROVE [Next]_slotVars
    BY SinkInvStep
  <2>1. CASE PushBlock
    BY <2>1, PushKeeps DEF Next
  <2>2. CASE PopBlock
    BY <2>2, PopKeeps DEF Next
  <2> QED
    BY <2>1, <2>2 DEF SinkNext, FeedPCMFrames, Cut, WriteBlock, vars
<1> QED
  BY <1>1, <1>2, SlotsImplementQueue, PTL DEF SinkSpec, Spec

(***************************************************************************)
(* The S/PDIF sink: what goes in at feedPCMFrames comes out at the driver, *)
(* by way of a block, a byte ring and the item the task holds.  The way of *)
(* the elements through the ring is the same whatever they are.            *)
(***************************************************************************)
Repeat(Elem) == [at : Nat, data : Seq(Elem)]

Repeated(Elem) ==
  /\ repeats \in Seq(Repeat(Elem))
  /\ \A i \in DOMAIN repeats : repeats[i].at + Len(repeats[i].data) <= Len(sent)

Moving(Elem) ==
  /\ ring \in Seq(Elem) /\ item \in Seq(Elem) /\ sent \in Seq(Elem) /\ played \in Seq(Elem)
  /\ Repeated(Elem) /\ PlayedInOrder

LEMMA RepeatParts ==
  ASSUME NEW Elem, NEW r \in Repeat(Elem)
  PROVE  /\ r.at \in Nat /\ r.data \in Seq(Elem) /\ Len(r.data) \in Nat
         /\ DOMAIN r.data = 1..Len(r.data)
<1>1. r.at \in Nat /\ r.data \in Seq(Elem)
  BY DEF Repeat
<1> QED
  BY <1>1, LenProperties

LEMMA RepeatsAre ==
  ASSUME NEW Elem, Repeated(Elem), PlayedInOrder, NEW i \in DOMAIN repeats
  PROVE  /\ repeats[i].at \in Nat /\ Len(repeats[i].data) \in Nat
         /\ DOMAIN repeats[i].data = 1..Len(repeats[i].data)
         /\ repeats[i].at + Len(repeats[i].data) <= Len(sent)
         /\ \A k \in DOMAIN repeats[i].data : repeats[i].data[k] = sent[repeats[i].at + k]
<1>1. repeats \in Seq(Repeat(Elem))
  BY DEF Repeated
<1>2. repeats[i] \in Repeat(Elem)
  BY <1>1
<1>3. /\ repeats[i].at + Len(repeats[i].data) <= Len(sent)
      /\ \A k \in DOMAIN repeats[i].data : repeats[i].data[k] = sent[repeats[i].at + k]
  BY DEF Repeated, PlayedInOrder
<1> QED
  BY <1>2, <1>3, RepeatParts

(* What was repeated still is, when more is sent.                          *)
LEMMA RepeatsStay ==
  ASSUME NEW Elem, Moving(Elem), NEW data \in Seq(Elem), sent' = sent \o data, repeats' = repeats
  PROVE  /\ Repeated(Elem)'
         /\ \A i \in DOMAIN repeats' :
              \A k \in DOMAIN repeats'[i].data : repeats'[i].data[k] = sent'[repeats'[i].at + k]
<1>1. /\ Len(sent') = Len(sent) + Len(data) /\ Len(sent) \in Nat /\ Len(data) \in Nat
      /\ \A i \in 1..Len(sent) : sent'[i] = sent[i]
  BY ConcatParts DEF Moving
<1>2. ASSUME NEW i \in DOMAIN repeats
      PROVE  /\ repeats[i].at + Len(repeats[i].data) <= Len(sent')
             /\ \A k \in DOMAIN repeats[i].data : repeats[i].data[k] = sent'[repeats[i].at + k]
  <2>1. /\ repeats[i].at \in Nat /\ Len(repeats[i].data) \in Nat
        /\ DOMAIN repeats[i].data = 1..Len(repeats[i].data)
        /\ repeats[i].at + Len(repeats[i].data) <= Len(sent)
        /\ \A k \in DOMAIN repeats[i].data : repeats[i].data[k] = sent[repeats[i].at + k]
    BY RepeatsAre DEF Moving
  <2>2. PICK at \in Nat, n \in Nat : at = repeats[i].at /\ n = Len(repeats[i].data)
    BY <2>1
  <2>3. at + n <= Len(sent) /\ \A k \in 1..n : at + k \in 1..Len(sent)
    BY <1>1, <2>1, <2>2
  <2> QED
    BY <1>1, <2>1, <2>2, <2>3
<1> QED
  BY <1>2 DEF Moving, Repeated

LEMMA SendKeeps ==
  ASSUME NEW Elem, Moving(Elem), NEW data \in Seq(Elem), feedPCMFramesInternal(data)
  PROVE  Moving(Elem)'
<1>1. CASE Len(data) > RingSize
  BY <1>1 DEF feedPCMFramesInternal, RingSend, Moving, Repeated, PlayedInOrder
<1>2. CASE ~(Len(data) > RingSize)
  <2>1. /\ ring' = ring \o data /\ sent' = sent \o data
        /\ item' = item /\ played' = played /\ repeats' = repeats
    BY <1>2 DEF feedPCMFramesInternal, RingSend
  <2>2. played \o item \in Seq(Elem)
    BY ConcatParts DEF Moving
  <2>3. (played \o item) \o (ring \o data) = ((played \o item) \o ring) \o data
    <3>1. ring \in Seq(Elem)
      BY DEF Moving
    <3> DEFINE s == played \o item
    <3> HIDE DEF s
    <3>2. s \o (ring \o data) = (s \o ring) \o data
      BY <2>2, <3>1, ConcatGroups, SMTT(30) DEF s
    <3> QED
      BY <3>2 DEF s
  <2>4. ring \o data \in Seq(Elem) /\ sent \o data \in Seq(Elem)
    BY ConcatParts DEF Moving
  <2>5. played' \o item' \o ring' = sent'
    BY <2>1, <2>3 DEF Moving, Repeated, PlayedInOrder
  <2> QED
    BY <2>1, <2>4, <2>5, RepeatsStay DEF Moving, Repeated, PlayedInOrder
<1> QED
  BY <1>1, <1>2

(* A short write: what the driver took is where the item stands in what    *)
(* was sent.                                                               *)
LEMMA ShortWriteKeeps ==
  ASSUME NEW Elem, Moving(Elem), NEW n \in 0..Len(item),
         repeats' = Append(repeats, [at |-> Len(played), data |-> SubSeq(item, 1, n)]),
         UNCHANGED <<ring, item, sent, played>>
  PROVE  Moving(Elem)'
<1> DEFINE taken == SubSeq(item, 1, n)
           repeat == [at |-> Len(played), data |-> taken]
<1>1. /\ ring \in Seq(Elem) /\ item \in Seq(Elem) /\ played \in Seq(Elem)
      /\ repeats \in Seq(Repeat(Elem)) /\ played \o item \o ring = sent
  BY DEF Moving, Repeated, PlayedInOrder
<1>2. Len(item) \in Nat /\ n \in Nat /\ n <= Len(item) /\ Len(played) \in Nat /\ Len(ring) \in Nat
  BY <1>1
<1>3. taken \in Seq(Elem) /\ Len(taken) = n /\ \A k \in 1..n : taken[k] = item[k]
  BY <1>1, <1>2, CutParts
<1>4. /\ Len(played) + n <= Len(sent)
      /\ \A k \in 1..n : taken[k] = sent[Len(played) + k]
  <2>1. PICK s \in Seq(Elem) : s = played \o item
    BY <1>1, ConcatParts
  <2>2. Len(s) = Len(played) + Len(item) /\ \A k \in 1..Len(item) : s[Len(played) + k] = item[k]
    BY <1>1, <2>1, ConcatParts
  <2>3. /\ s \o ring = sent /\ Len(s \o ring) = Len(s) + Len(ring)
        /\ \A k \in 1..Len(s) : (s \o ring)[k] = s[k]
    BY <1>1, <2>1, ConcatParts
  <2>4. ASSUME NEW k \in 1..n PROVE taken[k] = sent[Len(played) + k]
    <3>1. k \in 1..Len(item) /\ Len(played) + k \in 1..Len(s)
      BY <1>2, <2>2
    <3> QED
      BY <1>3, <2>2, <2>3, <3>1
  <2> QED
    BY <1>2, <2>2, <2>3, <2>4
<1>5. repeat \in Repeat(Elem) /\ repeat.at = Len(played) /\ repeat.data = taken
  BY <1>2, <1>3 DEF Repeat
<1>6. DOMAIN taken = 1..n
  BY <1>3
<1> HIDE DEF repeat, taken
<1>7. repeats' = Append(repeats, repeat)
  BY DEF repeat, taken
<1>8. /\ repeats' \in Seq(Repeat(Elem))
      /\ \A i \in DOMAIN repeats' : repeats'[i] = repeat \/ (i \in DOMAIN repeats /\ repeats'[i] = repeats[i])
  <2>1. /\ DOMAIN repeats' = 1..(Len(repeats) + 1) /\ DOMAIN repeats = 1..Len(repeats)
        /\ Len(repeats) \in Nat /\ repeats'[Len(repeats) + 1] = repeat
        /\ \A i \in 1..Len(repeats) : repeats'[i] = repeats[i]
        /\ repeats' \in Seq(Repeat(Elem))
    BY <1>1, <1>5, <1>7, AppendProperties, LenProperties
  <2>2. \A i \in 1..(Len(repeats) + 1) : i \in 1..Len(repeats) \/ i = Len(repeats) + 1
    BY <2>1
  <2> QED
    BY <2>1, <2>2
<1>9. ASSUME NEW i \in DOMAIN repeats'
      PROVE  /\ repeats'[i].at + Len(repeats'[i].data) <= Len(sent)
             /\ \A k \in DOMAIN repeats'[i].data : repeats'[i].data[k] = sent[repeats'[i].at + k]
  <2>1. CASE repeats'[i] = repeat
    <3>1. repeats'[i].at = Len(played) /\ repeats'[i].data = taken
      BY <1>5, <2>1
    <3> QED
      BY <1>3, <1>4, <1>6, <3>1
  <2>2. CASE i \in DOMAIN repeats /\ repeats'[i] = repeats[i]
    BY <2>2, RepeatsAre DEF Moving
  <2> QED
    BY <1>8, <2>1, <2>2
<1> QED
  BY <1>1, <1>8, <1>9 DEF Moving, Repeated, PlayedInOrder

LEMMA TaskKeeps ==
  ASSUME NEW Elem, Moving(Elem), I2sNext
  PROVE  Moving(Elem)' /\ sent' = sent
<1>1. CASE Receive
  <2>1. PICK n \in 1..(IF Len(ring) < UpTo THEN Len(ring) ELSE UpTo) :
          item' = SubSeq(ring, 1, n) /\ ring' = SubSeq(ring, n + 1, Len(ring))
    BY <1>1 DEF Receive
  <2>2. n \in Nat /\ n <= Len(ring)
    <3>1. Len(ring) \in Nat
      BY DEF Moving
    <3> QED
      BY <2>1, <3>1, SpdifAssumption
  <2>3. item' \in Seq(Elem) /\ ring' \in Seq(Elem) /\ item' \o ring' = ring
    BY <2>1, <2>2, CutParts DEF Moving
  <2>4. item = <<>> /\ played' = played /\ sent' = sent /\ repeats' = repeats
    BY <1>1 DEF Receive
  <2>5. played \o item = played
    BY <2>4 DEF Moving
  <2>6. (played \o item') \o ring' = played \o ring
    <3>1. played \in Seq(Elem)
      BY DEF Moving
    <3>2. PICK i \in Seq(Elem), r \in Seq(Elem) : i = item' /\ r = ring'
      BY <2>3
    <3>3. played \o (i \o r) = (played \o i) \o r
      BY <3>1, ConcatGroups
    <3> QED
      BY <2>3, <3>2, <3>3
  <2>7. played' \o item' \o ring' = sent'
    BY <2>4, <2>5, <2>6 DEF Moving, Repeated, PlayedInOrder
  <2> QED
    BY <2>3, <2>4, <2>7 DEF Moving, Repeated, PlayedInOrder
<1>2. CASE I2sWrite
  <2>1. PICK n \in 0..Len(item) :
          \/ n = Len(item) /\ item' = <<>> /\ played' = played \o item /\ repeats' = repeats
          \/ /\ repeats' = Append(repeats, [at |-> Len(played), data |-> SubSeq(item, 1, n)])
             /\ UNCHANGED <<item, played>>
    BY <1>2 DEF I2sWrite
  <2>2. ring' = ring /\ sent' = sent
    BY <1>2 DEF I2sWrite
  <2>3. CASE item' = <<>> /\ played' = played \o item /\ repeats' = repeats
    <3>1. played \o item \in Seq(Elem)
      BY ConcatParts DEF Moving
    <3>2. played' \o item' = played \o item /\ item' \in Seq(Elem)
      BY <2>3, <3>1
    <3>3. played' \o item' \o ring' = sent'
      BY <2>2, <3>2 DEF Moving, Repeated, PlayedInOrder
    <3> QED
      BY <2>2, <2>3, <3>1, <3>2, <3>3 DEF Moving, Repeated, PlayedInOrder
  <2> QED
    BY <2>1, <2>2, <2>3, ShortWriteKeeps
<1> QED
  BY <1>1, <1>2 DEF I2sNext

(***************************************************************************)
(* The block.  The samples given so far are, in this order, those of the   *)
(* blocks sent, those of the block being filled, and those the call of     *)
(* feedPCMFrames still has; whole blocks were sent.                        *)
(***************************************************************************)
Word == SUBSET (0..31)
Cell == [preamble : {"B", "W", "M"}, data : Word]

Marked(cells) ==
  \A i \in 1..Len(cells) :
    /\ (cells[i].preamble = "W") = (i % 2 = 0)
    /\ (cells[i].preamble = "B") = (i % BlockSize = 1)

InTurn(sofar, cells, words, left) ==
  /\ Len(sofar) = Len(cells) + Len(words) + Len(left)
  /\ \A i \in 1..Len(cells) : cells[i].data = Encode(sofar[i])
  /\ \A i \in 1..Len(words) : words[i] = Encode(sofar[Len(cells) + i])
  /\ \A i \in 1..Len(left) : left[i] = sofar[Len(cells) + Len(words) + i]

SpdifInv ==
  /\ Moving(Cell) /\ word \in AnySample
  /\ spdif_buf \in Seq(Word) /\ Len(spdif_buf) < BlockSize
  /\ given \in Seq(AnySample) /\ feeding \in Seq(AnySample)
  /\ InTurn(given, sent, spdif_buf, feeding)
  /\ Len(sent) % BlockSize = 0 /\ Marked(sent)

LEMMA EncodeType == \A sample \in AnySample : Encode(sample) \in Word
<1> TAKE sample \in AnySample
<1>1. \A code : Ones(code) \subseteq 0..15 /\ Flip(Ones(code)) \subseteq 0..15
  BY DEF Ones, Flip
<1> DEFINE low == Ones(bmc_convert[sample[1] + 1])
           high == Ones(bmc_convert[sample[2] + 1])
<1>2. low \subseteq 0..15 /\ Flip(low) \subseteq 0..15 /\ high \subseteq 0..15
  BY <1>1
<1>3. Encode(sample) = ((IF 0 \in high THEN Flip(low) ELSE low) \ {0}) \union {16 + i : i \in high}
  BY DEF Encode
<1> HIDE DEF low, high
<1>4. (IF 0 \in high THEN Flip(low) ELSE low) \subseteq 0..15
  BY <1>2
<1>5. {16 + i : i \in high} \subseteq 0..31
  BY <1>2
<1> DEFINE first == IF 0 \in high THEN Flip(low) ELSE low
           second == {16 + i : i \in high}
<1>6. Encode(sample) = (first \ {0}) \union second
  BY <1>3
<1> HIDE DEF first, second
<1>7. first \subseteq 0..31
  <2>1. 0..15 \subseteq 0..31
    OBVIOUS
  <2> QED
    BY <1>4, <2>1 DEF first
<1> QED
  BY <1>5, <1>6, <1>7 DEF Word, second

LEMMA BlockSizes == BlockSize \in Nat /\ BlockSize >= 2 /\ BlockSize <= RingSize /\ RingSize \in Nat
BY SpdifAssumption DEF BlockSize

LEMMA SpdifInvInit == SpdifInit => SpdifInv
<1> SUFFICES ASSUME SpdifInit PROVE SpdifInv
  OBVIOUS
<1>1. /\ ring = <<>> /\ item = <<>> /\ sent = <<>> /\ played = <<>>
      /\ spdif_buf = <<>> /\ feeding = <<>> /\ given = <<>> /\ word \in AnySample /\ repeats = <<>>
  BY DEF SpdifInit, I2sInit
<1>2. Moving(Cell)
  BY <1>1 DEF Moving, Repeated, PlayedInOrder
<1>3. InTurn(given, sent, spdif_buf, feeding) /\ Marked(sent)
  BY <1>1 DEF InTurn, Marked
<1>4. Len(sent) % BlockSize = 0
  BY <1>1, BlockSizes
<1> QED
  BY <1>1, <1>2, <1>3, <1>4, BlockSizes DEF SpdifInv

LEMMA SpdifFeedKeeps ==
  ASSUME Samples \subseteq AnySample, SpdifInv, SpdifFeed
  PROVE  SpdifInv'
<1>1. /\ UNCHANGED <<ring, item, sent, played, repeats, spdif_buf, word>>
      /\ feeding = <<>> /\ given' = given \o feeding'
  BY DEF SpdifFeed, i2sVars
<1>2. feeding' \in Seq(AnySample)
  <2>1. PICK s \in Samples, t \in Samples, n \in 1..2 : feeding' = SubSeq(<<s, t>>, 1, n)
    BY DEF SpdifFeed
  <2>2. <<s, t>> \in Seq(AnySample) /\ Len(<<s, t>>) = 2
    BY <2>1
  <2> DEFINE pair == <<s, t>>
  <2> HIDE DEF pair
  <2>3. SubSeq(pair, 1, n) \in Seq(AnySample)
    BY <2>2, CutParts DEF pair
  <2> QED
    BY <2>1, <2>3 DEF pair
<1>3. PICK more \in Seq(AnySample) : more = feeding'
  BY <1>2
<1>4. given' = given \o more /\ given \in Seq(AnySample)
  BY <1>1, <1>3 DEF SpdifInv
<1>5. PICK all \in Seq(AnySample) : all = given \o more
  BY <1>4, ConcatParts
<1>6. /\ Len(given) \in Nat /\ Len(more) \in Nat /\ Len(all) = Len(given) + Len(more)
      /\ \A i \in 1..Len(given) : all[i] = given[i]
      /\ \A i \in 1..Len(more) : all[Len(given) + i] = more[i]
  BY <1>4, <1>5, ConcatParts
<1>7. InTurn(given, sent, spdif_buf, <<>>) /\ sent \in Seq(Cell) /\ spdif_buf \in Seq(Word)
  BY <1>1 DEF SpdifInv, Moving
<1>8. Len(given) = Len(sent) + Len(spdif_buf) /\ Len(sent) \in Nat /\ Len(spdif_buf) \in Nat
  BY <1>7 DEF InTurn
<1>9. InTurn(all, sent, spdif_buf, more)
  <2>1. Len(all) = Len(sent) + Len(spdif_buf) + Len(more)
    BY <1>6, <1>8
  <2>2. \A i \in 1..Len(sent) : sent[i].data = Encode(all[i])
    BY <1>6, <1>7, <1>8 DEF InTurn
  <2>3. ASSUME NEW i \in 1..Len(spdif_buf) PROVE spdif_buf[i] = Encode(all[Len(sent) + i])
    <3>1. Len(sent) + i \in 1..Len(given)
      BY <1>8
    <3>2. all[Len(sent) + i] = given[Len(sent) + i]
      BY <1>6, <3>1
    <3> QED
      BY <1>7, <3>2 DEF InTurn
  <2>4. \A i \in 1..Len(more) : more[i] = all[Len(sent) + Len(spdif_buf) + i]
    BY <1>6, <1>8
  <2> QED
    BY <2>1, <2>2, <2>3, <2>4 DEF InTurn
<1>10. InTurn(given, sent, spdif_buf, feeding)'
  BY <1>1, <1>3, <1>4, <1>5, <1>9
<1>11. Moving(Cell)'
  BY <1>1 DEF SpdifInv, Moving, Repeated, PlayedInOrder
<1>12. Marked(sent)'
  BY <1>1 DEF SpdifInv, Marked
<1>13. given' \in Seq(AnySample)
  BY <1>4, <1>5
<1> QED
  BY <1>1, <1>2, <1>10, <1>11, <1>12, <1>13 DEF SpdifInv

(* A sample that the block still has room for.                             *)
LEMMA FillKeeps ==
  ASSUME SpdifInv, EncodeSample, Len(spdif_buf) + 1 < BlockSize
  PROVE  SpdifInv'
<1>1. /\ feeding # <<>> /\ feeding' = Tail(feeding)
      /\ given' = given /\ word' = word
  BY DEF EncodeSample
<1>2. /\ given \in Seq(AnySample) /\ feeding \in Seq(AnySample) /\ spdif_buf \in Seq(Word)
      /\ sent \in Seq(Cell) /\ InTurn(given, sent, spdif_buf, feeding)
  BY DEF SpdifInv, Moving
<1>3. PICK code \in Word : code = Encode(Head(feeding))
  <2>1. Head(feeding) \in AnySample
    BY <1>1, <1>2
  <2> QED
    BY <2>1, EncodeType
<1>4. PICK words \in Seq(Word) : words = Append(spdif_buf, code)
  <2>1. Append(spdif_buf, code) \in Seq(Word)
    BY <1>2, AppendProperties
  <2> QED
    BY <2>1
<1>5. /\ Len(words) = Len(spdif_buf) + 1 /\ Len(spdif_buf) \in Nat
      /\ \A i \in 1..Len(spdif_buf) : words[i] = spdif_buf[i]
      /\ words[Len(spdif_buf) + 1] = code
  BY <1>2, <1>4
<1>6. spdif_buf' = words /\ UNCHANGED <<ring, item, sent, played, repeats>>
  BY <1>3, <1>4, <1>5 DEF EncodeSample, i2sVars
<1>7. PICK left \in Seq(AnySample) : left = Tail(feeding)
  <2>1. Tail(feeding) \in Seq(AnySample)
    BY <1>1, <1>2, HeadTailProperties
  <2> QED
    BY <2>1
<1>8. /\ Len(feeding) \in Nat \ {0} /\ Len(left) = Len(feeding) - 1
      /\ Head(feeding) = feeding[1] /\ \A i \in 1..Len(left) : left[i] = feeding[i + 1]
  BY <1>1, <1>2, <1>7
<1>9. Len(sent) \in Nat
  BY <1>2
<1>10. InTurn(given, sent, words, left)
  <2>1. Len(given) = Len(sent) + Len(words) + Len(left)
    BY <1>2, <1>5, <1>8, <1>9 DEF InTurn
  <2>2. ASSUME NEW i \in 1..Len(words) PROVE words[i] = Encode(given[Len(sent) + i])
    <3>1. CASE i <= Len(spdif_buf)
      BY <1>2, <1>5, <3>1 DEF InTurn
    <3>2. CASE i > Len(spdif_buf)
      <4>1. i = Len(spdif_buf) + 1
        BY <1>5, <3>2
      <4>2. feeding[1] = given[Len(sent) + Len(spdif_buf) + 1]
        BY <1>2, <1>8 DEF InTurn
      <4>3. Len(sent) + Len(spdif_buf) + 1 = Len(sent) + i
        BY <1>5, <1>9, <4>1
      <4> QED
        BY <1>3, <1>5, <1>8, <4>1, <4>2, <4>3
    <3> QED
      BY <1>5, <3>1, <3>2
  <2>3. ASSUME NEW i \in 1..Len(left)
        PROVE  left[i] = given[Len(sent) + Len(words) + i]
    <3>1. i + 1 \in 1..Len(feeding) /\ left[i] = feeding[i + 1]
      BY <1>8
    <3>2. feeding[i + 1] = given[Len(sent) + Len(spdif_buf) + (i + 1)]
      BY <1>2, <3>1 DEF InTurn
    <3>3. Len(sent) + Len(spdif_buf) + (i + 1) = Len(sent) + Len(words) + i
      BY <1>5, <1>9
    <3> QED
      BY <3>1, <3>2, <3>3
  <2> QED
    BY <1>2, <2>1, <2>2, <2>3 DEF InTurn
<1>11. InTurn(given, sent, spdif_buf, feeding)'
  BY <1>1, <1>6, <1>7, <1>10
<1>12. Moving(Cell)'
  BY <1>6 DEF SpdifInv, Moving, Repeated, PlayedInOrder
<1>13. (Len(sent) % BlockSize = 0 /\ Marked(sent))'
  BY <1>6 DEF SpdifInv, Marked
<1>14. spdif_buf' \in Seq(Word) /\ Len(spdif_buf') < BlockSize
  BY <1>5, <1>6
<1>15. (word \in AnySample /\ given \in Seq(AnySample) /\ feeding \in Seq(AnySample))'
  BY <1>1, <1>7 DEF SpdifInv
<1> QED
  BY <1>11, <1>12, <1>13, <1>14, <1>15 DEF SpdifInv

(* The subframes of a block, behind the whole blocks sent before.          *)
LEMMA BlockIsMarked ==
  ASSUME NEW cells \in Seq(Cell), Len(cells) % BlockSize = 0, Marked(cells),
         NEW words \in Seq(Word), Len(words) = BlockSize
  PROVE  /\ Subframes(words) \in Seq(Cell) /\ Len(Subframes(words)) = BlockSize
         /\ \A i \in 1..BlockSize : Subframes(words)[i].data = words[i]
         /\ cells \o Subframes(words) \in Seq(Cell)
         /\ Len(cells \o Subframes(words)) = Len(cells) + BlockSize
         /\ Len(cells \o Subframes(words)) % BlockSize = 0
         /\ Marked(cells \o Subframes(words))
<1>1. ASSUME NEW i \in 1..BlockSize
      PROVE  [preamble |-> Preamble(i), data |-> words[i]] \in Cell
  <2>1. words[i] \in Word
    BY <1>1
  <2>2. Preamble(i) \in {"B", "W", "M"}
    BY DEF Preamble
  <2> QED
    BY <2>1, <2>2 DEF Cell
<1>2. PICK block \in Seq(Cell) : block = Subframes(words)
  <2>1. Subframes(words) \in [1..BlockSize -> Cell]
    BY <1>1 DEF Subframes
  <2>2. Subframes(words) \in Seq(Cell)
    BY <2>1, BlockSizes
  <2> QED
    BY <2>2
<1>3. /\ Len(block) = BlockSize
      /\ \A i \in 1..BlockSize : block[i] = [preamble |-> Preamble(i), data |-> words[i]]
  BY <1>2, BlockSizes DEF Subframes
<1>4. \A i \in 1..BlockSize : block[i].data = words[i] /\ block[i].preamble = Preamble(i)
  BY <1>3
<1>5. PICK both \in Seq(Cell) : both = cells \o block
  BY ConcatParts
<1>6. /\ Len(cells) \in Nat /\ Len(both) = Len(cells) + BlockSize
      /\ \A i \in 1..Len(cells) : both[i] = cells[i]
      /\ \A i \in 1..BlockSize : both[Len(cells) + i] = block[i]
  <2>1. /\ Len(cells) \in Nat /\ Len(both) = Len(cells) + Len(block)
        /\ \A i \in 1..Len(cells) : both[i] = cells[i]
        /\ \A i \in 1..Len(block) : both[Len(cells) + i] = block[i]
    BY <1>5, ConcatParts
  <2> QED
    BY <1>3, <2>1
<1>7. Len(both) % BlockSize = 0
  BY <1>6, BlockSizes, ModStep
<1>8. Len(cells) % 2 = 0
  <2>1. PICK m \in Nat : Len(cells) = m * BlockSize
    <3>1. Len(cells) \div BlockSize \in Nat /\ Len(cells) = (Len(cells) \div BlockSize) * BlockSize
      BY <1>6, BlockSizes, WholeQuotient
    <3> QED
      BY <3>1
  <2>2. FRAMES_PER_BLOCK \in Nat /\ m * FRAMES_PER_BLOCK \in Nat
    BY <2>1, SpdifAssumption
  <2>3. m * BlockSize = 2 * (m * FRAMES_PER_BLOCK)
    BY <2>2 DEF BlockSize
  <2> DEFINE half == m * FRAMES_PER_BLOCK
  <2>4. half \in Nat /\ Len(cells) = 2 * half
    BY <2>1, <2>2, <2>3
  <2> HIDE DEF half
  <2> QED
    BY <2>4
<1>9. ASSUME NEW i \in 1..Len(both)
      PROVE  /\ (both[i].preamble = "W") = (i % 2 = 0)
             /\ (both[i].preamble = "B") = (i % BlockSize = 1)
  <2>1. CASE i <= Len(cells)
    <3>1. i \in 1..Len(cells) /\ both[i] = cells[i]
      BY <1>6, <2>1
    <3> QED
      BY <3>1 DEF Marked
  <2>2. CASE i > Len(cells)
    <3>1. PICK k \in 1..BlockSize : i = Len(cells) + k
      <4>1. i - Len(cells) \in 1..BlockSize /\ i = Len(cells) + (i - Len(cells))
        BY <1>6, <2>2
      <4> QED
        BY <4>1
    <3>2. both[i].preamble = Preamble(k)
      BY <1>4, <1>6, <3>1
    <3>3. (i % 2 = 0) = (k % 2 = 0)
      <4>1. PICK half \in Nat : Len(cells) = 2 * half
        BY <1>6, <1>8
      <4>2. i = 2 * half + k /\ k \in Nat
        BY <3>1, <4>1, BlockSizes
      <4> QED
        BY <4>2
    <3>4. (i % BlockSize = 1) = (k = 1)
      <4>1. CASE k < BlockSize
        <5>1. (Len(cells) + k) % BlockSize = k
          BY <1>6, <4>1, BlockSizes, ModOffset
        <5> QED
          BY <3>1, <5>1
      <4>2. CASE k = BlockSize
        <5>1. (Len(cells) + BlockSize) % BlockSize = 0
          BY <1>6, BlockSizes, ModStep
        <5> QED
          BY <3>1, <4>2, <5>1, BlockSizes
      <4> QED
        BY <4>1, <4>2, BlockSizes
    <3>5. /\ (Preamble(k) = "W") = (k % 2 = 0)
          /\ (Preamble(k) = "B") = (k = 1)
      BY DEF Preamble
    <3> QED
      BY <3>2, <3>3, <3>4, <3>5
  <2> QED
    BY <1>6, <2>1, <2>2
<1>10. Marked(both)
  BY <1>9 DEF Marked
<1> QED
  BY <1>2, <1>3, <1>4, <1>5, <1>6, <1>7, <1>10

(* The sample that completes a block, for which the ring has room.         *)
LEMMA SendBlockKeeps ==
  ASSUME SpdifInv, EncodeSample, ~(Len(spdif_buf) + 1 < BlockSize)
  PROVE  SpdifInv'
<1>1. /\ feeding # <<>> /\ feeding' = Tail(feeding)
      /\ given' = given /\ word' = word
  BY DEF EncodeSample
<1>2. /\ given \in Seq(AnySample) /\ feeding \in Seq(AnySample) /\ spdif_buf \in Seq(Word)
      /\ sent \in Seq(Cell) /\ InTurn(given, sent, spdif_buf, feeding)
      /\ Len(spdif_buf) < BlockSize
  BY DEF SpdifInv, Moving
<1>3. PICK code \in Word : code = Encode(Head(feeding))
  <2>1. Head(feeding) \in AnySample
    BY <1>1, <1>2
  <2> QED
    BY <2>1, EncodeType
<1>4. PICK words \in Seq(Word) : words = Append(spdif_buf, code)
  <2>1. Append(spdif_buf, code) \in Seq(Word)
    BY <1>2, AppendProperties
  <2> QED
    BY <2>1
<1>5. /\ Len(words) = Len(spdif_buf) + 1 /\ Len(spdif_buf) \in Nat
      /\ \A i \in 1..Len(spdif_buf) : words[i] = spdif_buf[i]
      /\ words[Len(spdif_buf) + 1] = code
  BY <1>2, <1>4
<1>6. Len(words) = BlockSize
  BY <1>2, <1>5, BlockSizes
<1>7. spdif_buf' = <<>> /\ feedPCMFramesInternal(Subframes(words))
  BY <1>3, <1>4, <1>6, BlockSizes DEF EncodeSample
<1>8. PICK left \in Seq(AnySample) : left = Tail(feeding)
  <2>1. Tail(feeding) \in Seq(AnySample)
    BY <1>1, <1>2, HeadTailProperties
  <2> QED
    BY <2>1
<1>9. /\ Len(feeding) \in Nat \ {0} /\ Len(left) = Len(feeding) - 1
      /\ Head(feeding) = feeding[1] /\ \A i \in 1..Len(left) : left[i] = feeding[i + 1]
  BY <1>1, <1>2, <1>8
<1>10. Len(sent) % BlockSize = 0 /\ Marked(sent) /\ Moving(Cell)
  BY DEF SpdifInv
<1> DEFINE block == Subframes(words)
<1>11. /\ block \in Seq(Cell) /\ Len(block) = BlockSize
       /\ \A i \in 1..BlockSize : block[i].data = words[i]
       /\ sent \o block \in Seq(Cell)
       /\ Len(sent \o block) = Len(sent) + BlockSize
       /\ Len(sent \o block) % BlockSize = 0 /\ Marked(sent \o block)
  BY <1>2, <1>6, <1>10, BlockIsMarked
<1> HIDE DEF block
<1>12. Moving(Cell)'
  BY <1>7, <1>10, <1>11, SendKeeps DEF block
<1>13. sent' = sent \o block
  <2>1. ~(Len(block) > RingSize)
    BY <1>11, BlockSizes
  <2> QED
    BY <1>7, <2>1 DEF feedPCMFramesInternal, RingSend, block
<1>14. PICK cells \in Seq(Cell) : cells = sent \o block
  BY <1>11
<1>15. /\ Len(sent) \in Nat /\ Len(cells) = Len(sent) + BlockSize
       /\ \A i \in 1..Len(sent) : cells[i] = sent[i]
       /\ \A i \in 1..BlockSize : cells[Len(sent) + i] = block[i]
  <2>1. /\ Len(sent) \in Nat /\ Len(cells) = Len(sent) + Len(block)
        /\ \A i \in 1..Len(sent) : cells[i] = sent[i]
        /\ \A i \in 1..Len(block) : cells[Len(sent) + i] = block[i]
    BY <1>2, <1>11, <1>14, ConcatParts
  <2> QED
    BY <1>11, <2>1
<1>16. InTurn(given, cells, <<>>, left)
  <2> DEFINE none == <<>>
  <2>4. Len(none) = 0
    OBVIOUS
  <2>6. /\ Len(sent) \in Nat /\ Len(spdif_buf) \in Nat
        /\ Len(cells) = Len(sent) + Len(spdif_buf) + 1
    <3>1. BlockSize = Len(spdif_buf) + 1 /\ Len(spdif_buf) \in Nat
      BY <1>5, <1>6
    <3>2. Len(sent) \in Nat /\ Len(cells) = Len(sent) + BlockSize
      BY <1>15
    <3> QED
      BY <3>1, <3>2
  <2> HIDE DEF none
  <2>1. Len(given) = Len(cells) + Len(none) + Len(left)
    <3>1. Len(given) = Len(sent) + Len(spdif_buf) + Len(feeding)
      BY <1>2 DEF InTurn
    <3> QED
      BY <1>9, <2>4, <2>6, <3>1
  <2>2. ASSUME NEW i \in 1..Len(cells) PROVE cells[i].data = Encode(given[i])
    <3>1. CASE i <= Len(sent)
      <4>1. i \in 1..Len(sent) /\ cells[i] = sent[i]
        BY <1>15, <3>1
      <4>2. sent[i].data = Encode(given[i])
        BY <1>2, <4>1 DEF InTurn
      <4> QED
        BY <4>1, <4>2
    <3>2. CASE i > Len(sent)
      <4>1. PICK k \in 1..BlockSize : i = Len(sent) + k
        <5>1. i - Len(sent) \in 1..BlockSize /\ i = Len(sent) + (i - Len(sent))
          BY <1>15, <3>2, BlockSizes
        <5> QED
          BY <5>1
      <4>2. cells[i].data = words[k]
        BY <1>11, <1>15, <4>1
      <4>3. CASE k <= Len(spdif_buf)
        <5>1. words[k] = Encode(given[Len(sent) + k])
          BY <1>2, <1>5, <4>1, <4>3 DEF InTurn
        <5> QED
          BY <4>1, <4>2, <5>1
      <4>4. CASE k > Len(spdif_buf)
        <5>1. k = Len(spdif_buf) + 1
          BY <1>5, <1>6, <4>1, <4>4, BlockSizes
        <5>2. feeding[1] = given[Len(sent) + Len(spdif_buf) + 1]
          BY <1>2, <1>9 DEF InTurn
        <5>3. Len(sent) + Len(spdif_buf) + 1 = i
          BY <1>5, <1>15, <4>1, <5>1
        <5> QED
          BY <1>3, <1>5, <1>9, <4>2, <5>1, <5>2, <5>3
      <4> QED
        BY <1>5, <4>1, <4>3, <4>4, BlockSizes
    <3> QED
      BY <1>15, <3>1, <3>2, BlockSizes
  <2>3. ASSUME NEW i \in 1..Len(left)
        PROVE  left[i] = given[Len(cells) + Len(none) + i]
    <3>1. i + 1 \in 1..Len(feeding) /\ left[i] = feeding[i + 1]
      BY <1>9
    <3>2. feeding[i + 1] = given[Len(sent) + Len(spdif_buf) + (i + 1)]
      BY <1>2, <3>1 DEF InTurn
    <3>3. Len(sent) + Len(spdif_buf) + (i + 1) = Len(cells) + Len(none) + i
      <4>1. i \in Nat
        OBVIOUS
      <4> QED
        BY <2>4, <2>6, <4>1
    <3> QED
      BY <3>1, <3>2, <3>3
  <2>5. \A i \in 1..Len(none) : none[i] = Encode(given[Len(cells) + i])
    BY <2>4
  <2> QED
    BY <2>1, <2>2, <2>3, <2>5 DEF InTurn, none
<1>17. InTurn(given, sent, spdif_buf, feeding)'
  BY <1>1, <1>7, <1>8, <1>13, <1>14, <1>16
<1>18. (Len(sent) % BlockSize = 0 /\ Marked(sent))'
  BY <1>11, <1>13 DEF Marked
<1>19. spdif_buf' \in Seq(Word) /\ Len(spdif_buf') < BlockSize
  BY <1>7, BlockSizes
<1>20. (word \in AnySample /\ given \in Seq(AnySample) /\ feeding \in Seq(AnySample))'
  BY <1>1, <1>8 DEF SpdifInv
<1> QED
  BY <1>12, <1>17, <1>18, <1>19, <1>20 DEF SpdifInv

LEMMA SpdifInvStep ==
  ASSUME Samples \subseteq AnySample
  PROVE  SpdifInv /\ [SpdifNext]_spdifVars => SpdifInv'
<1> SUFFICES ASSUME SpdifInv, [SpdifNext]_spdifVars PROVE SpdifInv'
  OBVIOUS
<1>1. CASE SpdifFeed
  BY <1>1, SpdifFeedKeeps
<1>2. CASE EncodeSample
  BY <1>2, FillKeeps, SendBlockKeeps
<1>3. CASE I2sNext /\ UNCHANGED <<spdif_buf, feeding, given, word>>
  <2>1. Moving(Cell)' /\ sent' = sent
    BY <1>3, TaskKeeps DEF SpdifInv
  <2>2. UNCHANGED <<spdif_buf, feeding, given, word>>
    BY <1>3
  <2>3. (InTurn(given, sent, spdif_buf, feeding) /\ Marked(sent))'
    BY <2>1, <2>2 DEF SpdifInv, InTurn, Marked
  <2> QED
    BY <2>1, <2>2, <2>3 DEF SpdifInv
<1>4. CASE UNCHANGED spdifVars
  BY <1>4 DEF spdifVars, i2sVars, SpdifInv, InTurn, Marked, Moving, Repeated, PlayedInOrder
<1> QED
  BY <1>1, <1>2, <1>3, <1>4 DEF SpdifNext

LEMMA BlocksInOrder ==
  ASSUME SpdifInv, \A sample \in AnySample : Encodes(sample)
  PROVE  BlocksAreTheSamples
<1>1. /\ given \in Seq(AnySample) /\ feeding \in Seq(AnySample) /\ spdif_buf \in Seq(Word)
      /\ sent \in Seq(Cell) /\ InTurn(given, sent, spdif_buf, feeding) /\ Marked(sent)
  BY DEF SpdifInv, Moving
<1> DEFINE first == [i \in DOMAIN sent |-> sent[i].data]
           frames == Len(given) - Len(feeding)
<1>2. first \in Seq(Word) /\ Len(first) = Len(sent) /\ Len(sent) \in Nat
      /\ \A i \in 1..Len(sent) : first[i] = sent[i].data
  <2>1. ASSUME NEW i \in 1..Len(sent) PROVE sent[i].data \in Word
    <3>1. sent[i] \in Cell
      BY <1>1
    <3> QED
      BY <3>1 DEF Cell
  <2>2. DOMAIN sent = 1..Len(sent) /\ Len(sent) \in Nat
    BY <1>1
  <2>3. first \in [1..Len(sent) -> Word]
    BY <2>1, <2>2
  <2> QED
    BY <2>2, <2>3
<1> HIDE DEF first
<1>3. PICK words \in Seq(Word) : words = first \o spdif_buf
  <2>1. first \o spdif_buf \in Seq(Word)
    BY <1>1, <1>2, ConcatParts
  <2> QED
    BY <2>1
<1>4. /\ Len(spdif_buf) \in Nat /\ Len(words) = Len(sent) + Len(spdif_buf)
      /\ \A i \in 1..Len(sent) : words[i] = sent[i].data
      /\ \A i \in 1..Len(spdif_buf) : words[Len(sent) + i] = spdif_buf[i]
  <2>1. /\ Len(spdif_buf) \in Nat /\ Len(words) = Len(first) + Len(spdif_buf)
        /\ \A i \in 1..Len(first) : words[i] = first[i]
        /\ \A i \in 1..Len(spdif_buf) : words[Len(first) + i] = spdif_buf[i]
    <3>1. first \in Seq(Word) /\ spdif_buf \in Seq(Word)
      BY <1>1, <1>2
    <3>2. /\ Len(spdif_buf) \in Nat /\ Len(first \o spdif_buf) = Len(first) + Len(spdif_buf)
          /\ \A i \in 1..Len(first) : (first \o spdif_buf)[i] = first[i]
          /\ \A i \in 1..Len(spdif_buf) : (first \o spdif_buf)[Len(first) + i] = spdif_buf[i]
      BY <3>1, ConcatParts
    <3> QED
      BY <1>3, <3>2
  <2> QED
    BY <1>2, <2>1
<1>5. Len(given) \in Nat /\ Len(feeding) \in Nat /\ Len(words) = frames
  BY <1>1, <1>2, <1>4 DEF InTurn
<1>6. ASSUME NEW i \in 1..frames PROVE Carries(words[i], given[i])
  <2>1. words[i] = Encode(given[i])
    <3>1. CASE i <= Len(sent)
      BY <1>1, <1>2, <1>4, <3>1 DEF InTurn
    <3>2. CASE i > Len(sent)
      <4>1. PICK k \in 1..Len(spdif_buf) : i = Len(sent) + k
        <5>1. i - Len(sent) \in 1..Len(spdif_buf) /\ i = Len(sent) + (i - Len(sent))
          BY <1>2, <1>4, <1>5, <3>2
        <5> QED
          BY <5>1
      <4> QED
        BY <1>1, <1>4, <4>1 DEF InTurn
    <3> QED
      BY <1>2, <1>5, <3>1, <3>2
  <2>2. given[i] \in AnySample
    BY <1>1, <1>5
  <2> QED
    BY <2>1, <2>2 DEF Encodes
<1>7. DOMAIN sent = 1..Len(sent)
  BY <1>1
<1>8. /\ \A i \in DOMAIN sent : (sent[i].preamble = "W") = (i % 2 = 0)
      /\ \A i \in DOMAIN sent : (sent[i].preamble = "B") = (i % BlockSize = 1)
  BY <1>1, <1>7 DEF Marked
<1> QED
  BY <1>3, <1>5, <1>6, <1>8 DEF BlocksAreTheSamples, first

(* For any short writes of the driver: the items it took, the one the task *)
(* holds and the ring are together what was sent, and what it took besides *)
(* was the beginning of what came next.  And what was sent, with the block *)
(* being filled, decodes to the samples feedPCMFrames was given, under     *)
(* preambles that tell the left ones from the right ones and a block's     *)
(* first one.  It rests on the encoding of one sample, of which there are  *)
(* 65536: TLC looks at every one.                                          *)
THEOREM SpdifPlaysTheSamples ==
  ASSUME Samples \subseteq AnySample, \A sample \in AnySample : Encodes(sample)
  PROVE  SpdifSpec => []SamplesOnTheWire
<1>1. SpdifInv => SamplesOnTheWire
  <2> SUFFICES ASSUME SpdifInv PROVE SamplesOnTheWire
    OBVIOUS
  <2>1. PlayedInOrder /\ word \in AnySample
    BY DEF SpdifInv, Moving
  <2> QED
    BY <2>1, BlocksInOrder DEF SamplesOnTheWire, EncodesTheSample
<1>2. SpdifInit => SpdifInv
  BY SpdifInvInit
<1>3. SpdifInv /\ [SpdifNext]_spdifVars => SpdifInv'
  BY SpdifInvStep
<1> QED
  BY <1>1, <1>2, <1>3, PTL DEF SpdifSpec

------------------------------------------------------------------------------
(***************************************************************************)
(* The codecs' registers, for any calls and any failures of the bus.  An   *)
(* access leaves a field of a register alone, or makes it what a client    *)
(* has set it to; a call makes the fields it is to set, and keeps the      *)
(* others clients have set.                                                *)
(***************************************************************************)
(* The registers the drivers access.                                       *)
Es8311Regs ==
  {"REG00", "REG01", "REG02", "REG03", "REG04", "REG05", "REG06", "REG07",
   "REG08", "REG09", "REG0A", "REG0B", "REG0C", "REG0D", "REG0E", "REG10",
   "REG11", "REG12", "REG13", "REG14", "REG15", "REG16", "REG17", "REG1B",
   "REG1C", "REG31", "REG32", "REG37", "REG44", "REG45"}
Ac101Regs ==
  {"ADC_ANA_CTRL", "ADC_DIG_CTRL", "ADC_SRC", "ADC_SRCBST_CTRL", "CHIP_AUDIO_RS",
   "DAC_DIG_CTRL", "DAC_MXR_SRC", "HPOUT_CTRL", "I2S1LCK_CTRL", "I2S1_MXR_SRC",
   "I2S1_SDIN_CTRL", "I2S1_SDOUT_CTRL", "I2S_SR_CTRL", "MOD_CLK_ENA",
   "MOD_RST_CTRL", "OMIXER_BST1_CTRL", "OMIXER_DACA_CTRL", "OMIXER_SR",
   "PLL_CTRL1", "PLL_CTRL2", "SPKOUT_CTRL", "SYSCLK_CTRL"}
Es8388Regs ==
  {"ADCCONTROL1", "ADCCONTROL2", "ADCCONTROL3", "ADCCONTROL4", "ADCCONTROL5",
   "ADCCONTROL8", "ADCCONTROL9", "ADCPOWER", "CHIPPOWER", "CONTROL1", "CONTROL2",
   "DACCONTROL1", "DACCONTROL16", "DACCONTROL17", "DACCONTROL2", "DACCONTROL20",
   "DACCONTROL21", "DACCONTROL23", "DACCONTROL24", "DACCONTROL25", "DACCONTROL26",
   "DACCONTROL27", "DACCONTROL3", "DACCONTROL4", "DACCONTROL5", "DACPOWER",
   "MASTERMODE"}
Tas5711Regs ==
  {"R00", "R04", "R05", "R06", "R07", "R1B"}
Registers == Es8311Regs \union Ac101Regs \union Es8388Regs \union Tas5711Regs

Accesses == [reg : Registers, reads : BOOLEAN, keep : SUBSET (0..15), set : SUBSET (0..15)]

Leaves(a, f) ==
  a.reg # f[1] \/ (Bits(f[2]) \subseteq a.keep /\ a.set \cap Bits(f[2]) = {})
Makes(a, f, v) ==
  a.reg = f[1] /\ a.set \cap Bits(f[2]) = v /\ a.keep \cap Bits(f[2]) \subseteq v

Keeps(p, f, v) == \A i \in DOMAIN p : Leaves(p[i], f) \/ Makes(p[i], f, v)

Settles(p, f, v) ==
  \E k \in DOMAIN p :
    /\ Makes(p[k], f, v)
    /\ \A i \in DOMAIN p : i > k => Leaves(p[i], f) \/ Makes(p[i], f, v)

InReg(r, reg) == IF reg \in DOMAIN r THEN r[reg] ELSE {}
Has(r, f, v) == InReg(r, f[1]) \cap Bits(f[2]) = v
Held(r, p, f, v) == Has(r, f, v) /\ Keeps(p, f, v)

(* The fields clients set, and the values the clock's are set to.          *)
Clocked(f, v) ==
  \/ f = <<"REG02", \hF8>> /\ v = Bits(0)
  \/ f = <<"REG05", \hFF>> /\ v = Bits(0)
  \/ f = <<"REG03", \h7F>> /\ v = Bits(16)
  \/ f = <<"REG04", \h7F>> /\ v = Bits(16)
  \/ f = <<"REG07", \h3F>> /\ v = Bits(0)
  \/ f = <<"REG08", \hFF>> /\ v = Bits(255)
  \/ f = <<"REG06", \h1F>> /\ v = Bits(3)

Es8311Fields ==
  {<<"REG09", 3>>, <<"REG0A", 3>>, <<"REG09", \h1C>>, <<"REG0A", \h1C>>, <<"REG31", \h60>>}
Ac101Fields ==
  {<<"SPKOUT_CTRL", SPKOUT_EN>>, <<"PLL_CTRL2", \h8000>>, <<"HPOUT_CTRL", \h3F0>>,
   <<"HPOUT_CTRL", EAROUT_EN>>, <<"I2S_SR_CTRL", \hFFFF>>, <<"I2S1LCK_CTRL", \h1FC0>>,
   <<"OMIXER_BST1_CTRL", \h1C0>>, <<"OMIXER_BST1_CTRL", \h38>>, <<"OMIXER_BST1_CTRL", 7>>}

Watched(c, f, v) ==
  \/ c = "es8311" /\ (f \in Es8311Fields \/ Clocked(f, v))
  \/ c = "ac101" /\ f \in Ac101Fields

(* While a call runs, what it is to set (f) is set or will be, unless an   *)
(* access has failed; what else was set (g) is held, but for what such a   *)
(* call has touched.                                                       *)
BusIs(c, r, p, f, t, b, g) ==
  /\ p \in Seq(Accesses)
  /\ \A i \in DOMAIN p : p[i].reg \in t
  /\ \A x \in DOMAIN f :
       /\ x[1] \in t /\ Watched(c, x, f[x])
       /\ b \/ Held(r, p, x, f[x]) \/ Settles(p, x, f[x])
  /\ \A x \in DOMAIN g :
       /\ Watched(c, x, g[x])
       /\ x \in DOMAIN f \/ (b /\ x[1] \in t) \/ Held(r, p, x, g[x])

BusInv == BusIs(codec, regs, program, asks, touched, broken, asked)

GoodCall(accesses, fields, setup) ==
  /\ accesses \in Seq(Accesses)
  /\ \A x \in DOMAIN fields : Watched(codec, x, fields[x]) /\ Settles(accesses, x, fields[x])
  /\ setup \/ \A x, v : Watched(codec, x, v) /\ x \notin DOMAIN fields => Keeps(accesses, x, v)

LEMMA OverIs ==
  ASSUME NEW f, NEW g
  PROVE  /\ DOMAIN Over(f, g) = DOMAIN f \union DOMAIN g
         /\ \A x \in DOMAIN f : Over(f, g)[x] = f[x]
         /\ \A x \in DOMAIN g : x \notin DOMAIN f => Over(f, g)[x] = g[x]
BY DEF Over

(* q is r with bits in reg.                                                *)
Put(q, r, reg, bits) == \A x : InReg(q, x) = IF x = reg THEN bits ELSE InReg(r, x)

LEMMA StoredIs ==
  ASSUME NEW r, NEW reg, NEW bits, NEW one, DOMAIN one = {reg}, one[reg] = bits
  PROVE  Put(Over(one, r), r, reg, bits)
<1>1. PICK q : q = Over(one, r)
  OBVIOUS
<1>2. /\ DOMAIN Over(one, r) = DOMAIN one \union DOMAIN r
      /\ \A x \in DOMAIN one : Over(one, r)[x] = one[x]
      /\ \A x \in DOMAIN r : x \notin DOMAIN one => Over(one, r)[x] = r[x]
  BY OverIs
<1>3. /\ DOMAIN q = {reg} \union DOMAIN r /\ q[reg] = bits
      /\ \A x \in DOMAIN r : x # reg => q[x] = r[x]
  BY <1>1, <1>2
<1>4. Put(q, r, reg, bits)
  BY <1>3 DEF InReg, Put
<1> QED
  BY <1>1, <1>4

(* q is r after the access a.                                              *)
After(a, r, q) == Put(q, r, a.reg, (InReg(r, a.reg) \cap a.keep) \union a.set)

(* A program goes on with its tail.                                        *)
LEMMA TailIs ==
  ASSUME NEW p \in Seq(Accesses), p # <<>>
  PROVE  /\ Head(p) = p[1] /\ 1 \in DOMAIN p /\ Head(p) \in Accesses
         /\ Tail(p) \in Seq(Accesses)
         /\ \A i \in DOMAIN Tail(p) : i + 1 \in DOMAIN p /\ Tail(p)[i] = p[i + 1]
         /\ \A i \in DOMAIN p : i # 1 => i - 1 \in DOMAIN Tail(p) /\ Tail(p)[i - 1] = p[i]
<1>1. /\ Len(p) \in Nat /\ Len(p) > 0 /\ DOMAIN p = 1..Len(p) /\ Tail(p) \in Seq(Accesses)
      /\ DOMAIN Tail(p) = 1..(Len(p) - 1) /\ Head(p) = p[1]
      /\ \A i \in 1..(Len(p) - 1) : Tail(p)[i] = p[i + 1]
  OBVIOUS
<1>2. \A i \in DOMAIN p : i # 1 => i - 1 \in DOMAIN Tail(p) /\ Tail(p)[i - 1] = p[i]
  <2> SUFFICES ASSUME NEW i \in DOMAIN p, i # 1
               PROVE  i - 1 \in DOMAIN Tail(p) /\ Tail(p)[i - 1] = p[i]
    OBVIOUS
  <2>1. i - 1 \in 1..(Len(p) - 1) /\ (i - 1) + 1 = i
    BY <1>1
  <2> QED
    BY <1>1, <2>1
<1>3. 1 \in DOMAIN p /\ p[1] \in Accesses
  BY <1>1
<1>4. \A i \in DOMAIN Tail(p) : i + 1 \in DOMAIN p /\ Tail(p)[i] = p[i + 1]
  BY <1>1
<1> QED
  BY <1>1, <1>2, <1>3, <1>4

LEMMA TailKeeps ==
  ASSUME NEW p \in Seq(Accesses), p # <<>>, NEW f, NEW v
  PROVE  /\ Keeps(p, f, v) => Keeps(Tail(p), f, v) /\ (Leaves(p[1], f) \/ Makes(p[1], f, v))
         /\ Settles(p, f, v) =>
              Settles(Tail(p), f, v) \/ (Makes(p[1], f, v) /\ Keeps(Tail(p), f, v))
<1>1. /\ 1 \in DOMAIN p
      /\ \A i \in DOMAIN Tail(p) : i + 1 \in DOMAIN p /\ Tail(p)[i] = p[i + 1]
      /\ \A i \in DOMAIN p : i # 1 => i - 1 \in DOMAIN Tail(p) /\ Tail(p)[i - 1] = p[i]
      /\ DOMAIN p \subseteq Nat /\ DOMAIN Tail(p) \subseteq Nat \ {0}
  <2>1. Tail(p) \in Seq(Accesses)
    BY TailIs
  <2> QED
    BY <2>1, TailIs
<1>2. Keeps(p, f, v) => Keeps(Tail(p), f, v) /\ (Leaves(p[1], f) \/ Makes(p[1], f, v))
  BY <1>1 DEF Keeps
<1>3. ASSUME Settles(p, f, v)
      PROVE  Settles(Tail(p), f, v) \/ (Makes(p[1], f, v) /\ Keeps(Tail(p), f, v))
  <2>1. PICK k \in DOMAIN p :
          /\ Makes(p[k], f, v)
          /\ \A i \in DOMAIN p : i > k => Leaves(p[i], f) \/ Makes(p[i], f, v)
    BY <1>3, Zenon DEF Settles
  <2>2. CASE k = 1
    <3>1. \A i \in DOMAIN Tail(p) : i + 1 > 1
      BY <1>1
    <3> QED
      BY <1>1, <2>1, <2>2, <3>1 DEF Keeps
  <2>3. CASE k # 1
    <3>1. k - 1 \in DOMAIN Tail(p) /\ Makes(Tail(p)[k - 1], f, v)
      BY <1>1, <2>1, <2>3
    <3>2. ASSUME NEW i \in DOMAIN Tail(p), i > k - 1
          PROVE  Leaves(Tail(p)[i], f) \/ Makes(Tail(p)[i], f, v)
      <4>1. i + 1 \in DOMAIN p /\ i + 1 > k /\ Tail(p)[i] = p[i + 1]
        BY <1>1, <3>2
      <4> QED
        BY <2>1, <4>1
    <3>3. Settles(Tail(p), f, v)
      BY <3>1, <3>2, Zenon DEF Settles
    <3> QED
      BY <3>3
  <2> QED
    BY <2>2, <2>3
<1> QED
  BY <1>2, <1>3

LEMMA CallBegins ==
  ASSUME BusInv, NEW accesses, NEW fields, NEW setup \in BOOLEAN,
         GoodCall(accesses, fields, setup), Invoke(accesses, fields, setup)
  PROVE  BusInv'
<1>1. PICK c, r, f, b, g, t, h :
        /\ c = codec /\ r = regs /\ f = asks /\ b = broken /\ g = asked
        /\ t = {accesses[i].reg : i \in DOMAIN accesses}
        /\ h = (IF setup THEN <<>> ELSE g)
  OBVIOUS
<1>2. /\ touched = {} /\ program' = accesses /\ asks' = fields /\ broken' = FALSE
      /\ touched' = t /\ asked' = h /\ codec' = c /\ regs' = r
  BY <1>1 DEF Invoke
<1>3. /\ accesses \in Seq(Accesses)
      /\ \A x \in DOMAIN fields : Watched(c, x, fields[x]) /\ Settles(accesses, x, fields[x])
      /\ setup \/ \A x, v : Watched(c, x, v) /\ x \notin DOMAIN fields => Keeps(accesses, x, v)
  BY <1>1 DEF GoodCall
<1>4. /\ \A x \in DOMAIN f : x[1] \in {}
      /\ \A x \in DOMAIN g :
           /\ Watched(c, x, g[x])
           /\ x \in DOMAIN f \/ (b /\ x[1] \in {}) \/ Held(r, program, x, g[x])
  BY <1>1, <1>2, Zenon DEF BusInv, BusIs
<1>5. ASSUME NEW x \in DOMAIN fields
      PROVE  x[1] \in t /\ Watched(c, x, fields[x]) /\ Settles(accesses, x, fields[x])
  <2>1. Watched(c, x, fields[x]) /\ Settles(accesses, x, fields[x])
    BY <1>3
  <2>2. PICK k \in DOMAIN accesses : Makes(accesses[k], x, fields[x])
    BY <2>1 DEF Settles
  <2>3. x[1] \in t
    BY <1>1, <2>2 DEF Makes
  <2> QED
    BY <2>1, <2>3
<1>6. ASSUME NEW x \in DOMAIN h
      PROVE  Watched(c, x, h[x]) /\ (x \in DOMAIN fields \/ Held(r, accesses, x, h[x]))
  <2>1. ~setup /\ h = g /\ x \in DOMAIN g
    BY <1>1, <1>6
  <2>2. Watched(c, x, g[x]) /\ Held(r, program, x, g[x])
    BY <1>4, <2>1
  <2>3. x \notin DOMAIN fields => Keeps(accesses, x, g[x])
    BY <1>3, <2>1, <2>2
  <2> QED
    BY <2>1, <2>2, <2>3 DEF Held
<1>7. \A i \in DOMAIN accesses : accesses[i].reg \in t
  BY <1>1
<1>8. BusIs(c, r, accesses, fields, t, FALSE, h)
  BY <1>3, <1>5, <1>6, <1>7, Zenon DEF BusIs
<1> QED
  BY <1>2, <1>8 DEF BusInv


(* An access leaves or makes a field, and what is held stays so.           *)
LEMMA AccessHolds ==
  ASSUME NEW r, NEW a, NEW q, After(a, r, q), NEW f, NEW v
  PROVE  /\ Makes(a, f, v) => Has(q, f, v)
         /\ Leaves(a, f) /\ Has(r, f, v) => Has(q, f, v)
<1>1. \A x : InReg(q, x) = IF x = a.reg THEN (InReg(r, a.reg) \cap a.keep) \union a.set
                           ELSE InReg(r, x)
  BY Zenon DEF After, Put
<1>2. ASSUME Makes(a, f, v) PROVE Has(q, f, v)
  <2>1. InReg(q, f[1]) = (InReg(r, a.reg) \cap a.keep) \union a.set
    BY <1>1, <1>2 DEF Makes
  <2>2. a.set \cap Bits(f[2]) = v /\ a.keep \cap Bits(f[2]) \subseteq v
    BY <1>2 DEF Makes
  <2> QED
    BY <2>1, <2>2 DEF Has
<1>3. ASSUME Leaves(a, f), Has(r, f, v) PROVE Has(q, f, v)
  <2>1. CASE a.reg # f[1]
    BY <1>1, <1>3, <2>1 DEF Has
  <2>2. CASE a.reg = f[1]
    <3>1. InReg(q, f[1]) = (InReg(r, f[1]) \cap a.keep) \union a.set
      BY <1>1, <2>2
    <3>2. Bits(f[2]) \subseteq a.keep /\ a.set \cap Bits(f[2]) = {}
      BY <1>3, <2>2 DEF Leaves
    <3> QED
      BY <1>3, <3>1, <3>2 DEF Has
  <2> QED
    BY <2>1, <2>2
<1> QED
  BY <1>2, <1>3

LEMMA AccessIs ==
  ASSUME NEW c, NEW r, NEW p, NEW f, NEW t, NEW b, NEW g, BusIs(c, r, p, f, t, b, g),
         p # <<>>, NEW a, a = Head(p), NEW q, After(a, r, q)
  PROVE  BusIs(c, q, Tail(p), f, t, b, g)
<1>1. /\ p \in Seq(Accesses)
      /\ \A i \in DOMAIN p : p[i].reg \in t
      /\ \A x \in DOMAIN f :
           /\ x[1] \in t /\ Watched(c, x, f[x])
           /\ b \/ Held(r, p, x, f[x]) \/ Settles(p, x, f[x])
      /\ \A x \in DOMAIN g :
           /\ Watched(c, x, g[x])
           /\ x \in DOMAIN f \/ (b /\ x[1] \in t) \/ Held(r, p, x, g[x])
  BY Zenon DEF BusIs
<1>2. a = p[1] /\ Tail(p) \in Seq(Accesses) /\ \A i \in DOMAIN Tail(p) : Tail(p)[i].reg \in t
  BY <1>1, TailIs
<1>3. ASSUME NEW x, NEW v, Held(r, p, x, v) PROVE Held(q, Tail(p), x, v)
  <2>1. Has(r, x, v) /\ Keeps(p, x, v)
    BY <1>3 DEF Held
  <2>2. Keeps(Tail(p), x, v) /\ (Leaves(a, x) \/ Makes(a, x, v))
    BY <1>1, <1>2, <2>1, TailKeeps
  <2>3. Has(q, x, v)
    BY <2>1, <2>2, AccessHolds, Zenon
  <2> QED
    BY <2>2, <2>3 DEF Held
<1>4. ASSUME NEW x, NEW v, Settles(p, x, v)
      PROVE  Held(q, Tail(p), x, v) \/ Settles(Tail(p), x, v)
  <2>1. Settles(Tail(p), x, v) \/ (Makes(a, x, v) /\ Keeps(Tail(p), x, v))
    BY <1>1, <1>2, <1>4, TailKeeps
  <2>2. Makes(a, x, v) => Has(q, x, v)
    BY AccessHolds, Zenon
  <2> QED
    BY <2>1, <2>2 DEF Held
<1> QED
  BY <1>1, <1>2, <1>3, <1>4, Zenon DEF BusIs

(* A failed access leaves a register that is touched, or spoils it.        *)
LEMMA FailureIs ==
  ASSUME NEW c, NEW r, NEW p, NEW f, NEW t, NEW b, NEW g, BusIs(c, r, p, f, t, b, g),
         p # <<>>, NEW q, \A x : x # Head(p).reg => InReg(q, x) = InReg(r, x)
  PROVE  BusIs(c, q, Tail(p), f, t, TRUE, g)
<1>1. /\ p \in Seq(Accesses)
      /\ \A i \in DOMAIN p : p[i].reg \in t
      /\ \A x \in DOMAIN f : x[1] \in t /\ Watched(c, x, f[x])
      /\ \A x \in DOMAIN g :
           /\ Watched(c, x, g[x])
           /\ x \in DOMAIN f \/ (b /\ x[1] \in t) \/ Held(r, p, x, g[x])
  BY Zenon DEF BusIs
<1>2. /\ Head(p).reg \in t /\ Tail(p) \in Seq(Accesses)
      /\ \A i \in DOMAIN Tail(p) : Tail(p)[i].reg \in t
  BY <1>1, TailIs
<1>3. ASSUME NEW x, NEW v, x[1] \notin t, Held(r, p, x, v) PROVE Held(q, Tail(p), x, v)
  <2>1. Has(q, x, v)
    BY <1>2, <1>3 DEF Held, Has
  <2> QED
    BY <1>1, <1>3, <2>1, TailKeeps DEF Held
<1> QED
  BY <1>1, <1>2, <1>3, Zenon DEF BusIs

LEMMA FinishIs ==
  ASSUME NEW c, NEW r, NEW f, NEW t, NEW b, NEW g, BusIs(c, r, <<>>, f, t, b, g),
         NEW h, ~b => h = Over(f, g),
         b => \A x \in DOMAIN h : x \in DOMAIN g /\ x[1] \notin t /\ h[x] = g[x]
  PROVE  BusIs(c, r, <<>>, AskNothing, {}, FALSE, h)
<1>1. /\ \A x \in DOMAIN f :
           /\ x[1] \in t /\ Watched(c, x, f[x])
           /\ b \/ Held(r, <<>>, x, f[x]) \/ Settles(<<>>, x, f[x])
      /\ \A x \in DOMAIN g :
           /\ Watched(c, x, g[x])
           /\ x \in DOMAIN f \/ (b /\ x[1] \in t) \/ Held(r, <<>>, x, g[x])
  BY Zenon DEF BusIs
<1> DEFINE o == Over(f, g)
<1>o. /\ DOMAIN o = DOMAIN f \union DOMAIN g
      /\ \A x \in DOMAIN f : o[x] = f[x]
      /\ \A x \in DOMAIN g : x \notin DOMAIN f => o[x] = g[x]
  BY OverIs
<1>h. ~b => h = o
  OBVIOUS
<1> HIDE DEF o
<1>2. /\ <<>> \in Seq(Accesses) /\ DOMAIN AskNothing = {}
      /\ DOMAIN <<>> = {}
  BY DEF AskNothing
<1>3. ASSUME NEW x \in DOMAIN h PROVE Watched(c, x, h[x]) /\ Held(r, <<>>, x, h[x])
  <2>1. CASE b
    <3>1. x \in DOMAIN g /\ x[1] \notin t /\ h[x] = g[x]
      BY <1>3, <2>1
    <3> QED
      BY <1>1, <3>1
  <2>2. CASE ~b
    <3>1. h = o
      BY <1>h, <2>2
    <3>2. CASE x \in DOMAIN f
      <4>1. h[x] = f[x]
        BY <1>o, <3>1, <3>2
      <4>2. ~Settles(<<>>, x, f[x])
        BY <1>2 DEF Settles
      <4> QED
        BY <1>1, <2>2, <3>2, <4>1, <4>2
    <3>3. CASE x \notin DOMAIN f
      <4>1. x \in DOMAIN g /\ h[x] = g[x]
        BY <1>3, <1>o, <3>1, <3>3
      <4> QED
        BY <1>1, <2>2, <3>3, <4>1
    <3> QED
      BY <3>2, <3>3
  <2> QED
    BY <2>1, <2>2
<1> QED
  BY <1>2, <1>3 DEF BusIs

LEMMA BusKeeps ==
  ASSUME BusInv, BusNext
  PROVE  BusInv'
<1>1. PICK c, r, p, f, t, b, g :
        /\ c = codec /\ r = regs /\ p = program /\ f = asks /\ t = touched /\ b = broken
        /\ g = asked
  OBVIOUS
<1>2. BusIs(c, r, p, f, t, b, g)
  BY <1>1 DEF BusInv
<1>3. \A x : Old(x) = InReg(r, x)
  BY <1>1 DEF Old, InReg
<1>4. CASE Access
  <2>1. PICK a : a = Head(p)
    OBVIOUS
  <2>2. PICK q, reg, bits, one :
          /\ q = Over(one, r) /\ reg = a.reg /\ one = [x \in {reg} |-> bits]
          /\ bits = (InReg(r, a.reg) \cap a.keep) \union a.set
    OBVIOUS
  <2>5. After(a, r, q)
    <3>2. DOMAIN one = {reg} /\ one[reg] = bits
      BY <2>2
    <3>1. Put(q, r, reg, bits)
      <4>1. Put(Over(one, r), r, reg, bits)
        BY <3>2, StoredIs
      <4>2. q = Over(one, r)
        BY <2>2
      <4> QED
        BY ONLY <4>1, <4>2
    <3> QED
      BY <2>2, <3>1 DEF After
  <2>3. /\ p # <<>> /\ program' = Tail(p) /\ regs' = q
        /\ codec' = c /\ asks' = f /\ touched' = t /\ broken' = b /\ asked' = g
    BY <1>1, <1>3, <1>4, <2>1, <2>2 DEF Access, Stored, UNCHANGED_Call
  <2>4. BusIs(c, q, Tail(p), f, t, b, g)
    BY <1>2, <2>1, <2>3, <2>5, AccessIs, Zenon
  <2> QED
    BY <2>3, <2>4 DEF BusInv
<1>5. CASE WriteFails \/ ReadFails
  <2>1. /\ p # <<>> /\ program' = Tail(p) /\ broken' = TRUE
        /\ codec' = c /\ asks' = f /\ touched' = t /\ asked' = g
    BY <1>1, <1>5 DEF WriteFails, ReadFails, UNCHANGED_Call
  <2>2. \A x : x # Head(p).reg => InReg(regs', x) = InReg(r, x)
    <3>1. CASE WriteFails
      BY <1>1, <3>1 DEF WriteFails
    <3>2. CASE ReadFails
      <4>1. PICK bits, reg, one, q :
              /\ Stored(Head(p).reg, bits) /\ reg = Head(p).reg
              /\ one = [x \in {reg} |-> bits] /\ q = Over(one, r)
        BY <1>1, <3>2, Zenon DEF ReadFails
      <4>2. regs' = q
        BY <1>1, <4>1 DEF Stored
      <4>3. Put(q, r, reg, bits)
        <5>1. DOMAIN one = {reg} /\ one[reg] = bits
          BY <4>1
        <5>2. Put(Over(one, r), r, reg, bits)
          BY <5>1, StoredIs
        <5>3. q = Over(one, r)
          BY <4>1
        <5> QED
          BY ONLY <5>2, <5>3
      <4> QED
        BY <4>1, <4>2, <4>3 DEF Put
    <3> QED
      BY <1>5, <3>1, <3>2
  <2>3. BusIs(c, regs', Tail(p), f, t, TRUE, g)
    <3>1. PICK q : q = regs'
      OBVIOUS
    <3>2. \A x : x # Head(p).reg => InReg(q, x) = InReg(r, x)
      BY <2>2, <3>1
    <3> QED
      BY <1>2, <2>1, <3>1, <3>2, FailureIs, Zenon
  <2> QED
    BY <2>1, <2>3 DEF BusInv
<1>6. CASE Finish
  <2>1. PICK h : h = IF b THEN [x \in {y \in DOMAIN g : y[1] \notin t} |-> g[x]] ELSE Over(f, g)
    OBVIOUS
  <2>2. /\ p = <<>> /\ program' = <<>> /\ codec' = c /\ regs' = r /\ asks' = AskNothing
        /\ touched' = {} /\ broken' = FALSE /\ asked' = h
    BY <1>1, <1>6, <2>1 DEF Finish
  <2>4. BusIs(c, r, <<>>, f, t, b, g)
    BY <1>2, <2>2
  <2>3. BusIs(c, r, <<>>, AskNothing, {}, FALSE, h)
    <3>1. /\ ~b => h = Over(f, g)
          /\ b => \A x \in DOMAIN h : x \in DOMAIN g /\ x[1] \notin t /\ h[x] = g[x]
      BY <2>1
    <3> QED
      BY <2>4, <3>1, FinishIs, Zenon
  <2> QED
    BY <2>2, <2>3 DEF BusInv
<1> QED
  BY <1>4, <1>5, <1>6 DEF BusNext

LEMMA BusHolds == BusInv => SettingsHold
<1> SUFFICES ASSUME BusInv, touched = {}, NEW f \in DOMAIN asked
             PROVE  FieldIs(f, asked[f])
  BY DEF SettingsHold
<1>1. Held(regs, program, f, asked[f])
  <2>1. \A x \in DOMAIN asks : x[1] \in {}
    BY Zenon DEF BusInv, BusIs
  <2>2. f \in DOMAIN asks \/ (broken /\ f[1] \in {}) \/ Held(regs, program, f, asked[f])
    BY Zenon DEF BusInv, BusIs
  <2> QED
    BY <2>1, <2>2
<1> QED
  BY <1>1 DEF Held, Has, InReg, FieldIs, Old

------------------------------------------------------------------------------
(***************************************************************************)
(* Bits of the masks and values.                                           *)
(***************************************************************************)
Weight == <<1, 2, 4, 8, 16, 32, 64, 128, 256, 512, 1024, 2048, 4096, 8192, 16384, 32768>>

LEMMA Powers == \A i \in 0..15 : 2^i = Weight[i + 1]
<1> SUFFICES ASSUME NEW i \in 0..15 PROVE 2^i = Weight[i + 1]
  OBVIOUS
<1>0. i \in {0, 1, 2, 3, 4, 5, 6, 7, 8, 9, 10, 11, 12, 13, 14, 15}
  OBVIOUS
<1>1. i = 0 => 2^i = 1
  OBVIOUS
<1>2. i = 1 => 2^i = 2
  OBVIOUS
<1>3. i = 2 => 2^i = 4
  OBVIOUS
<1>4. i = 3 => 2^i = 8
  OBVIOUS
<1>5. i = 4 => 2^i = 16
  OBVIOUS
<1>6. i = 5 => 2^i = 32
  OBVIOUS
<1>7. i = 6 => 2^i = 64
  OBVIOUS
<1>8. i = 7 => 2^i = 128
  OBVIOUS
<1>9. i = 8 => 2^i = 256
  OBVIOUS
<1>10. i = 9 => 2^i = 512
  OBVIOUS
<1>11. i = 10 => 2^i = 1024
  OBVIOUS
<1>12. i = 11 => 2^i = 2048
  OBVIOUS
<1>13. i = 12 => 2^i = 4096
  OBVIOUS
<1>14. i = 13 => 2^i = 8192
  OBVIOUS
<1>15. i = 14 => 2^i = 16384
  OBVIOUS
<1>16. i = 15 => 2^i = 32768
  OBVIOUS
<1> QED
  BY <1>0, <1>1, <1>2, <1>3, <1>4, <1>5, <1>6, <1>7, <1>8, <1>9, <1>10, <1>11, <1>12, <1>13, <1>14, <1>15, <1>16 DEF Weight

LEMMA BitsWeigh == \A n : Bits(n) = {i \in 0..15 : (n \div Weight[i + 1]) % 2 = 1}
BY Powers DEF Bits

(* The fields of the ES8311 that are watched, and the others of their       *)
(* registers.                                                              *)
LEMMA Es8311Masks ==
  /\ Bits(3) = 0..1  /\ Bits(\h1C) = 2..4  /\ Bits(\h60) = 5..6
  /\ Bits(\hF8) = 3..7  /\ Bits(\h7F) = 0..6  /\ Bits(\h3F) = 0..5
  /\ Bits(\h1F) = 0..4  /\ Bits(\hFF) = 0..7  /\ Bits(\hFF - \hF8) = 0..2
  /\ Bits(\hFF - \hFF) = {}  /\ Bits(\hFF - \h7F) = {7}  /\ Bits(\hFF - \h3F) = 6..7
  /\ Bits(\hFF - \h1F) = 5..7  /\ Bits(\hFF - \h20) = {0, 1, 2, 3, 4, 6, 7}
  /\ Bits(\hFC) = 2..7  /\ Bits(\hE3) = {0, 1, 5, 6, 7}
  /\ Bits(\h9F) = {0, 1, 2, 3, 4, 7}
BY BitsWeigh DEF Weight

LEMMA Es8311Values ==
  /\ Bits(0) = {}  /\ Bits(1) = {0}  /\ Bits(12) = 2..3  /\ Bits(16) = {4}
  /\ Bits(255) = 0..7
BY BitsWeigh DEF Weight

(* The same of the AC101.                                                  *)
LEMMA Ac101Masks ==
  /\ Bits(\h0AA0) = {5, 7, 9, 11}  /\ Bits(\h8000) = {15}  /\ Bits(\h3F0) = 4..9
  /\ Bits(\h3800) = 11..13  /\ Bits(\hFFFF) = 0..15  /\ Bits(\h1FC0) = 6..12
  /\ Bits(\h1C0) = 6..8  /\ Bits(\h38) = 3..5  /\ Bits(7) = 0..2
  /\ Bits(\hFFFF - \h0AA0) = {0, 1, 2, 3, 4, 6, 8, 10, 12, 13, 14, 15}
  /\ Bits(\hFFFF - \h8000) = 0..14
  /\ Bits(\hFFFF - \h3F0) = {0, 1, 2, 3, 10, 11, 12, 13, 14, 15}
  /\ Bits(\hFFFF - \h3800) = {0, 1, 2, 3, 4, 5, 6, 7, 8, 9, 10, 14, 15}
  /\ Bits(\hFFFF - \h1FC0) = {0, 1, 2, 3, 4, 5, 13, 14, 15}
  /\ Bits(\hFFFF - \h1C0) = {0, 1, 2, 3, 4, 5, 9, 10, 11, 12, 13, 14, 15}
  /\ Bits(\hFFFF - \h38) = {0, 1, 2, 6, 7, 8, 9, 10, 11, 12, 13, 14, 15}
  /\ Bits(\hFFFF - 7) = 3..15
BY BitsWeigh DEF Weight

LEMMA EarphInside == ASSUME NEW k \in 0..63 PROVE Bits(k * 16) \subseteq Bits(\h3F0)
BY BitsWeigh DEF Weight

------------------------------------------------------------------------------
(***************************************************************************)
(* Programs put together, and the fields they keep and settle.             *)
(***************************************************************************)
LEMMA AccessType ==
  ASSUME NEW reg \in Registers, NEW keep, NEW value
  PROVE  /\ Write(reg, value) \in Accesses /\ Update(reg, keep, value) \in Accesses
         /\ Write(reg, value).reg = reg /\ Update(reg, keep, value).reg = reg
BY DEF Write, Update, Accesses, Bits

LEMMA OneAccess ==
  ASSUME NEW a \in Accesses
  PROVE  /\ <<a>> \in Seq(Accesses) /\ Len(<<a>>) = 1 /\ <<a>>[1] = a
         /\ \A f, v : (Leaves(a, f) \/ Makes(a, f, v) => Keeps(<<a>>, f, v))
         /\ \A f, v : (Makes(a, f, v) => Settles(<<a>>, f, v))
<1>1. /\ <<a>> \in Seq(Accesses) /\ Len(<<a>>) = 1 /\ <<a>>[1] = a /\ DOMAIN <<a>> = 1..1
  OBVIOUS
<1>2. PICK s : s = <<a>>
  OBVIOUS
<1>3. \A i \in DOMAIN s : i = 1
  BY <1>1, <1>2
<1>4. ASSUME NEW f, NEW v, Leaves(a, f) \/ Makes(a, f, v) PROVE Keeps(s, f, v)
  BY <1>1, <1>2, <1>3, <1>4 DEF Keeps
<1>5. ASSUME NEW f, NEW v, Makes(a, f, v) PROVE Settles(s, f, v)
  BY <1>1, <1>2, <1>3, <1>5 DEF Settles
<1> QED
  BY <1>1, <1>2, <1>4, <1>5

LEMMA NoAccess ==
  /\ <<>> \in Seq(Accesses) /\ Len(<<>>) = 0
  /\ \A f, v : Keeps(<<>>, f, v)
<1>1. <<>> \in Seq(Accesses) /\ Len(<<>>) = 0 /\ DOMAIN <<>> = {}
  OBVIOUS
<1> QED
  BY <1>1 DEF Keeps

LEMMA KeepsJoin ==
  ASSUME NEW p \in Seq(Accesses), NEW q \in Seq(Accesses)
  PROVE  /\ p \o q \in Seq(Accesses)
         /\ \A f, v : (Keeps(p, f, v) /\ Keeps(q, f, v) => Keeps(p \o q, f, v))
         /\ \A f, v : (Settles(p, f, v) /\ Keeps(q, f, v) => Settles(p \o q, f, v))
         /\ \A f, v : (Settles(q, f, v) => Settles(p \o q, f, v))
<1>1. PICK s, m, n : s = p \o q /\ m = Len(p) /\ n = Len(q)
  OBVIOUS
<1>2. /\ s \in Seq(Accesses) /\ m \in Nat /\ n \in Nat /\ Len(s) = m + n
      /\ \A i \in 1..m : s[i] = p[i]
      /\ \A i \in 1..n : s[m + i] = q[i]
  BY <1>1, ConcatParts
<1>3. DOMAIN s = 1..(m + n) /\ DOMAIN p = 1..m /\ DOMAIN q = 1..n
  BY <1>1, <1>2
<1>4. ASSUME NEW i \in DOMAIN s
      PROVE  \/ i \in DOMAIN p /\ s[i] = p[i]
             \/ i - m \in DOMAIN q /\ s[i] = q[i - m]
  <2>1. CASE i <= m
    BY <1>2, <1>3, <2>1
  <2>2. CASE ~(i <= m)
    <3>1. i - m \in 1..n /\ m + (i - m) = i
      BY <1>2, <1>3, <2>2
    <3> QED
      BY <1>2, <1>3, <3>1
  <2> QED
    BY <2>1, <2>2
<1>5. ASSUME NEW f, NEW v, Keeps(p, f, v), Keeps(q, f, v) PROVE Keeps(s, f, v)
  BY <1>4, <1>5, Zenon DEF Keeps
<1>6. ASSUME NEW f, NEW v, Settles(p, f, v), Keeps(q, f, v) PROVE Settles(s, f, v)
  <2>1. PICK k \in DOMAIN p :
          /\ Makes(p[k], f, v)
          /\ \A i \in DOMAIN p : i > k => Leaves(p[i], f) \/ Makes(p[i], f, v)
    BY <1>6, Zenon DEF Settles
  <2>2. k \in DOMAIN s /\ Makes(s[k], f, v)
    BY <1>2, <1>3, <2>1
  <2>3. ASSUME NEW i \in DOMAIN s, i > k PROVE Leaves(s[i], f) \/ Makes(s[i], f, v)
    BY <1>4, <1>6, <2>1, <2>3, Zenon DEF Keeps
  <2> QED
    BY <2>2, <2>3, Zenon DEF Settles
<1>7. ASSUME NEW f, NEW v, Settles(q, f, v) PROVE Settles(s, f, v)
  <2>1. PICK k \in DOMAIN q :
          /\ Makes(q[k], f, v)
          /\ \A i \in DOMAIN q : i > k => Leaves(q[i], f) \/ Makes(q[i], f, v)
    BY <1>7, Zenon DEF Settles
  <2>2. m + k \in DOMAIN s /\ Makes(s[m + k], f, v)
    BY <1>2, <1>3, <2>1
  <2>3. ASSUME NEW i \in DOMAIN s, i > m + k PROVE Leaves(s[i], f) \/ Makes(s[i], f, v)
    <3>1. i - m \in DOMAIN q /\ i - m > k /\ m + (i - m) = i
      BY <1>2, <1>3, <2>1, <2>3
    <3>2. s[i] = q[i - m]
      BY <1>2, <1>3, <3>1
    <3> QED
      BY <2>1, <3>1, <3>2
  <2> QED
    BY <2>2, <2>3, Zenon DEF Settles
<1> QED
  BY <1>1, <1>2, <1>5, <1>6, <1>7, Zenon

(* What is kept throughout and made once is settled.                       *)
LEMMA KeptAndMade ==
  ASSUME NEW p \in Seq(Accesses), NEW f, NEW v, Keeps(p, f, v),
         NEW k \in DOMAIN p, Makes(p[k], f, v)
  PROVE  Settles(p, f, v)
BY Zenon DEF Keeps, Settles

LEMMA AskIs ==
  ASSUME NEW reg, NEW mask, NEW value
  PROVE  /\ DOMAIN Ask(reg, mask, value) = {<<reg, mask>>}
         /\ Ask(reg, mask, value)[<<reg, mask>>] = Bits(value)
BY DEF Ask

LEMMA AskNothingIs == DOMAIN AskNothing = {}
BY DEF AskNothing

------------------------------------------------------------------------------
(***************************************************************************)
(* The ES8311.                                                             *)
(***************************************************************************)
WatchedRegs ==
  {"REG02", "REG03", "REG04", "REG05", "REG06", "REG07", "REG08", "REG09", "REG0A", "REG31"}

(* An access of a register none of whose fields is watched.                *)
Elsewhere(a) == a \in Accesses /\ a.reg \notin WatchedRegs
AllElsewhere(p) == p \in Seq(Accesses) /\ \A i \in DOMAIN p : Elsewhere(p[i])

LEMMA WatchedIs ==
  ASSUME NEW f, NEW v, Watched("es8311", f, v)
  PROVE  f[1] \in WatchedRegs
BY DEF Watched, Es8311Fields, Clocked, WatchedRegs

LEMMA ElsewhereKeeps ==
  ASSUME NEW p, AllElsewhere(p)
  PROVE  p \in Seq(Accesses) /\ \A f, v : Watched("es8311", f, v) => Keeps(p, f, v)
<1> SUFFICES ASSUME NEW f, NEW v, Watched("es8311", f, v) PROVE Keeps(p, f, v)
  BY DEF AllElsewhere
<1>1. \A i \in DOMAIN p : p[i].reg # f[1]
  BY WatchedIs DEF AllElsewhere, Elsewhere
<1> QED
  BY <1>1 DEF Keeps, Leaves

LEMMA ElsewhereJoin ==
  ASSUME NEW p, NEW q, AllElsewhere(p), AllElsewhere(q)
  PROVE  AllElsewhere(p \o q)
<1>1. PICK s, m, n : s = p \o q /\ m = Len(p) /\ n = Len(q)
  OBVIOUS
<1>2. /\ s \in Seq(Accesses) /\ m \in Nat /\ n \in Nat /\ Len(s) = m + n
      /\ p \in Seq(Accesses) /\ q \in Seq(Accesses)
      /\ \A i \in 1..m : s[i] = p[i]
      /\ \A i \in 1..n : s[m + i] = q[i]
  BY <1>1, ConcatParts DEF AllElsewhere
<1>3. ASSUME NEW i \in DOMAIN s PROVE Elsewhere(s[i])
  <2>0. /\ i \in 1..(m + n)
        /\ \A j \in 1..m : Elsewhere(p[j])
        /\ \A j \in 1..n : Elsewhere(q[j])
    <3>1. DOMAIN s = 1..(m + n) /\ DOMAIN p = 1..m /\ DOMAIN q = 1..n
      BY <1>1, <1>2
    <3> QED
      BY <3>1, Zenon DEF AllElsewhere
  <2>1. CASE i <= m
    BY <1>2, <2>0, <2>1
  <2>2. CASE ~(i <= m)
    <3>1. i - m \in 1..n /\ m + (i - m) = i
      BY <1>2, <2>0, <2>2
    <3> QED
      BY <1>2, <2>0, <3>1
  <2> QED
    BY <2>1, <2>2
<1> QED
  BY <1>1, <1>2, <1>3 DEF AllElsewhere

(* A call that is elsewhere, and asks for nothing that is watched.         *)
LEMMA ElsewhereIsGood ==
  ASSUME codec = "es8311", NEW p, AllElsewhere(p)
  PROVE  GoodCall(p, AskNothing, FALSE)
BY ElsewhereKeeps, AskNothingIs, Zenon DEF GoodCall

LEMMA ElsewhereOne ==
  ASSUME NEW a, Elsewhere(a)
  PROVE  AllElsewhere(<<a>>)
<1>1. a \in Accesses
  BY DEF Elsewhere
<1>2. <<a>> \in Seq(Accesses) /\ DOMAIN <<a>> = {1} /\ <<a>>[1] = a
  BY <1>1
<1> QED
  BY <1>2 DEF AllElsewhere

LEMMA ElsewhereNone == AllElsewhere(<<>>)
BY NoAccess DEF AllElsewhere

LEMMA OtherRegs ==
  ASSUME NEW reg \in Registers, reg \notin WatchedRegs
  PROVE  /\ \A value : Elsewhere(Write(reg, value))
         /\ \A keep, value : Elsewhere(Update(reg, keep, value))
BY AccessType DEF Elsewhere

LEMMA PowerAndVolumes ==
  ASSUME NEW mode, NEW n, NEW b \in BOOLEAN
  PROVE  /\ AllElsewhere(Start(mode)) /\ AllElsewhere(Stop(mode))
         /\ AllElsewhere(SetVoiceVolume(n)) /\ AllElsewhere(SetMicGain(n))
         /\ AllElsewhere(SetAdcVolume(n)) /\ AllElsewhere(GetRef(b))
<1>1. {"REG17", "REG12", "REG32", "REG16", "REG44"} \cap WatchedRegs = {}
  BY DEF WatchedRegs
<1>2. \A reg \in {"REG17", "REG12", "REG32", "REG16", "REG44"} :
        /\ \A value : AllElsewhere(<<Write(reg, value)>>)
        /\ \A keep, value : AllElsewhere(<<Update(reg, keep, value)>>)
  <2> SUFFICES ASSUME NEW reg \in {"REG17", "REG12", "REG32", "REG16", "REG44"}
               PROVE  /\ \A value : AllElsewhere(<<Write(reg, value)>>)
                      /\ \A keep, value : AllElsewhere(<<Update(reg, keep, value)>>)
    OBVIOUS
  <2>1. reg \in Registers /\ reg \notin WatchedRegs
    BY <1>1 DEF Registers, Es8311Regs
  <2> QED
    BY <2>1, OtherRegs, ElsewhereOne
<1>3. \A c, reg, value :
        reg \in {"REG17", "REG12", "REG32", "REG16", "REG44"} =>
          AllElsewhere(If(c, <<Write(reg, value)>>))
  BY <1>2, ElsewhereNone DEF If
<1>4. \A c, reg, keep, value :
        reg \in {"REG17", "REG12", "REG32", "REG16", "REG44"} =>
          AllElsewhere(If(c, <<Update(reg, keep, value)>>))
  BY <1>2, ElsewhereNone DEF If
<1>5. AllElsewhere(Start(mode))
  BY <1>3, <1>4, ElsewhereJoin DEF Start
<1>6. AllElsewhere(Stop(mode))
  BY <1>3, <1>4, ElsewhereJoin DEF Stop
<1>7. AllElsewhere(SetVoiceVolume(n)) /\ AllElsewhere(SetMicGain(n))
  BY <1>2 DEF SetVoiceVolume, SetMicGain
<1>8. AllElsewhere(SetAdcVolume(n)) /\ AllElsewhere(GetRef(b))
  BY <1>2 DEF SetAdcVolume, GetRef
<1> QED
  BY <1>5, <1>6, <1>7, <1>8

LEMMA FormatRegs == {"REG09", "REG0A"} \subseteq Registers
BY DEF Registers, Es8311Regs

(* A field's new value in its mask, and the other field of a format        *)
(* register.                                                               *)
LEMMA FormatKeeps ==
  ASSUME NEW fmt \in {"NORMAL", "LEFT", "DSP"}, NEW reg \in {"REG09", "REG0A"}
  PROVE  /\ FormatAccess(fmt, reg) \in Accesses /\ FormatAccess(fmt, reg).reg = reg
         /\ Makes(FormatAccess(fmt, reg), <<reg, 3>>, Bits(FormatBits(fmt)))
         /\ Leaves(FormatAccess(fmt, reg), <<reg, \h1C>>)
<1> DEFINE a == FormatAccess(fmt, reg)
<1>1. a \in Accesses /\ a.reg = reg
  BY FormatRegs, AccessType DEF FormatAccess
<1>2. a.keep = Bits(IF fmt = "DSP" THEN \hFF ELSE \hFC) /\ a.set = Bits(FormatBits(fmt))
  BY DEF FormatAccess, Update
<1> HIDE DEF a
<1>3. Bits(FormatBits(fmt)) \subseteq Bits(3)
  BY Es8311Masks, Es8311Values DEF FormatBits
<1>4. a.keep \cap Bits(3) \subseteq a.set
  BY <1>2, Es8311Masks, Es8311Values DEF FormatBits
<1>5. Bits(\h1C) \subseteq a.keep /\ Bits(3) \cap Bits(\h1C) = {}
  BY <1>2, Es8311Masks
<1>6. Makes(a, <<reg, 3>>, Bits(FormatBits(fmt)))
  BY <1>1, <1>2, <1>3, <1>4 DEF Makes
<1>7. Leaves(a, <<reg, \h1C>>)
  BY <1>2, <1>3, <1>5 DEF Leaves
<1> QED
  BY <1>1, <1>6, <1>7 DEF a

LEMMA SampleBitsKeep ==
  ASSUME NEW bits \in {0, 3, 4}, NEW reg \in {"REG09", "REG0A"}
  PROVE  LET a == Update(reg, \hE3, bits * 4)
         IN  /\ a \in Accesses /\ a.reg = reg
             /\ Makes(a, <<reg, \h1C>>, Bits(bits * 4))
             /\ Leaves(a, <<reg, 3>>)
<1> DEFINE a == Update(reg, \hE3, bits * 4)
<1>1. a \in Accesses /\ a.reg = reg
  BY FormatRegs, AccessType
<1>2. a.keep = Bits(\hE3) /\ a.set = Bits(bits * 4)
  BY DEF Update
<1> HIDE DEF a
<1>3. Bits(bits * 4) \subseteq Bits(\h1C)
  BY Es8311Masks, Es8311Values
<1>4. Bits(\hE3) \cap Bits(\h1C) = {} /\ Bits(3) \subseteq Bits(\hE3) /\ Bits(3) \cap Bits(\h1C) = {}
  BY Es8311Masks
<1>5. Makes(a, <<reg, \h1C>>, Bits(bits * 4))
  BY <1>1, <1>2, <1>3, <1>4 DEF Makes
<1>6. Leaves(a, <<reg, 3>>)
  BY <1>2, <1>3, <1>4 DEF Leaves
<1> QED
  BY <1>1, <1>5, <1>6 DEF a

(* The fields of the format registers are the only ones there.             *)
LEMMA FormatFields ==
  ASSUME NEW f, NEW v, Watched("es8311", f, v), NEW reg \in {"REG09", "REG0A"}
  PROVE  f[1] # reg \/ f = <<reg, 3>> \/ f = <<reg, \h1C>>
BY DEF Watched, Es8311Fields, Clocked

(* g asks for v in f and w in e, and for nothing else.                     *)
Asks(g, f, v, e, w) == DOMAIN g = {f, e} /\ g[f] = v /\ g[e] = w

LEMMA OverAsks ==
  ASSUME NEW r, NEW m, NEW x, NEW s, NEW n, NEW y, r # s
  PROVE  Asks(Over(Ask(r, m, x), Ask(s, n, y)), <<r, m>>, Bits(x), <<s, n>>, Bits(y))
<1>1. PICK a, b : a = Ask(r, m, x) /\ b = Ask(s, n, y)
  OBVIOUS
<1>2. /\ DOMAIN a = {<<r, m>>} /\ a[<<r, m>>] = Bits(x)
      /\ DOMAIN b = {<<s, n>>} /\ b[<<s, n>>] = Bits(y)
  BY <1>1, AskIs
<1>3. PICK g : g = Over(a, b)
  OBVIOUS
<1>4. /\ DOMAIN Over(a, b) = DOMAIN a \union DOMAIN b
      /\ \A z \in DOMAIN a : Over(a, b)[z] = a[z]
      /\ \A z \in DOMAIN b : z \notin DOMAIN a => Over(a, b)[z] = b[z]
  BY OverIs
<1>5. /\ DOMAIN g = {<<r, m>>} \union {<<s, n>>} /\ g[<<r, m>>] = Bits(x)
      /\ <<s, n>> # <<r, m>> => g[<<s, n>>] = Bits(y)
  BY <1>2, <1>3, <1>4
<1>6. Asks(g, <<r, m>>, Bits(x), <<s, n>>, Bits(y))
  BY <1>5 DEF Asks
<1> QED
  BY <1>1, <1>3, <1>6

LEMMA TwoAccesses ==
  ASSUME NEW a \in Accesses, NEW b \in Accesses
  PROVE  <<a, b>> = <<a>> \o <<b>>
<1>1. PICK s, t, u : s = <<a>> /\ t = <<b>> /\ u = <<a, b>>
  OBVIOUS
<1>2. /\ s \in Seq(Accesses) /\ t \in Seq(Accesses) /\ u \in Seq(Accesses)
      /\ Len(s) = 1 /\ Len(t) = 1 /\ Len(u) = 2
      /\ s[1] = a /\ t[1] = b /\ u[1] = a /\ u[2] = b
  BY <1>1
<1>3. \A i \in 1..Len(s) : u[i] = s[i]
  BY <1>2
<1>4. \A i \in 1..Len(t) : u[Len(s) + i] = t[i]
  BY <1>2
<1>5. Len(u) = Len(s) + Len(t)
  BY <1>2
<1>6. u = s \o t
  BY <1>2, <1>3, <1>4, <1>5, ConcatIs
<1> QED
  BY <1>1, <1>6

LEMMA ConfigFmtIsGood ==
  ASSUME codec = "es8311", NEW mode, NEW fmt \in {"NORMAL", "LEFT", "DSP"}
  PROVE  GoodCall(ConfigFmt(mode, fmt),
                  Over(Ask("REG09", 3, FormatBits(fmt)), Ask("REG0A", 3, FormatBits(fmt))), FALSE)
<1>1. PICK p, a, b, g, v :
        /\ p = If(Adc(mode), <<Write("REG17", \hBF)>>) \o If(Dac(mode), <<Write("REG12", 0)>>)
        /\ a = FormatAccess(fmt, "REG09") /\ b = FormatAccess(fmt, "REG0A")
        /\ g = Over(Ask("REG09", 3, FormatBits(fmt)), Ask("REG0A", 3, FormatBits(fmt)))
        /\ v = Bits(FormatBits(fmt))
  OBVIOUS
<1>2. AllElsewhere(p)
  <2>1. {"REG17", "REG12"} \cap WatchedRegs = {} /\ {"REG17", "REG12"} \subseteq Registers
    BY DEF WatchedRegs, Registers, Es8311Regs
  <2>2. Elsewhere(Write("REG17", \hBF)) /\ Elsewhere(Write("REG12", 0))
    BY <2>1, OtherRegs
  <2>3. /\ AllElsewhere(If(Adc(mode), <<Write("REG17", \hBF)>>))
        /\ AllElsewhere(If(Dac(mode), <<Write("REG12", 0)>>))
    BY <2>2, ElsewhereOne, ElsewhereNone DEF If
  <2> QED
    BY <1>1, <2>3, ElsewhereJoin
<1>3. /\ a \in Accesses /\ a.reg = "REG09" /\ Makes(a, <<"REG09", 3>>, v)
      /\ Leaves(a, <<"REG09", \h1C>>)
      /\ b \in Accesses /\ b.reg = "REG0A" /\ Makes(b, <<"REG0A", 3>>, v)
      /\ Leaves(b, <<"REG0A", \h1C>>)
  BY <1>1, FormatKeeps
<1>4. /\ DOMAIN g = {<<"REG09", 3>>, <<"REG0A", 3>>}
      /\ g[<<"REG09", 3>>] = v /\ g[<<"REG0A", 3>>] = v
  <2>1. PICK x, r, s, m : x = FormatBits(fmt) /\ r = "REG09" /\ s = "REG0A" /\ m = 3
    OBVIOUS
  <2>2. r # s /\ g = Over(Ask(r, m, x), Ask(s, m, x)) /\ v = Bits(x)
    BY <1>1, <2>1
  <2>3. Asks(g, <<r, m>>, v, <<s, m>>, v)
    BY ONLY <2>2, OverAsks
  <2> QED
    BY <2>1, <2>3 DEF Asks
<1>5. /\ \A f : f[1] # "REG09" => Leaves(a, f)
      /\ \A f : f[1] # "REG0A" => Leaves(b, f)
  BY <1>3 DEF Leaves
<1>6. /\ <<a>> \in Seq(Accesses) /\ <<b>> \in Seq(Accesses)
      /\ <<a>> \o <<b>> \in Seq(Accesses) /\ p \in Seq(Accesses)
      /\ p \o (<<a>> \o <<b>>) \in Seq(Accesses)
  BY <1>2, <1>3, OneAccess, KeepsJoin, ElsewhereKeeps
<1>7. ASSUME NEW f, NEW w, Keeps(<<a>>, f, w), Keeps(<<b>>, f, w), Watched("es8311", f, w)
      PROVE  Keeps(p \o (<<a>> \o <<b>>), f, w)
  BY <1>2, <1>6, <1>7, KeepsJoin, ElsewhereKeeps
<1>8. ASSUME NEW f, NEW w, (Settles(<<a>>, f, w) /\ Keeps(<<b>>, f, w)) \/ Settles(<<b>>, f, w)
      PROVE  Settles(p \o (<<a>> \o <<b>>), f, w)
  <2>1. Settles(<<a>> \o <<b>>, f, w)
    BY <1>6, <1>8, KeepsJoin
  <2> QED
    BY <1>6, <2>1, KeepsJoin
<1>9. ASSUME NEW f, NEW w, Watched("es8311", f, w), f \notin DOMAIN g
      PROVE  Keeps(p \o (<<a>> \o <<b>>), f, w)
  <2>1. Leaves(a, f) /\ Leaves(b, f)
    BY <1>3, <1>4, <1>5, <1>9, FormatFields
  <2> QED
    BY <1>3, <1>7, <1>9, <2>1, OneAccess
<1>10. ASSUME NEW f \in DOMAIN g
       PROVE  Watched("es8311", f, g[f]) /\ Settles(p \o (<<a>> \o <<b>>), f, g[f])
  <2>1. Watched("es8311", f, g[f])
    BY <1>4 DEF Watched, Es8311Fields
  <2>2. CASE f = <<"REG09", 3>>
    <3>1. Makes(a, f, v) /\ Leaves(b, f) /\ g[f] = v
      BY <1>3, <1>4, <1>5, <2>2
    <3> QED
      BY <1>3, <1>8, <2>1, <3>1, OneAccess
  <2>3. CASE f = <<"REG0A", 3>>
    <3>1. Makes(b, f, v) /\ g[f] = v
      BY <1>3, <1>4, <2>3
    <3> QED
      BY <1>3, <1>8, <2>1, <3>1, OneAccess
  <2> QED
    BY <1>4, <2>2, <2>3
<1>11. GoodCall(p \o (<<a>> \o <<b>>), g, FALSE)
  BY <1>6, <1>9, <1>10, Zenon DEF GoodCall
<1>12. ConfigFmt(mode, fmt) = p \o (<<a>> \o <<b>>)
  BY <1>1, <1>3, TwoAccesses DEF ConfigFmt
<1> QED
  BY <1>1, <1>11, <1>12

LEMMA SetBitsIsGood ==
  ASSUME codec = "es8311", NEW mode, NEW bits \in {0, 3, 4}
  PROVE  GoodCall(SetBitsPerSample(mode, bits),
                  Over(IF Adc(mode) THEN Ask("REG09", \h1C, bits * 4) ELSE AskNothing,
                       IF Dac(mode) THEN Ask("REG0A", \h1C, bits * 4) ELSE AskNothing), FALSE)
<1>1. PICK a, b, p, q, x, y, g, v :
        /\ a = Update("REG09", \hE3, bits * 4) /\ b = Update("REG0A", \hE3, bits * 4)
        /\ p = If(Adc(mode), <<a>>) /\ q = If(Dac(mode), <<b>>)
        /\ x = (IF Adc(mode) THEN Ask("REG09", \h1C, bits * 4) ELSE AskNothing)
        /\ y = (IF Dac(mode) THEN Ask("REG0A", \h1C, bits * 4) ELSE AskNothing)
        /\ g = Over(x, y) /\ v = Bits(bits * 4)
  OBVIOUS
<1>2. /\ a \in Accesses /\ a.reg = "REG09" /\ Makes(a, <<"REG09", \h1C>>, v)
      /\ Leaves(a, <<"REG09", 3>>)
      /\ b \in Accesses /\ b.reg = "REG0A" /\ Makes(b, <<"REG0A", \h1C>>, v)
      /\ Leaves(b, <<"REG0A", 3>>)
  BY <1>1, SampleBitsKeep
<1>3. /\ \A f : f[1] # "REG09" => Leaves(a, f)
      /\ \A f : f[1] # "REG0A" => Leaves(b, f)
  BY <1>2 DEF Leaves
<1>4. /\ DOMAIN x = IF Adc(mode) THEN {<<"REG09", \h1C>>} ELSE {}
      /\ DOMAIN y = IF Dac(mode) THEN {<<"REG0A", \h1C>>} ELSE {}
      /\ Adc(mode) => x[<<"REG09", \h1C>>] = v
      /\ Dac(mode) => y[<<"REG0A", \h1C>>] = v
  BY <1>1 DEF Ask, AskNothing
<1>5. /\ DOMAIN g = DOMAIN x \union DOMAIN y
      /\ \A f \in DOMAIN x : g[f] = x[f]
      /\ \A f \in DOMAIN y : f \notin DOMAIN x => g[f] = y[f]
  <2>1. /\ DOMAIN Over(x, y) = DOMAIN x \union DOMAIN y
        /\ \A f \in DOMAIN x : Over(x, y)[f] = x[f]
        /\ \A f \in DOMAIN y : f \notin DOMAIN x => Over(x, y)[f] = y[f]
    BY OverIs
  <2> QED
    BY <1>1, <2>1
<1>6. /\ p \in Seq(Accesses) /\ q \in Seq(Accesses)
      /\ \A f, w : (~Adc(mode) \/ Leaves(a, f) \/ Makes(a, f, w) => Keeps(p, f, w))
      /\ \A f, w : (~Dac(mode) \/ Leaves(b, f) \/ Makes(b, f, w) => Keeps(q, f, w))
      /\ \A f, w : (Adc(mode) /\ Makes(a, f, w) => Settles(p, f, w))
      /\ \A f, w : (Dac(mode) /\ Makes(b, f, w) => Settles(q, f, w))
  <2>1. /\ <<a>> \in Seq(Accesses) /\ <<b>> \in Seq(Accesses)
        /\ \A f, w : (Leaves(a, f) \/ Makes(a, f, w) => Keeps(<<a>>, f, w))
        /\ \A f, w : (Leaves(b, f) \/ Makes(b, f, w) => Keeps(<<b>>, f, w))
        /\ \A f, w : (Makes(a, f, w) => Settles(<<a>>, f, w))
        /\ \A f, w : (Makes(b, f, w) => Settles(<<b>>, f, w))
    BY <1>2, OneAccess
  <2>2. /\ Adc(mode) => p = <<a>>
        /\ ~Adc(mode) => p = <<>>
        /\ Dac(mode) => q = <<b>>
        /\ ~Dac(mode) => q = <<>>
    BY <1>1 DEF If
  <2>3. p \in Seq(Accesses) /\ q \in Seq(Accesses)
    BY <2>1, <2>2, NoAccess
  <2> QED
    BY <2>1, <2>2, <2>3, NoAccess, Zenon
<1>7. ASSUME NEW f, NEW w, Watched("es8311", f, w), f \notin DOMAIN g
      PROVE  Keeps(p \o q, f, w)
  <2>1. f[1] # "REG09" \/ f = <<"REG09", 3>> \/ f = <<"REG09", \h1C>>
    BY <1>7, FormatFields
  <2>2. f[1] # "REG0A" \/ f = <<"REG0A", 3>> \/ f = <<"REG0A", \h1C>>
    BY <1>7, FormatFields
  <2>3. ~Adc(mode) \/ Leaves(a, f)
    BY <1>2, <1>3, <1>4, <1>5, <1>7, <2>1
  <2>4. ~Dac(mode) \/ Leaves(b, f)
    BY <1>2, <1>3, <1>4, <1>5, <1>7, <2>2
  <2> QED
    BY <1>6, <2>3, <2>4, KeepsJoin
<1>8. ASSUME NEW f \in DOMAIN g
      PROVE  Watched("es8311", f, g[f]) /\ Settles(p \o q, f, g[f])
  <2>1. \/ f = <<"REG09", \h1C>> /\ Adc(mode) /\ g[f] = v
        \/ f = <<"REG0A", \h1C>> /\ Dac(mode) /\ g[f] = v
    BY <1>4, <1>5
  <2>2. Watched("es8311", f, g[f])
    BY <2>1 DEF Watched, Es8311Fields
  <2>3. CASE f = <<"REG09", \h1C>> /\ Adc(mode)
    <3>1. Makes(a, f, v) /\ Leaves(b, f) /\ g[f] = v
      BY <1>2, <1>3, <2>1, <2>3
    <3>2. Settles(p, f, v) /\ Keeps(q, f, v)
      BY <1>6, <2>3, <3>1
    <3> QED
      BY <1>6, <2>2, <3>1, <3>2, KeepsJoin
  <2>4. CASE f = <<"REG0A", \h1C>> /\ Dac(mode)
    <3>1. Makes(b, f, v) /\ g[f] = v
      BY <1>2, <2>1, <2>4
    <3>2. Settles(q, f, v)
      BY <1>6, <2>4, <3>1
    <3> QED
      BY <1>6, <2>2, <3>1, <3>2, KeepsJoin
  <2> QED
    BY <2>1, <2>3, <2>4
<1>9. p \o q \in Seq(Accesses)
  BY <1>6, KeepsJoin
<1>10. GoodCall(p \o q, g, FALSE)
  BY <1>7, <1>8, <1>9, Zenon DEF GoodCall
<1>11. SetBitsPerSample(mode, bits) = p \o q
  BY <1>1 DEF SetBitsPerSample
<1> QED
  BY <1>1, <1>10, <1>11

LEMMA MuteIsGood ==
  ASSUME codec = "es8311", NEW mute \in BOOLEAN
  PROVE  GoodCall(es8311_mute(mute), Ask("REG31", \h60, IF mute THEN \h60 ELSE 0), FALSE)
<1>1. PICK p, a, g, v :
        /\ p = es8311_mute(mute) /\ a = Update("REG31", \h9F, IF mute THEN \h60 ELSE 0)
        /\ g = Ask("REG31", \h60, IF mute THEN \h60 ELSE 0) /\ v = Bits(IF mute THEN \h60 ELSE 0)
  OBVIOUS
<1>2. /\ a \in Accesses /\ a.reg = "REG31"
      /\ Makes(a, <<"REG31", \h60>>, v)
  <2>1. "REG31" \in Registers
    BY DEF Registers, Es8311Regs
  <2>2. a \in Accesses /\ a.reg = "REG31"
    BY <1>1, <2>1, AccessType
  <2>3. a.keep = Bits(\h9F) /\ a.set = v
    BY <1>1 DEF Update
  <2>4. Bits(\h9F) \cap Bits(\h60) = {} /\ v \subseteq Bits(\h60)
    BY <1>1, Es8311Masks, Es8311Values
  <2> QED
    BY <2>2, <2>3, <2>4 DEF Makes
<1>3. /\ p \in Seq(Accesses)
      /\ \E k \in DOMAIN p : p[k] = a
      /\ \A i \in DOMAIN p : p[i] = a \/ Elsewhere(p[i])
  <2>1. PICK w, c, d, e :
          /\ w = Write("REG12", 2) /\ c = Write("REG32", 0) /\ d = Write("REG37", \h08)
          /\ e = Write("REG12", 0)
    OBVIOUS
  <2>2. \A reg \in {"REG12", "REG32", "REG37"} : reg \in Registers /\ reg \notin WatchedRegs
    BY DEF WatchedRegs, Registers, Es8311Regs
  <2>3. Elsewhere(w) /\ Elsewhere(c) /\ Elsewhere(d) /\ Elsewhere(e)
    BY <2>1, <2>2, OtherRegs
  <2>4. p = IF mute THEN <<w, a, c, d>> ELSE <<a, e>>
    BY <1>1, <2>1 DEF es8311_mute
  <2>5. {a, w, c, d, e} \subseteq Accesses
    BY <1>2, <2>3 DEF Elsewhere
  <2>6. CASE mute
    <3>1. p = <<w, a, c, d>>
      BY <2>4, <2>6
    <3>2. /\ p \in Seq(Accesses) /\ DOMAIN p = {1, 2, 3, 4}
          /\ p[1] = w /\ p[2] = a /\ p[3] = c /\ p[4] = d
      BY <2>5, <3>1
    <3> QED
      BY <2>3, <3>2
  <2>7. CASE ~mute
    <3>1. p = <<a, e>>
      BY <2>4, <2>7
    <3>2. p \in Seq(Accesses) /\ DOMAIN p = {1, 2} /\ p[1] = a /\ p[2] = e
      BY <2>5, <3>1
    <3> QED
      BY <2>3, <3>2
  <2> QED
    BY <2>6, <2>7
<1>4. /\ DOMAIN g = {<<"REG31", \h60>>} /\ g[<<"REG31", \h60>>] = v
  BY <1>1 DEF Ask
<1>5. ASSUME NEW f, NEW w, Watched("es8311", f, w), f # <<"REG31", \h60>> \/ w = v
      PROVE  Keeps(p, f, w)
  <2>1. f[1] \in WatchedRegs /\ (f[1] = "REG31" => f = <<"REG31", \h60>>)
    BY <1>5, WatchedIs DEF Watched, Es8311Fields, Clocked
  <2>2. Leaves(a, f) \/ Makes(a, f, w)
    BY <1>2, <1>5, <2>1 DEF Leaves
  <2>3. \A i \in DOMAIN p : p[i] = a \/ Leaves(p[i], f)
    BY <1>3, <2>1 DEF Elsewhere, Leaves
  <2> QED
    BY <2>2, <2>3 DEF Keeps
<1>6. ASSUME NEW f \in DOMAIN g
      PROVE  Watched("es8311", f, g[f]) /\ Settles(p, f, g[f])
  <2>1. f = <<"REG31", \h60>> /\ g[f] = v
    BY <1>4
  <2>2. Watched("es8311", f, v)
    BY <2>1 DEF Watched, Es8311Fields
  <2>3. PICK k \in DOMAIN p : Makes(p[k], f, v)
    BY <1>2, <1>3, <2>1
  <2> QED
    BY <1>3, <1>5, <2>1, <2>2, <2>3, KeptAndMade
<1>7. GoodCall(p, g, FALSE)
  BY <1>3, <1>4, <1>5, <1>6 DEF GoodCall
<1> QED
  BY <1>1, <1>7

(***************************************************************************)
(* es8311_init: every write of a watched register writes what every other  *)
(* call of it has asked for, the same clock dividers for every rate.       *)
(***************************************************************************)
(* The rows whose master clock is 256 times the sample rate.               *)
LEMMA PlainRates ==
  \A r \in PlainRows : r[1] = 256 * r[2] => r[3] = 1 /\ r[4] = 1
BY DEF PlainRows

LEMMA PlainClock ==
  ASSUME NEW rate, NEW c \in get_coeff(256 * rate, rate)
  PROVE  c = Coeff(256 * rate, rate, 1, 1, 1, 1, 0, 0, 255, 4, 16)
<1>1. c \in coeff_div /\ c.mclk = 256 * rate /\ c.rate = rate
  BY DEF get_coeff
<1>2. CASE c \in {Coeff(r[1], r[2], r[3], r[4], 1, 1, 0, 0, 255, 4, 16) : r \in PlainRows}
  <2>1. PICK r \in PlainRows : c = Coeff(r[1], r[2], r[3], r[4], 1, 1, 0, 0, 255, 4, 16)
    BY <1>2
  <2>2. r[1] = 256 * rate /\ r[2] = rate
    BY <1>1, <2>1 DEF Coeff
  <2>3. r[3] = 1 /\ r[4] = 1
    BY <2>2, PlainRates
  <2> QED
    BY <2>1, <2>2, <2>3
<1>3. CASE c \notin {Coeff(r[1], r[2], r[3], r[4], 1, 1, 0, 0, 255, 4, 16) : r \in PlainRows}
  BY <1>1, <1>3 DEF coeff_div, Coeff
<1> QED
  BY <1>2, <1>3

LEMMA ClockFieldsAre ==
  ASSUME NEW rate, NEW c \in get_coeff(256 * rate, rate)
  PROVE  /\ Len(ClockFields(c)) = 7 /\ DOMAIN ClockFields(c) = 1..7
         /\ ClockFields(c)[1] = <<"REG02", \hF8, 0>>
         /\ ClockFields(c)[2] = <<"REG05", \hFF, 0>>
         /\ ClockFields(c)[3] = <<"REG03", \h7F, 16>>
         /\ ClockFields(c)[4] = <<"REG04", \h7F, 16>>
         /\ ClockFields(c)[5] = <<"REG07", \h3F, 0>>
         /\ ClockFields(c)[6] = <<"REG08", \hFF, 255>>
         /\ ClockFields(c)[7] = <<"REG06", \h1F, 3>>
<1>1. /\ c.prediv = 1 /\ c.premulti = 1 /\ c.adcdiv = 1 /\ c.dacdiv = 1 /\ c.fsmode = 0
      /\ c.adcosr = 16 /\ c.dacosr = 16 /\ c.lrck_h = 0 /\ c.lrck_l = 255 /\ c.bclkdiv = 4
  BY PlainClock DEF Coeff
<1>2. PICK fields : fields = ClockFields(c)
  OBVIOUS
<1>3. fields = <<<<"REG02", \hF8, 0>>, <<"REG05", \hFF, 0>>, <<"REG03", \h7F, 16>>,
                 <<"REG04", \h7F, 16>>, <<"REG07", \h3F, 0>>, <<"REG08", \hFF, 255>>,
                 <<"REG06", \h1F, 3>>>>
  BY <1>1, <1>2 DEF ClockFields, MultiBits
<1> QED
  BY <1>2, <1>3

(* What there is to write for a rate with a row, and for one without.      *)
IsClockWrite(a, reg, keep, set) ==
  a \in Accesses /\ a.reg = reg /\ a.keep = Bits(keep) /\ a.set = Bits(set)

LEMMA ClockWrites ==
  ASSUME NEW rate
  PROVE  LET p == es8311_pcm_hw_params(rate)
         IN  IF get_coeff(256 * rate, rate) = {} THEN p = <<>>
             ELSE /\ p \in Seq(Accesses) /\ DOMAIN p = 1..7
                  /\ IsClockWrite(p[1], "REG02", \hFF - \hF8, 0)
                  /\ IsClockWrite(p[2], "REG05", \hFF - \hFF, 0)
                  /\ IsClockWrite(p[3], "REG03", \hFF - \h7F, 16)
                  /\ IsClockWrite(p[4], "REG04", \hFF - \h7F, 16)
                  /\ IsClockWrite(p[5], "REG07", \hFF - \h3F, 0)
                  /\ IsClockWrite(p[6], "REG08", \hFF - \hFF, 255)
                  /\ IsClockWrite(p[7], "REG06", \hFF - \h1F, 3)
<1> DEFINE p == es8311_pcm_hw_params(rate)
<1>1. CASE get_coeff(256 * rate, rate) = {}
  BY <1>1 DEF es8311_pcm_hw_params
<1>2. CASE get_coeff(256 * rate, rate) # {}
  <2>1. PICK c : c = CHOOSE x \in get_coeff(256 * rate, rate) : TRUE
    OBVIOUS
  <2>2. c \in get_coeff(256 * rate, rate)
    BY <1>2, <2>1
  <2>4. PICK fields : fields = ClockFields(c)
    OBVIOUS
  <2>5. /\ Len(fields) = 7 /\ DOMAIN fields = 1..7
        /\ fields[1] = <<"REG02", \hF8, 0>> /\ fields[2] = <<"REG05", \hFF, 0>>
        /\ fields[3] = <<"REG03", \h7F, 16>> /\ fields[4] = <<"REG04", \h7F, 16>>
        /\ fields[5] = <<"REG07", \h3F, 0>> /\ fields[6] = <<"REG08", \hFF, 255>>
        /\ fields[7] = <<"REG06", \h1F, 3>>
    BY <2>2, <2>4, ClockFieldsAre
  <2>6. p = [i \in DOMAIN fields |-> Update(fields[i][1], \hFF - fields[i][2], fields[i][3])]
    BY <1>2, <2>1, <2>4 DEF es8311_pcm_hw_params
  <2>7. DOMAIN p = 1..7 /\ \A i \in 1..7 : p[i] = Update(fields[i][1], \hFF - fields[i][2], fields[i][3])
    BY <2>5, <2>6
  <2> HIDE DEF p
  <2>8. {"REG02", "REG05", "REG03", "REG04", "REG07", "REG08", "REG06"} \subseteq Registers
    BY DEF Registers, Es8311Regs
  <2>9. \A reg \in Registers : \A keep, value : IsClockWrite(Update(reg, keep, value), reg, keep, value)
    BY AccessType DEF IsClockWrite, Update
  <2>10. /\ IsClockWrite(p[1], "REG02", \hFF - \hF8, 0)
         /\ IsClockWrite(p[2], "REG05", \hFF - \hFF, 0)
         /\ IsClockWrite(p[3], "REG03", \hFF - \h7F, 16)
         /\ IsClockWrite(p[4], "REG04", \hFF - \h7F, 16)
         /\ IsClockWrite(p[5], "REG07", \hFF - \h3F, 0)
         /\ IsClockWrite(p[6], "REG08", \hFF - \hFF, 255)
         /\ IsClockWrite(p[7], "REG06", \hFF - \h1F, 3)
    BY <2>5, <2>7, <2>8, <2>9
  <2>11. p \in Seq(Accesses)
    <3>1. \A i \in 1..7 : p[i] \in Accesses
      BY <2>10 DEF IsClockWrite
    <3>2. p = [i \in 1..7 |-> p[i]]
      BY <2>5, <2>6 DEF p
    <3> QED
      BY <3>1, <3>2
  <2> QED
    BY <1>2, <2>7, <2>10, <2>11 DEF p
<1> QED
  BY <1>1, <1>2

LEMMA AskClockIs ==
  ASSUME NEW rate, NEW f \in DOMAIN AskClock(rate)
  PROVE  Clocked(f, AskClock(rate)[f]) /\ get_coeff(256 * rate, rate) # {}
<1>1. PICK S : S = ClockValues(rate)
  OBVIOUS
<1>2. /\ f \in {<<c[1], c[2]>> : c \in S}
      /\ AskClock(rate)[f] = Bits((CHOOSE c \in S : <<c[1], c[2]>> = f)[3])
  BY <1>1 DEF AskClock
<1>3. PICK e \in S : f = <<e[1], e[2]>>
  BY <1>2
<1>4. PICK d : d = CHOOSE c \in S : <<c[1], c[2]>> = f
  OBVIOUS
<1>5. d \in S /\ <<d[1], d[2]>> = f
  BY <1>3, <1>4
<1>6. AskClock(rate)[f] = Bits(d[3])
  BY <1>2, <1>4
<1>7. PICK x \in get_coeff(256 * rate, rate), i \in 1..7 : d = ClockFields(x)[i]
  BY <1>1, <1>5 DEF ClockValues
<1>8. \/ d = <<"REG02", \hF8, 0>> \/ d = <<"REG05", \hFF, 0>> \/ d = <<"REG03", \h7F, 16>>
      \/ d = <<"REG04", \h7F, 16>> \/ d = <<"REG07", \h3F, 0>> \/ d = <<"REG08", \hFF, 255>>
      \/ d = <<"REG06", \h1F, 3>>
  <2>1. i = 1 \/ i = 2 \/ i = 3 \/ i = 4 \/ i = 5 \/ i = 6 \/ i = 7
    BY <1>7
  <2> QED
    BY <1>7, <2>1, ClockFieldsAre
<1>9. Clocked(f, Bits(d[3]))
  BY <1>5, <1>8 DEF Clocked
<1> QED
  BY <1>6, <1>7, <1>9

(* Accesses that keep all that is watched.                                 *)
Kept(a) == \A f, v : Watched("es8311", f, v) => Leaves(a, f) \/ Makes(a, f, v)
KeptAccesses == {a \in Accesses : Kept(a)}

LEMMA KeptPrograms ==
  ASSUME NEW p \in Seq(KeptAccesses)
  PROVE  p \in Seq(Accesses) /\ \A f, v : Watched("es8311", f, v) => Keeps(p, f, v)
<1>1. p \in Seq(Accesses) /\ \A i \in DOMAIN p : p[i] \in KeptAccesses
  <2>1. KeptAccesses \subseteq Accesses
    BY DEF KeptAccesses
  <2>2. p \in [1..Len(p) -> KeptAccesses] /\ Len(p) \in Nat
    OBVIOUS
  <2>3. p \in [1..Len(p) -> Accesses] /\ \A i \in DOMAIN p : p[i] \in KeptAccesses
    BY <2>1, <2>2
  <2>4. p \in Seq(Accesses)
    BY <2>2, <2>3
  <2> QED
    BY <2>3, <2>4
<1>2. \A i \in DOMAIN p : Kept(p[i])
  BY <1>1 DEF KeptAccesses
<1> QED
  BY <1>1, <1>2, Zenon DEF Kept, Keeps

LEMMA ElsewhereKept == \A a : Elsewhere(a) => a \in KeptAccesses
BY WatchedIs DEF Elsewhere, KeptAccesses, Kept, Leaves

(* The only watched field of a clock register.                             *)
LEMMA ClockedAlone ==
  ASSUME NEW a \in Accesses, NEW mask, NEW v, Clocked(<<a.reg, mask>>, v),
         a.keep \cap Bits(mask) = {}, a.set \cap Bits(mask) = v
  PROVE  a \in KeptAccesses /\ Makes(a, <<a.reg, mask>>, v)
<1>1. Makes(a, <<a.reg, mask>>, v)
  BY DEF Makes
<1>2. ASSUME NEW f, NEW w, Watched("es8311", f, w) PROVE Leaves(a, f) \/ Makes(a, f, w)
  <2>1. CASE f[1] # a.reg
    BY <2>1 DEF Leaves
  <2>2. CASE f[1] = a.reg
    <3>1. f = <<a.reg, mask>> /\ w = v
      BY <1>2, <2>2 DEF Watched, Es8311Fields, Clocked
    <3> QED
      BY <1>1, <3>1
  <2> QED
    BY <2>1, <2>2
<1> QED
  BY <1>1, <1>2 DEF KeptAccesses, Kept

LEMMA ClockWriteKept ==
  ASSUME NEW a, NEW keep
  PROVE  /\ IsClockWrite(a, "REG02", keep, 0) /\ keep \in {\hFF - \hF8, 0} =>
              a \in KeptAccesses /\ Makes(a, <<"REG02", \hF8>>, Bits(0))
         /\ IsClockWrite(a, "REG05", keep, 0) /\ keep \in {\hFF - \hFF, 0} =>
              a \in KeptAccesses /\ Makes(a, <<"REG05", \hFF>>, Bits(0))
         /\ IsClockWrite(a, "REG03", keep, 16) /\ keep \in {\hFF - \h7F, 0} =>
              a \in KeptAccesses /\ Makes(a, <<"REG03", \h7F>>, Bits(16))
         /\ IsClockWrite(a, "REG04", keep, 16) /\ keep \in {\hFF - \h7F, 0} =>
              a \in KeptAccesses /\ Makes(a, <<"REG04", \h7F>>, Bits(16))
         /\ IsClockWrite(a, "REG07", keep, 0) /\ keep = \hFF - \h3F =>
              a \in KeptAccesses /\ Makes(a, <<"REG07", \h3F>>, Bits(0))
         /\ IsClockWrite(a, "REG08", keep, 255) /\ keep = \hFF - \hFF =>
              a \in KeptAccesses /\ Makes(a, <<"REG08", \hFF>>, Bits(255))
         /\ IsClockWrite(a, "REG06", keep, 3) /\ keep = \hFF - \h1F =>
              a \in KeptAccesses /\ Makes(a, <<"REG06", \h1F>>, Bits(3))
<1>0. Bits(3) = 0..1
  BY Es8311Masks
<1>1. ASSUME IsClockWrite(a, "REG02", keep, 0), keep \in {\hFF - \hF8, 0}
      PROVE  a \in KeptAccesses /\ Makes(a, <<"REG02", \hF8>>, Bits(0))
  <2>1. a.keep \cap Bits(\hF8) = {} /\ a.set \cap Bits(\hF8) = Bits(0)
    BY <1>1, Es8311Masks, Es8311Values DEF IsClockWrite
  <2>2. a \in Accesses /\ a.reg = "REG02" /\ Clocked(<<a.reg, \hF8>>, Bits(0))
    BY <1>1 DEF IsClockWrite, Clocked
  <2> QED
    BY <2>1, <2>2, ClockedAlone
<1>2. ASSUME IsClockWrite(a, "REG05", keep, 0), keep \in {\hFF - \hFF, 0}
      PROVE  a \in KeptAccesses /\ Makes(a, <<"REG05", \hFF>>, Bits(0))
  <2>1. a.keep \cap Bits(\hFF) = {} /\ a.set \cap Bits(\hFF) = Bits(0)
    BY <1>2, Es8311Masks, Es8311Values DEF IsClockWrite
  <2>2. a \in Accesses /\ a.reg = "REG05" /\ Clocked(<<a.reg, \hFF>>, Bits(0))
    BY <1>2 DEF IsClockWrite, Clocked
  <2> QED
    BY <2>1, <2>2, ClockedAlone
<1>3. ASSUME IsClockWrite(a, "REG03", keep, 16), keep \in {\hFF - \h7F, 0}
      PROVE  a \in KeptAccesses /\ Makes(a, <<"REG03", \h7F>>, Bits(16))
  <2>1. a.keep \cap Bits(\h7F) = {} /\ a.set \cap Bits(\h7F) = Bits(16)
    BY <1>3, Es8311Masks, Es8311Values DEF IsClockWrite
  <2>2. a \in Accesses /\ a.reg = "REG03" /\ Clocked(<<a.reg, \h7F>>, Bits(16))
    BY <1>3 DEF IsClockWrite, Clocked
  <2> QED
    BY <2>1, <2>2, ClockedAlone
<1>4. ASSUME IsClockWrite(a, "REG04", keep, 16), keep \in {\hFF - \h7F, 0}
      PROVE  a \in KeptAccesses /\ Makes(a, <<"REG04", \h7F>>, Bits(16))
  <2>1. a.keep \cap Bits(\h7F) = {} /\ a.set \cap Bits(\h7F) = Bits(16)
    BY <1>4, Es8311Masks, Es8311Values DEF IsClockWrite
  <2>2. a \in Accesses /\ a.reg = "REG04" /\ Clocked(<<a.reg, \h7F>>, Bits(16))
    BY <1>4 DEF IsClockWrite, Clocked
  <2> QED
    BY <2>1, <2>2, ClockedAlone
<1>5. ASSUME IsClockWrite(a, "REG07", keep, 0), keep = \hFF - \h3F
      PROVE  a \in KeptAccesses /\ Makes(a, <<"REG07", \h3F>>, Bits(0))
  <2>1. a.keep \cap Bits(\h3F) = {} /\ a.set \cap Bits(\h3F) = Bits(0)
    BY <1>5, Es8311Masks, Es8311Values DEF IsClockWrite
  <2>2. a \in Accesses /\ a.reg = "REG07" /\ Clocked(<<a.reg, \h3F>>, Bits(0))
    BY <1>5 DEF IsClockWrite, Clocked
  <2> QED
    BY <2>1, <2>2, ClockedAlone
<1>6. ASSUME IsClockWrite(a, "REG08", keep, 255), keep = \hFF - \hFF
      PROVE  a \in KeptAccesses /\ Makes(a, <<"REG08", \hFF>>, Bits(255))
  <2>1. a.keep \cap Bits(\hFF) = {} /\ a.set \cap Bits(\hFF) = Bits(255)
    BY <1>6, Es8311Masks, Es8311Values DEF IsClockWrite
  <2>2. a \in Accesses /\ a.reg = "REG08" /\ Clocked(<<a.reg, \hFF>>, Bits(255))
    BY <1>6 DEF IsClockWrite, Clocked
  <2> QED
    BY <2>1, <2>2, ClockedAlone
<1>7. ASSUME IsClockWrite(a, "REG06", keep, 3), keep = \hFF - \h1F
      PROVE  a \in KeptAccesses /\ Makes(a, <<"REG06", \h1F>>, Bits(3))
  <2>1. a.keep \cap Bits(\h1F) = {} /\ a.set \cap Bits(\h1F) = Bits(3)
    BY <1>7, <1>0, Es8311Masks, Es8311Values DEF IsClockWrite
  <2>2. a \in Accesses /\ a.reg = "REG06" /\ Clocked(<<a.reg, \h1F>>, Bits(3))
    BY <1>7 DEF IsClockWrite, Clocked
  <2> QED
    BY <2>1, <2>2, ClockedAlone
<1> QED
  BY <1>1, <1>2, <1>3, <1>4, <1>5, <1>6, <1>7

(* The setting of the clocks: nothing, or what makes every clock field.    *)
LEMMA ClockProgram ==
  ASSUME NEW rate
  PROVE  /\ es8311_pcm_hw_params(rate) \in Seq(KeptAccesses)
         /\ get_coeff(256 * rate, rate) # {} =>
              \A f, v : Clocked(f, v) => Settles(es8311_pcm_hw_params(rate), f, v)
<1>1. PICK p, c : p = es8311_pcm_hw_params(rate) /\ c = get_coeff(256 * rate, rate)
  OBVIOUS
<1>2. CASE c = {}
  <2>1. p = <<>>
    BY <1>1, <1>2, ClockWrites
  <2>2. p \in Seq(KeptAccesses)
    BY <2>1
  <2> QED
    BY <1>1, <1>2, <2>2
<1>3. CASE c # {}
  <2>1. /\ p \in Seq(Accesses) /\ DOMAIN p = 1..7
        /\ IsClockWrite(p[1], "REG02", \hFF - \hF8, 0)
        /\ IsClockWrite(p[2], "REG05", \hFF - \hFF, 0)
        /\ IsClockWrite(p[3], "REG03", \hFF - \h7F, 16)
        /\ IsClockWrite(p[4], "REG04", \hFF - \h7F, 16)
        /\ IsClockWrite(p[5], "REG07", \hFF - \h3F, 0)
        /\ IsClockWrite(p[6], "REG08", \hFF - \hFF, 255)
        /\ IsClockWrite(p[7], "REG06", \hFF - \h1F, 3)
    BY <1>1, <1>3, ClockWrites
  <2>2. p[1] \in KeptAccesses /\ Makes(p[1], <<"REG02", \hF8>>, Bits(0))
    BY <2>1, ClockWriteKept
  <2>3. p[2] \in KeptAccesses /\ Makes(p[2], <<"REG05", \hFF>>, Bits(0))
    BY <2>1, ClockWriteKept, ZenonT(60)
  <2>4. p[3] \in KeptAccesses /\ Makes(p[3], <<"REG03", \h7F>>, Bits(16))
    BY <2>1, ClockWriteKept
  <2>5. p[4] \in KeptAccesses /\ Makes(p[4], <<"REG04", \h7F>>, Bits(16))
    BY <2>1, ClockWriteKept
  <2>6. p[5] \in KeptAccesses /\ Makes(p[5], <<"REG07", \h3F>>, Bits(0))
    BY <2>1, ClockWriteKept, ZenonT(60)
  <2>7. p[6] \in KeptAccesses /\ Makes(p[6], <<"REG08", \hFF>>, Bits(255))
    BY <2>1, ClockWriteKept, ZenonT(60)
  <2>8. p[7] \in KeptAccesses /\ Makes(p[7], <<"REG06", \h1F>>, Bits(3))
    BY <2>1, ClockWriteKept, ZenonT(60)
  <2>9. p \in Seq(KeptAccesses)
    <3>1. \A i \in 1..7 : p[i] \in KeptAccesses
      BY <2>2, <2>3, <2>4, <2>5, <2>6, <2>7, <2>8
    <3>2. Len(p) \in Nat /\ p \in [1..Len(p) -> Accesses] /\ Len(p) = 7
      <4>0. p \in Seq(Accesses)
        BY <2>1
      <4>1. Len(p) \in Nat /\ p \in [1..Len(p) -> Accesses] /\ DOMAIN p = 1..Len(p)
        BY ONLY <4>0
      <4>2. 1..Len(p) = 1..7
        BY <2>1, <4>1
      <4> QED
        BY ONLY <4>1, <4>2
    <3>3. Len(p) \in Nat /\ p \in [1..Len(p) -> KeptAccesses]
      BY ONLY <3>1, <3>2
    <3> QED
      BY ONLY <3>3
  <2>10. ASSUME NEW f, NEW v, Clocked(f, v)
         PROVE  Settles(p, f, v)
    <3>0. \/ Makes(p[1], f, v) \/ Makes(p[2], f, v) \/ Makes(p[3], f, v)
          \/ Makes(p[4], f, v) \/ Makes(p[5], f, v) \/ Makes(p[6], f, v)
          \/ Makes(p[7], f, v)
      <4>1. CASE f = <<"REG02", \hF8>> /\ v = Bits(0)
        BY ONLY <2>2, <4>1
      <4>2. CASE f = <<"REG05", \hFF>> /\ v = Bits(0)
        BY ONLY <2>3, <4>2
      <4>3. CASE f = <<"REG03", \h7F>> /\ v = Bits(16)
        BY ONLY <2>4, <4>3
      <4>4. CASE f = <<"REG04", \h7F>> /\ v = Bits(16)
        BY ONLY <2>5, <4>4
      <4>5. CASE f = <<"REG07", \h3F>> /\ v = Bits(0)
        BY ONLY <2>6, <4>5
      <4>6. CASE f = <<"REG08", \hFF>> /\ v = Bits(255)
        BY ONLY <2>7, <4>6
      <4>7. CASE f = <<"REG06", \h1F>> /\ v = Bits(3)
        BY ONLY <2>8, <4>7
      <4> QED
        BY <2>10, <4>1, <4>2, <4>3, <4>4, <4>5, <4>6, <4>7, Zenon DEF Clocked
    <3>1. PICK k \in DOMAIN p : Makes(p[k], f, v)
      <4>1. \A i \in {1, 2, 3, 4, 5, 6, 7} : i \in DOMAIN p
        BY <2>1
      <4> QED
        BY <3>0, <4>1
    <3>2. Keeps(p, f, v)
      BY <2>9, <2>10, KeptPrograms DEF Watched
    <3> QED
      BY <2>1, <3>1, <3>2, KeptAndMade
  <2> QED
    BY <1>1, <2>9, <2>10
<1> QED
  BY <1>2, <1>3

LEMMA InitWrites ==
  /\ \A reg, value : reg \in Es8311Regs \ WatchedRegs => Write(reg, value) \in KeptAccesses
  /\ \A on, reg, bit : reg \in Es8311Regs \ WatchedRegs => Option(on, reg, bit) \in KeptAccesses
  /\ Write("REG02", 0) \in KeptAccesses /\ Write("REG05", 0) \in KeptAccesses
  /\ Write("REG03", \h10) \in KeptAccesses /\ Write("REG04", \h10) \in KeptAccesses
  /\ Option(FALSE, "REG06", \h20) \in KeptAccesses
<1>1. ASSUME NEW reg, NEW value, reg \in Es8311Regs \ WatchedRegs
      PROVE  Write(reg, value) \in KeptAccesses
  BY <1>1, OtherRegs, ElsewhereKept DEF Registers
<1>2. ASSUME NEW on, NEW reg, NEW bit, reg \in Es8311Regs \ WatchedRegs
      PROVE  Option(on, reg, bit) \in KeptAccesses
  BY <1>2, OtherRegs, ElsewhereKept DEF Registers, Option
<1>3. {"REG02", "REG03", "REG04", "REG05", "REG06"} \subseteq Registers
  BY DEF Registers, Es8311Regs
<1>4. \A reg \in {"REG02", "REG03", "REG04", "REG05"} : \A value :
        IsClockWrite(Write(reg, value), reg, 0, value)
  BY <1>3, AccessType, Es8311Values DEF IsClockWrite, Write
<1>5. Write("REG02", 0) \in KeptAccesses /\ Write("REG05", 0) \in KeptAccesses
  BY <1>4, ClockWriteKept
<1>6. Write("REG03", \h10) \in KeptAccesses /\ Write("REG04", \h10) \in KeptAccesses
  BY <1>4, ClockWriteKept
<1>7. Option(FALSE, "REG06", \h20) \in KeptAccesses
  <2>1. PICK a : a = Option(FALSE, "REG06", \h20)
    OBVIOUS
  <2>2. a = Update("REG06", \hFF - \h20, 0)
    BY <2>1 DEF Option
  <2>3. a \in Accesses /\ a.reg = "REG06" /\ a.keep = Bits(\hFF - \h20) /\ a.set = Bits(0)
    BY <1>3, <2>2, AccessType DEF Update
  <2>4. Bits(\h1F) \subseteq a.keep /\ a.set = {}
    BY <2>3, Es8311Masks, Es8311Values
  <2>5. ASSUME NEW f, NEW v, Watched("es8311", f, v) PROVE Leaves(a, f)
    <3>1. f[1] # "REG06" \/ f = <<"REG06", \h1F>>
      BY <2>5 DEF Watched, Es8311Fields, Clocked
    <3> QED
      BY <2>3, <2>4, <3>1 DEF Leaves
  <2> QED
    BY <2>1, <2>3, <2>5 DEF KeptAccesses, Kept
<1> QED
  BY <1>1, <1>2, <1>5, <1>6, <1>7

LEMMA Sixteen ==
  ASSUME NEW S, NEW a1 \in S, NEW a2 \in S, NEW a3 \in S, NEW a4 \in S, NEW a5 \in S,
         NEW a6 \in S, NEW a7 \in S, NEW a8 \in S, NEW a9 \in S, NEW a10 \in S,
         NEW a11 \in S, NEW a12 \in S, NEW a13 \in S, NEW a14 \in S, NEW a15 \in S,
         NEW a16 \in S
  PROVE  <<a1, a2, a3, a4, a5, a6, a7, a8, a9, a10, a11, a12, a13, a14, a15, a16>> \in Seq(S)
OBVIOUS

LEMMA Twelve ==
  ASSUME NEW S, NEW a1 \in S, NEW a2 \in S, NEW a3 \in S, NEW a4 \in S, NEW a5 \in S,
         NEW a6 \in S, NEW a7 \in S, NEW a8 \in S, NEW a9 \in S, NEW a10 \in S,
         NEW a11 \in S, NEW a12 \in S
  PROVE  <<a1, a2, a3, a4, a5, a6, a7, a8, a9, a10, a11, a12>> \in Seq(S)
OBVIOUS

LEMMA KeptJoin ==
  ASSUME NEW S, NEW p \in Seq(S), NEW q \in Seq(S)
  PROVE  p \o q \in Seq(S)
OBVIOUS

LEMMA InitProgram ==
  ASSUME NEW rate
  PROVE  /\ es8311_init(rate) \in Seq(KeptAccesses)
         /\ get_coeff(256 * rate, rate) # {} =>
              \A f, v : Clocked(f, v) => Settles(es8311_init(rate), f, v)
<1>1. PICK p, q, h, S, T :
        /\ p = <<Write("REG45", 0), Write("REG01", \h30), Write("REG02", 0),
                 Write("REG03", \h10), Write("REG16", \h24), Write("REG04", \h10),
                 Write("REG05", 0), Write("REG0B", 0), Write("REG0C", 0),
                 Write("REG10", \h1F), Write("REG11", \h7F), Write("REG00", \h80),
                 Option(FALSE, "REG00", \h40), Write("REG0D", 1), Write("REG01", \h3F),
                 Option(FALSE, "REG01", \h80)>>
        /\ q = <<Option(FALSE, "REG01", \h40), Option(FALSE, "REG06", \h20),
                 Write("REG14", \h1A), Option(FALSE, "REG14", \h40),
                 Write("REG13", \h10), Write("REG0E", 2), Write("REG15", \h40),
                 Write("REG1B", \h0A), Write("REG1C", \h6A), Write("REG37", \h48),
                 Write("REG44", \h08), Write("REG32", \hBF)>>
        /\ h = es8311_pcm_hw_params(rate) /\ S = KeptAccesses
        /\ T = Es8311Regs \ WatchedRegs
  OBVIOUS
<1>2. {"REG45", "REG01", "REG16", "REG0B", "REG0C", "REG10", "REG11", "REG00", "REG0D",
       "REG14", "REG13", "REG0E", "REG15", "REG1B", "REG1C", "REG37", "REG44", "REG32"}
        \subseteq T
  BY <1>1 DEF Es8311Regs, WatchedRegs
<1>3. /\ \A value : \A reg \in T : Write(reg, value) \in S
      /\ \A on, bit : \A reg \in T : Option(on, reg, bit) \in S
  BY <1>1, InitWrites
<1>4. p \in Seq(S)
  <2>1. PICK a1, a2, a3, a4, a5, a6, a7, a8, a9, a10, a11, a12, a13, a14, a15, a16 :
          /\ a1 = Write("REG45", 0) /\ a2 = Write("REG01", \h30) /\ a3 = Write("REG02", 0)
          /\ a4 = Write("REG03", \h10) /\ a5 = Write("REG16", \h24)
          /\ a6 = Write("REG04", \h10) /\ a7 = Write("REG05", 0) /\ a8 = Write("REG0B", 0)
          /\ a9 = Write("REG0C", 0) /\ a10 = Write("REG10", \h1F)
          /\ a11 = Write("REG11", \h7F) /\ a12 = Write("REG00", \h80)
          /\ a13 = Option(FALSE, "REG00", \h40) /\ a14 = Write("REG0D", 1)
          /\ a15 = Write("REG01", \h3F) /\ a16 = Option(FALSE, "REG01", \h80)
    OBVIOUS
  <2>2. /\ a1 \in S /\ a2 \in S /\ a3 \in S /\ a4 \in S /\ a5 \in S /\ a6 \in S /\ a7 \in S
        /\ a8 \in S /\ a9 \in S /\ a10 \in S /\ a11 \in S /\ a12 \in S /\ a13 \in S
        /\ a14 \in S /\ a15 \in S /\ a16 \in S
    BY <1>1, <1>2, <1>3, <2>1, InitWrites, ZenonT(60)
  <2>3. p = <<a1, a2, a3, a4, a5, a6, a7, a8, a9, a10, a11, a12, a13, a14, a15, a16>>
    BY <1>1, <2>1
  <2> QED
    BY ONLY <2>2, <2>3, Sixteen
<1>5. q \in Seq(S)
  <2>1. PICK a1, a2, a3, a4, a5, a6, a7, a8, a9, a10, a11, a12 :
          /\ a1 = Option(FALSE, "REG01", \h40) /\ a2 = Option(FALSE, "REG06", \h20)
          /\ a3 = Write("REG14", \h1A) /\ a4 = Option(FALSE, "REG14", \h40)
          /\ a5 = Write("REG13", \h10) /\ a6 = Write("REG0E", 2)
          /\ a7 = Write("REG15", \h40) /\ a8 = Write("REG1B", \h0A)
          /\ a9 = Write("REG1C", \h6A) /\ a10 = Write("REG37", \h48)
          /\ a11 = Write("REG44", \h08) /\ a12 = Write("REG32", \hBF)
    OBVIOUS
  <2>2. /\ a1 \in S /\ a2 \in S /\ a3 \in S /\ a4 \in S /\ a5 \in S /\ a6 \in S /\ a7 \in S
        /\ a8 \in S /\ a9 \in S /\ a10 \in S /\ a11 \in S /\ a12 \in S
    BY <1>1, <1>2, <1>3, <2>1, InitWrites, ZenonT(60)
  <2>3. q = <<a1, a2, a3, a4, a5, a6, a7, a8, a9, a10, a11, a12>>
    BY <1>1, <2>1
  <2> QED
    BY ONLY <2>2, <2>3, Twelve
<1>6. h \in Seq(S) /\ S \subseteq Accesses
  BY <1>1, ClockProgram DEF KeptAccesses
<1>7. es8311_init(rate) = (p \o h) \o q
  BY <1>1 DEF es8311_init, priv
<1>8. p \o h \in Seq(S) /\ (p \o h) \o q \in Seq(S)
  BY <1>4, <1>5, <1>6, KeptJoin
<1>9. ASSUME get_coeff(256 * rate, rate) # {}, NEW f, NEW v, Clocked(f, v)
      PROVE  Settles((p \o h) \o q, f, v)
  <2>1. Settles(h, f, v)
    BY <1>1, <1>9, ClockProgram
  <2>2. /\ p \in Seq(Accesses) /\ h \in Seq(Accesses) /\ q \in Seq(Accesses)
        /\ p \o h \in Seq(Accesses) /\ Keeps(q, f, v)
    <3>1. /\ p \in Seq(KeptAccesses) /\ h \in Seq(KeptAccesses) /\ q \in Seq(KeptAccesses)
          /\ p \o h \in Seq(KeptAccesses)
      BY <1>1, <1>4, <1>5, <1>6, <1>8, ZenonT(60)
    <3>2. Watched("es8311", f, v)
      BY <1>9 DEF Watched
    <3> QED
      BY ONLY <3>1, <3>2, KeptPrograms
  <2>3. Settles(p \o h, f, v)
    BY <2>1, <2>2, KeepsJoin
  <2> QED
    BY <2>2, <2>3, KeepsJoin
<1>10. es8311_init(rate) \in Seq(KeptAccesses)
  <2>1. S = KeptAccesses
    BY ONLY <1>1
  <2> QED
    BY ONLY <2>1, <1>7, <1>8
<1>11. ASSUME get_coeff(256 * rate, rate) # {}, NEW f, NEW v, Clocked(f, v)
       PROVE  Settles(es8311_init(rate), f, v)
  BY ONLY <1>7, <1>9, <1>11
<1> QED
  BY ONLY <1>10, <1>11

LEMMA InitIsGood ==
  ASSUME codec = "es8311", NEW rate
  PROVE  GoodCall(es8311_init(rate), Sets("clock", AskClock(rate)), FALSE)
<1>1. PICK p, g : p = es8311_init(rate) /\ g = Sets("clock", AskClock(rate))
  OBVIOUS
<1>2. /\ p \in Seq(Accesses)
      /\ \A f, v : Watched("es8311", f, v) => Keeps(p, f, v)
  BY <1>1, InitProgram, KeptPrograms
<1>3. ASSUME NEW f \in DOMAIN g
      PROVE  Watched("es8311", f, g[f]) /\ Settles(p, f, g[f])
  <2>1. g = AskNothing \/ g = AskClock(rate)
    BY <1>1 DEF Sets
  <2>2. CASE g = AskNothing
    BY <1>3, <2>2, AskNothingIs
  <2>3. CASE g = AskClock(rate)
    <3>1. Clocked(f, g[f]) /\ get_coeff(256 * rate, rate) # {}
      BY <1>3, <2>3, AskClockIs
    <3>2. Settles(p, f, g[f])
      BY <1>1, <3>1, InitProgram
    <3> QED
      BY <3>1, <3>2 DEF Watched
  <2> QED
    BY <2>1, <2>2, <2>3
<1>4. GoodCall(p, g, FALSE)
  BY <1>2, <1>3 DEF GoodCall
<1> QED
  BY <1>1, <1>4

LEMMA ConstructIsGood ==
  ASSUME codec = "es8311"
  PROVE  GoodCall(Construct, AskNothing, TRUE) /\ GoodCall(Uninit, AskNothing, TRUE)
<1>0. PICK a, b, c : a = es8311_init(44100) /\ b = SetBitsPerSample("DAC", 3)
                      /\ c = ConfigFmt("DAC", "NORMAL")
  OBVIOUS
<1>1. PICK d, e, f : d = SetVoiceVolume(60) /\ e = Start("DAC")
                     /\ f = <<Write("REG01", \hBF), Write("REG02", \h18)>>
  OBVIOUS
<1>2. a \in Seq(Accesses) /\ b \in Seq(Accesses) /\ c \in Seq(Accesses)
  <2>1. a \in Seq(Accesses)
    BY <1>0, InitProgram, KeptPrograms
  <2>2. b \in Seq(Accesses)
    BY <1>0, SetBitsIsGood DEF GoodCall
  <2>3. c \in Seq(Accesses)
    BY <1>0, ConfigFmtIsGood DEF GoodCall
  <2> QED
    BY <2>1, <2>2, <2>3
<1>3. d \in Seq(Accesses) /\ e \in Seq(Accesses)
  <2>1. AllElsewhere(d) /\ AllElsewhere(e)
    BY <1>1, PowerAndVolumes
  <2> QED
    BY <2>1 DEF AllElsewhere
<1>4. \A reg \in {"REG00", "REG01", "REG02"} : \A value : Write(reg, value) \in Accesses
  <2>1. {"REG00", "REG01", "REG02"} \subseteq Registers
    BY DEF Registers, Es8311Regs
  <2> QED
    BY <2>1, AccessType
<1>5. f \in Seq(Accesses) /\ Uninit \in Seq(Accesses)
  <2>1. PICK x, y, z :
          x = Write("REG01", \hBF) /\ y = Write("REG02", \h18) /\ z = Write("REG00", \h3F)
    OBVIOUS
  <2>2. x \in Accesses /\ y \in Accesses /\ z \in Accesses
    BY <1>4, <2>1
  <2>3. <<x, y>> \in Seq(Accesses) /\ <<z>> \in Seq(Accesses)
    BY ONLY <2>2
  <2>4. f = <<x, y>> /\ Uninit = <<z>>
    BY <1>1, <2>1 DEF Uninit
  <2> QED
    BY <2>3, <2>4
<1>6. PICK S : S = Accesses
  OBVIOUS
<1>7. ((((a \o b) \o c) \o d) \o e) \o f \in Seq(S)
  BY ONLY <1>2, <1>3, <1>5, <1>6, KeptJoin
<1>8. Construct = ((((a \o b) \o c) \o d) \o e) \o f
  BY <1>0, <1>1 DEF Construct
<1>9. Construct \in Seq(Accesses)
  BY <1>6, <1>7, <1>8
<1> QED
  BY <1>5, <1>9, AskNothingIs DEF GoodCall

(* Other calls of the ES8311 undo these.                                   *)
Es8311Watching == {"power", "volume", "gain", "adc"} \subseteq Unwatched

LEMMA UnwatchedIs ==
  ASSUME Es8311Watching, NEW kind \in {"power", "volume", "gain", "adc"}, NEW fields
  PROVE  Sets(kind, fields) = AskNothing
BY DEF Es8311Watching, Sets

LEMMA Es8311Keeps ==
  ASSUME BusInv, codec = "es8311", Es8311Watching, Es8311Call
  PROVE  BusInv'
<1>1. PICK accesses, fields, setup :
        /\ setup \in BOOLEAN /\ GoodCall(accesses, fields, setup)
        /\ Invoke(accesses, fields, setup)
  <2>1. CASE Invoke(Construct, AskNothing, TRUE) \/ Invoke(Uninit, AskNothing, TRUE)
    BY <2>1, ConstructIsGood
  <2>2. CASE \E rate \in Rates :
               Invoke(es8311_init(rate), Sets("clock", AskClock(rate)), FALSE)
    BY <2>2, InitIsGood
  <2>3. CASE \E mode \in Modes, fmt \in {"NORMAL", "LEFT", "DSP"} :
               Invoke(ConfigFmt(mode, fmt),
                      Over(Ask("REG09", 3, FormatBits(fmt)), Ask("REG0A", 3, FormatBits(fmt))),
                      FALSE)
    BY <2>3, ConfigFmtIsGood
  <2>4. CASE \E mode \in Modes, bits \in {0, 3, 4} :
               Invoke(SetBitsPerSample(mode, bits),
                      Over(IF Adc(mode) THEN Ask("REG09", \h1C, bits * 4) ELSE AskNothing,
                           IF Dac(mode) THEN Ask("REG0A", \h1C, bits * 4) ELSE AskNothing),
                      FALSE)
    BY <2>4, SetBitsIsGood
  <2>5. CASE \E mute \in BOOLEAN :
               Invoke(es8311_mute(mute), Ask("REG31", \h60, IF mute THEN \h60 ELSE 0), FALSE)
    BY <2>5, MuteIsGood
  <2>6. ASSUME NEW p, NEW g, AllElsewhere(p), g = AskNothing, Invoke(p, g, FALSE)
        PROVE  \E accesses, fields, setup :
                 /\ setup \in BOOLEAN /\ GoodCall(accesses, fields, setup)
                 /\ Invoke(accesses, fields, setup)
    BY <2>6, ElsewhereIsGood
  <2>7. CASE \E mode \in Modes :
               \/ Invoke(Start(mode),
                         Sets("power", IF Dac(mode) THEN Ask("REG12", 2, 0) ELSE AskNothing), FALSE)
               \/ Invoke(Stop(mode),
                         Sets("power", IF Dac(mode) THEN Ask("REG12", 2, 2) ELSE AskNothing), FALSE)
    <3>1. PICK mode, p, g :
            (p = Start(mode) \/ p = Stop(mode)) /\ Invoke(p, Sets("power", g), FALSE)
      BY <2>7
    <3>2. AllElsewhere(p) /\ Sets("power", g) = AskNothing
      BY <3>1, PowerAndVolumes, UnwatchedIs
    <3> QED
      BY <2>6, <3>1, <3>2
  <2>8. CASE \E volume \in Volumes :
               Invoke(SetVoiceVolume(volume),
                      Sets("volume", Ask("REG32", \hFF, IF volume = 0 THEN 1 ELSE volume)), FALSE)
    BY <2>6, <2>8, PowerAndVolumes, UnwatchedIs, ZenonT(60)
  <2>9. CASE \E gain \in {0, 6, 12} :
               Invoke(SetMicGain(gain), Sets("gain", Ask("REG16", 7, gain \div 6)), FALSE)
    BY <2>6, <2>9, PowerAndVolumes, UnwatchedIs
  <2>10. CASE \E flag \in BOOLEAN : Invoke(GetRef(flag), AskNothing, FALSE)
    BY <2>6, <2>10, PowerAndVolumes
  <2>11. CASE Invoke(SetAdcVolume(\h80), Sets("adc", Ask("REG17", \hFF, \h80)), FALSE)
    BY <2>6, <2>11, PowerAndVolumes, UnwatchedIs, ZenonT(60)
  <2> QED
    BY <2>1, <2>2, <2>3, <2>4, <2>5, <2>7, <2>8, <2>9, <2>10, <2>11 DEF Es8311Call
<1> QED
  BY <1>1, CallBegins

------------------------------------------------------------------------------
(***************************************************************************)
(* The AC101.                                                              *)
(***************************************************************************)
(* A field that is replaced, and leaves the others of its register.        *)
Apart(reg, mask) ==
  /\ <<reg, mask>> \in Ac101Fields /\ reg \in Registers
  /\ Bits(\hFFFF - mask) \cap Bits(mask) = {}
  /\ \A f \in Ac101Fields :
       f[1] = reg /\ f # <<reg, mask>> => Bits(f[2]) \subseteq Bits(\hFFFF - mask)

Fine(accesses, fields) == GoodCall(accesses, fields, FALSE)
Begun(accesses, fields) == Invoke(accesses, fields, FALSE)

LEMMA OneAskIsGood ==
  ASSUME codec = "ac101", NEW a \in Accesses, NEW mask, NEW value,
         <<a.reg, mask>> \in Ac101Fields, Makes(a, <<a.reg, mask>>, Bits(value)),
         \A f \in Ac101Fields : f # <<a.reg, mask>> => Leaves(a, f),
         NEW p, p = <<a>>, NEW g, g = Ask(a.reg, mask, value)
  PROVE  Fine(p, g)
<1>1. PICK x : x = <<a.reg, mask>>
  OBVIOUS
<1>2. DOMAIN g = {x} /\ g[x] = Bits(value)
  BY <1>1, AskIs
<1>3. /\ <<a>> \in Seq(Accesses)
      /\ \A f, v : (Leaves(a, f) \/ Makes(a, f, v) => Keeps(<<a>>, f, v))
      /\ \A f, v : (Makes(a, f, v) => Settles(<<a>>, f, v))
  BY OneAccess
<1>5. ASSUME NEW f \in DOMAIN g
      PROVE  Watched(codec, f, g[f]) /\ Settles(p, f, g[f])
  BY <1>1, <1>2, <1>3, <1>5 DEF Watched
<1>6. ASSUME NEW f, NEW v, Watched(codec, f, v), f \notin DOMAIN g
      PROVE  Keeps(p, f, v)
  BY <1>1, <1>2, <1>3, <1>6 DEF Watched
<1> QED
  BY <1>3, <1>5, <1>6, Zenon DEF GoodCall, Fine

LEMMA ReplaceMakes ==
  ASSUME NEW reg, NEW mask, NEW value, Apart(reg, mask), Bits(value) \subseteq Bits(mask)
  PROVE  /\ Replace(reg, mask, value) \in Accesses /\ Replace(reg, mask, value).reg = reg
         /\ Makes(Replace(reg, mask, value), <<reg, mask>>, Bits(value))
         /\ \A f \in Ac101Fields : f # <<reg, mask>> => Leaves(Replace(reg, mask, value), f)
<1>1. PICK a : a = Replace(reg, mask, value)
  OBVIOUS
<1>2. /\ a \in Accesses /\ a.reg = reg
      /\ a.keep = Bits(\hFFFF - mask) /\ a.set = Bits(value)
  BY <1>1, AccessType DEF Apart, Replace, Update
<1>3. Makes(a, <<reg, mask>>, Bits(value))
  <2>1. a.set \cap Bits(mask) = Bits(value) /\ a.keep \cap Bits(mask) \subseteq Bits(value)
    BY <1>2 DEF Apart
  <2> QED
    BY <1>2, <2>1 DEF Makes
<1>4. ASSUME NEW f \in Ac101Fields, f # <<reg, mask>> PROVE Leaves(a, f)
  <2>1. CASE f[1] = reg
    <3>1. Bits(f[2]) \subseteq a.keep /\ a.set \cap Bits(f[2]) = {}
      BY <1>2, <1>4, <2>1 DEF Apart
    <3> QED
      BY <3>1 DEF Leaves
  <2>2. CASE f[1] # reg
    BY <1>2, <2>2 DEF Leaves
  <2> QED
    BY <2>1, <2>2
<1> QED
  BY <1>1, <1>2, <1>3, <1>4

LEMMA ReplaceIsGood ==
  ASSUME codec = "ac101", NEW reg, NEW mask, NEW value, Apart(reg, mask),
         Bits(value) \subseteq Bits(mask),
         NEW p, p = <<Replace(reg, mask, value)>>, NEW g, g = Ask(reg, mask, value)
  PROVE  Fine(p, g)
<1>1. PICK a : a = Replace(reg, mask, value)
  OBVIOUS
<1>2. /\ a \in Accesses /\ a.reg = reg /\ Makes(a, <<reg, mask>>, Bits(value))
      /\ \A f \in Ac101Fields : f # <<reg, mask>> => Leaves(a, f)
  BY <1>1, ReplaceMakes
<1>3. <<reg, mask>> \in Ac101Fields
  BY DEF Apart
<1>4. p = <<a>> /\ g = Ask(a.reg, mask, value)
  BY <1>1, <1>2
<1> QED
  BY <1>2, <1>3, <1>4, OneAskIsGood

LEMMA AllApart ==
  /\ Apart("SPKOUT_CTRL", SPKOUT_EN) /\ Apart("PLL_CTRL2", \h8000)
  /\ Apart("HPOUT_CTRL", \h3F0) /\ Apart("HPOUT_CTRL", EAROUT_EN)
  /\ Apart("I2S1LCK_CTRL", \h1FC0) /\ Apart("OMIXER_BST1_CTRL", \h1C0)
  /\ Apart("OMIXER_BST1_CTRL", \h38) /\ Apart("OMIXER_BST1_CTRL", 7)
<1>0. {"SPKOUT_CTRL", "PLL_CTRL2", "HPOUT_CTRL", "I2S1LCK_CTRL", "OMIXER_BST1_CTRL"}
        \subseteq Registers
  BY DEF Registers, Ac101Regs
<1>1. /\ Bits(SPKOUT_EN) = {5, 7, 9, 11} /\ Bits(EAROUT_EN) = 11..13
      /\ Bits(\hFFFF - SPKOUT_EN) = {0, 1, 2, 3, 4, 6, 8, 10, 12, 13, 14, 15}
      /\ Bits(\hFFFF - EAROUT_EN) = {0, 1, 2, 3, 4, 5, 6, 7, 8, 9, 10, 14, 15}
  BY Ac101Masks DEF SPKOUT_EN, EAROUT_EN
<1>2. Apart("SPKOUT_CTRL", SPKOUT_EN)
  BY <1>0, <1>1 DEF Apart, Ac101Fields
<1>3. Apart("PLL_CTRL2", \h8000)
  BY <1>0, Ac101Masks DEF Apart, Ac101Fields
<1>4. Apart("HPOUT_CTRL", \h3F0)
  BY <1>0, <1>1, Ac101Masks DEF Apart, Ac101Fields
<1>5. Apart("HPOUT_CTRL", EAROUT_EN)
  BY <1>0, <1>1, Ac101Masks DEF Apart, Ac101Fields
<1>6. Apart("I2S1LCK_CTRL", \h1FC0)
  BY <1>0, Ac101Masks DEF Apart, Ac101Fields
<1>7. Apart("OMIXER_BST1_CTRL", \h1C0)
  BY <1>0, Ac101Masks DEF Apart, Ac101Fields
<1>8. Apart("OMIXER_BST1_CTRL", \h38)
  BY <1>0, Ac101Masks DEF Apart, Ac101Fields
<1>9. Apart("OMIXER_BST1_CTRL", 7)
  BY <1>0, Ac101Masks DEF Apart, Ac101Fields
<1> QED
  BY <1>2, <1>3, <1>4, <1>5, <1>6, <1>7, <1>8, <1>9

LEMMA SpeakerIsGood ==
  ASSUME codec = "ac101", NEW active \in BOOLEAN
  PROVE  Fine(speaker(active),
              Ask("SPKOUT_CTRL", SPKOUT_EN, IF active THEN SPKOUT_EN ELSE 0))
<1>1. PICK r, m, x : r = "SPKOUT_CTRL" /\ m = SPKOUT_EN /\ x = IF active THEN SPKOUT_EN ELSE 0
  OBVIOUS
<1>2. PICK p, g : p = speaker(active) /\ g = Ask("SPKOUT_CTRL", SPKOUT_EN, IF active THEN SPKOUT_EN ELSE 0)
  OBVIOUS
<1>3. Apart(r, m)
  BY <1>1, AllApart
<1>4. Bits(x) \subseteq Bits(m)
  BY <1>1, Es8311Values
<1>5. p = <<Replace(r, m, x)>> /\ g = Ask(r, m, x)
  BY <1>1, <1>2 DEF speaker
<1>6. Fine(p, g)
  BY <1>3, <1>4, <1>5, ReplaceIsGood
<1> QED
  BY ONLY <1>2, <1>6

LEMMA HeadsetIsGood ==
  ASSUME codec = "ac101", NEW active \in BOOLEAN
  PROVE  Fine(headset(active),
              Ask("HPOUT_CTRL", EAROUT_EN, IF active THEN EAROUT_EN ELSE 0))
<1>1. PICK r, m, x : r = "HPOUT_CTRL" /\ m = EAROUT_EN /\ x = IF active THEN EAROUT_EN ELSE 0
  OBVIOUS
<1>2. PICK p, g : p = headset(active) /\ g = Ask("HPOUT_CTRL", EAROUT_EN, IF active THEN EAROUT_EN ELSE 0)
  OBVIOUS
<1>3. Apart(r, m)
  BY <1>1, AllApart
<1>4. Bits(x) \subseteq Bits(m)
  BY <1>1, Es8311Values
<1>5. p = <<Replace(r, m, x)>> /\ g = Ask(r, m, x)
  BY <1>1, <1>2 DEF headset
<1>6. Fine(p, g)
  BY <1>3, <1>4, <1>5, ReplaceIsGood
<1> QED
  BY ONLY <1>2, <1>6

LEMMA PowerIs ==
  ASSUME NEW mode
  PROVE  power(mode) = <<Replace("PLL_CTRL2", \h8000, IF mode = "ON" THEN \h8000 ELSE 0)>>
<1>1. CASE mode = "ON"
  <2>1. PICK a : a = Replace("PLL_CTRL2", \h8000, \h8000)
    OBVIOUS
  <2>2. start("DAC") = (<<>> \o <<>>) \o <<a>>
    BY <2>1 DEF start
  <2>3. (<<>> \o <<>>) \o <<a>> = <<a>>
    OBVIOUS
  <2> QED
    BY <1>1, <2>1, <2>2, <2>3 DEF power
<1>2. CASE mode # "ON"
  BY <1>2 DEF power, stop
<1> QED
  BY <1>1, <1>2

LEMMA PowerIsGood ==
  ASSUME codec = "ac101", NEW mode
  PROVE  Fine(power(mode),
              Ask("PLL_CTRL2", \h8000, IF mode = "ON" THEN \h8000 ELSE 0))
<1>1. PICK r, m, x : r = "PLL_CTRL2" /\ m = \h8000 /\ x = IF mode = "ON" THEN \h8000 ELSE 0
  OBVIOUS
<1>2. PICK p, g : p = power(mode) /\ g = Ask("PLL_CTRL2", \h8000, IF mode = "ON" THEN \h8000 ELSE 0)
  OBVIOUS
<1>3. Apart(r, m)
  BY <1>1, AllApart
<1>4. Bits(x) \subseteq Bits(m)
  BY <1>1, Es8311Values
<1>5. p = <<Replace(r, m, x)>> /\ g = Ask(r, m, x)
  BY <1>1, <1>2, PowerIs
<1>6. Fine(p, g)
  BY <1>3, <1>4, <1>5, ReplaceIsGood
<1> QED
  BY ONLY <1>2, <1>6

LEMMA EarphIsGood ==
  ASSUME codec = "ac101", NEW volume \in Int
  PROVE  Fine(set_earph_volume(volume),
              Ask("HPOUT_CTRL", \h3F0, EarphBits(volume)))
<1>1. PICK r, m, x : r = "HPOUT_CTRL" /\ m = \h3F0 /\ x = EarphBits(volume)
  OBVIOUS
<1>2. PICK p, g : p = set_earph_volume(volume) /\ g = Ask("HPOUT_CTRL", \h3F0, EarphBits(volume))
  OBVIOUS
<1>a. PICK k : k = ((volume % 256) * 63) \div 255
  OBVIOUS
<1>b. k \in 0..63
  <2>1. volume % 256 \in 0..255
    OBVIOUS
  <2> QED
    BY <1>a, <2>1
<1>c. x = k * 16
  BY <1>1, <1>a DEF EarphBits
<1>3. Apart(r, m)
  BY <1>1, AllApart
<1>4. Bits(x) \subseteq Bits(m)
  BY <1>1, <1>b, <1>c, EarphInside
<1>5. p = <<Replace(r, m, x)>> /\ g = Ask(r, m, x)
  BY <1>1, <1>2 DEF set_earph_volume
<1>6. Fine(p, g)
  BY <1>3, <1>4, <1>5, ReplaceIsGood
<1> QED
  BY ONLY <1>2, <1>6

LEMMA MixerIsGood ==
  ASSUME codec = "ac101", NEW gain \in {0, 7}, NEW source \in {"MIC1", "MIC2", "LINEIN"}
  PROVE  Fine(set_output_mixer_gain(gain, source),
              Ask("OMIXER_BST1_CTRL", MixerMask(source), MixerBits(gain, source)))
<1>1. PICK r, m, x : r = "OMIXER_BST1_CTRL" /\ m = MixerMask(source) /\ x = MixerBits(gain, source)
  OBVIOUS
<1>2. PICK p, g : p = set_output_mixer_gain(gain, source) /\ g = Ask("OMIXER_BST1_CTRL", MixerMask(source), MixerBits(gain, source))
  OBVIOUS
<1>3. Apart(r, m)
  BY <1>1, AllApart DEF MixerMask
<1>4. Bits(x) \subseteq Bits(m)
  BY <1>1, Es8311Values DEF MixerMask, MixerBits
<1>5. p = <<Replace(r, m, x)>> /\ g = Ask(r, m, x)
  BY <1>1, <1>2 DEF set_output_mixer_gain
<1>6. Fine(p, g)
  BY <1>3, <1>4, <1>5, ReplaceIsGood
<1> QED
  BY ONLY <1>2, <1>6

LEMMA I2sClockIsGood ==
  ASSUME codec = "ac101", NEW bclk \in {0, 13}, NEW lclk \in {0, 4}
  PROVE  Fine(i2s_config_clock(bclk, lclk),
              Ask("I2S1LCK_CTRL", \h1FC0, ClockBits(bclk, lclk)))
<1>1. PICK r, m, x : r = "I2S1LCK_CTRL" /\ m = \h1FC0 /\ x = ClockBits(bclk, lclk)
  OBVIOUS
<1>2. PICK p, g : p = i2s_config_clock(bclk, lclk) /\ g = Ask("I2S1LCK_CTRL", \h1FC0, ClockBits(bclk, lclk))
  OBVIOUS
<1>a. Bits(256) = {8} /\ Bits(6656) = {9, 11, 12} /\ Bits(6912) = {8, 9, 11, 12}
  BY BitsWeigh DEF Weight
<1>b. x \in {0, 256, 6656, 6912}
  BY <1>1 DEF ClockBits
<1>3. Apart(r, m)
  BY <1>1, AllApart
<1>4. Bits(x) \subseteq Bits(m)
  BY <1>1, <1>a, <1>b, Es8311Values, Ac101Masks
<1>5. p = <<Replace(r, m, x)>> /\ g = Ask(r, m, x)
  BY <1>1, <1>2 DEF i2s_config_clock
<1>6. Fine(p, g)
  BY <1>3, <1>4, <1>5, ReplaceIsGood
<1> QED
  BY ONLY <1>2, <1>6

LEMMA RateIsGood ==
  ASSUME codec = "ac101", NEW rate
  PROVE  Fine(set_sample_rate(rate), Ask("I2S_SR_CTRL", \hFFFF, RateBits(rate)))
<1>1. PICK a, x : x = RateBits(rate) /\ a = Write("I2S_SR_CTRL", x)
  OBVIOUS
<1>2. "I2S_SR_CTRL" \in Registers
  BY DEF Registers, Ac101Regs
<1>3. a \in Accesses /\ a.reg = "I2S_SR_CTRL" /\ a.keep = {} /\ a.set = Bits(x)
  BY <1>1, <1>2, AccessType DEF Write
<1>4. Bits(x) \subseteq Bits(\hFFFF)
  BY Ac101Masks DEF Bits
<1>5. Makes(a, <<a.reg, \hFFFF>>, Bits(x))
  <2>1. a.set \cap Bits(\hFFFF) = Bits(x) /\ a.keep \cap Bits(\hFFFF) \subseteq Bits(x)
    BY <1>3, <1>4
  <2> QED
    BY <2>1 DEF Makes
<1>6. ASSUME NEW f \in Ac101Fields, f # <<a.reg, \hFFFF>> PROVE Leaves(a, f)
  <2>1. f[1] # a.reg
    BY <1>3, <1>6 DEF Ac101Fields
  <2> QED
    BY <2>1 DEF Leaves
<1>7. <<a.reg, \hFFFF>> \in Ac101Fields
  BY <1>3 DEF Ac101Fields
<1>8. PICK m, p, g : /\ m = \hFFFF /\ p = set_sample_rate(rate)
                     /\ g = Ask("I2S_SR_CTRL", \hFFFF, RateBits(rate))
  OBVIOUS
<1>9. p = <<a>> /\ g = Ask(a.reg, m, x)
  BY <1>1, <1>3, <1>8 DEF set_sample_rate
<1>10. /\ <<a.reg, m>> \in Ac101Fields /\ Makes(a, <<a.reg, m>>, Bits(x))
       /\ \A f \in Ac101Fields : f # <<a.reg, m>> => Leaves(a, f)
  BY <1>5, <1>6, <1>7, <1>8
<1>11. Fine(p, g)
  BY <1>3, <1>9, <1>10, OneAskIsGood
<1> QED
  BY ONLY <1>8, <1>11

LEMMA AcTuple ==
  ASSUME NEW S, NEW a1 \in S, NEW a2 \in S, NEW a3 \in S, NEW a4 \in S, NEW a5 \in S,
         NEW a6 \in S, NEW a7 \in S, NEW a8 \in S, NEW a9 \in S, NEW a10 \in S,
         NEW a11 \in S, NEW a12 \in S, NEW a13 \in S, NEW a14 \in S, NEW a15 \in S,
         NEW a16 \in S, NEW a17 \in S, NEW a18 \in S, NEW a19 \in S, NEW a20 \in S,
         NEW a21 \in S, NEW a22 \in S
  PROVE  <<a1, a2, a3, a4, a5, a6, a7, a8, a9, a10, a11, a12, a13, a14, a15, a16, a17, a18,
           a19, a20, a21, a22>> \in Seq(S)
OBVIOUS

LEMMA AcInit == ASSUME NEW answers \in BOOLEAN PROVE init(answers) \in Seq(Accesses)
<1>1. PICK S, p, u, w :
        /\ S = Accesses /\ u = set_spk_volume(70) /\ w = set_earph_volume(70)
        /\ p = InitWrites101
  OBVIOUS
<1>2. \A value : \A reg \in Ac101Regs : Write(reg, value) \in S
  BY <1>1, AccessType DEF Registers
<1>3. \A keep, value : \A reg \in Ac101Regs : Update(reg, keep, value) \in S
  BY <1>1, AccessType DEF Registers
<1>4. p \in Seq(S)
  <2>1. PICK a1, a2, a3, a4, a5, a6, a7, a8, a9, a10, a11 :
          /\ a1 = Write("CHIP_AUDIO_RS", \h123) /\ a2 = Write("PLL_CTRL1", \h014F)
          /\ a3 = Write("PLL_CTRL2", \h8600) /\ a4 = Write("SYSCLK_CTRL", \hAA08)
          /\ a5 = Write("MOD_CLK_ENA", \h800C) /\ a6 = Write("MOD_RST_CTRL", \h800C)
          /\ a7 = Write("I2S_SR_CTRL", \h7000) /\ a8 = Write("I2S1LCK_CTRL", \h8850)
          /\ a9 = Write("I2S1_SDOUT_CTRL", \hC000) /\ a10 = Write("I2S1_SDIN_CTRL", \hC000)
          /\ a11 = Write("I2S1_MXR_SRC", \h2200)
    OBVIOUS
  <2>2. PICK a12, a13, a14, a15, a16, a17, a18, a19, a20, a21, a22 :
          /\ a12 = Write("ADC_SRCBST_CTRL", \h4440)
          /\ a13 = Write("ADC_SRC", 0) /\ a14 = Write("ADC_DIG_CTRL", 0)
          /\ a15 = Write("ADC_ANA_CTRL", \h3300) /\ a16 = Write("DAC_MXR_SRC", \h8800)
          /\ a17 = Write("DAC_DIG_CTRL", \h8000) /\ a18 = Write("OMIXER_DACA_CTRL", \hF000)
          /\ a19 = Write("OMIXER_DACA_CTRL", \hFF00) /\ a20 = Write("OMIXER_SR", \h050A)
          /\ a21 = Write("SPKOUT_CTRL", \h0220) /\ a22 = Write("HPOUT_CTRL", \hF801)
    OBVIOUS
  <2>3. /\ a1 \in S /\ a2 \in S /\ a3 \in S /\ a4 \in S /\ a5 \in S /\ a6 \in S
        /\ a7 \in S /\ a8 \in S /\ a9 \in S /\ a10 \in S /\ a11 \in S
    BY <1>2, <2>1 DEF Ac101Regs
  <2>4. /\ a12 \in S /\ a13 \in S /\ a14 \in S /\ a15 \in S /\ a16 \in S /\ a17 \in S
        /\ a18 \in S /\ a19 \in S /\ a20 \in S /\ a21 \in S /\ a22 \in S
    BY <1>2, <2>2 DEF Ac101Regs
  <2>5. p = <<a1, a2, a3, a4, a5, a6, a7, a8, a9, a10, a11, a12, a13, a14, a15, a16, a17,
              a18, a19, a20, a21, a22>>
    BY <1>1, <2>1, <2>2 DEF InitWrites101
  <2> QED
    BY ONLY <2>3, <2>4, <2>5, AcTuple
<1>5. u \in Seq(S) /\ w \in Seq(S)
  <2>1. \A mask, value : /\ Replace("SPKOUT_CTRL", mask, value) \in S
                         /\ Replace("HPOUT_CTRL", mask, value) \in S
    BY <1>3 DEF Replace, Ac101Regs
  <2> QED
    BY <1>1, <2>1 DEF set_spk_volume, set_earph_volume
<1>6. (p \o u) \o w \in Seq(S)
  BY <1>4, <1>5, KeptJoin
<1>7. init(answers) = <<>> \/ init(answers) = (p \o u) \o w
  BY <1>1 DEF init
<1>8. <<>> \in Seq(S)
  OBVIOUS
<1> QED
  BY <1>1, <1>6, <1>7, <1>8

LEMMA TwoReplaces ==
  ASSUME codec = "ac101",
         NEW r, NEW m, NEW x, Apart(r, m), Bits(x) \subseteq Bits(m),
         NEW s, NEW n, NEW y, Apart(s, n), Bits(y) \subseteq Bits(n), r # s,
         NEW p \in Seq(Accesses), NEW g, g = Over(Ask(r, m, x), Ask(s, n, y)),
         NEW z, z = (p \o <<Replace(r, m, x)>>) \o <<Replace(s, n, y)>>
  PROVE  GoodCall(z, g, TRUE)
<1>3. PICK e, f : e = <<r, m>> /\ f = <<s, n>>
  OBVIOUS
<1>4. Asks(g, e, Bits(x), f, Bits(y))
  BY <1>3, OverAsks
<1>5. PICK a, b : a = Replace(r, m, x) /\ b = Replace(s, n, y)
  OBVIOUS
<1>7. /\ a \in Accesses /\ Makes(a, e, Bits(x)) /\ e \in Ac101Fields
      /\ b \in Accesses /\ Makes(b, f, Bits(y)) /\ f \in Ac101Fields
      /\ Leaves(b, e)
  <2>1. e \in Ac101Fields /\ f \in Ac101Fields /\ e # f
    BY <1>3 DEF Apart
  <2>2. a \in Accesses /\ Makes(a, e, Bits(x))
    BY <1>3, <1>5, ReplaceMakes
  <2>3. /\ b \in Accesses /\ Makes(b, f, Bits(y))
        /\ \A h \in Ac101Fields : h # f => Leaves(b, h)
    BY <1>3, <1>5, ReplaceMakes
  <2> QED
    BY <2>1, <2>2, <2>3
<1>8. PICK c, d : c = <<a>> /\ d = <<b>>
  OBVIOUS
<1>9. /\ c \in Seq(Accesses) /\ d \in Seq(Accesses)
      /\ Settles(c, e, Bits(x)) /\ Keeps(d, e, Bits(x)) /\ Settles(d, f, Bits(y))
  BY <1>7, <1>8, OneAccess
<1>10. PICK q : q = p \o c
  OBVIOUS
<1>11. q \in Seq(Accesses) /\ Settles(q, e, Bits(x))
  BY <1>9, <1>10, KeepsJoin
<1>12. /\ q \o d \in Seq(Accesses)
       /\ Settles(q \o d, e, Bits(x)) /\ Settles(q \o d, f, Bits(y))
  BY <1>9, <1>11, KeepsJoin
<1>13. z = q \o d
  BY <1>5, <1>8, <1>10
<1>15. ASSUME NEW h \in DOMAIN g PROVE Watched(codec, h, g[h]) /\ Settles(z, h, g[h])
  BY <1>4, <1>7, <1>12, <1>13, <1>15 DEF Asks, Watched
<1> QED
  BY <1>12, <1>13, <1>15 DEF GoodCall

Setup(accesses, fields) == GoodCall(accesses, fields, TRUE)

LEMMA AcSinkIsGood ==
  ASSUME codec = "ac101", NEW answers \in BOOLEAN
  PROVE  Setup(AC101AudioSink(answers),
               Over(Ask("SPKOUT_CTRL", SPKOUT_EN, 0), Ask("PLL_CTRL2", \h8000, \h8000)))
<1>1. PICK r, m, x, s, n, y :
        /\ r = "SPKOUT_CTRL" /\ m = SPKOUT_EN /\ x = 0
        /\ s = "PLL_CTRL2" /\ n = \h8000 /\ y = \h8000
  OBVIOUS
<1>0. PICK p, z : p = init(answers) /\ z = AC101AudioSink(answers)
  OBVIOUS
<1>2. PICK g : g = Over(Ask("SPKOUT_CTRL", SPKOUT_EN, 0), Ask("PLL_CTRL2", \h8000, \h8000))
  OBVIOUS
<1>3. /\ Apart(r, m) /\ Apart(s, n) /\ Bits(x) \subseteq Bits(m) /\ Bits(y) \subseteq Bits(n)
      /\ r # s /\ p \in Seq(Accesses)
  BY <1>0, <1>1, AllApart, Es8311Values, AcInit
<1>4. g = Over(Ask(r, m, x), Ask(s, n, y))
  BY <1>1, <1>2
<1>5. z = (p \o <<Replace(r, m, x)>>) \o <<Replace(s, n, y)>>
  <2>1. <<Replace(r, m, x)>> = speaker(FALSE)
    BY <1>1 DEF speaker
  <2>2. <<Replace(s, n, y)>> = power("ON")
    BY <1>1, PowerIs
  <2>3. z = (p \o speaker(FALSE)) \o power("ON")
    BY ONLY <1>0, Zenon DEF AC101AudioSink
  <2> QED
    BY ONLY <2>1, <2>2, <2>3, Zenon
<1>6. GoodCall(z, g, TRUE)
  BY <1>3, <1>4, <1>5, TwoReplaces
<1>7. Setup(z, g)
  BY <1>6 DEF Setup
<1> QED
  BY ONLY <1>0, <1>2, <1>7

LEMMA FineBegins ==
  ASSUME BusInv, NEW p, NEW g, Fine(p, g), Begun(p, g)
  PROVE  BusInv'
BY CallBegins DEF Fine, Begun

Started(accesses, fields) == Invoke(accesses, fields, TRUE)

LEMMA SetBegins ==
  ASSUME BusInv, NEW p, NEW g, Setup(p, g), Started(p, g)
  PROVE  BusInv'
BY CallBegins DEF Setup, Started

LEMMA Ac101Keeps ==
  ASSUME BusInv, codec = "ac101", EarVolumes \subseteq Int, Ac101Call
  PROVE  BusInv'
<1>1. CASE \E answers \in BOOLEAN :
             Invoke(AC101AudioSink(answers),
                    Over(Ask("SPKOUT_CTRL", SPKOUT_EN, 0), Ask("PLL_CTRL2", \h8000, \h8000)), TRUE)
  <2>1. PICK answers \in BOOLEAN :
          Started(AC101AudioSink(answers),
                  Over(Ask("SPKOUT_CTRL", SPKOUT_EN, 0), Ask("PLL_CTRL2", \h8000, \h8000)))
    BY <1>1 DEF Started, Invoke
  <2>2. Setup(AC101AudioSink(answers),
              Over(Ask("SPKOUT_CTRL", SPKOUT_EN, 0), Ask("PLL_CTRL2", \h8000, \h8000)))
    BY AcSinkIsGood
  <2> QED
    BY <2>1, <2>2, SetBegins
<1>2. CASE \E volume \in EarVolumes :
             Invoke(set_earph_volume(volume), Ask("HPOUT_CTRL", \h3F0, EarphBits(volume)), FALSE)
  <2>1. PICK volume \in EarVolumes :
          Begun(set_earph_volume(volume), Ask("HPOUT_CTRL", \h3F0, EarphBits(volume)))
    BY <1>2 DEF Begun, Invoke
  <2>2. Fine(set_earph_volume(volume), Ask("HPOUT_CTRL", \h3F0, EarphBits(volume)))
    BY EarphIsGood
  <2> QED
    BY <2>1, <2>2, FineBegins
<1>3. CASE \E mode \in {"STANDBY", "OFF", "ON"} :
             Invoke(power(mode), Ask("PLL_CTRL2", \h8000, IF mode = "ON" THEN \h8000 ELSE 0), FALSE)
  <2>1. PICK mode :
          Begun(power(mode), Ask("PLL_CTRL2", \h8000, IF mode = "ON" THEN \h8000 ELSE 0))
    BY <1>3 DEF Begun, Invoke
  <2>2. Fine(power(mode), Ask("PLL_CTRL2", \h8000, IF mode = "ON" THEN \h8000 ELSE 0))
    BY PowerIsGood
  <2> QED
    BY <2>1, <2>2, FineBegins
<1>4. CASE \E active \in BOOLEAN :
             \/ Invoke(speaker(active),
                       Ask("SPKOUT_CTRL", SPKOUT_EN, IF active THEN SPKOUT_EN ELSE 0), FALSE)
             \/ Invoke(headset(active),
                       Ask("HPOUT_CTRL", EAROUT_EN, IF active THEN EAROUT_EN ELSE 0), FALSE)
  <2>1. PICK active \in BOOLEAN :
          \/ Begun(speaker(active), Ask("SPKOUT_CTRL", SPKOUT_EN, IF active THEN SPKOUT_EN ELSE 0))
          \/ Begun(headset(active), Ask("HPOUT_CTRL", EAROUT_EN, IF active THEN EAROUT_EN ELSE 0))
    BY <1>4 DEF Begun, Invoke
  <2>2. /\ Fine(speaker(active), Ask("SPKOUT_CTRL", SPKOUT_EN, IF active THEN SPKOUT_EN ELSE 0))
        /\ Fine(headset(active), Ask("HPOUT_CTRL", EAROUT_EN, IF active THEN EAROUT_EN ELSE 0))
    BY SpeakerIsGood, HeadsetIsGood
  <2> QED
    BY <2>1, <2>2, FineBegins
<1>5. CASE \E rate \in AcRates :
             Invoke(set_sample_rate(rate), Ask("I2S_SR_CTRL", \hFFFF, RateBits(rate)), FALSE)
  <2>1. PICK rate \in AcRates :
          Begun(set_sample_rate(rate), Ask("I2S_SR_CTRL", \hFFFF, RateBits(rate)))
    BY <1>5 DEF Begun, Invoke
  <2>2. Fine(set_sample_rate(rate), Ask("I2S_SR_CTRL", \hFFFF, RateBits(rate)))
    BY RateIsGood
  <2> QED
    BY <2>1, <2>2, FineBegins
<1>6. CASE \E gain \in {0, 7}, source \in {"MIC1", "MIC2", "LINEIN"} :
             Invoke(set_output_mixer_gain(gain, source),
                    Ask("OMIXER_BST1_CTRL", MixerMask(source), MixerBits(gain, source)), FALSE)
  <2>1. PICK gain \in {0, 7}, source \in {"MIC1", "MIC2", "LINEIN"} :
          Begun(set_output_mixer_gain(gain, source),
                Ask("OMIXER_BST1_CTRL", MixerMask(source), MixerBits(gain, source)))
    BY <1>6 DEF Begun, Invoke
  <2>2. Fine(set_output_mixer_gain(gain, source),
             Ask("OMIXER_BST1_CTRL", MixerMask(source), MixerBits(gain, source)))
    BY MixerIsGood
  <2> QED
    BY <2>1, <2>2, FineBegins
<1>7. CASE \E bclk \in {0, 13}, lclk \in {0, 4} :
             Invoke(i2s_config_clock(bclk, lclk),
                    Ask("I2S1LCK_CTRL", \h1FC0, ClockBits(bclk, lclk)), FALSE)
  <2>1. PICK bclk \in {0, 13}, lclk \in {0, 4} :
          Begun(i2s_config_clock(bclk, lclk),
                Ask("I2S1LCK_CTRL", \h1FC0, ClockBits(bclk, lclk)))
    BY <1>7 DEF Begun, Invoke
  <2>2. Fine(i2s_config_clock(bclk, lclk), Ask("I2S1LCK_CTRL", \h1FC0, ClockBits(bclk, lclk)))
    BY I2sClockIsGood
  <2> QED
    BY <2>1, <2>2, FineBegins
<1> QED
  BY <1>1, <1>2, <1>3, <1>4, <1>5, <1>6, <1>7, PTL DEF Ac101Call

------------------------------------------------------------------------------
(***************************************************************************)
(* The codecs that are only set up.                                        *)
(***************************************************************************)
LEMMA TwentyOne ==
  ASSUME NEW S, NEW a1 \in S, NEW a2 \in S, NEW a3 \in S, NEW a4 \in S,
         NEW a5 \in S, NEW a6 \in S, NEW a7 \in S, NEW a8 \in S, NEW a9 \in S,
         NEW a10 \in S, NEW a11 \in S, NEW a12 \in S, NEW a13 \in S, NEW a14 \in S,
         NEW a15 \in S, NEW a16 \in S, NEW a17 \in S, NEW a18 \in S, NEW a19 \in S,
         NEW a20 \in S, NEW a21 \in S,
         NEW p, p = <<a1, a2, a3, a4, a5, a6, a7, a8, a9, a10, a11, a12, a13, a14,
                      a15, a16, a17, a18, a19, a20, a21>>
  PROVE  /\ p \in Seq(S) /\ Len(p) = 21
         /\ p[1] = a1 /\ p[2] = a2 /\ p[3] = a3 /\ p[4] = a4 /\ p[5] = a5
         /\ p[6] = a6 /\ p[7] = a7 /\ p[8] = a8 /\ p[9] = a9 /\ p[10] = a10
         /\ p[11] = a11 /\ p[12] = a12 /\ p[13] = a13 /\ p[14] = a14
         /\ p[15] = a15 /\ p[16] = a16 /\ p[17] = a17 /\ p[18] = a18
         /\ p[19] = a19 /\ p[20] = a20 /\ p[21] = a21
OBVIOUS

LEMMA EsRegs ==
  /\ \A reg \in Es8388Regs \union Tas5711Regs : \A value :
       Write(reg, value) \in Accesses /\ Write(reg, value).reg = reg
  /\ MUTE \in Accesses /\ MUTE.reg = "DACCONTROL3" /\ MUTE.keep = {} /\ MUTE.set = Bits(4)
  /\ UNMUTE \in Accesses /\ UNMUTE.reg = "DACCONTROL3"
<1>1. \A reg \in Es8388Regs \union Tas5711Regs : \A value :
        Write(reg, value) \in Accesses /\ Write(reg, value).reg = reg
  BY AccessType DEF Registers
<1>2. "DACCONTROL3" \in Es8388Regs
  BY DEF Es8388Regs
<1> QED
  BY <1>1, <1>2 DEF MUTE, UNMUTE, Write

LEMMA BeforeIs ==
  /\ BeforeVolumes \in Seq(Accesses) /\ Len(BeforeVolumes) = 21 /\ BeforeVolumes[1] = MUTE
  /\ \A i \in 2..21 : BeforeVolumes[i].reg # "DACCONTROL3"
  /\ \A i \in 7..15 : BeforeVolumes[i].reg # "ADCPOWER"
<1>1. PICK p, S : p = BeforeVolumes /\ S = Accesses
  OBVIOUS
<1>2. PICK a1, a2, a3, a4, a5, a6, a7, a8, a9, a10, a11 :
        /\ a1 = MUTE /\ a2 = Write("CONTROL2", \h50)
        /\ a3 = Write("CHIPPOWER", 0) /\ a4 = Write("MASTERMODE", 0)
        /\ a5 = Write("DACPOWER", \h3E) /\ a6 = Write("CONTROL1", \h12)
        /\ a7 = Write("DACCONTROL1", \h18) /\ a8 = Write("DACCONTROL2", 2)
        /\ a9 = Write("DACCONTROL16", \h1B) /\ a10 = Write("DACCONTROL17", \h90)
        /\ a11 = Write("DACCONTROL20", \h90)
  OBVIOUS
<1>3. PICK a12, a13, a14, a15, a16, a17, a18, a19, a20, a21 :
        /\ a12 = Write("DACCONTROL21", \h80) /\ a13 = Write("DACCONTROL23", 0)
        /\ a14 = Write("DACCONTROL5", 0) /\ a15 = Write("DACCONTROL4", 0)
        /\ a16 = Write("ADCPOWER", \hFF) /\ a17 = Write("ADCCONTROL1", \h88)
        /\ a18 = Write("ADCCONTROL2", \hF0) /\ a19 = Write("ADCCONTROL3", \h80)
        /\ a20 = Write("ADCCONTROL4", \h0E) /\ a21 = Write("ADCCONTROL5", 2)
  OBVIOUS
<1>4. /\ a1 \in S /\ a1.reg = "DACCONTROL3" /\ a2 \in S /\ a2.reg = "CONTROL2"
      /\ a3 \in S /\ a3.reg = "CHIPPOWER" /\ a4 \in S /\ a4.reg = "MASTERMODE"
      /\ a5 \in S /\ a5.reg = "DACPOWER" /\ a6 \in S /\ a6.reg = "CONTROL1"
      /\ a7 \in S /\ a7.reg = "DACCONTROL1" /\ a8 \in S /\ a8.reg = "DACCONTROL2"
      /\ a9 \in S /\ a9.reg = "DACCONTROL16"
      /\ a10 \in S /\ a10.reg = "DACCONTROL17"
      /\ a11 \in S /\ a11.reg = "DACCONTROL20"
  <2>1. {"CONTROL2", "CHIPPOWER", "MASTERMODE", "DACPOWER", "CONTROL1",
         "DACCONTROL1", "DACCONTROL2", "DACCONTROL16", "DACCONTROL17",
         "DACCONTROL20"} \subseteq Es8388Regs
    BY DEF Es8388Regs
  <2> QED
    BY <1>1, <1>2, <2>1, EsRegs
<1>5. /\ a12 \in S /\ a12.reg = "DACCONTROL21" /\ a13 \in S /\ a13.reg = "DACCONTROL23"
      /\ a14 \in S /\ a14.reg = "DACCONTROL5"
      /\ a15 \in S /\ a15.reg = "DACCONTROL4"
      /\ a16 \in S /\ a16.reg = "ADCPOWER"
      /\ a17 \in S /\ a17.reg = "ADCCONTROL1"
      /\ a18 \in S /\ a18.reg = "ADCCONTROL2"
      /\ a19 \in S /\ a19.reg = "ADCCONTROL3"
      /\ a20 \in S /\ a20.reg = "ADCCONTROL4"
      /\ a21 \in S /\ a21.reg = "ADCCONTROL5"
  <2>1. {"DACCONTROL21", "DACCONTROL23", "DACCONTROL5", "DACCONTROL4", "ADCPOWER",
         "ADCCONTROL1", "ADCCONTROL2", "ADCCONTROL3", "ADCCONTROL4", "ADCCONTROL5"} \subseteq Es8388Regs
    BY DEF Es8388Regs
  <2> QED
    BY <1>1, <1>3, <2>1, EsRegs
<1>6. p = <<a1, a2, a3, a4, a5, a6, a7, a8, a9, a10, a11, a12, a13, a14, a15, a16, a17,
            a18, a19, a20, a21>>
  BY <1>1, <1>2, <1>3 DEF BeforeVolumes
<1>7. /\ p \in Seq(S) /\ Len(p) = 21
      /\ p[1] = a1 /\ p[2] = a2 /\ p[3] = a3 /\ p[4] = a4 /\ p[5] = a5
      /\ p[6] = a6 /\ p[7] = a7 /\ p[8] = a8 /\ p[9] = a9 /\ p[10] = a10
      /\ p[11] = a11 /\ p[12] = a12 /\ p[13] = a13 /\ p[14] = a14 /\ p[15] = a15
      /\ p[16] = a16 /\ p[17] = a17 /\ p[18] = a18 /\ p[19] = a19 /\ p[20] = a20
      /\ p[21] = a21
  BY ONLY <1>4, <1>5, <1>6, TwentyOne
<1>8. ASSUME NEW i \in 2..21 PROVE p[i].reg # "DACCONTROL3"
  <2>1. i \in {2, 3, 4, 5, 6, 7, 8, 9, 10, 11, 12, 13, 14, 15, 16, 17, 18, 19, 20, 21}
    OBVIOUS
  <2> QED
    BY ONLY <1>4, <1>5, <1>7, <2>1, SMTT(30)
<1>9. ASSUME NEW i \in 7..15 PROVE p[i].reg # "ADCPOWER"
  <2>1. i \in {7, 8, 9, 10, 11, 12, 13, 14, 15}
    OBVIOUS
  <2> QED
    BY ONLY <1>4, <1>5, <1>7, <2>1, SMTT(30)
<1> QED
  BY <1>1, <1>2, <1>7, <1>8, <1>9

Joined(s, p, q, m, n) ==
  /\ s \in Seq(Accesses) /\ m \in Nat /\ n \in Nat /\ Len(s) = m + n
  /\ \A i \in 1..m : s[i] = p[i]
  /\ \A i \in 1..n : s[m + i] = q[i]

LEMMA JoinedIs ==
  ASSUME NEW p \in Seq(Accesses), NEW q \in Seq(Accesses), NEW m, m = Len(p), NEW n,
         n = Len(q), NEW s, s = p \o q
  PROVE  Joined(s, p, q, m, n)
BY ConcatParts DEF Joined

LEMMA VolumesAre ==
  /\ Volumes8388 \in Seq(Accesses) /\ Len(Volumes8388) = 6
  /\ \A i \in 1..6 : Volumes8388[i].reg # "DACCONTROL3" /\ Volumes8388[i].reg # "ADCPOWER"
<1>1. PICK p, S : p = Volumes8388 /\ S = Accesses
  OBVIOUS
<1>2. PICK a1, a2, a3, a4, a5, a6 :
        /\ a1 = Write("ADCCONTROL8", \h20) /\ a2 = Write("ADCCONTROL9", \h20)
        /\ a3 = Write("DACCONTROL24", \h1E) /\ a4 = Write("DACCONTROL25", \h1E)
        /\ a5 = Write("DACCONTROL26", \h1E) /\ a6 = Write("DACCONTROL27", \h1E)
  OBVIOUS
<1>3. /\ a1 \in S /\ a1.reg = "ADCCONTROL8" /\ a2 \in S /\ a2.reg = "ADCCONTROL9"
      /\ a3 \in S /\ a3.reg = "DACCONTROL24" /\ a4 \in S /\ a4.reg = "DACCONTROL25"
      /\ a5 \in S /\ a5.reg = "DACCONTROL26" /\ a6 \in S /\ a6.reg = "DACCONTROL27"
  <2>1. {"ADCCONTROL8", "ADCCONTROL9", "DACCONTROL24", "DACCONTROL25", "DACCONTROL26",
         "DACCONTROL27"} \subseteq Es8388Regs
    BY DEF Es8388Regs
  <2> QED
    BY <1>1, <1>2, <2>1, EsRegs
<1>4. p = <<a1, a2, a3, a4, a5, a6>>
  BY <1>1, <1>2 DEF Volumes8388
<1>5. /\ p \in Seq(S) /\ Len(p) = 6
      /\ p[1] = a1 /\ p[2] = a2 /\ p[3] = a3 /\ p[4] = a4 /\ p[5] = a5 /\ p[6] = a6
  BY ONLY <1>3, <1>4
<1>6. ASSUME NEW i \in 1..6 PROVE p[i].reg # "DACCONTROL3" /\ p[i].reg # "ADCPOWER"
  <2>1. i \in {1, 2, 3, 4, 5, 6}
    OBVIOUS
  <2> QED
    BY ONLY <1>3, <1>5, <2>1
<1> QED
  BY <1>1, <1>5, <1>6

LEMMA PowerUpIs ==
  /\ PowerUp \in Seq(Accesses) /\ Len(PowerUp) = 3
  /\ PowerUp[1].reg # "DACCONTROL3" /\ PowerUp[3].reg = "ADCPOWER"
<1>1. PICK p, S : p = PowerUp /\ S = Accesses
  OBVIOUS
<1>2. PICK a1, a2, a3 :
        a1 = Write("DACPOWER", \h3C) /\ a2 = UNMUTE /\ a3 = Write("ADCPOWER", 0)
  OBVIOUS
<1>3. /\ a1 \in S /\ a1.reg = "DACPOWER" /\ a2 \in S /\ a3 \in S /\ a3.reg = "ADCPOWER"
  BY <1>1, <1>2, EsRegs DEF Es8388Regs
<1>4. p = <<a1, a2, a3>>
  BY <1>1, <1>2 DEF PowerUp
<1>5. p \in Seq(S) /\ Len(p) = 3 /\ p[1] = a1 /\ p[3] = a3
  BY ONLY <1>3, <1>4
<1> QED
  BY <1>1, <1>3, <1>5

LEMMA AdcPowerElsewhere == "ADCPOWER" \notin DacRegisters
<1>1. /\ \A i \in 7..15 : BeforeVolumes[i].reg # "ADCPOWER"
      /\ \A i \in 3..6 : Volumes8388[i].reg # "ADCPOWER"
      /\ MUTE.reg # "ADCPOWER"
  BY BeforeIs, VolumesAre, EsRegs
<1> QED
  BY <1>1 DEF DacRegisters

(* The DAC is left alone after it is unmuted.                              *)
Guarded(p) ==
  \A i, j \in DOMAIN p : p[i].reg = "DACCONTROL3" /\ j > i => p[j].reg \notin DacRegisters
Untouching(p) == \A i \in DOMAIN p : p[i].reg \notin DacRegisters

LEMMA SinkProgram ==
  /\ ES8388AudioSink \in Seq(Accesses) /\ ES8388AudioSink # <<>>
  /\ Head(ES8388AudioSink) = MUTE /\ Guarded(Tail(ES8388AudioSink))
<1>1. PICK b, v, u, s, e :
        /\ b = BeforeVolumes /\ v = Volumes8388 /\ u = PowerUp
        /\ s = b \o v /\ e = s \o u
  OBVIOUS
<1>2. /\ b \in Seq(Accesses) /\ Len(b) = 21 /\ b[1] = MUTE
      /\ v \in Seq(Accesses) /\ Len(v) = 6
      /\ u \in Seq(Accesses) /\ Len(u) = 3
      /\ \A i \in 2..21 : b[i].reg # "DACCONTROL3"
      /\ \A i \in 1..6 : v[i].reg # "DACCONTROL3"
      /\ u[1].reg # "DACCONTROL3" /\ u[3].reg \notin DacRegisters
  BY <1>1, BeforeIs, VolumesAre, PowerUpIs, AdcPowerElsewhere
<1>3. /\ s \in Seq(Accesses) /\ Len(s) = 27
      /\ \A i \in 1..21 : s[i] = b[i]
      /\ \A i \in 1..6 : s[21 + i] = v[i]
  <2>1. PICK m, n : m = Len(b) /\ n = Len(v)
    OBVIOUS
  <2>2. Joined(s, b, v, m, n)
    BY <1>1, <1>2, <2>1, JoinedIs
  <2> QED
    BY <1>2, <2>1, <2>2 DEF Joined
<1>4. /\ e \in Seq(Accesses) /\ Len(e) = 30
      /\ \A i \in 1..27 : e[i] = s[i]
      /\ \A i \in 1..3 : e[27 + i] = u[i]
  <2>1. PICK m, n : m = Len(s) /\ n = Len(u)
    OBVIOUS
  <2>2. Joined(e, s, u, m, n)
    BY <1>1, <1>2, <1>3, <2>1, JoinedIs
  <2> QED
    BY <1>2, <1>3, <2>1, <2>2 DEF Joined
<1>5. \A i \in 2..28 : e[i].reg # "DACCONTROL3"
  <2> SUFFICES ASSUME NEW i \in 2..28 PROVE e[i].reg # "DACCONTROL3"
    OBVIOUS
  <2>1. CASE i <= 21
    <3>1. i \in 1..21 /\ i \in 1..27 /\ i \in 2..21
      BY <2>1
    <3>2. e[i] = b[i]
      BY <1>3, <1>4, <3>1
    <3> QED
      BY <1>2, <3>1, <3>2
  <2>2. CASE i > 21 /\ i <= 27
    <3>1. PICK k : k = i - 21
      OBVIOUS
    <3>2. k \in 1..6 /\ 21 + k = i /\ i \in 1..27
      BY <2>2, <3>1
    <3>3. e[i] = s[i] /\ s[21 + k] = v[k]
      BY ONLY <1>3, <1>4, <3>2
    <3>4. e[i] = v[k]
      BY ONLY <3>2, <3>3
    <3> QED
      BY <1>2, <3>2, <3>4
  <2>3. CASE i = 28
    <3>1. e[27 + 1] = u[1]
      BY <1>4
    <3> QED
      BY <1>2, <2>3, <3>1
  <2> QED
    BY <2>1, <2>2, <2>3
<1>6. e[30].reg \notin DacRegisters
  <2>1. e[27 + 3] = u[3]
    BY <1>4
  <2> QED
    BY <1>2, <2>1
<1>7. e # <<>> /\ e[1] = MUTE
  <2>1. e[1] = s[1] /\ s[1] = b[1]
    BY <1>3, <1>4
  <2>2. Len(<<>>) # 30
    OBVIOUS
  <2>3. e # <<>>
    <3>1. Len(e) = 30
      BY <1>4
    <3> QED
      BY ONLY <2>2, <3>1, Zenon
  <2> QED
    BY <1>2, <2>1, <2>3
<1>8. /\ Head(e) = MUTE /\ DOMAIN e = 1..30
      /\ \A i \in DOMAIN Tail(e) : i + 1 \in DOMAIN e /\ Tail(e)[i] = e[i + 1]
      /\ Tail(e) \in Seq(Accesses)
  <2>1. DOMAIN e = 1..30
    BY <1>4
  <2>2. e \in Seq(Accesses) /\ e # <<>>
    BY <1>4, <1>7
  <2> QED
    BY <1>7, <2>1, <2>2, TailIs
<1>9. PICK t : t = Tail(e)
  OBVIOUS
<1>10. ASSUME NEW i \in DOMAIN t, NEW j \in DOMAIN t, t[i].reg = "DACCONTROL3", j > i
       PROVE  t[j].reg \notin DacRegisters
  <2>1. /\ i \in Nat /\ i # 0 /\ j \in Nat
        /\ i + 1 \in 1..30 /\ j + 1 \in 1..30 /\ t[i] = e[i + 1] /\ t[j] = e[j + 1]
    BY <1>8, <1>9
  <2>2. ~(i + 1 \in 2..28)
    BY <1>5, <1>10, <2>1
  <2>3. j + 1 = 30
    BY <1>10, <2>1, <2>2
  <2> QED
    BY <1>6, <2>1, <2>3
<1>11. Guarded(t)
  BY <1>10 DEF Guarded
<1>12. ES8388AudioSink = e
  BY <1>1 DEF ES8388AudioSink
<1> QED
  BY <1>4, <1>7, <1>8, <1>9, <1>11, <1>12

LEMMA FixedPrograms ==
  /\ GoodCall(ES8388AudioSink, AskNothing, TRUE)
  /\ GoodCall(TAS5711AudioSink, AskNothing, TRUE)
<1>1. ES8388AudioSink \in Seq(Accesses)
  BY SinkProgram
<1>2. TAS5711AudioSink \in Seq(Accesses)
  <2>1. PICK a1, a2, a3, a4, a5, a6 :
          /\ a1 = Write("R00", \h6C) /\ a2 = Write("R04", 3) /\ a3 = Write("R05", 0)
          /\ a4 = Write("R06", 0) /\ a5 = Write("R07", \h50) /\ a6 = Write("R1B", 0)
    OBVIOUS
  <2>2. PICK S : S = Accesses
    OBVIOUS
  <2>3. a1 \in S /\ a2 \in S /\ a3 \in S /\ a4 \in S /\ a5 \in S /\ a6 \in S
    BY <2>1, <2>2, EsRegs DEF Tas5711Regs
  <2>4. TAS5711AudioSink = <<a6>> \o <<a1, a2, a3, a4, a5>>
    BY <2>1 DEF TAS5711AudioSink, tas5711_init_sequence
  <2>5. <<a6>> \in Seq(S) /\ <<a1, a2, a3, a4, a5>> \in Seq(S)
    BY ONLY <2>3
  <2> QED
    BY <2>2, <2>4, <2>5, KeptJoin
<1> QED
  BY <1>1, <1>2, AskNothingIs DEF GoodCall

LEMMA FixedKeeps ==
  ASSUME BusInv, FixedCall
  PROVE  BusInv'
BY CallBegins, FixedPrograms DEF FixedCall

(* The DAC is muted from the first access of the set-up to the last but    *)
(* one, or its registers are done with.                                    *)
Muted(r) == Has(r, <<"DACCONTROL3", 4>>, Bits(4))
DacIs(r, p) ==
  p = ES8388AudioSink \/ (Muted(r) /\ Guarded(p)) \/ Untouching(p)
DacInv == codec = "es8388" /\ ~broken => DacIs(regs, program)

LEMMA DacAccess ==
  ASSUME NEW r, NEW p \in Seq(Accesses), p # <<>>, DacIs(r, p),
         NEW a, a = Head(p), NEW q, After(a, r, q)
  PROVE  DacIs(q, Tail(p))
<1>1. PICK t : t = Tail(p)
  OBVIOUS
<1>2. /\ a = p[1] /\ 1 \in DOMAIN p /\ DOMAIN p \subseteq Nat \ {0}
      /\ DOMAIN t \subseteq Nat \ {0}
      /\ \A i \in DOMAIN t : i + 1 \in DOMAIN p /\ t[i] = p[i + 1]
  <2>1. t \in Seq(Accesses)
    BY <1>1, TailIs
  <2> QED
    BY <1>1, <2>1, TailIs
<1>3. CASE p = ES8388AudioSink
  <2>1. a = MUTE /\ Guarded(t)
    BY <1>1, <1>3, SinkProgram
  <2>2. Makes(a, <<"DACCONTROL3", 4>>, Bits(4))
    BY <2>1, EsRegs DEF Makes
  <2>3. Muted(q)
    BY <2>2, AccessHolds DEF Muted
  <2> QED
    BY <1>1, <2>1, <2>3 DEF DacIs
<1>4. CASE Muted(r) /\ Guarded(p)
  <2>1. Guarded(t)
    <3>1. ASSUME NEW i \in DOMAIN t, NEW j \in DOMAIN t, t[i].reg = "DACCONTROL3", j > i
          PROVE  t[j].reg \notin DacRegisters
      <4>1. /\ i + 1 \in DOMAIN p /\ j + 1 \in DOMAIN p /\ j + 1 > i + 1
            /\ t[i] = p[i + 1] /\ t[j] = p[j + 1]
        BY <1>2, <3>1
      <4> QED
        BY <1>4, <3>1, <4>1 DEF Guarded
    <3> QED
      BY <3>1 DEF Guarded
  <2>2. CASE a.reg = "DACCONTROL3"
    <3>1. ASSUME NEW j \in DOMAIN t PROVE t[j].reg \notin DacRegisters
      <4>1. j + 1 \in DOMAIN p /\ t[j] = p[j + 1] /\ j + 1 > 1
        BY <1>2
      <4> QED
        BY <1>2, <1>4, <2>2, <4>1 DEF Guarded
    <3> QED
      BY <1>1, <3>1 DEF Untouching, DacIs
  <2>3. CASE a.reg # "DACCONTROL3"
    <3>1. Leaves(a, <<"DACCONTROL3", 4>>)
      BY <2>3 DEF Leaves
    <3>2. Muted(q)
      BY <1>4, <3>1, AccessHolds DEF Muted
    <3> QED
      BY <1>1, <2>1, <3>2 DEF DacIs
  <2> QED
    BY <2>2, <2>3
<1>5. CASE Untouching(p)
  <2>1. Untouching(t)
    BY <1>2, <1>5 DEF Untouching
  <2> QED
    BY <1>1, <2>1 DEF DacIs
<1> QED
  BY <1>3, <1>4, <1>5 DEF DacIs

LEMMA DacBegins ==
  ASSUME codec = "es8388", CodecNext, ~BusNext
  PROVE  program' = ES8388AudioSink
BY DEF CodecNext, FixedCall, Invoke

LEMMA DacKeeps ==
  ASSUME BusInv, DacInv, CodecNext
  PROVE  DacInv'
<1> SUFFICES ASSUME codec' = "es8388", ~broken' PROVE DacIs(regs', program')
  BY DEF DacInv
<1>1. CASE BusNext
  <2>1. codec = "es8388"
    BY <1>1 DEF BusNext, Access, WriteFails, ReadFails, Finish, UNCHANGED_Call
  <2>2. CASE Access
    <3>1. PICK r, p, a : r = regs /\ p = program /\ a = Head(p)
      OBVIOUS
    <3>2. PICK q, reg, bits, one :
            /\ q = Over(one, r) /\ reg = a.reg /\ one = [x \in {reg} |-> bits]
            /\ bits = (InReg(r, a.reg) \cap a.keep) \union a.set
      OBVIOUS
    <3>3. After(a, r, q)
      <4>1. DOMAIN one = {reg} /\ one[reg] = bits
        BY <3>2
      <4>2. Put(Over(one, r), r, reg, bits)
        BY <4>1, StoredIs
      <4>3. Put(q, r, reg, bits)
        BY ONLY <3>2, <4>2
      <4> QED
        BY <3>2, <4>3 DEF After
    <3>4. p # <<>> /\ program' = Tail(p) /\ regs' = q /\ broken' = broken
      BY <2>2, <3>1, <3>2 DEF Access, Stored, Old, InReg
    <3>5. p \in Seq(Accesses)
      BY <3>1 DEF BusInv, BusIs
    <3>6. DacIs(r, p)
      BY <2>1, <3>1, <3>4 DEF DacInv
    <3>7. DacIs(q, Tail(p))
      BY <3>1, <3>3, <3>4, <3>5, <3>6, DacAccess
    <3> QED
      BY <3>4, <3>7
  <2>3. CASE WriteFails \/ ReadFails
    BY <2>3 DEF WriteFails, ReadFails
  <2>4. CASE Finish
    <3>1. program' = <<>>
      BY <2>4 DEF Finish
    <3>2. PICK p : p = program'
      OBVIOUS
    <3>3. Untouching(p)
      <4>1. DOMAIN p = {}
        BY <3>1, <3>2
      <4> QED
        BY <4>1 DEF Untouching
    <3> QED
      BY <3>2, <3>3 DEF DacIs
  <2> QED
    BY <1>1, <2>2, <2>3, <2>4 DEF BusNext
<1>2. CASE ~BusNext
  <2>1. codec = "es8388"
    <3>1. codec' = codec
      BY <1>2 DEF CodecNext, FixedCall, Es8311Call, Ac101Call, Invoke
    <3> QED
      BY <3>1
  <2>2. program' = ES8388AudioSink
    BY <1>2, <2>1, DacBegins
  <2> QED
    BY <2>2 DEF DacIs
<1> QED
  BY <1>1, <1>2

LEMMA DacHolds == BusInv /\ DacInv => MutedDuringSetup
<1> SUFFICES ASSUME BusInv, DacInv, codec = "es8388", ~broken, touched # {},
                    program # ES8388AudioSink,
                    NEW i \in DOMAIN program, program[i].reg \in DacRegisters
             PROVE  FieldIs(<<MUTE.reg, \h04>>, MUTE.set)
  BY DEF MutedDuringSetup
<1>1. Muted(regs)
  BY DEF DacInv, DacIs, Untouching
<1> QED
  BY <1>1, EsRegs DEF Muted, Has, InReg, FieldIs, Old

(* Between calls every field a client has set has the value it was set to, *)
(* unless a later call that failed accessed its register, and the ES8388's *)
(* DAC is muted while it is set up: for any sequence of calls, of any      *)
(* length and with any failures, of each driver, with any rates and        *)
(* volumes, the settings that other calls are known to undo excepted.      *)
THEOREM SettingsStay ==
  ASSUME Es8311Watching, EarVolumes \subseteq Int
  PROVE  BusInit /\ [][CodecNext]_codecVars => []RegistersHold
<1>1. BusInit => BusInv /\ DacInv
  <2> SUFFICES ASSUME BusInit PROVE BusInv /\ DacInv
    OBVIOUS
  <2>1. /\ <<>> \in Seq(Accesses) /\ DOMAIN <<>> = {} /\ DOMAIN AskNothing = {}
    BY NoAccess, AskNothingIs
  <2>2. PICK p : p = program
    OBVIOUS
  <2>3. p \in Seq(Accesses) /\ DOMAIN p = {} /\ DOMAIN asks = {} /\ DOMAIN asked = {}
    BY <2>1, <2>2 DEF BusInit
  <2>4. BusInv
    BY <2>2, <2>3 DEF BusInv, BusIs
  <2>5. Untouching(p)
    BY <2>3 DEF Untouching
  <2>6. DacInv
    BY <2>2, <2>5 DEF DacInv, DacIs
  <2> QED
    BY <2>4, <2>6
<1>2. BusInv /\ DacInv /\ [CodecNext]_codecVars => BusInv' /\ DacInv'
  <2> SUFFICES ASSUME BusInv, DacInv, [CodecNext]_codecVars PROVE BusInv' /\ DacInv'
    OBVIOUS
  <2>1. ASSUME codec = "es8311" /\ Es8311Call PROVE BusInv'
    BY <2>1, Es8311Keeps
  <2>2. ASSUME codec = "ac101" /\ Ac101Call PROVE BusInv'
    BY <2>2, Ac101Keeps
  <2>3. ASSUME FixedCall PROVE BusInv'
    BY <2>3, FixedKeeps
  <2>4. ASSUME BusNext PROVE BusInv'
    BY <2>4, BusKeeps
  <2>5. CASE CodecNext
    <3>1. BusInv'
      BY <2>1, <2>2, <2>3, <2>4, <2>5, PTL DEF CodecNext
    <3>2. DacInv'
      BY <2>5, DacKeeps
    <3> QED
      BY <3>1, <3>2
  <2>6. CASE UNCHANGED codecVars
    BY <2>6, Zenon DEF codecVars, BusInv, DacInv
  <2> QED
    BY <2>5, <2>6
<1>3. BusInv /\ DacInv => RegistersHold
  BY BusHolds, DacHolds DEF RegistersHold
<1> QED
  BY <1>1, <1>2, <1>3, PTL
=============================================================================

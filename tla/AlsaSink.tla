------------------------------ MODULE AlsaSink ------------------------------
(***************************************************************************)
(* ALSAAudioSink: the player's thread gathers what it is fed, cuts it into *)
(* blocks of buff_size bytes and pushes them into the slot ring, sleeping  *)
(* while the ring is full; the sink's task pops them, sleeping while it is *)
(* empty, and hands each one to the device.                                *)
(*                                                                         *)
(* A byte is its number in the stream the sink is fed.  The device is      *)
(* external: it takes the block or reports an underrun, after which the    *)
(* task prepares it again and goes on with the next block, so either way   *)
(* the block has been handed over.                                         *)
(***************************************************************************)
EXTENDS RingbufferPointer, SequencesExt

CONSTANTS buff_size,    (* bytes of a block: one period of the device       *)
          MaxFeed,      (* bound on the bytes of one feedPCMFrames call     *)
          MaxBytes      (* bound on the bytes fed                           *)

ASSUME SinkAssumption ==
  /\ {buff_size, MaxFeed, MaxBytes} \subseteq Nat \ {0}
  /\ Block = {[i \in 1..buff_size |-> at + i] : at \in 0..MaxBytes}

VARIABLES fed,          (* bytes fed so far                                 *)
          buff,         (* bytes waiting to be cut into a block             *)
          feeder,       (* the player's thread: idle, cut or push           *)
          ptr,          (* the block it pushes                              *)
          player,       (* the task: pop or write                           *)
          dataPtr,      (* the block the task holds                         *)
          handed        (* history: the blocks given to the device          *)

feederVars == <<fed, buff, feeder, ptr>>
taskVars == <<player, dataPtr, handed>>
vars == <<slotVars, feederVars, taskVars>>

SinkInit ==
  /\ Init
  /\ fed = 0 /\ buff = <<>> /\ feeder = "idle" /\ ptr = Blank
  /\ player = "pop" /\ dataPtr = Blank /\ handed = <<>>

(***************************************************************************)
(* feedPCMFrames                                                           *)
(***************************************************************************)
FeedPCMFrames(bytes) ==
  /\ feeder = "idle" /\ fed + bytes <= MaxBytes
  /\ fed' = fed + bytes
  /\ buff' = buff \o [i \in 1..bytes |-> fed + i]
  /\ feeder' = "cut"
  /\ UNCHANGED <<slotVars, ptr, taskVars>>

(* Mutant: one block per call.                                             *)
Cut_Once ==
  /\ feeder = "cut"
  /\ IF Len(buff) > buff_size /\ ptr = Blank
     THEN /\ ptr' = SubSeq(buff, 1, buff_size)
          /\ buff' = SubSeq(buff, buff_size + 1, Len(buff))
          /\ feeder' = "push"
     ELSE UNCHANGED buff /\ ptr' = Blank /\ feeder' = "idle"
  /\ UNCHANGED <<slotVars, fed, taskVars>>

Cut ==
  /\ feeder = "cut"
  /\ IF Len(buff) > buff_size
     THEN /\ ptr' = SubSeq(buff, 1, buff_size)
          /\ buff' = SubSeq(buff, buff_size + 1, Len(buff))
          /\ feeder' = "push"
     ELSE UNCHANGED buff /\ ptr' = Blank /\ feeder' = "idle"
  /\ UNCHANGED <<slotVars, fed, taskVars>>

(* Mutant: a block that finds the ring full is dropped.                    *)
PushBlock_GivesUp ==
  /\ feeder = "push"
  /\ Push(ptr)
  /\ ptr' = IF answer'.ok THEN buf_[head_] ELSE ptr
  /\ feeder' = "cut"
  /\ UNCHANGED <<fed, buff, taskVars>>

(* while (!push(ptr)) usleep(100); the swap leaves the slot's old object   *)
(* in ptr.                                                                 *)
PushBlock ==
  /\ feeder = "push"
  /\ Push(ptr)
  /\ IF answer'.ok
     THEN ptr' = buf_[head_] /\ feeder' = "cut"
     ELSE UNCHANGED <<ptr, feeder>>
  /\ UNCHANGED <<fed, buff, taskVars>>

(***************************************************************************)
(* runTask                                                                 *)
(***************************************************************************)
PopBlock ==
  /\ player = "pop"
  /\ Pop(dataPtr)
  /\ IF answer'.ok
     THEN dataPtr' = answer'.block /\ player' = "write"
     ELSE UNCHANGED <<dataPtr, player>>
  /\ UNCHANGED <<feederVars, handed>>

WriteBlock ==
  /\ player = "write"
  /\ handed' = Append(handed, dataPtr)
  /\ player' = "pop"
  /\ UNCHANGED <<slotVars, feederVars, dataPtr>>

SinkNext ==
  \/ \E bytes \in 1..MaxFeed : FeedPCMFrames(bytes)
  \/ Cut \/ PushBlock
  \/ PopBlock \/ WriteBlock

(* Both threads run whenever they do not sleep, and sleep for a moment     *)
(* only.  Nobody has to feed the sink.                                     *)
Fairness ==
  /\ WF_vars(Cut \/ PushBlock)
  /\ WF_vars(PopBlock \/ WriteBlock)

SinkSpec == SinkInit /\ [][SinkNext]_vars /\ Fairness

(***************************************************************************)
(* Properties.                                                             *)
(***************************************************************************)
(* Everything fed is somewhere, once and in order: with the device, in the *)
(* task's hands, in the ring, in the feeder's hands, or waiting to be cut. *)
(* What the swaps leave behind in slots and pointers never comes back.     *)
NothingLost ==
  LET inTask == IF player = "write" THEN <<dataPtr>> ELSE <<>>
      inFeeder == IF feeder = "push" THEN <<ptr>> ELSE <<>>
  IN  FlattenSeq(handed \o inTask \o Contents \o inFeeder) \o buff
        = [i \in 1..fed |-> i]

(* Every feedPCMFrames call returns: its loop on a full ring does not wait *)
(* for a task that waits for something else.                               *)
FeedReturns == feeder # "idle" ~> feeder = "idle"

(* The task gets to everything that was fed, except for the last block,    *)
(* which feedPCMFrames keeps until more comes: it cuts a block only when   *)
(* there is more than one.                                                 *)
AllButOneBlockPlayed ==
  [](fed = MaxBytes => <>(fed - Len(handed) * buff_size <= buff_size))
=============================================================================

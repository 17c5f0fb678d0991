--------------------------- MODULE BufferedStream ---------------------------
(***************************************************************************)
(* BufferedStream (io/BufferedStream.cpp): a task copies a source stream   *)
(* into a ring ahead of the thread that reads it.  The two share the ring, *)
(* its pointers and the flags with hardly any locking: readAvailable is an *)
(* atomic, runningMutex keeps two tasks apart, and readMutex protects only *)
(* the comparison of two pointers already read.  So every access to the    *)
(* shared state that the other thread can tell apart is a step of its own. *)
(*                                                                         *)
(* A byte is the pair of the open() its stream belongs to and its offset   *)
(* in that stream.  The client is one thread, which opens, reads and       *)
(* closes; each open starts a task, and a task that has not run yet is     *)
(* only counted, since nothing tells it from another.                      *)
(***************************************************************************)
EXTENDS ByteQueue

CONSTANTS
  bufferSize, readThreshold, readSize, readyThreshold, notReadyThreshold,
  waitForReady,        (* the constructor's arguments                       *)
  SemaphoreClient,     (* the client waits on readySem before it reads      *)
  EarlyClose,          (* it may close before the task has started          *)
  StreamEnd,           (* length of every source                            *)
  InitialOffsets,      (* offsets a client opens a reader at                *)
  MaxOpens,            (* bound on calls of open                            *)
  MaxLen,              (* bound on the length of one read                   *)
  SemMax,              (* count at which a semaphore saturates              *)
  Null

(* Mutants: the refill threshold taken as the fill level at which a        *)
(* refill starts, or taken from the size of one read.                      *)
readAt_WholeBuffer == bufferSize
readAt_ReadSize == bufferSize - readSize

readAt == bufferSize - readThreshold

ASSUME StreamAssumption ==
  /\ {bufferSize, readThreshold, readSize, readyThreshold, notReadyThreshold,
      MaxLen, SemMax} \subseteq Nat \ {0}
  /\ {StreamEnd, MaxOpens} \subseteq Nat
  /\ readSize <= readThreshold
  /\ readThreshold <= bufferSize
  /\ InitialOffsets \subseteq 0..StreamEnd
  /\ {waitForReady, SemaphoreClient, EarlyClose} \subseteq BOOLEAN
  /\ Null \notin [open : Nat, next : Nat, end : Nat] \union Nat

VARIABLES
  buf, bufReadPtr, bufWritePtr, readAvailable, bufferTotal, readTotal,
  terminate, running, source, reader,
  readSem, readySem,
  (* The client: what it does next, what open() it is in, its registers.   *)
  client, opens, start, want, toReadTotal, toRead, copied, gotZero,
  (* The task holding runningMutex, the number of those not yet run, and   *)
  (* its registers.                                                        *)
  task, pending, fillSize, len, wasReady,
  ended                (* history: the source of this open() is finished    *)

ring == <<buf, bufReadPtr, bufWritePtr, readAvailable, bufferTotal, readTotal>>
flags == <<terminate, running>>
streams == <<source, reader, ended>>
clientRegs == <<opens, start, want, toReadTotal, toRead, copied, gotZero>>
taskRegs == <<pending, fillSize, len, wasReady>>
vars == <<ring, flags, streams, readSem, readySem, client, clientRegs,
          task, taskRegs>>

Slot == 0..(bufferSize - 1)
Byte == (1..MaxOpens) \X (0..StreamEnd)

isReady == readAvailable >= readyThreshold
isNotReady == readAvailable < notReadyThreshold

(* WrappedSemaphore::give on a counting semaphore.                         *)
Give(count) == Smaller(count + 1, SemMax)

(* lengthBetween: how far it is from me to other, or to the end of the     *)
(* storage when other does not lie ahead of me.                            *)
LengthBetween(me, other) ==
  IF other <= me THEN bufferSize - me ELSE other - me

Advanced(ptr, n) == IF ptr + n >= bufferSize THEN 0 ELSE ptr + n

(***************************************************************************)
(* The streams behind it (external).  A source hands out its bytes in      *)
(* order, at least one per read until it ends; a reader function makes a   *)
(* source that starts at a given offset, or none.                          *)
(***************************************************************************)
SourceFrom(open, from) ==
  {Null} \union {[open |-> open, next |-> from, end |-> e] : e \in (from + 1)..StreamEnd}

(***************************************************************************)
(* The client's calls.                                                     *)
(***************************************************************************)
Init ==
  /\ buf = [i \in Slot |-> Null]
  /\ bufReadPtr = 0 /\ bufWritePtr = 0
  /\ readAvailable = 0 /\ bufferTotal = 0 /\ readTotal = 0
  /\ terminate = FALSE /\ running = FALSE
  /\ source = Null /\ reader = Null /\ ended = TRUE
  /\ readSem = 0 /\ readySem = 0
  /\ client = "idle"
  /\ opens = 0 /\ start = 0 /\ want = 0 /\ toReadTotal = 0 /\ toRead = 0
  /\ copied = <<>> /\ gotZero = FALSE
  /\ task = "none" /\ pending = 0 /\ fillSize = 0 /\ len = 0 /\ wasReady = FALSE

(* Mutant: reset forgets the read pointer.                                 *)
Reset_KeepsReadPtr ==
  /\ bufWritePtr' = 0
  /\ readTotal' = 0 /\ bufferTotal' = 0 /\ readAvailable' = 0
  /\ terminate' = FALSE
  /\ UNCHANGED <<buf, running, bufReadPtr>>

Reset ==
  /\ bufReadPtr' = 0 /\ bufWritePtr' = 0
  /\ readTotal' = 0 /\ bufferTotal' = 0 /\ readAvailable' = 0
  /\ terminate' = FALSE
  /\ UNCHANGED <<buf, running>>

Goto(step) == client' = step

(* A client that does not close early has seen the task of its last open   *)
(* at work before it calls close or open again.                            *)
MayClose == EarlyClose \/ pending = 0

Close ==
  /\ client = "idle" /\ MayClose /\ opens > 0
  /\ terminate' = TRUE
  /\ Goto("closeGive")
  /\ UNCHANGED <<ring, running, streams, readSem, readySem, clientRegs, task, taskRegs>>

CloseGive ==
  /\ client \in {"closeGive", "reopenGive"}
  /\ readSem' = Give(readSem)
  /\ Goto(IF client = "closeGive" THEN "closeLock" ELSE "reopenLock")
  /\ UNCHANGED <<ring, flags, streams, readySem, clientRegs, task, taskRegs>>

CloseLock ==
  /\ client \in {"closeLock", "reopenLock"}
  /\ task = "none"
  /\ source' = Null /\ ended' = TRUE
  /\ Goto(IF client = "closeLock" THEN "idle" ELSE "reset")
  /\ UNCHANGED <<ring, flags, reader, readSem, readySem, clientRegs, task, taskRegs>>

Open ==
  /\ client = "idle" /\ MayClose /\ opens < MaxOpens
  /\ opens' = opens + 1
  /\ IF running
     THEN terminate' = TRUE /\ Goto("reopenGive")
     ELSE UNCHANGED terminate /\ Goto("reset")
  /\ UNCHANGED <<ring, running, streams, readSem, readySem,
                 start, want, toReadTotal, toRead, copied, gotZero, task, taskRegs>>

OpenReset ==
  /\ client = "reset"
  /\ Reset
  /\ gotZero' = FALSE
  /\ Goto("attach")
  /\ UNCHANGED <<streams, readSem, readySem, opens, start, want, toReadTotal,
                 toRead, copied, task, taskRegs>>

OpenStream ==
  /\ client = "attach"
  /\ source' \in SourceFrom(opens, 0) \ {Null}
  /\ start' = 0 /\ ended' = FALSE
  /\ Goto("start")
  /\ UNCHANGED <<ring, flags, reader, readSem, readySem, opens, want, toReadTotal,
                 toRead, copied, gotZero, task, taskRegs>>

OpenReader(initialOffset) ==
  /\ client = "attach"
  /\ reader' = opens
  /\ bufferTotal' = initialOffset
  /\ start' = initialOffset /\ ended' = FALSE
  /\ Goto("start")
  /\ UNCHANGED <<buf, bufReadPtr, bufWritePtr, readAvailable, readTotal, flags,
                 source, readSem, readySem, opens, want, toReadTotal, toRead,
                 copied, gotZero, task, taskRegs>>

StartTask ==
  /\ client = "start"
  /\ pending' = pending + 1
  /\ Goto("idle")
  /\ UNCHANGED <<ring, flags, streams, readSem, readySem, clientRegs,
                 task, fillSize, len, wasReady>>

(***************************************************************************)
(* read                                                                    *)
(***************************************************************************)
ReadCall(length) ==
  /\ client = "idle" /\ opens > 0
  /\ want' = length
  /\ gotZero' = FALSE
  /\ Goto(CASE SemaphoreClient /\ isNotReady -> "readySem"
            [] waitForReady /\ isNotReady -> "spin"
            [] OTHER -> "check")
  /\ UNCHANGED <<ring, flags, streams, readSem, readySem, opens, start,
                 toReadTotal, toRead, copied, task, taskRegs>>

(* Not in read(): the client waiting until the buffer is ready.            *)
ReadySemWait ==
  /\ client = "readySem"
  /\ readySem > 0
  /\ readySem' = readySem - 1
  /\ Goto(IF isReady THEN "check" ELSE "readySem")
  /\ UNCHANGED <<ring, flags, streams, readSem, clientRegs, task, taskRegs>>

Spin ==
  /\ client = "spin"
  /\ isReady \/ (source = Null /\ reader = Null)
  /\ Goto("check")
  /\ UNCHANGED <<ring, flags, streams, readSem, readySem, clientRegs, task, taskRegs>>

Check ==
  /\ client = "check"
  /\ Goto(IF ~running /\ readAvailable = 0 THEN "readReset" ELSE "take")
  /\ UNCHANGED <<ring, flags, streams, readSem, readySem, clientRegs, task, taskRegs>>

ReadReset ==
  /\ client = "readReset"
  /\ Reset
  /\ gotZero' = TRUE
  /\ Goto("idle")
  /\ UNCHANGED <<streams, readSem, readySem, opens, start, want, toReadTotal,
                 toRead, copied, task, taskRegs>>

Take ==
  /\ client = "take"
  /\ toReadTotal' = Smaller(readAvailable, want)
  /\ gotZero' = (toReadTotal' = 0)
  /\ Goto(IF toReadTotal' = 0 THEN "give" ELSE "copy")
  /\ UNCHANGED <<ring, flags, streams, readSem, readySem, opens, start, want,
                 toRead, copied, task, taskRegs>>

Copy ==
  /\ client = "copy"
  /\ toRead' = Smaller(toReadTotal, LengthBetween(bufReadPtr, bufWritePtr))
  /\ copied' = [i \in 1..toRead' |-> buf[bufReadPtr + i - 1]]
  /\ Goto("consume")
  /\ UNCHANGED <<ring, flags, streams, readSem, readySem, opens, start, want,
                 toReadTotal, gotZero, task, taskRegs>>

Consume ==
  /\ client = "consume"
  /\ readAvailable' = readAvailable - toRead
  /\ Goto("advance")
  /\ UNCHANGED <<buf, bufReadPtr, bufWritePtr, bufferTotal, readTotal, flags,
                 streams, readSem, readySem, clientRegs, task, taskRegs>>

Advance ==
  /\ client = "advance"
  /\ bufReadPtr' = Advanced(bufReadPtr, toRead)
  /\ toReadTotal' = toReadTotal - toRead
  /\ readTotal' = readTotal + toRead
  /\ copied' = <<>>
  /\ toRead' = 0
  /\ Goto(IF toReadTotal' = 0 THEN "give" ELSE "copy")
  /\ UNCHANGED <<buf, bufWritePtr, readAvailable, bufferTotal, flags, streams,
                 readSem, readySem, opens, start, want, gotZero, task, taskRegs>>

(* Mutant: read does not wake the task.                                    *)
ReadGive_Silent ==
  /\ client = "give"
  /\ Goto("idle")
  /\ UNCHANGED <<ring, flags, streams, readSem, readySem, clientRegs, task, taskRegs>>

ReadGive ==
  /\ client = "give"
  /\ readSem' = Give(readSem)
  /\ Goto("idle")
  /\ UNCHANGED <<ring, flags, streams, readySem, clientRegs, task, taskRegs>>

(***************************************************************************)
(* runTask                                                                 *)
(***************************************************************************)
TaskGoto(step) == task' = step

TaskStart ==
  /\ task = "none" /\ pending > 0
  /\ pending' = pending - 1
  /\ running' = TRUE
  /\ TaskGoto("first")
  /\ UNCHANGED <<ring, terminate, streams, readSem, readySem, client, clientRegs,
                 fillSize, len, wasReady>>

(* A new source from the reader; the stream is over when there is none.    *)
AskReader ==
  /\ source' \in SourceFrom(reader, bufferTotal)
  /\ ended' = (ended \/ source' = Null)
  /\ UNCHANGED reader

TaskFirst ==
  /\ task = "first"
  /\ IF source = Null /\ reader # Null THEN AskReader ELSE UNCHANGED streams
  /\ TaskGoto("loop")
  /\ UNCHANGED <<ring, flags, readSem, readySem, client, clientRegs, taskRegs>>

TaskLoop ==
  /\ task = "loop"
  /\ TaskGoto(CASE terminate \/ source = Null -> "exitSource"
                [] ~terminate /\ source # Null /\ isReady -> "wait"
                [] OTHER -> "check")
  /\ UNCHANGED <<ring, flags, streams, readSem, readySem, client, clientRegs, taskRegs>>

TaskWait ==
  /\ task = "wait"
  /\ readSem > 0
  /\ readSem' = readSem - 1
  /\ TaskGoto("check")
  /\ UNCHANGED <<ring, flags, streams, readySem, client, clientRegs, taskRegs>>

TaskCheck ==
  /\ task = "check"
  /\ TaskGoto(CASE terminate -> "exitSource"
                [] ~terminate /\ readAvailable > readAt -> "loop"
                [] OTHER -> "refill")
  /\ UNCHANGED <<ring, flags, streams, readSem, readySem, client, clientRegs, taskRegs>>

TaskRefill ==
  /\ task = "refill"
  /\ wasReady' = isReady
  /\ TaskGoto("fill")
  /\ UNCHANGED <<ring, flags, streams, readSem, readySem, client, clientRegs,
                 pending, fillSize, len>>

TaskFill ==
  /\ task = "fill"
  /\ fillSize' = Smaller(readSize, LengthBetween(bufWritePtr, bufReadPtr))
  /\ IF source = Null
     THEN len' = 0 /\ TaskGoto("refilled")
     ELSE UNCHANGED len /\ TaskGoto("fetch")
  /\ UNCHANGED <<ring, flags, streams, readSem, readySem, client, clientRegs,
                 pending, wasReady>>

(* source->read(bufWritePtr, toRead): any number of bytes up to toRead,    *)
(* none only at the end.                                                   *)
TaskFetch ==
  /\ task = "fetch"
  /\ LET left == source.end - source.next
     IN  /\ len' \in (IF left = 0 THEN {0} ELSE 1..Smaller(fillSize, left))
         /\ buf' = [i \in Slot |->
                      IF bufWritePtr <= i /\ i < bufWritePtr + len'
                      THEN <<source.open, source.next + (i - bufWritePtr)>>
                      ELSE buf[i]]
         /\ source' = [source EXCEPT !.next = @ + len']
  /\ TaskGoto("account")
  /\ UNCHANGED <<bufReadPtr, bufWritePtr, readAvailable, bufferTotal, readTotal,
                 flags, reader, ended, readSem, readySem, client, clientRegs,
                 pending, fillSize, wasReady>>

TaskAccount ==
  /\ task = "account"
  /\ readAvailable' = readAvailable + len
  /\ bufferTotal' = bufferTotal + len
  /\ TaskGoto("advance")
  /\ UNCHANGED <<buf, bufReadPtr, bufWritePtr, readTotal, flags, streams, readSem,
                 readySem, client, clientRegs, taskRegs>>

TaskAdvance ==
  /\ task = "advance"
  /\ bufWritePtr' = Advanced(bufWritePtr, len)
  /\ TaskGoto(IF len # 0 /\ readSize < bufferSize - readAvailable
              THEN "fill" ELSE "refilled")
  /\ UNCHANGED <<buf, bufReadPtr, readAvailable, bufferTotal, readTotal, flags,
                 streams, readSem, readySem, client, clientRegs, taskRegs>>

TaskRefilled ==
  /\ task = "refilled"
  /\ CASE len = 0 /\ reader # Null -> AskReader /\ UNCHANGED terminate
       [] len = 0 /\ reader = Null ->
            terminate' = TRUE /\ ended' = TRUE /\ UNCHANGED <<source, reader>>
       [] OTHER -> UNCHANGED <<streams, terminate>>
  /\ TaskGoto("signal")
  /\ UNCHANGED <<ring, running, readSem, readySem, client, clientRegs, taskRegs>>

TaskSignal ==
  /\ task = "signal"
  /\ readySem' = IF ~wasReady /\ isReady THEN Give(readySem) ELSE readySem
  /\ TaskGoto("loop")
  /\ UNCHANGED <<ring, flags, streams, readSem, client, clientRegs, taskRegs>>

(* Mutant: the reader stays attached when the task ends.                   *)
TaskExit_KeepsReader ==
  \/ /\ task = "exitSource" /\ TaskGoto("exitRunning")
     /\ source' = Null /\ UNCHANGED <<reader, running>>
  \/ /\ task = "exitRunning" /\ TaskGoto("none")
     /\ running' = FALSE /\ UNCHANGED <<source, reader>>

TaskExit ==
  \/ /\ task = "exitSource" /\ TaskGoto("exitReader")
     /\ source' = Null /\ UNCHANGED <<reader, running>>
  \/ /\ task = "exitReader" /\ TaskGoto("exitRunning")
     /\ reader' = Null /\ UNCHANGED <<source, running>>
  \/ /\ task = "exitRunning" /\ TaskGoto("none")
     /\ running' = FALSE /\ UNCHANGED <<source, reader>>

TaskEnd ==
  /\ TaskExit
  /\ UNCHANGED <<ring, terminate, ended, readSem, readySem, client, clientRegs, taskRegs>>

(***************************************************************************)
(* The two threads.                                                        *)
(***************************************************************************)
OpenCall ==
  \/ Open \/ OpenReset \/ OpenStream \/ StartTask
  \/ \E offset \in InitialOffsets : OpenReader(offset)
CloseCall == Close \/ CloseGive \/ CloseLock
ReadSteps ==
  \/ ReadySemWait \/ Spin \/ Check \/ ReadReset \/ Take
  \/ Copy \/ Consume \/ Advance \/ ReadGive

ReadAny == \E length \in 1..MaxLen : ReadCall(length)

Task ==
  \/ TaskStart \/ TaskFirst \/ TaskLoop \/ TaskWait \/ TaskCheck \/ TaskRefill
  \/ TaskFill \/ TaskFetch \/ TaskAccount \/ TaskAdvance \/ TaskRefilled \/ TaskSignal
  \/ TaskEnd

Next == OpenCall \/ CloseCall \/ ReadAny \/ ReadSteps \/ Task

(* Both threads keep running.  The client finishes the call it is in and,  *)
(* whatever else it calls, keeps reading.                                  *)
Fairness ==
  /\ WF_vars(Task)
  /\ WF_vars(client # "idle" /\ (OpenCall \/ CloseCall \/ ReadSteps))
  /\ SF_vars(ReadAny)

Spec == Init /\ [][Next]_vars
FairSpec == Spec /\ Fairness

(***************************************************************************)
(* Properties.                                                             *)
(***************************************************************************)
ClientStep ==
  {"idle", "closeGive", "closeLock", "reopenGive", "reopenLock", "reset",
   "attach", "start", "readySem", "spin", "check", "readReset", "take", "copy",
   "consume", "advance", "give"}
TaskStep ==
  {"none", "first", "loop", "wait", "check", "refill", "fill", "fetch",
   "account", "advance", "refilled", "signal", "exitSource", "exitReader",
   "exitRunning"}
Source == [open : 1..MaxOpens, next : 0..StreamEnd, end : 0..StreamEnd]

(* Pointers stay inside the storage, the byte count inside the capacity,   *)
(* and every amount the two loops work with fits the storage.              *)
TypeOK ==
  /\ buf \in [Slot -> Byte \union {Null}]
  /\ {bufReadPtr, bufWritePtr} \subseteq Slot
  /\ readAvailable \in 0..bufferSize
  /\ {bufferTotal, readTotal, start} \subseteq 0..StreamEnd
  /\ {terminate, running, gotZero, wasReady, ended} \subseteq BOOLEAN
  /\ source \in Source \union {Null}
  /\ reader \in (1..MaxOpens) \union {Null}
  /\ {readSem, readySem} \subseteq 0..SemMax
  /\ client \in ClientStep /\ task \in TaskStep
  /\ {opens, pending} \subseteq 0..MaxOpens
  /\ want \in 0..MaxLen
  /\ {toRead, toReadTotal, fillSize, len} \subseteq 0..bufferSize

(* Safety of the unlocked ring: the task never asks the source for more    *)
(* than the room free of unread bytes, although lengthBetween takes an     *)
(* empty and a full ring for the same, and the client, while it holds      *)
(* bytes it has uncounted but not skipped, makes the ring look full.       *)
NoOverrun == task = "fetch" => readAvailable + fillSize <= bufferSize

(* The client sees the stream: what read() copies out is the next bytes of *)
(* the source it opened last, in order, with none lost, repeated or left   *)
(* over from an earlier source.                                            *)
InOrder ==
  client = "consume" =>
    copied = [i \in 1..toRead |-> <<opens, start + readTotal + i - 1>>]

(* The comment on read(): it returns 0 "if the source stream is already    *)
(* closed and there is no reader attached".  A client that reads only when *)
(* the buffer is ready gets 0 for no other reason.                         *)
ZeroMeansEnded == gotZero => ended

(* What read returns is the stream, to its end.                            *)
ReadsTheStream == TypeOK /\ InOrder /\ ZeroMeansEnded

(* Every call of the client returns: read's busy wait for readiness and    *)
(* close's wait for the task end.                                          *)
CallsReturn == (client # "idle") ~> (client = "idle")

(* A client that keeps reading gets everything the source has: neither     *)
(* thread ends up waiting for the other with bytes still to come.          *)
Drains == (client = "start") ~> (ended /\ readAvailable = 0)

(* The comment on readySem: the client "can wait for the semaphore instead *)
(* of continuously querying isReady()".  So it is never left waiting while *)
(* the buffer is ready and the task sleeps.                                *)
NoMissedReady ==
  ~ /\ client = "readySem" /\ readySem = 0
    /\ task = "wait" /\ readSem = 0
    /\ isReady
=============================================================================

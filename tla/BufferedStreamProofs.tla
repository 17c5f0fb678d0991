------------------------ MODULE BufferedStreamProofs ------------------------
(***************************************************************************)
(* BufferedStream for every size and threshold the constructor may be      *)
(* given (StreamAssumption): the task never overruns unread bytes, whoever *)
(* the client is, one that closes before its task has started included;    *)
(* a client that does not, and reads when the buffer is ready, reads the   *)
(* source; and one that waits on readySem is woken.                        *)
(***************************************************************************)
EXTENDS BufferedStream, TLAPS

AnySource == [open : Nat, next : Nat, end : Nat]

(* The part of the state the argument looks at, with its types.            *)
Shape ==
  /\ bufReadPtr \in Slot /\ bufWritePtr \in Slot
  /\ readAvailable \in 0..bufferSize
  /\ bufferTotal \in Nat /\ opens \in Nat /\ want \in Nat
  /\ source \in AnySource \union {Null}
  /\ reader \in Nat \union {Null}
  /\ start \in Nat /\ readTotal \in Nat
  /\ toRead \in Nat /\ toReadTotal \in Nat /\ fillSize \in Nat /\ len \in Nat

(* The client: it never uncounts more than was available when it began,    *)
(* and nobody else lowers the count.                                       *)
ClientInv ==
  /\ client = "copy" => toReadTotal <= readAvailable
  /\ client = "consume" => toRead <= toReadTotal /\ toReadTotal <= readAvailable
  /\ client = "advance" =>
       toRead <= toReadTotal /\ toReadTotal - toRead <= readAvailable

(* The task: the room it found stays there until it has used it, since     *)
(* nobody else raises the count.                                           *)
TaskInv ==
  /\ task \in {"refill", "fill"} => readAvailable + readSize <= bufferSize
  /\ task = "fetch" => /\ readAvailable + fillSize <= bufferSize
                       /\ fillSize <= readSize
                       /\ source # Null
  /\ task = "account" => readAvailable + len <= bufferSize /\ len <= readSize

StreamInv == Shape /\ ClientInv /\ TaskInv

LEMMA StreamInitInv == Init => StreamInv
BY StreamAssumption DEF Init, StreamInv, Shape, ClientInv, TaskInv, Slot

LEMMA OpenCallInv == StreamInv /\ OpenCall => StreamInv'
<1> SUFFICES ASSUME StreamInv, OpenCall PROVE StreamInv'
  OBVIOUS
<1> USE StreamAssumption DEF StreamInv, Shape, ClientInv, TaskInv, Goto,
        ring, flags, streams, clientRegs, taskRegs
<1>1. CASE Open
  BY <1>1 DEF Open
<1>2. CASE OpenReset
  BY <1>2 DEF OpenReset, Reset, Slot
<1>3. CASE OpenStream
  BY <1>3 DEF OpenStream, SourceFrom, AnySource
<1>4. CASE StartTask
  BY <1>4 DEF StartTask
<1>5. ASSUME NEW offset \in InitialOffsets, OpenReader(offset) PROVE StreamInv'
  BY <1>5 DEF OpenReader
<1> QED
  BY <1>1, <1>2, <1>3, <1>4, <1>5 DEF OpenCall

LEMMA CloseCallInv == StreamInv /\ CloseCall => StreamInv'
BY StreamAssumption
DEF StreamInv, Shape, ClientInv, TaskInv, Goto, CloseCall, Close, CloseGive, CloseLock,
    ring, flags, streams, clientRegs, taskRegs

LEMMA ReadInv == StreamInv /\ (ReadAny \/ ReadSteps) => StreamInv'
<1> SUFFICES ASSUME StreamInv, ReadAny \/ ReadSteps PROVE StreamInv'
  OBVIOUS
<1> USE StreamAssumption DEF StreamInv, Shape, ClientInv, TaskInv, Goto,
        ring, flags, streams, clientRegs, taskRegs
<1>1. CASE ReadAny
  BY <1>1 DEF ReadAny, ReadCall
<1>2. CASE ReadySemWait \/ Spin \/ Check \/ ReadGive
  BY <1>2 DEF ReadySemWait, Spin, Check, ReadGive
<1>3. CASE ReadReset
  BY <1>3 DEF ReadReset, Reset, Slot
<1>4. CASE Take
  BY <1>4 DEF Take, Smaller
<1>5. CASE Copy
  BY <1>5 DEF Copy, Smaller, LengthBetween, Slot
<1>6. CASE Consume
  BY <1>6 DEF Consume
<1>7. CASE Advance
  BY <1>7 DEF Advance, Advanced, Slot
<1> QED
  BY <1>1, <1>2, <1>3, <1>4, <1>5, <1>6, <1>7 DEF ReadSteps

LEMMA TaskStepInv == StreamInv /\ Task => StreamInv'
<1> SUFFICES ASSUME StreamInv, Task PROVE StreamInv'
  OBVIOUS
<1> USE StreamAssumption DEF StreamInv, Shape, ClientInv, TaskInv, TaskGoto,
        ring, flags, streams, clientRegs, taskRegs
<1>1. CASE TaskStart \/ TaskWait \/ TaskSignal
  BY <1>1 DEF TaskStart, TaskWait, TaskSignal
<1>2. CASE TaskFirst
  BY <1>2 DEF TaskFirst, AskReader, SourceFrom, AnySource
<1>3. CASE TaskLoop
  BY <1>3 DEF TaskLoop
<1>4. CASE TaskCheck
  BY <1>4 DEF TaskCheck, readAt
<1>5. CASE TaskRefill
  BY <1>5 DEF TaskRefill
<1>6. CASE TaskFill
  BY <1>6 DEF TaskFill, Smaller, LengthBetween, Slot
<1>7. CASE TaskFetch
  <2>1. source \in AnySource
    BY <1>7 DEF TaskFetch
  <2>2. source.next \in Nat /\ source.end \in Nat
    BY <2>1 DEF AnySource
  <2>3. len' \in Nat /\ len' <= fillSize
    BY <1>7, <2>2 DEF TaskFetch, Smaller
  <2>4. source' \in AnySource
    <3>1. source' = [source EXCEPT !.next = source.next + len']
      BY <1>7 DEF TaskFetch
    <3>2. source.next + len' \in Nat
      BY <2>2, <2>3
    <3> QED
      BY <2>1, <3>1, <3>2 DEF AnySource
  <2>5. /\ task = "fetch" /\ task' = "account"
        /\ UNCHANGED <<bufReadPtr, bufWritePtr, readAvailable, bufferTotal, readTotal, reader,
                       client, clientRegs, fillSize>>
    BY <1>7 DEF TaskFetch
  <2> QED
    BY <2>3, <2>4, <2>5
<1>8. CASE TaskAccount
  BY <1>8 DEF TaskAccount
<1>9. CASE TaskAdvance
  BY <1>9 DEF TaskAdvance, Advanced, Slot
<1>10. CASE TaskRefilled
  <2>1. CASE len = 0 /\ reader # Null
    BY <1>10, <2>1 DEF TaskRefilled, AskReader, SourceFrom, AnySource
  <2>2. CASE len = 0 /\ reader = Null
    BY <1>10, <2>2 DEF TaskRefilled
  <2>3. CASE len # 0
    BY <1>10, <2>3 DEF TaskRefilled
  <2> QED
    BY <2>1, <2>2, <2>3
<1>11. CASE TaskEnd
  BY <1>11 DEF TaskEnd, TaskExit
<1> QED
  BY <1>1, <1>2, <1>3, <1>4, <1>5, <1>6, <1>7, <1>8, <1>9, <1>10, <1>11 DEF Task

LEMMA StreamStepInv == StreamInv /\ [Next]_vars => StreamInv'
<1> SUFFICES ASSUME StreamInv, [Next]_vars PROVE StreamInv'
  OBVIOUS
<1>1. CASE UNCHANGED vars
  BY <1>1 DEF vars, ring, streams, clientRegs, taskRegs, StreamInv, Shape, ClientInv, TaskInv
<1> QED
  BY <1>1, OpenCallInv, CloseCallInv, ReadInv, TaskStepInv DEF Next

THEOREM StreamInvariant == Spec => []StreamInv
<1>1. Init => StreamInv
  BY StreamInitInv
<1>2. StreamInv /\ [Next]_vars => StreamInv'
  BY StreamStepInv
<1> QED
  BY <1>1, <1>2, PTL DEF Spec

(* For all sizes and thresholds with readSize <= readThreshold, the task   *)
(* asks its source for no more bytes than the ring has free, although it   *)
(* decides that from a count the client is changing at the same time.      *)
THEOREM NeverOverruns == Spec => []NoOverrun
<1>1. StreamInv => NoOverrun
  BY DEF StreamInv, TaskInv, NoOverrun
<1> QED
  BY <1>1, StreamInvariant, PTL
(***************************************************************************)
(* What read() copies out.  The bytes counted in readAvailable lie, in the *)
(* order of the stream, from Front on around the storage; the first of     *)
(* them is byte FirstCounted of the stream.  While the client has          *)
(* uncounted bytes it has not skipped yet, Front is where it will skip to; *)
(* while the task has counted bytes and not moved the write pointer, that  *)
(* pointer is len behind.  An open() that is on its way already has its    *)
(* number, but what is in the ring is the one before's.                    *)
(***************************************************************************)
Closing == client \in {"closeGive", "closeLock", "reopenGive", "reopenLock"}
Reopening == client \in {"reopenGive", "reopenLock", "reset"}

Current == IF Reopening THEN opens - 1 ELSE opens
Uncounted == IF client = "advance" THEN toRead ELSE 0
Fetched == IF task = "account" THEN len ELSE 0
Unmoved == IF task = "advance" THEN len ELSE 0

Around(n) == IF n >= bufferSize THEN n - bufferSize ELSE n
Front == Around(bufReadPtr + Uncounted)
FirstCounted == start + readTotal + Uncounted

(* Who runs when: a client that does not close early has one task at most, *)
(* started or not, and none while it attaches a stream.                    *)
Idle == task = "none" /\ pending = 0 /\ client # "start"
NoSource == source = Null /\ reader = Null

OneTask ==
  /\ running <=> task # "none"
  /\ pending \in {0, 1}
  /\ pending = 1 => task = "none" /\ opens > 0
  /\ Closing \/ client \in {"reset", "attach", "start"} => pending = 0 /\ opens > 0
  /\ client \in {"reset", "attach", "start"} => task = "none"
  /\ client \in {"attach", "start"} => ~terminate

Attached ==
  /\ Idle => NoSource
  /\ pending = 1 \/ client = "start" \/ task = "first" => ~NoSource
  /\ task \in {"exitReader", "exitRunning"} => source = Null
  /\ task = "exitRunning" => reader = Null
  /\ reader # Null => reader = Current
  /\ source # Null => source.open = Current /\ source.end <= StreamEnd
  /\ task # "none" => Current > 0

(* A client that waits until the buffer is ready looks at it only when     *)
(* there is something in it, or there will be no more.                     *)
LooksWhenReady ==
  /\ client \in {"readySem", "spin", "check", "take"} => want > 0
  /\ client \in {"check", "take"} => readAvailable > 0 \/ NoSource
  /\ client = "readReset" => Idle /\ readAvailable = 0

(* When there is no more, the source is finished.                          *)
EndIsSeen ==
  /\ terminate => ended \/ Closing
  /\ task \notin {"none", "first"} /\ source = Null => ended \/ Closing
  /\ task \in {"exitSource", "exitReader", "exitRunning"} => ended \/ Closing
  /\ Idle => ended \/ Closing
  /\ client = "attach" => ~gotZero
  /\ gotZero => ended

(* After a reset, until a stream is attached, the ring holds nothing.      *)
Wiped ==
  /\ Idle /\ readAvailable = 0 /\ bufferTotal = 0 /\ readTotal = 0
  /\ bufReadPtr = 0 /\ bufWritePtr = 0
  /\ client \notin {"copy", "consume", "advance"}

Counted ==
  /\ bufferTotal = FirstCounted + readAvailable
  /\ bufferTotal + Fetched <= StreamEnd
  /\ source # Null => source.next = bufferTotal + Fetched

Placed ==
  Around(bufWritePtr + Unmoved) = Around(Front + readAvailable)

NoneAround ==
  /\ client \in {"consume", "advance"} => bufReadPtr + toRead <= bufferSize
  /\ task = "fetch" => bufWritePtr + fillSize <= bufferSize
  /\ task \in {"account", "advance"} => bufWritePtr + len <= bufferSize

InTheRing ==
  /\ \A j \in Nat : j < readAvailable =>
       buf[Around(Front + j)] = <<Current, FirstCounted + j>>
  /\ \A j \in Nat : j < Fetched =>
       buf[bufWritePtr + j] = <<Current, bufferTotal + j>>

Held == Counted /\ Placed /\ NoneAround /\ InTheRing

RingInv == (client = "attach" => Wiped) /\ (Wiped \/ Held)

ReaderInv ==
  StreamInv /\ OneTask /\ Attached /\ LooksWhenReady /\ EndIsSeen /\ RingInv /\ InOrder

(* The client the property is about.                                       *)
WaitsForReady == ~EarlyClose /\ (waitForReady \/ SemaphoreClient)

LEMMA ReaderInvInit == Init => ReaderInv
<1> SUFFICES ASSUME Init PROVE ReaderInv
  OBVIOUS
<1>1. StreamInv
  BY StreamInitInv
<1>2. OneTask /\ Attached /\ LooksWhenReady /\ EndIsSeen /\ InOrder
  BY DEF Init, OneTask, Attached, LooksWhenReady, EndIsSeen, InOrder,
         Closing, Idle, NoSource
<1>3. Wiped
  BY DEF Init, Wiped, Idle
<1> QED
  BY <1>1, <1>2, <1>3 DEF ReaderInv, RingInv

(* A read of the source: the same source, further on.                      *)
LEMMA FetchReads ==
  ASSUME StreamInv, TaskFetch
  PROVE  /\ source \in AnySource /\ source' \in AnySource /\ source # Null /\ source' # Null
         /\ source'.open = source.open /\ source'.end = source.end
         /\ source'.next = source.next + len'
         /\ len' \in Nat /\ len' <= fillSize /\ source.next + len' <= source.end
<1>1. /\ source \in AnySource \union {Null} /\ source # Null /\ fillSize \in Nat
      /\ Null \notin AnySource
  BY StreamAssumption DEF StreamInv, Shape, TaskInv, TaskFetch, AnySource
<1>2. source \in AnySource /\ source.next \in Nat /\ source.end \in Nat
  BY <1>1 DEF AnySource
<1>3. len' \in Nat /\ len' <= fillSize /\ source.next + len' <= source.end
  BY <1>1, <1>2 DEF TaskFetch, Smaller
<1>4. source' = [source EXCEPT !.next = source.next + len']
  BY DEF TaskFetch
<1>5. source.next + len' \in Nat
  BY <1>2, <1>3
<1>6. /\ source' \in AnySource /\ source'.open = source.open /\ source'.end = source.end
      /\ source'.next = source.next + len'
  BY <1>2, <1>4, <1>5 DEF AnySource
<1> QED
  BY <1>1, <1>2, <1>3, <1>6

LEMMA OneTaskStep ==
  ASSUME WaitsForReady, ReaderInv, [Next]_vars
  PROVE  OneTask'
<1> USE DEF OneTask, Closing, Goto, TaskGoto, ring, flags, streams, clientRegs, taskRegs
<1>1. OneTask /\ ~EarlyClose /\ opens \in Nat
  BY DEF ReaderInv, WaitsForReady, StreamInv, Shape
<1>2. CASE OpenCall
  <2>1. CASE Open
    BY <1>1, <2>1 DEF Open, MayClose
  <2>2. CASE OpenReset
    BY <1>1, <2>2 DEF OpenReset, Reset
  <2>3. CASE OpenStream \/ \E offset \in InitialOffsets : OpenReader(offset)
    BY <1>1, <2>3 DEF OpenStream, OpenReader
  <2>4. CASE StartTask
    BY <1>1, <2>4 DEF StartTask
  <2> QED
    BY <1>2, <2>1, <2>2, <2>3, <2>4 DEF OpenCall
<1>3. CASE CloseCall
  BY <1>1, <1>3 DEF CloseCall, Close, CloseGive, CloseLock, MayClose
<1>4. CASE ReadAny
  BY <1>1, <1>4 DEF ReadAny, ReadCall
<1>5. CASE ReadSteps
  <2>1. CASE ReadySemWait \/ Spin \/ Check \/ Take \/ ReadGive
    BY <1>1, <2>1 DEF ReadySemWait, Spin, Check, Take, ReadGive
  <2>2. CASE ReadReset
    BY <1>1, <2>2 DEF ReadReset, Reset
  <2>3. CASE Copy \/ Consume \/ Advance
    BY <1>1, <2>3 DEF Copy, Consume, Advance
  <2> QED
    BY <1>5, <2>1, <2>2, <2>3 DEF ReadSteps
<1>6. CASE Task
  <2>1. CASE TaskStart
    BY <1>1, <2>1 DEF TaskStart
  <2>2. CASE TaskFirst \/ TaskLoop \/ TaskWait \/ TaskCheck \/ TaskRefill \/ TaskFill
    BY <1>1, <2>2 DEF TaskFirst, TaskLoop, TaskWait, TaskCheck, TaskRefill, TaskFill
  <2>3. CASE TaskFetch \/ TaskAccount \/ TaskAdvance \/ TaskSignal
    BY <1>1, <2>3 DEF TaskFetch, TaskAccount, TaskAdvance, TaskSignal
  <2>4. CASE TaskRefilled
    BY <1>1, <2>4 DEF TaskRefilled
  <2>5. CASE TaskEnd
    BY <1>1, <2>5 DEF TaskEnd, TaskExit
  <2> QED
    BY <1>6, <2>1, <2>2, <2>3, <2>4, <2>5 DEF Task
<1>7. CASE UNCHANGED vars
  BY <1>1, <1>7 DEF vars
<1> QED
  BY <1>2, <1>3, <1>4, <1>5, <1>6, <1>7 DEF Next


LEMMA AttachedStep ==
  ASSUME WaitsForReady, ReaderInv, [Next]_vars
  PROVE  Attached'
<1> USE DEF Attached, Idle, NoSource, Current, Reopening, Goto, TaskGoto,
            ring, flags, streams, clientRegs, taskRegs
<1>1. /\ Attached /\ OneTask /\ LooksWhenReady /\ ~EarlyClose /\ opens \in Nat
      /\ source \in AnySource \union {Null} /\ reader \in Nat \union {Null}
      /\ Null \notin Nat /\ Null \notin AnySource /\ StreamEnd \in Nat
  BY StreamAssumption DEF ReaderInv, WaitsForReady, StreamInv, Shape, AnySource
<1>2. CASE OpenCall
  <2>1. CASE Open
    <3>1. /\ pending = 0 /\ client = "idle" /\ opens' = opens + 1
          /\ client' = (IF running THEN "reopenGive" ELSE "reset")
          /\ UNCHANGED <<source, reader, task, pending>>
      BY <1>1, <2>1 DEF Open, MayClose
    <3>2. Current' = Current
      BY <1>1, <3>1
    <3>3. running <=> task # "none"
      BY <1>1 DEF OneTask
    <3> QED
      BY <1>1, <3>1, <3>2, <3>3
  <2>2. CASE OpenReset
    BY <1>1, <2>2 DEF OpenReset, Reset, OneTask
  <2>3. CASE OpenStream
    BY <1>1, <2>3 DEF OpenStream, SourceFrom, OneTask
  <2>4. ASSUME NEW offset \in InitialOffsets, OpenReader(offset) PROVE Attached'
    BY <1>1, <2>4 DEF OpenReader, OneTask
  <2>5. CASE StartTask
    BY <1>1, <2>5 DEF StartTask, OneTask
  <2> QED
    BY <1>2, <2>1, <2>2, <2>3, <2>4, <2>5 DEF OpenCall
<1>3. CASE CloseCall
  <2>1. CASE Close
    BY <1>1, <2>1 DEF Close, MayClose
  <2>2. CASE CloseGive
    BY <1>1, <2>2 DEF CloseGive
  <2>3. CASE CloseLock
    BY <1>1, <2>3 DEF CloseLock, OneTask, Closing
  <2> QED
    BY <1>3, <2>1, <2>2, <2>3 DEF CloseCall
<1>4. CASE ReadAny
  BY <1>1, <1>4 DEF ReadAny, ReadCall
<1>5. CASE ReadSteps
  <2>1. CASE ReadySemWait \/ Spin \/ Check \/ Take \/ ReadGive
    BY <1>1, <2>1 DEF ReadySemWait, Spin, Check, Take, ReadGive
  <2>2. CASE ReadReset
    BY <1>1, <2>2 DEF ReadReset, Reset
  <2>3. CASE Copy \/ Consume \/ Advance
    BY <1>1, <2>3 DEF Copy, Consume, Advance
  <2> QED
    BY <1>5, <2>1, <2>2, <2>3 DEF ReadSteps
<1>6. CASE Task
  <2>1. CASE TaskStart
    BY <1>1, <2>1 DEF TaskStart, OneTask, Closing
  <2>2. CASE TaskFirst
    BY <1>1, <2>2 DEF TaskFirst, AskReader, SourceFrom
  <2>3. CASE TaskLoop \/ TaskWait \/ TaskCheck \/ TaskRefill \/ TaskFill
    BY <1>1, <2>3 DEF TaskLoop, TaskWait, TaskCheck, TaskRefill, TaskFill
  <2>4. CASE TaskFetch
    <3>1. source # Null /\ source' # Null /\ source'.open = source.open /\ source'.end = source.end
      BY <2>4, FetchReads DEF ReaderInv
    <3>2. task = "fetch" /\ task' = "account" /\ UNCHANGED <<reader, client, opens, pending>>
      BY <2>4 DEF TaskFetch
    <3> QED
      BY <1>1, <3>1, <3>2
  <2>5. CASE TaskAccount \/ TaskAdvance \/ TaskSignal
    BY <1>1, <2>5 DEF TaskAccount, TaskAdvance, TaskSignal
  <2>6. CASE TaskRefilled
    <3>1. CASE len = 0 /\ reader # Null
      BY <1>1, <2>6, <3>1 DEF TaskRefilled, AskReader, SourceFrom
    <3>2. CASE len # 0 \/ reader = Null
      BY <1>1, <2>6, <3>2 DEF TaskRefilled
    <3> QED
      BY <3>1, <3>2
  <2>7. CASE TaskEnd
    BY <1>1, <2>7 DEF TaskEnd, TaskExit, OneTask
  <2> QED
    BY <1>6, <2>1, <2>2, <2>3, <2>4, <2>5, <2>6, <2>7 DEF Task
<1>7. CASE UNCHANGED vars
  BY <1>1, <1>7 DEF vars
<1> QED
  BY <1>2, <1>3, <1>4, <1>5, <1>6, <1>7 DEF Next


LEMMA LooksStep ==
  ASSUME WaitsForReady, ReaderInv, [Next]_vars
  PROVE  LooksWhenReady'
<1> USE DEF LooksWhenReady, Idle, NoSource, Goto, TaskGoto,
            ring, flags, streams, clientRegs, taskRegs
<1>1. /\ LooksWhenReady /\ WaitsForReady
      /\ readAvailable \in Nat /\ MaxLen \in Nat
      /\ readyThreshold \in Nat \ {0} /\ notReadyThreshold \in Nat \ {0}
  BY StreamAssumption DEF ReaderInv, StreamInv, Shape
<1>2. CASE OpenCall
  BY <1>1, <1>2 DEF OpenCall, Open, OpenReset, OpenStream, OpenReader, StartTask
<1>3. CASE CloseCall
  BY <1>1, <1>3 DEF CloseCall, Close, CloseGive, CloseLock
<1>4. CASE ReadAny
  <2>1. client' \in {"readySem", "spin"} \/ (client' = "check" /\ ~isNotReady)
    BY <1>1, <1>4 DEF ReadAny, ReadCall, WaitsForReady
  <2> QED
    BY <1>1, <1>4, <2>1 DEF ReadAny, ReadCall, isNotReady
<1>5. CASE ReadSteps
  <2>1. CASE ReadySemWait \/ Spin
    BY <1>1, <2>1 DEF ReadySemWait, Spin, isReady
  <2>2. CASE Check
    BY <1>1, <2>2 DEF Check, ReaderInv, OneTask, Attached
  <2>3. CASE ReadReset \/ Take \/ Copy \/ Consume \/ Advance \/ ReadGive
    BY <1>1, <2>3 DEF ReadReset, Reset, Take, Copy, Consume, Advance, ReadGive
  <2> QED
    BY <1>5, <2>1, <2>2, <2>3 DEF ReadSteps
<1>6. CASE Task
  <2>0. client' = client /\ want' = want /\ (Idle => NoSource) /\ (pending = 1 => ~NoSource)
    BY <1>6 DEF Task, TaskStart, TaskFirst, TaskLoop, TaskWait, TaskCheck, TaskRefill, TaskFill,
             TaskFetch, TaskAccount, TaskAdvance, TaskRefilled, TaskSignal, TaskEnd,
             ReaderInv, Attached
  <2>1. CASE TaskStart
    BY <1>1, <2>0, <2>1 DEF TaskStart, ReaderInv, OneTask
  <2>2. CASE TaskFirst
    BY <1>1, <2>2 DEF TaskFirst, AskReader
  <2>3. CASE TaskLoop \/ TaskWait \/ TaskCheck \/ TaskRefill \/ TaskFill
    BY <1>1, <2>3 DEF TaskLoop, TaskWait, TaskCheck, TaskRefill, TaskFill
  <2>4. CASE TaskFetch
    <3>1. source # Null /\ task = "fetch" /\ readAvailable' = readAvailable
      BY <2>4 DEF TaskFetch, ReaderInv, StreamInv, TaskInv
    <3> QED
      BY <1>1, <2>0, <3>1
  <2>5. CASE TaskAccount
    <3>1. len \in Nat /\ readAvailable' = readAvailable + len
          /\ UNCHANGED <<source, reader>> /\ task = "account"
      BY <2>5 DEF TaskAccount, ReaderInv, StreamInv, Shape
    <3> QED
      BY <1>1, <2>0, <3>1
  <2>6. CASE TaskAdvance \/ TaskSignal
    BY <1>1, <2>6 DEF TaskAdvance, TaskSignal
  <2>7. CASE TaskRefilled
    <3>1. CASE len = 0 /\ reader # Null
      BY <1>1, <2>7, <3>1 DEF TaskRefilled, AskReader
    <3>2. CASE len # 0 \/ reader = Null
      BY <1>1, <2>7, <3>2 DEF TaskRefilled
    <3> QED
      BY <3>1, <3>2
  <2>8. CASE TaskEnd
    BY <1>1, <2>8 DEF TaskEnd, TaskExit, ReaderInv, Attached
  <2> QED
    BY <1>6, <2>1, <2>2, <2>3, <2>4, <2>5, <2>6, <2>7, <2>8 DEF Task
<1>7. CASE UNCHANGED vars
  BY <1>1, <1>7 DEF vars
<1> QED
  BY <1>2, <1>3, <1>4, <1>5, <1>6, <1>7 DEF Next


LEMMA EndIsSeenStep ==
  ASSUME WaitsForReady, ReaderInv, [Next]_vars
  PROVE  EndIsSeen'
<1> USE DEF EndIsSeen, Idle, Closing, Goto, TaskGoto,
            ring, flags, streams, clientRegs, taskRegs
<1>1. EndIsSeen /\ OneTask /\ Attached /\ LooksWhenReady /\ ~EarlyClose
  BY DEF ReaderInv, WaitsForReady
<1>2. CASE OpenCall
  <2>1. CASE Open
    BY <1>1, <2>1 DEF Open, MayClose, OneTask
  <2>2. CASE OpenReset
    BY <1>1, <2>2 DEF OpenReset, Reset, OneTask
  <2>3. CASE OpenStream
    BY <1>1, <2>3 DEF OpenStream, OneTask
  <2>4. CASE \E offset \in InitialOffsets : OpenReader(offset)
    BY <1>1, <2>4 DEF OpenReader, OneTask
  <2>5. CASE StartTask
    BY <1>1, <2>5 DEF StartTask, OneTask
  <2> QED
    BY <1>2, <2>1, <2>2, <2>3, <2>4, <2>5 DEF OpenCall
<1>3. CASE CloseCall
  BY <1>1, <1>3 DEF CloseCall, Close, CloseGive, CloseLock
<1>4. CASE ReadAny
  BY <1>1, <1>4 DEF ReadAny, ReadCall
<1>5. CASE ReadSteps
  <2>1. CASE ReadySemWait \/ Spin \/ Check \/ ReadGive
    BY <1>1, <2>1 DEF ReadySemWait, Spin, Check, ReadGive
  <2>2. CASE Take
    <3>1. CASE readAvailable > 0
      <4>1. toReadTotal' # 0
        BY <2>2, <3>1, StreamAssumption
        DEF Take, Smaller, ReaderInv, StreamInv, Shape, LooksWhenReady
      <4> QED
        BY <1>1, <2>2, <4>1 DEF Take
    <3>2. CASE NoSource
      <4>1. ended
        BY <1>1, <2>2, <3>2 DEF Take, NoSource, OneTask, Attached
      <4> QED
        BY <1>1, <2>2, <4>1 DEF Take
    <3> QED
      BY <1>1, <2>2, <3>1, <3>2 DEF LooksWhenReady, Take
  <2>3. CASE ReadReset
    BY <1>1, <2>3 DEF ReadReset, Reset, LooksWhenReady
  <2>4. CASE Copy \/ Consume \/ Advance
    BY <1>1, <2>4 DEF Copy, Consume, Advance
  <2> QED
    BY <1>5, <2>1, <2>2, <2>3, <2>4 DEF ReadSteps
<1>6. CASE Task
  <2>1. CASE TaskStart
    BY <1>1, <2>1 DEF TaskStart
  <2>2. CASE TaskFirst
    BY <1>1, <2>2 DEF TaskFirst, AskReader, Attached, NoSource
  <2>3. CASE TaskLoop \/ TaskWait \/ TaskCheck \/ TaskRefill \/ TaskFill
    BY <1>1, <2>3 DEF TaskLoop, TaskWait, TaskCheck, TaskRefill, TaskFill
  <2>4. CASE TaskFetch
    <3>1. source # Null /\ task = "fetch" /\ task' = "account" /\ source' # Null
          /\ UNCHANGED <<terminate, ended, client, gotZero, pending>>
      BY <2>4, FetchReads DEF TaskFetch, ReaderInv
    <3> QED
      BY <1>1, <3>1
  <2>5. CASE TaskAccount \/ TaskAdvance \/ TaskSignal
    BY <1>1, <2>5 DEF TaskAccount, TaskAdvance, TaskSignal
  <2>6. CASE TaskRefilled
    <3>1. CASE len = 0 /\ reader # Null
      BY <1>1, <2>6, <3>1 DEF TaskRefilled, AskReader
    <3>2. CASE len = 0 /\ reader = Null
      BY <1>1, <2>6, <3>2 DEF TaskRefilled
    <3>3. CASE len # 0
      BY <1>1, <2>6, <3>3 DEF TaskRefilled
    <3> QED
      BY <3>1, <3>2, <3>3
  <2>7. CASE TaskEnd
    BY <1>1, <2>7 DEF TaskEnd, TaskExit
  <2> QED
    BY <1>6, <2>1, <2>2, <2>3, <2>4, <2>5, <2>6, <2>7 DEF Task
<1>7. CASE UNCHANGED vars
  BY <1>1, <1>7 DEF vars
<1> QED
  BY <1>2, <1>3, <1>4, <1>5, <1>6, <1>7 DEF Next


(* The steps that leave what is held as it is.                             *)
LEMMA HeldStays ==
  ASSUME Held, NoneAround',
         UNCHANGED <<buf, bufWritePtr, readAvailable, bufferTotal>>,
         Front' = Front, FirstCounted' = FirstCounted, Current' = Current,
         Fetched' = Fetched, Unmoved' = Unmoved,
         source' # Null => source'.next = bufferTotal + Fetched
  PROVE  Held'
<1>1. Counted'
  BY DEF Held, Counted
<1>2. Placed'
  <2>1. Placed
    BY DEF Held
  <2>2. bufWritePtr' = bufWritePtr /\ readAvailable' = readAvailable
    OBVIOUS
  <2> QED
    BY <2>1, <2>2 DEF Placed, Around
<1>3. InTheRing'
  <2>1. InTheRing
    BY DEF Held
  <2>2. \A n : Around(n)' = Around(n)
    BY DEF Around
  <2> QED
    BY <2>1 DEF InTheRing, Around
<1> QED
  BY <1>1, <1>2, <1>3 DEF Held

LEMMA QuietClient ==
  ASSUME ReaderInv, Held,
         UNCHANGED <<ring, start, toRead, task, len, fillSize>>,
         client \notin {"consume", "advance"}, client' \notin {"consume", "advance"},
         Current' = Current, source' \in {source, Null}
  PROVE  Held'
<1>1. /\ Front' = Front /\ FirstCounted' = FirstCounted
      /\ Fetched' = Fetched /\ Unmoved' = Unmoved
  BY DEF Front, Around, FirstCounted, Uncounted, Fetched, Unmoved, ring
<1>2. NoneAround'
  BY DEF Held, NoneAround, ring
<1>3. source' # Null => source'.next = bufferTotal + Fetched
  BY DEF Held, Counted
<1>4. UNCHANGED <<buf, bufWritePtr, readAvailable, bufferTotal>>
  BY DEF ring
<1> QED
  BY <1>1, <1>2, <1>3, <1>4, HeldStays

LEMMA QuietTask ==
  ASSUME ReaderInv, Held,
         UNCHANGED <<ring, start, toRead, client, opens, len>>,
         task \notin {"account", "advance"}, task' \notin {"account", "advance"},
         task' = "fetch" => bufWritePtr + fillSize' <= bufferSize,
         source' # Null => source'.next = bufferTotal
  PROVE  Held'
<1>1. /\ Front' = Front /\ FirstCounted' = FirstCounted /\ Current' = Current
      /\ Fetched = 0 /\ Fetched' = 0 /\ Unmoved' = Unmoved
  BY DEF Front, Around, FirstCounted, Uncounted, Fetched, Unmoved, ring, Current, Reopening
<1>2. NoneAround'
  BY DEF Held, NoneAround, ring
<1>3. source' # Null => source'.next = bufferTotal + Fetched
  BY <1>1 DEF ReaderInv, StreamInv, Shape
<1>4. UNCHANGED <<buf, bufWritePtr, readAvailable, bufferTotal>>
  BY DEF ring
<1> QED
  BY <1>1, <1>2, <1>3, <1>4, HeldStays

(* The client's steps.                                                     *)
LEMMA OpenRing ==
  ASSUME WaitsForReady, ReaderInv, OpenCall
  PROVE  RingInv'
<1> USE DEF Goto, ring, flags, streams, clientRegs, taskRegs
<1>1. /\ RingInv /\ OneTask /\ Attached /\ ~EarlyClose /\ opens \in Nat
      /\ Null \notin AnySource /\ StreamEnd \in Nat /\ bufferSize \in Nat \ {0}
  BY StreamAssumption DEF ReaderInv, WaitsForReady, StreamInv, Shape, AnySource
<1>2. CASE Open
  <2>1. /\ client = "idle" /\ pending = 0 /\ opens' = opens + 1
        /\ client' \in {"reopenGive", "reset"}
        /\ UNCHANGED <<ring, start, toRead, task, len, fillSize, source, reader, pending>>
    BY <1>1, <1>2 DEF Open, MayClose
  <2>2. Current' = Current
    BY <1>1, <2>1 DEF Current, Reopening
  <2>3. CASE Wiped
    BY <2>1, <2>3 DEF Wiped, Idle, RingInv
  <2>4. CASE Held
    <3>1. Held'
      BY <2>1, <2>2, <2>4, QuietClient
    <3> QED
      BY <2>1, <3>1 DEF RingInv
  <2> QED
    BY <1>1, <2>3, <2>4 DEF RingInv
<1>3. CASE OpenReset
  BY <1>1, <1>3 DEF OpenReset, Reset, OneTask, RingInv, Wiped, Idle
<1>4. ASSUME OpenStream \/ \E offset \in InitialOffsets : OpenReader(offset)
      PROVE  RingInv'
  <2>1. /\ Wiped /\ client = "attach" /\ client' = "start"
        /\ task = "none" /\ task' = "none" /\ NoSource
        /\ UNCHANGED <<bufReadPtr, bufWritePtr, readAvailable, readTotal>>
    BY <1>1, <1>4 DEF OpenStream, OpenReader, RingInv, OneTask, Attached, Wiped
  <2>2. /\ readAvailable' = 0 /\ readTotal' = 0 /\ bufReadPtr' = 0 /\ bufWritePtr' = 0
        /\ Uncounted' = 0 /\ Fetched' = 0 /\ Unmoved' = 0
    BY <2>1 DEF Wiped, Uncounted, Fetched, Unmoved
  <2>3. start' = bufferTotal' /\ bufferTotal' \in 0..StreamEnd
        /\ (source' # Null => source'.next = bufferTotal')
    <3>1. CASE OpenStream
      BY <1>1, <2>1, <3>1 DEF OpenStream, Wiped, SourceFrom
    <3>2. CASE \E offset \in InitialOffsets : OpenReader(offset)
      BY <1>1, <2>1, <3>2, StreamAssumption DEF OpenReader, NoSource
    <3> QED
      BY <1>4, <3>1, <3>2
  <2>4. Counted'
    <3>1. PICK n \in 0..StreamEnd : n = bufferTotal'
      BY <2>3
    <3>2. n + 0 = n /\ n <= StreamEnd
      BY <1>1
    <3>3. FirstCounted' = n
      BY <2>2, <2>3, <3>1, <3>2 DEF FirstCounted
    <3> QED
      BY <2>2, <2>3, <3>1, <3>2, <3>3 DEF Counted
  <2>5. Placed'
    BY <1>1, <2>2 DEF Placed, Front, Around
  <2>6. NoneAround' /\ InTheRing'
    BY <2>1, <2>2 DEF NoneAround, InTheRing
  <2> QED
    BY <2>1, <2>4, <2>5, <2>6 DEF RingInv, Held
<1>5. CASE StartTask
  <2>1. /\ client = "start" /\ client' = "idle"
        /\ UNCHANGED <<ring, start, toRead, task, len, fillSize, source, reader, opens>>
    BY <1>5 DEF StartTask
  <2>2. Held
    BY <1>1, <2>1 DEF RingInv, Wiped, Idle
  <2>3. Current' = Current
    BY <2>1 DEF Current, Reopening
  <2>4. Held'
    BY <2>1, <2>2, <2>3, QuietClient
  <2> QED
    BY <2>1, <2>4 DEF RingInv
<1> QED
  BY <1>2, <1>3, <1>4, <1>5 DEF OpenCall

LEMMA CloseRing ==
  ASSUME WaitsForReady, ReaderInv, CloseCall
  PROVE  RingInv'
<1> USE DEF Goto, ring, flags, streams, clientRegs, taskRegs
<1>1. RingInv /\ Attached /\ opens \in Nat
  BY DEF ReaderInv, StreamInv, Shape
<1>2. /\ client \in {"idle", "closeGive", "reopenGive", "closeLock", "reopenLock"}
      /\ client' \in {"closeGive", "closeLock", "reopenLock", "idle", "reset"}
      /\ Reopening' = Reopening /\ source' \in {source, Null}
      /\ UNCHANGED <<ring, start, toRead, task, len, fillSize, reader, opens, pending>>
  BY DEF CloseCall, Close, CloseGive, CloseLock, Reopening
<1>3. CASE Wiped
  <2>1. source' = Null
    BY <1>1, <1>2, <1>3 DEF Wiped, Attached, NoSource
  <2> QED
    BY <1>2, <1>3, <2>1 DEF RingInv, Wiped, Idle
<1>4. CASE Held
  <2>1. Current' = Current
    BY <1>2 DEF Current
  <2>2. Held'
    BY <1>2, <1>4, <2>1, QuietClient
  <2> QED
    BY <1>2, <2>2 DEF RingInv
<1> QED
  BY <1>1, <1>3, <1>4 DEF RingInv


LEMMA ReadRing ==
  ASSUME WaitsForReady, ReaderInv, ReadAny \/ ReadSteps
  PROVE  RingInv' /\ InOrder'
<1> USE DEF Goto, ring, flags, streams, clientRegs, taskRegs
<1>1. /\ RingInv /\ LooksWhenReady /\ InOrder /\ bufferSize \in Nat \ {0}
      /\ bufReadPtr \in Slot /\ bufWritePtr \in Slot /\ readAvailable \in 0..bufferSize
      /\ toRead \in Nat /\ toReadTotal \in Nat
  BY StreamAssumption DEF ReaderInv, StreamInv, Shape
<1>2. CASE ReadAny \/ ReadySemWait \/ Spin \/ Check \/ Take \/ ReadGive
  <2>1. /\ client \notin {"reset", "attach", "start", "copy", "consume", "advance",
                          "reopenGive", "reopenLock"}
        /\ client' \in {"readySem", "spin", "check", "readReset", "take", "copy", "give", "idle"}
        /\ UNCHANGED <<ring, start, toRead, task, len, fillSize, source, reader, opens, pending>>
    BY <1>2 DEF ReadAny, ReadCall, ReadySemWait, Spin, Check, Take, ReadGive
  <2>2. CASE Wiped
    <3>1. client' # "copy"
      <4>1. CASE Take
        <5>1. toReadTotal' = 0
          BY <1>1, <2>2, <4>1 DEF Take, Wiped, Smaller, LooksWhenReady, ReaderInv, StreamInv, Shape
        <5> QED
          BY <4>1, <5>1 DEF Take
      <4> QED
        BY <1>2, <4>1 DEF ReadAny, ReadCall, ReadySemWait, Spin, Check, ReadGive
    <3> QED
      BY <2>1, <2>2, <3>1 DEF Wiped, Idle, RingInv, InOrder
  <2>3. CASE Held
    <3>1. Current' = Current
      BY <2>1 DEF Current, Reopening
    <3>2. Held'
      BY <2>1, <2>3, <3>1, QuietClient
    <3> QED
      BY <2>1, <3>2 DEF RingInv, InOrder
  <2> QED
    BY <1>1, <2>2, <2>3 DEF RingInv
<1>3. CASE ReadReset
  <2>1. Wiped'
    BY <1>1, <1>3 DEF ReadReset, Reset, LooksWhenReady, Wiped, Idle
  <2> QED
    BY <1>3, <2>1 DEF ReadReset, RingInv, InOrder
<1>4. CASE Copy
  <2>1. /\ client = "copy" /\ client' = "consume"
        /\ toRead' = Smaller(toReadTotal, LengthBetween(bufReadPtr, bufWritePtr))
        /\ copied' = [i \in 1..toRead' |-> buf[bufReadPtr + i - 1]]
        /\ UNCHANGED <<ring, start, task, len, fillSize, source, opens>>
    BY <1>4 DEF Copy
  <2>2. /\ toRead' \in Nat /\ bufReadPtr + toRead' <= bufferSize
        /\ toRead' <= readAvailable
    BY <1>1, <2>1 DEF Smaller, LengthBetween, Slot, ReaderInv, StreamInv, ClientInv
  <2>3. Held
    BY <1>1, <2>1 DEF RingInv, Wiped
  <2>4. /\ Uncounted = 0 /\ Uncounted' = 0 /\ Current = opens /\ Current' = opens
        /\ Fetched' = Fetched /\ Unmoved' = Unmoved
    BY <2>1 DEF Uncounted, Current, Reopening, Fetched, Unmoved
  <2>5. Front' = Front /\ FirstCounted' = FirstCounted
    BY <2>1, <2>4 DEF Front, Around, FirstCounted
  <2>6. Held'
    <3>1. NoneAround'
      BY <2>1, <2>2, <2>3 DEF NoneAround, Held
    <3>2. source' # Null => source'.next = bufferTotal + Fetched
      BY <2>1, <2>3 DEF Held, Counted
    <3> QED
      BY <2>1, <2>3, <2>4, <2>5, <3>1, <3>2, HeldStays
  <2>7. ASSUME NEW i \in 1..toRead'
        PROVE  buf[bufReadPtr + i - 1] = <<opens, start + readTotal + i - 1>>
    <3>1. PICK j \in Nat : i = j + 1
      BY <2>2
    <3>2. j < readAvailable /\ bufReadPtr + j < bufferSize /\ bufReadPtr + i - 1 = bufReadPtr + j
      <4>1. PICK n \in Nat : n = toRead'
        BY <2>2
      <4>2. /\ i <= n /\ i \in Int /\ i = j + 1 /\ bufReadPtr + n <= bufferSize
            /\ n <= readAvailable
        BY <2>2, <3>1, <4>1
      <4>3. bufReadPtr \in Int /\ readAvailable \in Int /\ bufferSize \in Int
        BY <1>1 DEF Slot
      <4> QED
        BY <4>2, <4>3
    <3>3. Front = bufReadPtr
      BY <1>1, <2>4 DEF Front, Around, Slot
    <3>4. Around(Front + j) = bufReadPtr + j
      BY <1>1, <3>2, <3>3 DEF Around, Slot
    <3>5. start \in Int /\ readTotal \in Int /\ FirstCounted = start + readTotal
      BY <2>4 DEF FirstCounted, ReaderInv, StreamInv, Shape
    <3>6. start + readTotal + i - 1 = FirstCounted + j
      BY <3>1, <3>5
    <3>7. buf[Around(Front + j)] = <<Current, FirstCounted + j>>
      BY <2>3, <3>2 DEF Held, InTheRing
    <3> QED
      BY <2>4, <3>2, <3>4, <3>6, <3>7
  <2>8. InOrder'
    BY <2>1, <2>7 DEF InOrder
  <2> QED
    BY <2>1, <2>6, <2>8 DEF RingInv
<1>5. CASE Consume
  <2>1. /\ client = "consume" /\ client' = "advance"
        /\ readAvailable' = readAvailable - toRead
        /\ UNCHANGED <<buf, bufReadPtr, bufWritePtr, bufferTotal, readTotal, start,
                       task, len, fillSize, source, opens, toRead>>
    BY <1>5 DEF Consume
  <2>2. Held
    BY <1>1, <2>1 DEF RingInv, Wiped
  <2>3. /\ toRead \in Nat /\ toRead <= readAvailable /\ bufReadPtr + toRead <= bufferSize
        /\ bufReadPtr \in Nat /\ bufReadPtr < bufferSize /\ readAvailable \in Nat
        /\ readAvailable <= bufferSize
    BY <1>1, <2>1, <2>2 DEF Held, NoneAround, ReaderInv, StreamInv, ClientInv, Slot
  <2>4. /\ Uncounted = 0 /\ Uncounted' = toRead /\ Current' = Current
        /\ Fetched' = Fetched /\ Unmoved' = Unmoved
    BY <2>1 DEF Uncounted, Current, Reopening, Fetched, Unmoved
  <2>5. start \in Int /\ readTotal \in Int
    BY DEF ReaderInv, StreamInv, Shape
  <2>6. FirstCounted' = FirstCounted + toRead /\ FirstCounted \in Int
    BY <2>1, <2>3, <2>4, <2>5 DEF FirstCounted
  <2>7. Front = bufReadPtr /\ Front' = Around(bufReadPtr + toRead)
    <3>1. bufReadPtr + 0 = bufReadPtr /\ bufReadPtr < bufferSize /\ bufferSize \in Nat
      BY <1>1, <2>3
    <3> QED
      BY <2>1, <2>3, <2>4, <3>1 DEF Front, Around
  <2>8. Counted'
    BY <2>1, <2>2, <2>3, <2>4, <2>6 DEF Held, Counted
  <2>9. Placed'
    <3>1. Around(Front' + readAvailable') = Around(Front + readAvailable)
      BY <1>1, <2>1, <2>3, <2>7 DEF Around
    <3> QED
      BY <2>1, <2>2, <2>4, <3>1 DEF Held, Placed, Around
  <2>10. NoneAround'
    BY <2>1, <2>2 DEF Held, NoneAround
  <2>11. InTheRing'
    <3>1. ASSUME NEW j \in Nat, j < readAvailable'
          PROVE  buf'[Around(Front' + j)] = <<Current', FirstCounted' + j>>
      <4>1. toRead + j \in Nat /\ toRead + j < readAvailable
        BY <2>1, <2>3, <3>1
      <4>2. Around(Front' + j) = Around(Front + (toRead + j))
        BY <1>1, <2>3, <2>7, <4>1 DEF Around
      <4>3. buf[Around(Front + (toRead + j))] = <<Current, FirstCounted + (toRead + j)>>
        BY <2>2, <4>1 DEF Held, InTheRing
      <4>4. FirstCounted + (toRead + j) = FirstCounted' + j
        BY <2>3, <2>6
      <4> QED
        BY <2>1, <2>4, <4>2, <4>3, <4>4
    <3>2. ASSUME NEW j \in Nat, j < Fetched'
          PROVE  buf'[bufWritePtr' + j] = <<Current', bufferTotal' + j>>
      BY <2>1, <2>2, <2>4, <3>2 DEF Held, InTheRing
    <3> QED
      BY <3>1, <3>2 DEF InTheRing, Around
  <2> QED
    BY <2>1, <2>8, <2>9, <2>10, <2>11 DEF RingInv, Held, InOrder
<1>6. CASE Advance
  <2>1. /\ client = "advance" /\ client' \in {"give", "copy"}
        /\ bufReadPtr' = Advanced(bufReadPtr, toRead)
        /\ readTotal' = readTotal + toRead
        /\ UNCHANGED <<buf, bufWritePtr, readAvailable, bufferTotal, start,
                       task, len, fillSize, source, opens>>
    BY <1>6 DEF Advance
  <2>2. Held
    BY <1>1, <2>1 DEF RingInv, Wiped
  <2>3. /\ bufReadPtr + toRead <= bufferSize /\ bufReadPtr \in Nat /\ bufReadPtr < bufferSize
        /\ toRead \in Nat
    BY <1>1, <2>1, <2>2 DEF Held, NoneAround, Slot
  <2>4. /\ Uncounted = toRead /\ Uncounted' = 0 /\ Current' = Current
        /\ Fetched' = Fetched /\ Unmoved' = Unmoved
    BY <2>1 DEF Uncounted, Current, Reopening, Fetched, Unmoved
  <2>5. start \in Int /\ readTotal \in Int
    BY DEF ReaderInv, StreamInv, Shape
  <2>6. FirstCounted' = FirstCounted
    BY <2>1, <2>3, <2>4, <2>5 DEF FirstCounted
  <2>7. Front' = Front
    BY <1>1, <2>1, <2>3, <2>4 DEF Front, Around, Advanced
  <2>8. NoneAround'
    BY <2>1, <2>2 DEF Held, NoneAround
  <2>9. source' # Null => source'.next = bufferTotal + Fetched
    BY <2>1, <2>2 DEF Held, Counted
  <2>10. Held'
    BY <2>1, <2>2, <2>4, <2>6, <2>7, <2>8, <2>9, HeldStays
  <2> QED
    BY <2>1, <2>10 DEF RingInv, InOrder
<1> QED
  BY <1>2, <1>3, <1>4, <1>5, <1>6 DEF ReadSteps


(* The task's steps.  From a wiped ring it only starts.                    *)
LEMMA FetchRing ==
  ASSUME ReaderInv, TaskFetch, Held
  PROVE  Held'
<1>1. PICK n \in Nat : n = len'
  BY FetchReads DEF ReaderInv
<1>2. /\ task = "fetch" /\ task' = "account"
      /\ UNCHANGED <<bufReadPtr, bufWritePtr, readAvailable, bufferTotal, readTotal,
                     start, toRead, client, opens>>
      /\ buf' = [i \in Slot |->
                   IF bufWritePtr <= i /\ i < bufWritePtr + n
                   THEN <<source.open, source.next + (i - bufWritePtr)>>
                   ELSE buf[i]]
  BY <1>1 DEF TaskFetch, TaskGoto, clientRegs
<1>3. /\ Uncounted' = Uncounted /\ Current' = Current /\ Unmoved = 0 /\ Unmoved' = 0
      /\ Fetched = 0 /\ Fetched' = n
  BY <1>1, <1>2 DEF Uncounted, Current, Reopening, Fetched, Unmoved
<1>4. /\ Front' = Front /\ FirstCounted' = FirstCounted
      /\ Front \in Nat /\ Front < bufferSize /\ bufferSize \in Nat
      /\ bufWritePtr \in Nat /\ bufWritePtr < bufferSize
      /\ readAvailable \in Nat /\ bufferTotal \in Nat
  <2>1. /\ bufReadPtr \in 0..(bufferSize - 1) /\ bufWritePtr \in 0..(bufferSize - 1)
        /\ bufferSize \in Nat \ {0} /\ toRead \in Nat /\ start \in Nat /\ readTotal \in Nat
        /\ readAvailable \in Nat /\ bufferTotal \in Nat
    BY StreamAssumption DEF ReaderInv, StreamInv, Shape, Slot
  <2>2. /\ bufReadPtr + Uncounted \in Nat /\ bufReadPtr + Uncounted <= bufferSize
    BY <2>1 DEF Uncounted, Held, NoneAround
  <2>3. Front \in Nat /\ Front < bufferSize
    BY <2>1, <2>2 DEF Front, Around
  <2> QED
    BY <1>2, <1>3, <2>1, <2>3 DEF Front, Around, FirstCounted
<1>5. /\ bufWritePtr + n <= bufferSize /\ readAvailable + n <= bufferSize
      /\ source.next = bufferTotal /\ source.open = Current
      /\ source'.next = bufferTotal + n /\ bufferTotal + n <= StreamEnd
  <2>1. /\ source # Null /\ source.next = bufferTotal /\ source.open = Current
        /\ source.end <= StreamEnd /\ n <= fillSize
        /\ bufWritePtr + fillSize <= bufferSize /\ readAvailable + fillSize <= bufferSize
        /\ source'.next = source.next + n /\ source.next + n <= source.end
        /\ source \in AnySource
    BY <1>1, <1>2, <1>3, <1>4, FetchReads
    DEF ReaderInv, StreamInv, TaskInv, Attached, Held, Counted, NoneAround
  <2>2. fillSize \in Nat /\ StreamEnd \in Nat /\ source.end \in Nat
    BY <2>1, StreamAssumption DEF ReaderInv, StreamInv, Shape, AnySource
  <2> QED
    BY <1>4, <2>1, <2>2
<1>6. bufWritePtr = Around(Front + readAvailable)
  BY <1>3, <1>4 DEF Held, Placed, Around
<1>7. Counted'
  BY <1>2, <1>3, <1>4, <1>5 DEF Held, Counted
<1>8. Placed'
  BY <1>2, <1>3, <1>4 DEF Held, Placed, Around
<1>9. NoneAround'
  BY <1>1, <1>2, <1>5 DEF Held, NoneAround
<1>10. ASSUME NEW j \in Nat, j < readAvailable
       PROVE  buf'[Around(Front + j)] = <<Current, FirstCounted + j>>
  <2>1. PICK k \in Slot : k = Around(Front + j)
    <3>1. Around(Front + j) \in Slot
      BY <1>4, <1>5, <1>10 DEF Around, Slot
    <3> QED
      BY <3>1
  <2>2. ~(bufWritePtr <= k /\ k < bufWritePtr + n)
    BY <1>4, <1>5, <1>6, <1>10, <2>1 DEF Around
  <2>3. buf'[k] = buf[k]
    BY <1>2, <2>2
  <2>4. buf[k] = <<Current, FirstCounted + j>>
    BY <1>10, <2>1 DEF Held, InTheRing
  <2> QED
    BY <2>1, <2>3, <2>4
<1>11. ASSUME NEW j \in Nat, j < n
       PROVE  buf'[bufWritePtr + j] = <<Current, bufferTotal + j>>
  <2>1. PICK k \in Slot : k = bufWritePtr + j
    BY <1>4, <1>5, <1>11 DEF Slot
  <2>2. bufWritePtr <= k /\ k < bufWritePtr + n /\ k - bufWritePtr = j
    BY <1>4, <1>11, <2>1
  <2> QED
    BY <1>2, <1>5, <2>1, <2>2
<1>12. InTheRing'
  <2>1. readAvailable' = readAvailable /\ bufWritePtr' = bufWritePtr /\ bufferTotal' = bufferTotal
    BY <1>2
  <2> QED
    BY <1>3, <1>4, <1>10, <1>11, <2>1 DEF InTheRing, Around
<1> QED
  BY <1>7, <1>8, <1>9, <1>12 DEF Held

LEMMA AccountRing ==
  ASSUME ReaderInv, TaskAccount, Held
  PROVE  Held'
<1>1. /\ task = "account" /\ task' = "advance"
      /\ readAvailable' = readAvailable + len /\ bufferTotal' = bufferTotal + len
      /\ UNCHANGED <<buf, bufReadPtr, bufWritePtr, readTotal, source, start, toRead,
                     client, opens, len>>
  BY DEF TaskAccount, TaskGoto, clientRegs, taskRegs, streams
<1>2. /\ Uncounted' = Uncounted /\ Current' = Current /\ Unmoved = 0 /\ Unmoved' = len
      /\ Fetched = len /\ Fetched' = 0
  BY <1>1 DEF Uncounted, Current, Reopening, Fetched, Unmoved
<1>3. /\ bufReadPtr \in Nat /\ bufReadPtr < bufferSize
      /\ bufWritePtr \in Nat /\ bufWritePtr < bufferSize
      /\ bufferSize \in Nat \ {0} /\ toRead \in Nat /\ start \in Nat /\ readTotal \in Nat
      /\ readAvailable \in Nat /\ bufferTotal \in Nat /\ len \in Nat
      /\ readAvailable + len <= bufferSize
  BY <1>1, StreamAssumption DEF ReaderInv, StreamInv, Shape, TaskInv, Slot
<1>4. /\ Front \in Nat /\ Front < bufferSize /\ FirstCounted \in Nat
  <2>1. /\ bufReadPtr + Uncounted \in Nat /\ bufReadPtr + Uncounted <= bufferSize
        /\ Uncounted \in Nat
    BY <1>3 DEF Uncounted, Held, NoneAround
  <2> QED
    BY <1>3, <2>1 DEF Front, Around, FirstCounted
<1>5. Front' = Front /\ FirstCounted' = FirstCounted
  BY <1>1, <1>2 DEF Front, Around, FirstCounted
<1>6. /\ bufWritePtr + len <= bufferSize
      /\ bufferTotal = FirstCounted + readAvailable
      /\ bufferTotal + len <= StreamEnd
      /\ source # Null => source.next = bufferTotal + len
      /\ bufWritePtr = Around(Front + readAvailable)
  BY <1>1, <1>2, <1>3 DEF Held, NoneAround, Counted, Placed, Around
<1>7. Counted'
  <2>1. /\ bufferTotal + len = FirstCounted + (readAvailable + len)
        /\ bufferTotal + len + 0 = bufferTotal + len
    BY <1>3, <1>4, <1>6
  <2> QED
    BY <1>1, <1>2, <1>5, <1>6, <2>1 DEF Counted
<1>8. Placed'
  <2>1. Around(bufWritePtr + len) = Around(Front + (readAvailable + len))
    BY <1>3, <1>4, <1>6 DEF Around
  <2> QED
    BY <1>1, <1>2, <1>5, <2>1 DEF Placed, Around
<1>9. NoneAround'
  BY <1>1 DEF Held, NoneAround
<1>10. ASSUME NEW j \in Nat, j < readAvailable + len
       PROVE  buf[Around(Front + j)] = <<Current, FirstCounted + j>>
  <2>1. CASE j < readAvailable
    BY <2>1 DEF Held, InTheRing
  <2>2. CASE j >= readAvailable
    <3>1. PICK k \in Nat : j = readAvailable + k
      <4>1. j - readAvailable \in Nat /\ j = readAvailable + (j - readAvailable)
        BY <1>3, <2>2
      <4> QED
        BY <4>1
    <3>2. k < len
      BY <1>3, <1>10, <3>1
    <3>3. Around(Front + j) = bufWritePtr + k
      BY <1>3, <1>4, <1>6, <3>1, <3>2 DEF Around
    <3>4. buf[bufWritePtr + k] = <<Current, bufferTotal + k>>
      BY <1>2, <3>2 DEF Held, InTheRing
    <3>5. bufferTotal + k = FirstCounted + j
      BY <1>3, <1>4, <1>6, <3>1
    <3> QED
      BY <3>3, <3>4, <3>5
  <2> QED
    BY <1>3, <2>1, <2>2
<1>11. InTheRing'
  <2>1. \A j \in Nat : ~(j < 0)
    OBVIOUS
  <2> QED
    BY <1>1, <1>2, <1>5, <1>10, <2>1 DEF InTheRing, Around
<1> QED
  BY <1>7, <1>8, <1>9, <1>11 DEF Held

LEMMA AdvanceRing ==
  ASSUME ReaderInv, TaskAdvance, Held
  PROVE  Held'
<1>1. /\ task = "advance" /\ task' \in {"fill", "refilled"}
      /\ bufWritePtr' = Advanced(bufWritePtr, len)
      /\ UNCHANGED <<buf, bufReadPtr, readAvailable, bufferTotal, readTotal, source, start,
                     toRead, client, opens, len>>
  BY DEF TaskAdvance, TaskGoto, clientRegs, taskRegs, streams
<1>2. /\ Uncounted' = Uncounted /\ Current' = Current /\ Unmoved = len /\ Unmoved' = 0
      /\ Fetched = 0 /\ Fetched' = 0
  BY <1>1 DEF Uncounted, Current, Reopening, Fetched, Unmoved
<1>3. Front' = Front /\ FirstCounted' = FirstCounted
  BY <1>1, <1>2 DEF Front, Around, FirstCounted
<1>4. Counted'
  BY <1>1, <1>2, <1>3 DEF Held, Counted
<1>5. Placed'
  <2>1. /\ bufWritePtr \in Nat /\ len \in Nat /\ bufferSize \in Nat \ {0}
        /\ bufWritePtr + len <= bufferSize
    BY <1>1, StreamAssumption DEF ReaderInv, StreamInv, Shape, Slot, Held, NoneAround
  <2>2. /\ Around(bufWritePtr + len) = Advanced(bufWritePtr, len)
        /\ Around(Advanced(bufWritePtr, len) + 0) = Advanced(bufWritePtr, len)
    BY <2>1 DEF Around, Advanced
  <2>3. Around(bufWritePtr + len) = Around(Front + readAvailable)
    BY <1>2 DEF Held, Placed
  <2> QED
    BY <1>1, <1>2, <1>3, <2>2, <2>3 DEF Placed, Around
<1>6. NoneAround'
  BY <1>1 DEF Held, NoneAround
<1>7. InTheRing'
  BY <1>1, <1>2, <1>3 DEF Held, InTheRing, Around
<1> QED
  BY <1>4, <1>5, <1>6, <1>7 DEF Held

LEMMA FillRing ==
  ASSUME ReaderInv, TaskFill, Held
  PROVE  Held'
<1>1. /\ task = "fill" /\ task' \in {"fetch", "refilled"}
      /\ fillSize' = Smaller(readSize, LengthBetween(bufWritePtr, bufReadPtr))
      /\ UNCHANGED <<ring, source, start, toRead, client, opens>>
  BY DEF TaskFill, TaskGoto, clientRegs, taskRegs, streams
<1>2. /\ bufReadPtr \in Nat /\ bufReadPtr < bufferSize
      /\ bufWritePtr \in Nat /\ bufWritePtr < bufferSize
      /\ bufferSize \in Nat /\ readSize \in Nat
  BY StreamAssumption DEF ReaderInv, StreamInv, Shape, Slot
<1>3. bufWritePtr + fillSize' <= bufferSize
  BY <1>1, <1>2 DEF Smaller, LengthBetween
<1>4. /\ Front' = Front /\ FirstCounted' = FirstCounted /\ Current' = Current
      /\ Fetched = 0 /\ Fetched' = 0 /\ Unmoved' = Unmoved
  BY <1>1 DEF Front, Around, FirstCounted, Uncounted, Fetched, Unmoved, ring, Current, Reopening
<1>5. NoneAround'
  BY <1>1, <1>3 DEF Held, NoneAround, ring
<1>6. source' # Null => source'.next = bufferTotal + Fetched
  BY <1>1 DEF Held, Counted
<1>7. UNCHANGED <<buf, bufWritePtr, readAvailable, bufferTotal>>
  BY <1>1 DEF ring
<1> QED
  BY <1>4, <1>5, <1>6, <1>7, HeldStays

LEMMA TaskRing ==
  ASSUME WaitsForReady, ReaderInv, Task
  PROVE  RingInv' /\ InOrder'
<1>1. RingInv /\ OneTask /\ InOrder
  BY DEF ReaderInv
<1>2. /\ client # "attach" /\ client' = client
      /\ UNCHANGED <<copied, toRead, start, readTotal, opens, bufReadPtr>>
  BY <1>1
  DEF Task, TaskStart, TaskFirst, TaskLoop, TaskWait, TaskCheck, TaskRefill, TaskFill,
      TaskFetch, TaskAccount, TaskAdvance, TaskRefilled, TaskSignal, TaskEnd, TaskExit,
      OneTask, ring, clientRegs
<1>3. InOrder'
  BY <1>1, <1>2 DEF InOrder
<1>4. Held
  <2>1. ~Wiped
    BY DEF Task, TaskStart, TaskFirst, TaskLoop, TaskWait, TaskCheck, TaskRefill, TaskFill,
        TaskFetch, TaskAccount, TaskAdvance, TaskRefilled, TaskSignal, TaskEnd, TaskExit,
        Wiped, Idle
  <2> QED
    BY <1>1, <2>1 DEF RingInv
<1>5. bufferTotal \in Nat
  BY DEF ReaderInv, StreamInv, Shape
<1>6. task \notin {"account"} => (source # Null => source.next = bufferTotal)
  BY <1>4, <1>5 DEF Held, Counted, Fetched
<1> USE DEF TaskGoto, flags, streams, clientRegs, taskRegs
<1>7. ASSUME TaskStart \/ TaskLoop \/ TaskWait \/ TaskCheck \/ TaskRefill \/ TaskSignal
      PROVE  Held'
  <2>1. /\ UNCHANGED <<ring, start, toRead, client, opens, len, source>>
        /\ task \notin {"account", "advance"} /\ task' \notin {"account", "advance", "fetch"}
    BY <1>7 DEF TaskStart, TaskLoop, TaskWait, TaskCheck, TaskRefill, TaskSignal
  <2> QED
    BY <1>4, <1>6, <2>1, QuietTask
<1>8. ASSUME TaskFirst \/ TaskRefilled PROVE Held'
  <2>1. /\ UNCHANGED <<ring, start, toRead, client, opens, len>>
        /\ task \in {"first", "refilled"} /\ task' \in {"loop", "signal"}
    BY <1>8 DEF TaskFirst, TaskRefilled
  <2>2. source' = source \/ AskReader
    BY <1>8 DEF TaskFirst, TaskRefilled
  <2>3. source' # Null => source'.next = bufferTotal
    BY <1>6, <2>1, <2>2 DEF AskReader, SourceFrom
  <2> QED
    BY <1>4, <2>1, <2>3, QuietTask
<1>9. ASSUME TaskEnd PROVE Held'
  <2>1. /\ UNCHANGED <<ring, start, toRead, client, opens, len>>
        /\ task \in {"exitSource", "exitReader", "exitRunning"}
        /\ task' \in {"exitReader", "exitRunning", "none"}
        /\ source' \in {source, Null}
    BY <1>9 DEF TaskEnd, TaskExit
  <2> QED
    BY <1>4, <1>6, <2>1, QuietTask
<1>10. Held'
  BY <1>4, <1>7, <1>8, <1>9, FillRing, FetchRing, AccountRing, AdvanceRing DEF Task
<1> QED
  BY <1>2, <1>3, <1>10 DEF RingInv


(* The types, and the theorem.                                             *)
Limits ==
  /\ start \in 0..StreamEnd /\ opens \in 0..MaxOpens /\ want \in 0..MaxLen
  /\ readSem \in 0..SemMax /\ readySem \in 0..SemMax
  /\ toRead \in 0..bufferSize /\ toReadTotal \in 0..bufferSize
  /\ fillSize \in 0..bufferSize /\ len \in 0..bufferSize

Steps == client \in ClientStep /\ task \in TaskStep

Flags ==
  /\ terminate \in BOOLEAN /\ running \in BOOLEAN /\ gotZero \in BOOLEAN
  /\ wasReady \in BOOLEAN /\ ended \in BOOLEAN

Stored == buf \in [Slot -> Byte \union {Null}]

LEMMA LimitsStep ==
  ASSUME ReaderInv, Limits, [Next]_vars
  PROVE  Limits'
<1> USE DEF Limits, ring, flags, streams, clientRegs, taskRegs
<1>1. /\ {StreamEnd, MaxOpens, MaxLen, SemMax, bufferSize, readSize} \subseteq Nat
      /\ InitialOffsets \subseteq 0..StreamEnd /\ readSize <= bufferSize
  BY StreamAssumption
<1>2. /\ bufReadPtr \in Slot /\ bufWritePtr \in Slot /\ readAvailable \in 0..bufferSize
      /\ toRead \in Nat /\ toReadTotal \in Nat
  BY DEF ReaderInv, StreamInv, Shape
<1>3. CASE OpenCall
  BY <1>1, <1>3 DEF OpenCall, Open, OpenReset, OpenStream, OpenReader, StartTask
<1>4. CASE CloseCall
  BY <1>1, <1>4 DEF CloseCall, Close, CloseGive, CloseLock, Give, Smaller
<1>5. CASE ReadAny
  BY <1>1, <1>5 DEF ReadAny, ReadCall
<1>6. CASE ReadSteps
  <2>1. CASE ReadySemWait \/ Spin \/ Check \/ ReadReset
    BY <1>1, <2>1 DEF ReadySemWait, Spin, Check, ReadReset
  <2>2. CASE ReadGive
    BY <1>1, <2>2 DEF ReadGive, Give, Smaller
  <2>3. CASE Take
    BY <1>1, <1>2, <2>3 DEF Take, Smaller
  <2>4. CASE Copy
    <3>1. LengthBetween(bufReadPtr, bufWritePtr) \in Nat
      BY <1>1, <1>2 DEF LengthBetween, Slot
    <3>2. Smaller(toReadTotal, LengthBetween(bufReadPtr, bufWritePtr)) \in 0..bufferSize
      BY <1>1, <1>2, <3>1 DEF Smaller
    <3> QED
      BY <1>1, <2>4, <3>2 DEF Copy
  <2>5. CASE Consume
    BY <1>1, <2>5 DEF Consume
  <2>6. CASE Advance
    <3>1. toRead <= toReadTotal
      BY <2>6 DEF Advance, ReaderInv, StreamInv, ClientInv
    <3>2. toReadTotal - toRead \in 0..bufferSize
      BY <1>1, <1>2, <3>1
    <3> QED
      BY <1>1, <2>6, <3>2 DEF Advance
  <2> QED
    BY <1>6, <2>1, <2>2, <2>3, <2>4, <2>5, <2>6 DEF ReadSteps
<1>7. CASE Task
  <2>1. CASE TaskStart \/ TaskFirst \/ TaskLoop \/ TaskWait \/ TaskCheck \/ TaskRefill
    BY <1>1, <2>1 DEF TaskStart, TaskFirst, TaskLoop, TaskWait, TaskCheck, TaskRefill
  <2>2. CASE TaskFill
    BY <1>1, <1>2, <2>2 DEF TaskFill, Smaller, LengthBetween, Slot
  <2>3. CASE TaskFetch
    <3>1. len' \in Nat /\ len' <= fillSize
      BY <2>3, FetchReads DEF ReaderInv
    <3>2. PICK n \in Nat : n = len'
      BY <3>1
    <3>3. n \in 0..bufferSize
      BY <1>1, <3>1, <3>2
    <3> QED
      BY <2>3, <3>2, <3>3 DEF TaskFetch
  <2>4. CASE TaskAccount \/ TaskAdvance \/ TaskRefilled \/ TaskEnd
    BY <1>1, <2>4 DEF TaskAccount, TaskAdvance, TaskRefilled, TaskEnd
  <2>5. CASE TaskSignal
    BY <1>1, <2>5 DEF TaskSignal, Give, Smaller
  <2> QED
    BY <1>7, <2>1, <2>2, <2>3, <2>4, <2>5 DEF Task
<1>8. CASE UNCHANGED vars
  BY <1>8 DEF vars
<1> QED
  BY <1>3, <1>4, <1>5, <1>6, <1>7, <1>8 DEF Next

LEMMA StepsStep ==
  ASSUME Steps, [Next]_vars
  PROVE  Steps'
<1> USE DEF Steps, ClientStep, TaskStep, Goto, TaskGoto
<1>1. CASE OpenCall
  BY <1>1 DEF OpenCall, Open, OpenReset, OpenStream, OpenReader, StartTask
<1>2. CASE CloseCall
  BY <1>2 DEF CloseCall, Close, CloseGive, CloseLock
<1>3. CASE ReadAny \/ ReadSteps
  BY <1>3 DEF ReadAny, ReadCall, ReadSteps, ReadySemWait, Spin, Check, ReadReset, Take, Copy,
              Consume, Advance, ReadGive
<1>4. CASE Task
  BY <1>4 DEF Task, TaskStart, TaskFirst, TaskLoop, TaskWait, TaskCheck, TaskRefill, TaskFill,
              TaskFetch, TaskAccount, TaskAdvance, TaskRefilled, TaskSignal, TaskEnd, TaskExit
<1>5. CASE UNCHANGED vars
  BY <1>5 DEF vars
<1> QED
  BY <1>1, <1>2, <1>3, <1>4, <1>5 DEF Next

LEMMA FlagsStep ==
  ASSUME ReaderInv, Flags, [Next]_vars
  PROVE  Flags'
<1> USE DEF Flags, ring, flags, streams, clientRegs, taskRegs
<1>1. CASE OpenCall
  BY <1>1 DEF OpenCall, Open, OpenReset, Reset, OpenStream, OpenReader, StartTask
<1>2. CASE CloseCall
  BY <1>2 DEF CloseCall, Close, CloseGive, CloseLock
<1>3. CASE ReadAny \/ ReadSteps
  BY <1>3 DEF ReadAny, ReadCall, ReadSteps, ReadySemWait, Spin, Check, ReadReset, Reset, Take,
              Copy, Consume, Advance, ReadGive
<1>4. CASE Task
  <2>1. CASE TaskStart \/ TaskFirst
    BY <2>1 DEF TaskStart, TaskFirst, AskReader
  <2>2. CASE TaskLoop \/ TaskWait \/ TaskCheck \/ TaskFill
    BY <2>2 DEF TaskLoop, TaskWait, TaskCheck, TaskFill
  <2>3. CASE TaskRefill
    <3>1. readAvailable \in Nat /\ readyThreshold \in Nat
      BY StreamAssumption DEF ReaderInv, StreamInv, Shape
    <3>2. isReady \in BOOLEAN
      BY <3>1 DEF isReady
    <3> QED
      BY <2>3, <3>2 DEF TaskRefill
  <2>4. CASE TaskFetch \/ TaskAccount \/ TaskAdvance \/ TaskSignal
    BY <2>4 DEF TaskFetch, TaskAccount, TaskAdvance, TaskSignal
  <2>5. CASE TaskRefilled \/ TaskEnd
    BY <2>5 DEF TaskRefilled, AskReader, TaskEnd, TaskExit
  <2> QED
    BY <1>4, <2>1, <2>2, <2>3, <2>4, <2>5 DEF Task
<1>5. CASE UNCHANGED vars
  BY <1>5 DEF vars
<1> QED
  BY <1>1, <1>2, <1>3, <1>4, <1>5 DEF Next

(* Where a source is, the open() it belongs to is one there was.           *)
LEMMA SourceIsOfAnOpen ==
  ASSUME ReaderInv, Limits, ~NoSource
  PROVE  Current \in 1..MaxOpens
<1>1. opens \in Nat /\ opens <= MaxOpens /\ MaxOpens \in Nat
  BY StreamAssumption DEF Limits
<1>2. ~Idle
  BY DEF ReaderInv, Attached
<1>3. Current > 0
  <2>1. CASE task # "none"
    BY <2>1 DEF ReaderInv, Attached
  <2>2. CASE task = "none" /\ client = "start"
    BY <1>1, <2>2 DEF ReaderInv, OneTask, Current, Reopening
  <2>3. CASE task = "none" /\ pending = 1
    BY <1>1, <2>3 DEF ReaderInv, OneTask, Current, Reopening, Closing
  <2> QED
    BY <1>2, <2>1, <2>2, <2>3 DEF Idle, ReaderInv, OneTask
<1> QED
  BY <1>1, <1>3 DEF Current

LEMMA StoredStep ==
  ASSUME ReaderInv, Limits, Stored, [Next]_vars
  PROVE  Stored'
<1>1. CASE TaskFetch
  <2>1. PICK n \in Nat : n = len'
    BY <1>1, FetchReads DEF ReaderInv
  <2>2. /\ source # Null /\ source \in AnySource /\ source.next + n <= source.end
        /\ source.open = Current /\ source.end <= StreamEnd
    BY <1>1, <2>1, FetchReads DEF ReaderInv, Attached
  <2>3. source.open \in 1..MaxOpens
    BY <2>2, SourceIsOfAnOpen DEF NoSource
  <2>4. source.next \in Nat /\ source.end \in Nat /\ StreamEnd \in Nat
    BY <2>2, StreamAssumption DEF AnySource
  <2>5. buf' = [i \in Slot |->
                  IF bufWritePtr <= i /\ i < bufWritePtr + n
                  THEN <<source.open, source.next + (i - bufWritePtr)>>
                  ELSE buf[i]]
    BY <1>1, <2>1 DEF TaskFetch
  <2>6. ASSUME NEW i \in Slot, bufWritePtr <= i, i < bufWritePtr + n
        PROVE  <<source.open, source.next + (i - bufWritePtr)>> \in Byte
    <3>1. bufWritePtr \in Int /\ i \in Int
      BY StreamAssumption DEF ReaderInv, StreamInv, Shape, Slot
    <3>2. source.next + (i - bufWritePtr) \in 0..StreamEnd
      BY <2>2, <2>4, <2>6, <3>1
    <3> QED
      BY <2>3, <3>2 DEF Byte
  <2> QED
    BY <2>5, <2>6 DEF Stored
<1>2. ASSUME ~TaskFetch PROVE buf' = buf
  <2> USE DEF ring
  <2>1. CASE OpenCall
    BY <2>1 DEF OpenCall, Open, OpenReset, Reset, OpenStream, OpenReader, StartTask
  <2>2. CASE CloseCall
    BY <2>2 DEF CloseCall, Close, CloseGive, CloseLock
  <2>3. CASE ReadAny \/ ReadSteps
    BY <2>3 DEF ReadAny, ReadCall, ReadSteps, ReadySemWait, Spin, Check, ReadReset, Reset, Take,
                Copy, Consume, Advance, ReadGive
  <2>4. CASE Task
    BY <1>2, <2>4
    DEF Task, TaskStart, TaskFirst, TaskLoop, TaskWait, TaskCheck, TaskRefill, TaskFill,
        TaskAccount, TaskAdvance, TaskRefilled, TaskSignal, TaskEnd
  <2>5. CASE UNCHANGED vars
    BY <2>5 DEF vars
  <2> QED
    BY <2>1, <2>2, <2>3, <2>4, <2>5 DEF Next
<1> QED
  BY <1>1, <1>2 DEF Stored

AllTyped == Limits /\ Steps /\ Flags /\ Stored

LEMMA TypesInit == Init => AllTyped
<1> SUFFICES ASSUME Init PROVE AllTyped
  OBVIOUS
<1>1. {StreamEnd, MaxOpens, MaxLen, SemMax, bufferSize} \subseteq Nat
  BY StreamAssumption
<1>2. Limits
  BY <1>1 DEF Init, Limits
<1>3. Steps /\ Stored
  BY DEF Init, Steps, ClientStep, TaskStep, Stored
<1>4. Flags
  BY DEF Init, Flags
<1> QED
  BY <1>2, <1>3, <1>4 DEF AllTyped

LEMMA TypesGive ==
  ASSUME ReaderInv, AllTyped
  PROVE  TypeOK
<1>1. /\ Limits /\ Steps /\ Flags /\ Stored
      /\ bufReadPtr \in Slot /\ bufWritePtr \in Slot /\ readAvailable \in 0..bufferSize
      /\ bufferTotal \in Nat /\ readTotal \in Nat /\ len \in Nat /\ toRead \in Nat
      /\ source \in AnySource \union {Null} /\ reader \in Nat \union {Null}
      /\ start \in Nat /\ StreamEnd \in Nat /\ MaxOpens \in Nat /\ bufferSize \in Nat
  BY StreamAssumption DEF ReaderInv, StreamInv, Shape, AllTyped
<1>2. bufferTotal \in 0..StreamEnd /\ readTotal \in 0..StreamEnd
  <2>1. CASE Wiped
    BY <1>1, <2>1 DEF Wiped
  <2>2. CASE Held
    <3>1. Fetched \in Nat /\ Uncounted \in Nat
      BY <1>1 DEF Fetched, Uncounted
    <3>2. /\ bufferTotal = start + readTotal + Uncounted + readAvailable
          /\ bufferTotal + Fetched <= StreamEnd
      BY <2>2 DEF Held, Counted, FirstCounted
    <3> QED
      BY <1>1, <3>1, <3>2
  <2> QED
    BY <2>1, <2>2 DEF ReaderInv, RingInv
<1>3. source \in Source \union {Null}
  <2>1. CASE source # Null
    <3>1. source.open \in 1..MaxOpens /\ source.end <= StreamEnd
      BY <1>1, <2>1, SourceIsOfAnOpen DEF NoSource, ReaderInv, Attached
    <3>2. ~Wiped
      BY <2>1 DEF Wiped, ReaderInv, Attached, NoSource
    <3>3. source.next = bufferTotal + Fetched /\ bufferTotal + Fetched <= StreamEnd
      BY <2>1, <3>2 DEF ReaderInv, RingInv, Held, Counted
    <3>4. source \in AnySource /\ source.next \in Nat /\ source.end \in Nat
      BY <1>1, <2>1 DEF AnySource
    <3> QED
      BY <1>1, <3>1, <3>3, <3>4 DEF AnySource, Source
  <2> QED
    BY <2>1
<1>4. reader \in (1..MaxOpens) \union {Null}
  BY <1>1, SourceIsOfAnOpen DEF NoSource, ReaderInv, Attached
<1>5. pending \in 0..MaxOpens
  <2>1. opens \in 0..MaxOpens
    BY <1>1 DEF Limits
  <2> QED
    BY <1>1, <2>1 DEF ReaderInv, OneTask
<1>6. {terminate, running, gotZero, wasReady, ended} \subseteq BOOLEAN
  BY <1>1, Zenon DEF Flags
<1>7. {toRead, toReadTotal, fillSize, len} \subseteq 0..bufferSize
  BY <1>1 DEF Limits
<1> QED
  BY <1>1, <1>2, <1>3, <1>4, <1>5, <1>6, <1>7 DEF TypeOK, Limits, Steps, Stored

LEMMA ReaderInvStep ==
  ASSUME WaitsForReady, ReaderInv, [Next]_vars
  PROVE  ReaderInv'
<1>1. StreamInv' /\ OneTask' /\ Attached' /\ LooksWhenReady' /\ EndIsSeen'
  BY StreamStepInv, OneTaskStep, AttachedStep, LooksStep, EndIsSeenStep DEF ReaderInv
<1>2. RingInv' /\ InOrder'
  <2>1. CASE OpenCall
    <3>1. client' # "consume"
      BY <2>1 DEF OpenCall, Open, OpenReset, OpenStream, OpenReader, StartTask, Goto
    <3> QED
      BY <2>1, <3>1, OpenRing DEF InOrder
  <2>2. CASE CloseCall
    <3>1. client' # "consume"
      BY <2>2 DEF CloseCall, Close, CloseGive, CloseLock, Goto
    <3> QED
      BY <2>2, <3>1, CloseRing DEF InOrder
  <2>3. CASE ReadAny \/ ReadSteps
    BY <2>3, ReadRing
  <2>4. CASE Task
    BY <2>4, TaskRing
  <2>5. CASE UNCHANGED vars
    BY <2>5, ZenonT(60)
    DEF vars, ring, flags, streams, clientRegs, taskRegs, ReaderInv, RingInv, InOrder, Wiped, Idle,
        Held, Counted, Placed, NoneAround, InTheRing, Front, FirstCounted, Fetched, Unmoved,
        Uncounted, Current, Reopening, Around
  <2> QED
    BY <2>1, <2>2, <2>3, <2>4, <2>5 DEF Next
<1> QED
  BY <1>1, <1>2 DEF ReaderInv

(* A client that closes no stream before its task has started, and reads   *)
(* only when the buffer is ready, be it because read waits for that or     *)
(* because the client does, gets the bytes of the source it opened last,   *)
(* in order and none twice, and 0 only at their end: for every size,       *)
(* threshold and length of the source, and however the task and the client *)
(* get into each other's way.                                              *)
THEOREM ReadsTheSource ==
  ASSUME ~EarlyClose, waitForReady \/ SemaphoreClient
  PROVE  Spec => []ReadsTheStream
<1>1. Init => ReaderInv /\ AllTyped
  BY ReaderInvInit, TypesInit
<1>2. ReaderInv /\ AllTyped /\ [Next]_vars => (ReaderInv /\ AllTyped)'
  BY ReaderInvStep, LimitsStep, StepsStep, FlagsStep, StoredStep DEF AllTyped, WaitsForReady
<1>3. ReaderInv /\ AllTyped => ReadsTheStream
  BY TypesGive DEF ReadsTheStream, ReaderInv, EndIsSeen, ZeroMeansEnded
<1> QED
  BY <1>1, <1>2, <1>3, PTL DEF Spec


(***************************************************************************)
(* The client that waits on readySem.  A refill begins below the threshold *)
(* of readiness, so one that ends above it gives the semaphore.            *)
(***************************************************************************)
Refilling == task \in {"fill", "fetch", "account", "advance", "refilled", "signal"}

WokenWhenReady ==
  /\ Refilling => ~wasReady
  /\ task = "refill" => readAvailable <= readAt
  /\ client = "readySem" /\ isReady /\ ~Refilling => readySem > 0

LEMMA WokenStep ==
  ASSUME readAt < readyThreshold, notReadyThreshold <= readyThreshold,
         StreamInv, readySem \in Nat, WokenWhenReady, [Next]_vars
  PROVE  WokenWhenReady' /\ readySem' \in Nat
<1> USE DEF WokenWhenReady, Refilling, isReady, Goto, TaskGoto,
            ring, flags, streams, clientRegs, taskRegs
<1>1. /\ readAvailable \in Nat /\ toRead \in Nat /\ len \in Nat
      /\ readyThreshold \in Nat \ {0} /\ notReadyThreshold \in Nat /\ readAt \in Int
      /\ SemMax \in Nat \ {0} /\ readySem \in Nat
      /\ WokenWhenReady /\ readAt < readyThreshold /\ notReadyThreshold <= readyThreshold
  BY StreamAssumption DEF StreamInv, Shape, readAt
<1>2. CASE OpenCall
  <2>1. CASE OpenReset
    BY <1>1, <2>1, StreamAssumption DEF OpenReset, Reset, readAt
  <2>2. CASE ~OpenReset
    BY <1>1, <1>2, <2>2 DEF OpenCall, Open, OpenStream, OpenReader, StartTask, readAt
  <2> QED
    BY <2>1, <2>2
<1>3. CASE CloseCall
  BY <1>1, <1>3 DEF CloseCall, Close, CloseGive, CloseLock, readAt
<1>4. CASE ReadAny
  <2>1. client' = "readySem" => isNotReady
    BY <1>4 DEF ReadAny, ReadCall
  <2> QED
    BY <1>1, <1>4, <2>1 DEF ReadAny, ReadCall, isNotReady, readAt
<1>5. CASE ReadSteps
  <2>1. CASE ReadySemWait
    BY <1>1, <2>1 DEF ReadySemWait, readAt
  <2>2. CASE ReadReset
    BY <1>1, <2>2, StreamAssumption DEF ReadReset, Reset, readAt
  <2>3. CASE Consume
    BY <1>1, <2>3 DEF Consume, readAt, StreamInv, ClientInv
  <2>4. CASE Spin \/ Check \/ Take \/ Copy \/ Advance \/ ReadGive
    BY <1>1, <2>4 DEF Spin, Check, Take, Copy, Advance, ReadGive, readAt
  <2> QED
    BY <1>5, <2>1, <2>2, <2>3, <2>4 DEF ReadSteps
<1>6. CASE Task
  <2>1. CASE TaskStart \/ TaskFirst \/ TaskLoop \/ TaskWait
    BY <1>1, <2>1 DEF TaskStart, TaskFirst, TaskLoop, TaskWait, readAt
  <2>2. CASE TaskCheck
    BY <1>1, <2>2 DEF TaskCheck, readAt
  <2>3. CASE TaskRefill
    <3>1. /\ task = "refill" /\ task' = "fill" /\ wasReady' = isReady
          /\ UNCHANGED <<readAvailable, readSem, readySem, client>>
      BY <2>3 DEF TaskRefill
    <3>2. readAvailable <= readAt
      BY <1>1, <3>1
    <3>3. ~isReady
      BY <1>1, <3>2
    <3>4. ~wasReady'
      <4> HIDE DEF isReady
      <4> QED
        BY <3>1, <3>3
    <3> QED
      BY <1>1, <3>1, <3>4
  <2>4. CASE TaskFill \/ TaskFetch \/ TaskAccount \/ TaskAdvance \/ TaskRefilled
    BY <1>1, <2>4 DEF TaskFill, TaskFetch, TaskAccount, TaskAdvance, TaskRefilled, readAt
  <2>5. CASE TaskSignal
    BY <1>1, <2>5 DEF TaskSignal, Give, Smaller, readAt
  <2>6. CASE TaskEnd
    BY <1>1, <2>6 DEF TaskEnd, TaskExit, readAt
  <2> QED
    BY <1>6, <2>1, <2>2, <2>3, <2>4, <2>5, <2>6 DEF Task
<1>7. CASE UNCHANGED vars
  BY <1>1, <1>7 DEF vars, readAt
<1> QED
  BY <1>2, <1>3, <1>4, <1>5, <1>6, <1>7 DEF Next

(* Where every refill begins below readyThreshold, and a client that finds *)
(* the buffer not ready finds it below that threshold too, a client is     *)
(* never left waiting on readySem while the buffer is ready and the task   *)
(* sleeps; stream_missed_ready shows that the first condition is needed.   *)
THEOREM ReadyClientIsWoken ==
  ASSUME bufferSize - readThreshold < readyThreshold, notReadyThreshold <= readyThreshold
  PROVE  Spec => []NoMissedReady
<1>1. Init => StreamInv /\ readySem \in Nat /\ WokenWhenReady
  BY StreamInitInv DEF Init, WokenWhenReady, Refilling
<1>2. /\ StreamInv /\ readySem \in Nat /\ WokenWhenReady
      /\ [Next]_vars
      => (StreamInv /\ readySem \in Nat /\ WokenWhenReady)'
  BY StreamStepInv, WokenStep DEF readAt
<1>3. readySem \in Nat /\ WokenWhenReady => NoMissedReady
  BY DEF WokenWhenReady, NoMissedReady, Refilling
<1> QED
  BY <1>1, <1>2, <1>3, PTL DEF Spec

=============================================================================

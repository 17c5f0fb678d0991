--------------------------- MODULE MCFoundations ---------------------------
(* What the rest is built on, each by itself: a behaviour runs the one     *)
(* part names.                                                             *)
(*                                                                         *)
(* The ring has three bytes of two values; requests reach one byte more    *)
(* than the capacity, so that every write and read can be truncated.       *)
EXTENDS CircularBuffer, BinaryStreams, CertBundle, BellTask, Semaphores

VARIABLE part

(* BinaryStreams: numbers of either sign; halves of long ones alike.       *)
SomeNumbers ==
  {<<200>>, <<255, 127>>, <<1, 128>>, <<1, 2, 3, 4>>, <<0, 255, 1, 254>>,
   <<5, 6, 7, 100, 1, 2, 3, 128>>}
NegativeHalf == SomeNumbers \union {<<5, 6, 7, 200, 1, 2, 3, 4>>}
BigEndianReads == {"readByte", "readShort", "readInt", "readUInt", "readLong"} \X {"big"}
KnownReads ==
  BigEndianReads \union {<<">>", "little">>, <<">>", "big">>, <<">>uint16", "little">>,
                         <<"readBytes", "little">>}
AllReads == KnownReads \union {<<">>uint16", "big">>}

(* CertBundle: bundles of none to five certificates, one with a longer     *)
(* name, one with another key, one that is too short and one cut off.      *)
Entry(n, key) == <<2, 1>> \o <<1, n, key>>
SomeBundles ==
  {<<0, 0, 0>>, <<1>>, <<1>> \o Entry(3, 1), <<2>> \o Entry(1, 1) \o Entry(3, 2),
   <<5>> \o Entry(1, 1) \o Entry(2, 1) \o Entry(3, 2) \o Entry(4, 1)
     \o <<4, 1, 3, 1, 1, 1, 2>>,
   <<4>> \o Entry(1, 2) \o Entry(2, 2)}
SomeChildren ==
  [issuer : {<<1, n>> : n \in 0..5} \union {<<3, 1, 1, 1>>}, signer : {<<1>>, <<2>>},
   flags : {{"NOT_TRUSTED"}, {"NOT_TRUSTED", "BAD_MD"}}]
  \union [issuer : {<<1, 2>>}, signer : {<<1>>},
          flags : {{}, {"BAD_MD"}, {"EXPIRED", "NOT_TRUSTED"}}]

Parts == {"ring", "numbers", "bundle", "task", "semaphore"}

MCInit ==
  /\ part \in Parts
  /\ Init /\ BinaryInit /\ BundleInit /\ TaskInit /\ SemInit
  /\ part # "task" => runOnPSRAM
  /\ part # "semaphore" => platform = "linux" /\ clock = 0

Still(running) ==
  /\ part = running /\ UNCHANGED part
  /\ running = "ring" \/ UNCHANGED vars
  /\ running = "numbers" \/ UNCHANGED binaryVars
  /\ running = "bundle" \/ UNCHANGED bundleVars
  /\ running = "task" \/ UNCHANGED taskVars
  /\ running = "semaphore" \/ UNCHANGED semVars

MCNext ==
  \/ Still("ring") /\ Next
  \/ Still("numbers") /\ BinaryNext
  \/ Still("bundle") /\ BundleNext
  \/ Still("task") /\ TaskNext
  \/ Still("semaphore") /\ SemNext

MCSpec ==
  /\ MCInit /\ [][MCNext]_<<part, vars, binaryVars, bundleVars, taskVars, semVars>>
  /\ WF_bundleVars(part = "bundle" /\ Searching)
  /\ \A s \in Start : WF_taskVars(part = "task" /\ Ending(s))
  /\ WF_semVars(part = "semaphore" /\ Passes)
  /\ \A t \in Waiter : WF_semVars(part = "semaphore" /\ Waits(t))

(* What was begun is ended: the search of a verification, the freeing of a *)
(* task's buffers, a wait for a semaphore that is there or that has a      *)
(* timeout.                                                                *)
CallsEnd == CallbackReturns /\ BuffersAreFreed /\ WaitsEnd
=============================================================================

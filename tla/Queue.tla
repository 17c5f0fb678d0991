------------------------------- MODULE Queue -------------------------------
(***************************************************************************)
(* bell::Queue (utilities/include/Queue.h): a queue with a mutex, a        *)
(* condition variable and a flag that forces the waiting calls to return.  *)
(* The flag is an atomic that push and clear store before they take the    *)
(* mutex, so it can change under a thread that holds it.                   *)
(*                                                                         *)
(* A caller in Waiter waits with wpop, one in TimedWaiter with wtpop; both *)
(* may also call pop.  A caller in Caller pushes and clears.  The elements *)
(* are not told apart: size is the length of m_queue.  isEmpty, size and   *)
(* isExit only look.                                                       *)
(***************************************************************************)
EXTENDS Naturals, FiniteSetTheorems, TLAPS

CONSTANTS Waiter, TimedWaiter, Caller,
          MaxPush, MaxClear,   (* bounds on the number of calls             *)
          Free                 (* the mutex's owner when it has none        *)

ASSUME QueueAssumption ==
  /\ MaxPush \in Nat /\ MaxClear \in Nat
  /\ Waiter \intersect TimedWaiter = {}
  /\ (Waiter \union TimedWaiter) \intersect Caller = {}
  /\ Free \notin Waiter \union TimedWaiter

VARIABLES size, m_forceExit,
          m_mutex,             (* a consumer that holds it between two steps *)
          pc,                  (* where each thread is                      *)
          pushes, clears       (* calls so far                              *)

vars == <<size, m_forceExit, m_mutex, pc, pushes, clears>>

Consumer == Waiter \union TimedWaiter

Goto(t, step) == pc' = [pc EXCEPT ![t] = step]

Init ==
  /\ size = 0 /\ m_forceExit = FALSE /\ m_mutex = Free
  /\ pc = [t \in Consumer \union Caller |-> "idle"]
  /\ pushes = 0 /\ clears = 0

(* m_cv.notify_one: any one of the sleeping threads, if there is one, goes *)
(* on to take the mutex and look again.                                    *)
NotifyOne(caller) ==
  \/ \E c \in Consumer :
       /\ pc[c] = "asleep"
       /\ pc' = [pc EXCEPT ![c] = "woken", ![caller] = "idle"]
  \/ /\ \A c \in Consumer : pc[c] # "asleep"
     /\ Goto(caller, "idle")

(***************************************************************************)
(* push and clear: flag, then the critical section, then the notification. *)
(***************************************************************************)
Push(t) ==
  /\ pc[t] = "idle" /\ pushes < MaxPush
  /\ m_forceExit' = FALSE
  /\ pushes' = pushes + 1
  /\ Goto(t, "append")
  /\ UNCHANGED <<size, m_mutex, clears>>

Append(t) ==
  /\ pc[t] = "append" /\ m_mutex = Free
  /\ size' = size + 1
  /\ Goto(t, "pushNotify")
  /\ UNCHANGED <<m_forceExit, m_mutex, pushes, clears>>

(* Mutant: only the push into an empty queue notifies.                     *)
PushNotify_First(t) ==
  /\ pc[t] = "pushNotify"
  /\ IF size = 1 THEN NotifyOne(t) ELSE Goto(t, "idle")
  /\ UNCHANGED <<size, m_forceExit, m_mutex, pushes, clears>>

PushNotify(t) ==
  /\ pc[t] = "pushNotify"
  /\ NotifyOne(t)
  /\ UNCHANGED <<size, m_forceExit, m_mutex, pushes, clears>>

Clear(t) ==
  /\ pc[t] = "idle" /\ clears < MaxClear
  /\ m_forceExit' = TRUE
  /\ clears' = clears + 1
  /\ Goto(t, "empty")
  /\ UNCHANGED <<size, m_mutex, pushes>>

Empty(t) ==
  /\ pc[t] = "empty" /\ m_mutex = Free
  /\ size' = 0
  /\ Goto(t, "clearNotify")
  /\ UNCHANGED <<m_forceExit, m_mutex, pushes, clears>>

ClearNotify(t) ==
  /\ pc[t] = "clearNotify"
  /\ NotifyOne(t)
  /\ UNCHANGED <<size, m_forceExit, m_mutex, pushes, clears>>

(***************************************************************************)
(* The consumers.  wait evaluates its predicate with the mutex held; it    *)
(* returns with the mutex held, or sleeps and releases it.                 *)
(***************************************************************************)
TryPop(c) ==
  /\ pc[c] = "idle" /\ m_mutex = Free /\ size > 0
  /\ size' = size - 1
  /\ UNCHANGED <<m_forceExit, m_mutex, pc, pushes, clears>>

(* Mutant: the waiting pop does not take the mutex first.                  *)
Wait_Unlocked(c) ==
  /\ pc[c] \in {"idle", "woken"}
  /\ IF size > 0 \/ m_forceExit
     THEN m_mutex' = c /\ Goto(c, "decide")
     ELSE UNCHANGED m_mutex /\ Goto(c, "asleep")
  /\ UNCHANGED <<size, m_forceExit, pushes, clears>>

Wait(c) ==
  /\ pc[c] \in {"idle", "woken"} /\ m_mutex = Free
  /\ IF size > 0 \/ m_forceExit
     THEN m_mutex' = c /\ Goto(c, "decide")
     ELSE UNCHANGED m_mutex /\ Goto(c, "asleep")
  /\ UNCHANGED <<size, m_forceExit, pushes, clears>>

SpuriousWakeup(c) ==
  /\ pc[c] = "asleep"
  /\ Goto(c, "woken")
  /\ UNCHANGED <<size, m_forceExit, m_mutex, pushes, clears>>

(* wait_for gives up: whatever its predicate says, the caller goes on.     *)
TimeOut(c) ==
  /\ pc[c] = "asleep"
  /\ Goto(c, "late")
  /\ UNCHANGED <<size, m_forceExit, m_mutex, pushes, clears>>

TimedOutLock(c) ==
  /\ pc[c] = "late" /\ m_mutex = Free
  /\ m_mutex' = c
  /\ Goto(c, "decide")
  /\ UNCHANGED <<size, m_forceExit, pushes, clears>>

(* The flag is loaded again, and an element taken if it is down.           *)
ReturnFalse(c) ==
  /\ pc[c] = "decide" /\ m_forceExit
  /\ m_mutex' = Free
  /\ Goto(c, "idle")
  /\ UNCHANGED <<size, m_forceExit, pushes, clears>>

TakeFront(c) ==
  /\ pc[c] = "decide" /\ ~m_forceExit /\ size > 0
  /\ size' = size - 1
  /\ m_mutex' = Free
  /\ Goto(c, "idle")
  /\ UNCHANGED <<m_forceExit, pushes, clears>>

(* wtpop returns false; wpop has no such test and takes the front of an    *)
(* empty std::queue, which is undefined: the thread stops here.            *)
NothingToTake(c) ==
  /\ pc[c] = "decide" /\ ~m_forceExit /\ size = 0
  /\ IF c \in TimedWaiter
     THEN m_mutex' = Free /\ Goto(c, "idle")
     ELSE UNCHANGED m_mutex /\ Goto(c, "broken")
  /\ UNCHANGED <<size, m_forceExit, pushes, clears>>

(***************************************************************************)
(* The threads.                                                            *)
(***************************************************************************)
Decide(c) == ReturnFalse(c) \/ TakeFront(c) \/ NothingToTake(c)

Next ==
  \/ \E t \in Caller :
       \/ Push(t) \/ Append(t) \/ PushNotify(t)
       \/ Clear(t) \/ Empty(t) \/ ClearNotify(t)
  \/ \E c \in Consumer : TryPop(c) \/ Wait(c) \/ SpuriousWakeup(c) \/ Decide(c)
  \/ \E c \in TimedWaiter : TimeOut(c) \/ TimedOutLock(c)

Spec == Init /\ [][Next]_vars

(* A thread that can go on does, and one that keeps asking for the mutex   *)
(* gets it in the end.  Those that use wpop call it again and again;       *)
(* nothing makes anybody push, clear, pop or call wtpop, or a sleeper wake *)
(* by itself.                                                              *)
Fairness ==
  /\ \A t \in Caller :
       /\ SF_vars(Append(t)) /\ SF_vars(Empty(t))
       /\ WF_vars(PushNotify(t)) /\ WF_vars(ClearNotify(t))
  /\ \A c \in Consumer : SF_vars(pc[c] = "woken" /\ Wait(c)) /\ WF_vars(Decide(c))
  /\ \A c \in Waiter : SF_vars(Wait(c))
  /\ \A c \in TimedWaiter : WF_vars(TimeOut(c)) /\ SF_vars(TimedOutLock(c))

FairSpec == Spec /\ Fairness

(***************************************************************************)
(* Properties.                                                             *)
(***************************************************************************)
(* The mutex is held between two steps by the consumer that is deciding,   *)
(* or by one that was lost in the front of an empty queue, and no other.   *)
TypeOK ==
  /\ size \in 0..MaxPush /\ m_forceExit \in BOOLEAN
  /\ m_mutex \in Consumer \union {Free}
  /\ pc \in [Consumer \union Caller ->
               {"idle", "append", "pushNotify", "empty", "clearNotify",
                "asleep", "woken", "late", "decide", "broken"}]
  /\ pushes \in 0..MaxPush /\ clears \in 0..MaxClear
  /\ \A c \in Consumer : pc[c] \in {"decide", "broken"} <=> m_mutex = c

(* "wpop ... False for forced exit": a waiting pop returns false or an     *)
(* element; none takes the front of an empty queue, however the flag it    *)
(* woke up for changes before it is loaded again.                          *)
NeverTakesFromEmpty == \A c \in Consumer : pc[c] # "broken"

(* No wake-up is lost: elements do not stay in the queue of consumers that *)
(* sleep, unless they are being forced to return, or one of them was lost  *)
(* with the mutex in the front of an empty queue.                          *)
ElementsAreTaken ==
  []<>(size = 0 \/ m_forceExit \/ \E c \in Consumer : pc[c] = "broken")

(* "Atomic variable used to terminate immediately wpop and wtpop": a       *)
(* thread asleep in one of them when the flag is up returns, unless a push *)
(* takes the flag down first.                                              *)
ExitEndsWaits ==
  \A c \in Consumer :
    (pc[c] = "asleep" /\ m_forceExit) ~> (pc[c] # "asleep" \/ ~m_forceExit)

(* clear: "Free the queue and force stop".  When no call is half done, a   *)
(* queue in forced exit is empty, as after any order of pushes and clears. *)
StoppedIsEmpty ==
  (\A t \in Caller : pc[t] = "idle") /\ m_forceExit => size = 0

(***************************************************************************)
(* For any number of threads: who holds the mutex, and how many elements   *)
(* there can be.  A push is counted before its element is in the queue, so *)
(* the invariant counts the pushes between the two.                        *)
(***************************************************************************)
Appending == {t \in Caller : pc[t] = "append"}

QueueInv ==
  /\ TypeOK
  /\ IsFiniteSet(Appending)
  /\ size + Cardinality(Appending) <= pushes

(* Steps that let no thread into its append, or out of one.                *)
LEMMA SameAppending ==
  ASSUME QueueInv, TypeOK',
         \A t \in Caller : (pc'[t] = "append") <=> (pc[t] = "append"),
         size' <= size, pushes' = pushes
  PROVE  QueueInv'
<1>1. Appending' = Appending
  BY DEF Appending
<1>2. size \in Nat /\ size' \in Nat /\ pushes \in Nat
  BY QueueAssumption DEF QueueInv, TypeOK
<1>3. Cardinality(Appending) \in Nat
  BY FS_CardinalityType DEF QueueInv
<1> QED
  BY <1>1, <1>2, <1>3 DEF QueueInv

LEMMA NotifyKeeps ==
  ASSUME TypeOK, NEW t \in Caller, pc[t] \in {"pushNotify", "clearNotify"}, NotifyOne(t),
         UNCHANGED <<size, m_forceExit, m_mutex, pushes, clears>>
  PROVE  /\ TypeOK'
         /\ \A u \in Caller : (pc'[u] = "append") <=> (pc[u] = "append")
<1>1. CASE \E c \in Consumer :
             pc[c] = "asleep" /\ pc' = [pc EXCEPT ![c] = "woken", ![t] = "idle"]
  BY <1>1, QueueAssumption DEF TypeOK, Consumer
<1>2. CASE Goto(t, "idle")
  BY <1>2, QueueAssumption DEF Goto, TypeOK, Consumer
<1> QED
  BY <1>1, <1>2 DEF NotifyOne

LEMMA QueueInvInit == Init => QueueInv
<1> SUFFICES ASSUME Init PROVE QueueInv
  OBVIOUS
<1>1. Appending = {}
  BY DEF Init, Appending
<1>2. TypeOK
  <2>1. \A c \in Consumer : pc[c] = "idle" /\ m_mutex # c
    BY QueueAssumption DEF Init, Consumer
  <2>2. pc \in [Consumer \union Caller ->
                   {"idle", "append", "pushNotify", "empty", "clearNotify",
                    "asleep", "woken", "late", "decide", "broken"}]
    BY DEF Init
  <2>3. /\ size \in 0..MaxPush /\ pushes \in 0..MaxPush /\ clears \in 0..MaxClear
        /\ m_forceExit \in BOOLEAN /\ m_mutex \in Consumer \union {Free}
    <3>1. MaxPush \in Nat /\ MaxClear \in Nat
      BY QueueAssumption
    <3>2. size = 0 /\ m_forceExit = FALSE /\ m_mutex = Free /\ pushes = 0 /\ clears = 0
      BY DEF Init
    <3>3. size \in 0..MaxPush /\ pushes \in 0..MaxPush /\ clears \in 0..MaxClear
      BY <3>1, <3>2
    <3>4. m_forceExit \in BOOLEAN /\ m_mutex \in Consumer \union {Free}
      BY <3>2, Zenon
    <3> QED
      BY <3>3, <3>4
  <2>4. \A c \in Consumer : pc[c] \in {"decide", "broken"} <=> m_mutex = c
    BY <2>1
  <2> QED
    BY <2>2, <2>3, <2>4 DEF TypeOK
<1> QED
  BY <1>1, <1>2, FS_EmptySet DEF Init, QueueInv

LEMMA CallerKeeps ==
  ASSUME QueueInv, NEW t \in Caller,
         \/ Push(t) \/ Append(t) \/ PushNotify(t)
         \/ Clear(t) \/ Empty(t) \/ ClearNotify(t)
  PROVE  QueueInv'
<1>1. /\ TypeOK /\ IsFiniteSet(Appending) /\ Cardinality(Appending) \in Nat
      /\ size \in Nat /\ pushes \in Nat /\ size + Cardinality(Appending) <= pushes
      /\ MaxPush \in Nat /\ MaxClear \in Nat
  BY QueueAssumption, FS_CardinalityType DEF QueueInv, TypeOK
<1>2. CASE Push(t)
  <2>1. TypeOK'
    <3>1. t \notin Consumer /\ pc[t] = "idle"
      BY <1>2, QueueAssumption DEF Push, Consumer
    <3>2. pushes' \in 0..MaxPush /\ m_forceExit' = FALSE
      <4>1. pushes' = pushes + 1 /\ pushes < MaxPush /\ m_forceExit' = FALSE
        BY <1>2 DEF Push
      <4> QED
        BY <1>1, <4>1
    <3>3. /\ pc' = [pc EXCEPT ![t] = "append"]
          /\ UNCHANGED <<size, m_mutex, clears>>
      BY <1>2 DEF Push, Goto
    <3> QED
      BY <1>1, <3>1, <3>2, <3>3 DEF TypeOK
  <2>2. Appending' = Appending \cup {t} /\ t \notin Appending
    BY <1>1, <1>2 DEF Push, Goto, Appending, TypeOK
  <2>3. IsFiniteSet(Appending') /\ Cardinality(Appending') = Cardinality(Appending) + 1
    BY <1>1, <2>2, FS_AddElement
  <2>4. size' = size /\ pushes' = pushes + 1
    BY <1>2 DEF Push
  <2> QED
    BY <1>1, <2>1, <2>3, <2>4 DEF QueueInv
<1>3. CASE Append(t)
  <2>1. Appending' = Appending \ {t} /\ t \in Appending
    BY <1>1, <1>3 DEF Append, Goto, Appending, TypeOK
  <2>2. IsFiniteSet(Appending') /\ Cardinality(Appending') = Cardinality(Appending) - 1
    BY <1>1, <2>1, FS_RemoveElement
  <2>3. Cardinality(Appending') \in Nat
    BY <2>2, FS_CardinalityType
  <2>4. size' = size + 1 /\ pushes' = pushes
    BY <1>3 DEF Append
  <2>5. size' \in 0..MaxPush
    BY <1>1, <2>2, <2>3, <2>4 DEF TypeOK
  <2>6. TypeOK'
    BY <1>1, <1>3, <2>5, QueueAssumption DEF Append, Goto, TypeOK, Consumer
  <2> QED
    BY <1>1, <2>2, <2>4, <2>6 DEF QueueInv
<1>4. CASE PushNotify(t) \/ ClearNotify(t)
  BY <1>1, <1>4, NotifyKeeps, SameAppending DEF PushNotify, ClearNotify
<1>5. CASE Clear(t)
  <2>1. TypeOK'
    BY <1>1, <1>5, QueueAssumption DEF Clear, Goto, TypeOK, Consumer
  <2>2. \A u \in Caller : (pc'[u] = "append") <=> (pc[u] = "append")
    BY <1>1, <1>5 DEF Clear, Goto, TypeOK
  <2> QED
    BY <1>1, <1>5, <2>1, <2>2, SameAppending DEF Clear
<1>6. CASE Empty(t)
  <2>1. TypeOK'
    BY <1>1, <1>6, QueueAssumption DEF Empty, Goto, TypeOK, Consumer
  <2>2. \A u \in Caller : (pc'[u] = "append") <=> (pc[u] = "append")
    BY <1>1, <1>6 DEF Empty, Goto, TypeOK
  <2> QED
    BY <1>1, <1>6, <2>1, <2>2, SameAppending DEF Empty
<1> QED
  BY <1>2, <1>3, <1>4, <1>5, <1>6

LEMMA ConsumerKeeps ==
  ASSUME QueueInv, NEW c \in Consumer,
         \/ TryPop(c) \/ Wait(c) \/ SpuriousWakeup(c) \/ Decide(c)
         \/ TimeOut(c) \/ TimedOutLock(c)
  PROVE  QueueInv'
<1>1. /\ TypeOK /\ size \in Nat /\ MaxPush \in Nat
      /\ Free \notin Consumer /\ Consumer \cap Caller = {}
  BY QueueAssumption DEF QueueInv, TypeOK, Consumer
<1> USE DEF Goto, TypeOK
<1>2. CASE TryPop(c)
  BY <1>1, <1>2, SameAppending DEF TryPop
<1>3. CASE Wait(c)
  BY <1>1, <1>3, SameAppending DEF Wait
<1>4. CASE SpuriousWakeup(c) \/ TimeOut(c)
  BY <1>1, <1>4, SameAppending DEF SpuriousWakeup, TimeOut
<1>5. CASE TimedOutLock(c)
  BY <1>1, <1>5, SameAppending DEF TimedOutLock
<1>6. CASE ReturnFalse(c)
  BY <1>1, <1>6, SameAppending DEF ReturnFalse
<1>7. CASE TakeFront(c)
  BY <1>1, <1>7, SameAppending DEF TakeFront
<1>8. CASE NothingToTake(c)
  BY <1>1, <1>8, SameAppending DEF NothingToTake
<1> QED
  BY <1>2, <1>3, <1>4, <1>5, <1>6, <1>7, <1>8 DEF Decide

(* However many threads push, clear and wait, and wherever one of them is  *)
(* overtaken: only the consumer that is deciding, or is lost in an empty   *)
(* queue, holds the mutex, so no two take an element at once, and there    *)
(* are never more elements than were pushed.                               *)
THEOREM QueueHasOneDecider == Spec => []TypeOK
<1>1. QueueInv /\ [Next]_vars => QueueInv'
  <2> SUFFICES ASSUME QueueInv, [Next]_vars PROVE QueueInv'
    OBVIOUS
  <2>1. CASE UNCHANGED vars
    BY <2>1 DEF vars, QueueInv, TypeOK, Appending
  <2>2. CASE \E t \in Caller :
               \/ Push(t) \/ Append(t) \/ PushNotify(t)
               \/ Clear(t) \/ Empty(t) \/ ClearNotify(t)
    BY <2>2, CallerKeeps
  <2>3. CASE \E c \in Consumer :
               \/ TryPop(c) \/ Wait(c) \/ SpuriousWakeup(c) \/ Decide(c)
               \/ TimeOut(c) \/ TimedOutLock(c)
    BY <2>3, ConsumerKeeps
  <2>4. TimedWaiter \subseteq Consumer
    BY DEF Consumer
  <2> QED
    BY <2>1, <2>2, <2>3, <2>4 DEF Next
<1>2. QueueInv => TypeOK
  BY DEF QueueInv
<1> QED
  BY <1>1, <1>2, QueueInvInit, PTL DEF Spec
=============================================================================

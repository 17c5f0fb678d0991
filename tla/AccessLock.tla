----------------------------- MODULE AccessLock -----------------------------
(***************************************************************************)
(* CentralAudioBuffer::lockAccess and unlockAccess: a mutex and an atomic  *)
(* flag, each call made of separate steps.  Any thread may call            *)
(* lockAccess; the threads of Unlocker may call unlockAccess (any of them  *)
(* may unlock what another has locked, as the code does not look at the    *)
(* owner).                                                                 *)
(*                                                                         *)
(* Both calls run clearBuffer between the test of the flag and the mutex   *)
(* operation.  Its effect is in CentralAudioBuffer; here it is the time    *)
(* that passes between the two.                                            *)
(***************************************************************************)
CONSTANTS Thread, Unlocker, Free

ASSUME LockAssumption == Unlocker \subseteq Thread /\ Free \notin Thread

VARIABLES isLocked,      (* the atomic flag                                 *)
          accessMutex,   (* the thread that acquired it, or Free            *)
          pc             (* what each thread does next                      *)

vars == <<isLocked, accessMutex, pc>>

Step == {"idle", "acquire", "setLocked", "release", "setUnlocked"}

Goto(t, step) == pc' = [pc EXCEPT ![t] = step]

Init ==
  /\ isLocked = FALSE
  /\ accessMutex = Free
  /\ pc = [t \in Thread |-> "idle"]

(* lockAccess: if (!isLocked) { clear; lock; isLocked = true; }            *)
LockAccess(t) ==
  /\ pc[t] = "idle"
  /\ ~isLocked
  /\ Goto(t, "acquire")
  /\ UNCHANGED <<isLocked, accessMutex>>

Acquire(t) ==
  /\ pc[t] = "acquire"
  /\ accessMutex = Free
  /\ accessMutex' = t
  /\ Goto(t, "setLocked")
  /\ UNCHANGED isLocked

SetLocked(t) ==
  /\ pc[t] = "setLocked"
  /\ isLocked' = TRUE
  /\ Goto(t, "idle")
  /\ UNCHANGED accessMutex

(* unlockAccess: if (isLocked) { clear; unlock; isLocked = false; }        *)
UnlockAccess(t) ==
  /\ pc[t] = "idle"
  /\ isLocked
  /\ Goto(t, "release")
  /\ UNCHANGED <<isLocked, accessMutex>>

Release(t) ==
  /\ pc[t] = "release"
  /\ accessMutex' = Free
  /\ Goto(t, "setUnlocked")
  /\ UNCHANGED isLocked

(* Mutant: the flag is not cleared.                                        *)
SetUnlocked_KeepsFlag(t) ==
  /\ pc[t] = "setUnlocked"
  /\ Goto(t, "idle")
  /\ UNCHANGED <<isLocked, accessMutex>>

SetUnlocked(t) ==
  /\ pc[t] = "setUnlocked"
  /\ isLocked' = FALSE
  /\ Goto(t, "idle")
  /\ UNCHANGED accessMutex

Next ==
  \/ \E t \in Thread : LockAccess(t) \/ Acquire(t) \/ SetLocked(t)
  \/ \E t \in Unlocker : UnlockAccess(t) \/ Release(t) \/ SetUnlocked(t)

Spec == Init /\ [][Next]_vars

(***************************************************************************)
(* Properties.                                                             *)
(***************************************************************************)
(* The states lockAccess and unlockAccess can be in.                       *)
TypeOK ==
  /\ isLocked \in BOOLEAN
  /\ accessMutex \in Thread \union {Free}
  /\ pc \in [Thread -> Step]

(* unlockAccess never unlocks a mutex nobody holds (undefined behaviour    *)
(* for std::mutex), however the flag and the mutex drift apart.            *)
NoFreeUnlock == \A t \in Thread : pc[t] = "release" => accessMutex # Free

(* The comment on unlockAccess: "Frees access to the audio buffer".  When  *)
(* no call is in progress and the mutex is held, the flag says so;         *)
(* otherwise unlockAccess does nothing and nobody can ever free it.        *)
CanBeFreed ==
  (\A t \in Thread : pc[t] = "idle") /\ accessMutex # Free => isLocked
=============================================================================

----------------------------- MODULE Semaphores -----------------------------
(***************************************************************************)
(* bell::WrappedSemaphore over what each platform has.  The constructor's  *)
(* argument bounds the count on the ESP and on Windows only.  Time is in   *)
(* milliseconds.  On Linux signals come at any time.                       *)
(***************************************************************************)
EXTENDS Integers, FiniteSets

CONSTANTS Waiter,           (* the threads that wait                        *)
          MaxCount,         (* the constructor's argument                   *)
          SecondMs,         (* milliseconds of a second, 1000               *)
          portTICK_PERIOD_MS,     (* and of a tick of the ESP               *)
          Timeouts,         (* what twait is called with                    *)
          MaxGiven, MaxClock      (* bounds on the gives, and on the time   *)

ASSUME SemAssumption ==
  /\ SecondMs \in Nat \ {0} /\ portTICK_PERIOD_MS \in Nat \ {0}
  /\ Timeouts \subseteq Nat

VARIABLES platform,
          count,            (* of the platform's semaphore                  *)
          clock,
          waiting,          (* of each thread: [call, since, ms, until]     *)
          last              (* the call that has just returned              *)

semVars == <<platform, count, clock, waiting, last>>

Platforms == {"linux", "esp", "apple", "win32"}
Idle == [call |-> "none", since |-> 0, ms |-> 0, until |-> 0]

(* What a call told its caller (result), and what became of it: how long   *)
(* it lasted, whether it took one and whether a signal ended it.           *)
NoReturn == [call |-> "none", result |-> 0, since |-> 0, ms |-> 0, lasted |-> 0,
            took |-> FALSE, signal |-> FALSE]

SemInit ==
  /\ platform \in Platforms
  /\ count = 0 /\ clock \in 0..SecondMs - 1
  /\ waiting = [t \in Waiter |-> Idle] /\ last = NoReturn

(* An ESP's or Windows' semaphore at its bound stays there.                *)
give ==
  /\ count < MaxGiven
  /\ count' = IF platform \in {"esp", "win32"} /\ count >= MaxCount THEN count ELSE count + 1
  /\ last' = NoReturn /\ UNCHANGED <<platform, clock, waiting>>

wait(t) ==
  /\ waiting[t] = Idle
  /\ waiting' = [waiting EXCEPT ![t] =
       [call |-> "wait", since |-> clock, ms |-> 0, until |-> 0]]
  /\ last' = NoReturn /\ UNCHANGED <<platform, count, clock>>

(* Mutant: whole seconds of the timeout are forgotten.                     *)
Deadline_NoSeconds(ms) ==
  [sec |-> clock \div SecondMs, nsec |-> (clock % SecondMs) + (ms % SecondMs)]

(* On Linux the deadline is computed with its parts apart, and what the    *)
(* nanoseconds have over a second is not carried.                          *)
Deadline(ms) ==
  [sec |-> (clock \div SecondMs) + (ms \div SecondMs),
   nsec |-> (clock % SecondMs) + (ms % SecondMs)]

Ticks(ms) == ms \div portTICK_PERIOD_MS

(* When each platform stops waiting; sem_timedwait refuses a deadline with *)
(* a second of nanoseconds, one of no time at all.                         *)
Until(ms) ==
  CASE platform = "linux" ->
         IF Deadline(ms).nsec >= SecondMs
           THEN -1 ELSE Deadline(ms).sec * SecondMs + Deadline(ms).nsec
    [] platform = "esp" ->
         IF Ticks(ms) = 0 THEN clock ELSE (Ticks(clock) + Ticks(ms)) * portTICK_PERIOD_MS
    [] OTHER -> clock + ms

twait(t) ==
  /\ waiting[t] = Idle
  /\ \E ms \in Timeouts :
       /\ clock + ms <= MaxClock
       /\ waiting' = [waiting EXCEPT ![t] =
            [call |-> "twait", since |-> clock, ms |-> ms, until |-> Until(ms)]]
  /\ last' = NoReturn /\ UNCHANGED <<platform, count, clock>>

Returns(t, result, took, signal) ==
  /\ last' = [call |-> waiting[t].call, result |-> result, since |-> waiting[t].since,
              ms |-> waiting[t].ms, lasted |-> clock - waiting[t].since,
              took |-> took, signal |-> signal]
  /\ waiting' = [waiting EXCEPT ![t] = Idle]
  /\ UNCHANGED <<platform, clock>>

(* One that is there may be taken with a refused deadline too: whether the *)
(* platform looks at it first is its own choice.                           *)
Take(t) ==
  /\ waiting[t] # Idle /\ count > 0 /\ count' = count - 1
  /\ Returns(t, 0, TRUE, FALSE)

TimeOut(t) ==
  /\ waiting[t].call = "twait" /\ UNCHANGED count
  /\ \/ waiting[t].until = -1
     \/ count = 0 /\ clock >= waiting[t].until
  /\ Returns(t, 1, FALSE, FALSE)

(* A signal ends either call: twait hands on sem_timedwait's result, wait  *)
(* does not look at sem_wait's.                                            *)
Interrupted(t) ==
  /\ platform = "linux" /\ waiting[t] # Idle /\ UNCHANGED count
  /\ Returns(t, IF waiting[t].call = "wait" THEN 0 ELSE 1, FALSE, TRUE)

Passes ==
  /\ clock < MaxClock /\ clock' = clock + 1
  /\ last' = NoReturn /\ UNCHANGED <<platform, count, waiting>>

Waits(t) == Take(t) \/ TimeOut(t)
SemNext ==
  \/ give \/ Passes
  \/ \E t \in Waiter : wait(t) \/ twait(t) \/ Waits(t) \/ Interrupted(t)
SemFairness == WF_semVars(Passes) /\ \A t \in Waiter : WF_semVars(Waits(t))
SemSpec == SemInit /\ [][SemNext]_semVars /\ SemFairness

(***************************************************************************)
(* Properties                                                              *)
(***************************************************************************)
(* The nanoseconds of clock and timeout together reach a second.           *)
NoCarry(c) == platform = "linux" /\ (c.since % SecondMs) + (c.ms % SecondMs) >= SecondMs

(* A wait that returns without the semaphore has lasted as long as it was  *)
(* asked to (on the ESP but for less than two ticks), except on Linux: for *)
(* a signal, and for the deadlines that do not carry.                      *)
TimeoutsLast ==
  last.call = "twait" /\ last.result # 0 =>
    \/ last.lasted + (IF platform = "esp" THEN 2 * portTICK_PERIOD_MS - 1 ELSE 0) >= last.ms
    \/ last.signal
    \/ NoCarry(last)

(* What a wait says, it did: only Linux' wait, and only for a signal, says *)
(* that it has the semaphore when it has not.                              *)
SaysWhatItDid ==
  /\ last.result # 0 => ~last.took
  /\ last.call # "none" /\ last.result = 0 /\ ~last.took => last.call = "wait" /\ last.signal

WaitsKeepTheirWord == SaysWhatItDid /\ TimeoutsLast

(* Of threads that wait while one is there, some thread takes it; and a    *)
(* wait with a timeout ends.                                               *)
WaitsEnd ==
  \A t \in Waiter :
    /\ (waiting[t] # Idle /\ count > 0) ~> (waiting[t] = Idle \/ count = 0)
    /\ (waiting[t].call = "twait") ~> (waiting[t] = Idle)
=============================================================================

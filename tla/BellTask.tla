------------------------------ MODULE BellTask ------------------------------
(***************************************************************************)
(* bell::Task on the ESP with its stack in PSRAM: each start allocates a   *)
(* block for the task's control block, and a timer that the task makes     *)
(* when runTask has returned frees one five seconds later, whatever the    *)
(* task does then.  Which one, the task asks its object: an owner who      *)
(* knows that runTask is over may have started the object again by then,   *)
(* or destroyed it.  Other builds create a detached thread and own nothing *)
(* of it.                                                                  *)
(***************************************************************************)
EXTENDS Integers, FiniteSets

CONSTANT MaxStarts          (* bound on the calls of startTask              *)

ASSUME TaskAssumption == MaxStarts \in Nat

VARIABLES runOnPSRAM,
          run,              (* of each start, how far its task has come     *)
          xTaskBuffer,      (* the object's: the number of a start, or 0    *)
          timer,            (* of each start: the block its timer frees     *)
          freedBy,          (* of each block: whose timers freed it         *)
          object,
          overtaken         (* the tasks past runTask and before their      *)
                            (* timer when xTaskBuffer changed or went away  *)

taskVars == <<runOnPSRAM, run, xTaskBuffer, timer, freedBy, object, overtaken>>

Start == 1..MaxStarts
NoBuffer == 0
Started == {s \in Start : run[s] # "none"}

TaskInit ==
  /\ runOnPSRAM \in BOOLEAN
  /\ run = [s \in Start |-> "none"] /\ timer = [s \in Start |-> NoBuffer]
  /\ freedBy = [s \in Start |-> {}]
  /\ xTaskBuffer = NoBuffer /\ object = "alive" /\ overtaken = {}

(* The owner waits for the end of runTask (BufferedStream for the mutex    *)
(* it holds), and cannot wait for what follows.                            *)
RunTaskIsOver == \A s \in Started : run[s] # "runTask"

Overtakes ==
  overtaken' = IF runOnPSRAM THEN overtaken \union {s \in Started : run[s] = "cleanup"}
                             ELSE overtaken

startTask ==
  /\ object = "alive" /\ RunTaskIsOver
  /\ \E s \in Start \ Started :
       /\ s - 1 \in Started \union {0}
       /\ run' = [run EXCEPT ![s] = "runTask"]
       /\ xTaskBuffer' = IF runOnPSRAM THEN s ELSE xTaskBuffer
  /\ Overtakes
  /\ UNCHANGED <<runOnPSRAM, timer, freedBy, object>>

(* No memory for the block, or no thread: startTask returns false.         *)
StartFails ==
  /\ object = "alive" /\ RunTaskIsOver /\ Started # Start
  /\ xTaskBuffer' = IF runOnPSRAM THEN NoBuffer ELSE xTaskBuffer
  /\ Overtakes
  /\ UNCHANGED <<runOnPSRAM, run, timer, freedBy, object>>

Destroy ==
  /\ object = "alive" /\ RunTaskIsOver /\ object' = "destroyed"
  /\ Overtakes
  /\ UNCHANGED <<runOnPSRAM, run, xTaskBuffer, timer, freedBy>>

Move(s, from, to) == run[s] = from /\ run' = [run EXCEPT ![s] = to]

(* runTask returns; a thread is then gone.                                 *)
RunTaskReturns(s) ==
  /\ Move(s, "runTask", IF runOnPSRAM THEN "cleanup" ELSE "gone")
  /\ UNCHANGED <<runOnPSRAM, xTaskBuffer, timer, freedBy, object, overtaken>>

(* The timer gets what the object has now, or what is left where it was.   *)
TimerStart(s) ==
  /\ Move(s, "cleanup", "leaving")
  /\ \E b \in IF object = "alive" THEN {xTaskBuffer} ELSE Started \union {NoBuffer} :
       timer' = [timer EXCEPT ![s] = b]
  /\ UNCHANGED <<runOnPSRAM, xTaskBuffer, freedBy, object, overtaken>>

vTaskDelete(s) ==
  /\ Move(s, "leaving", "deleted")
  /\ UNCHANGED <<runOnPSRAM, xTaskBuffer, timer, freedBy, object, overtaken>>

(* The idle task takes the control block out of its lists.                 *)
IdleCleans(s) ==
  /\ Move(s, "deleted", "gone")
  /\ UNCHANGED <<runOnPSRAM, xTaskBuffer, timer, freedBy, object, overtaken>>

(* Mutant: the timer asks the object when it fires.                        *)
TimerFires_Present(s) ==
  /\ timer[s] # NoBuffer /\ timer' = [timer EXCEPT ![s] = NoBuffer]
  /\ freedBy' = [b \in Start |-> IF b = xTaskBuffer THEN freedBy[b] \union {s} ELSE freedBy[b]]
  /\ UNCHANGED <<runOnPSRAM, run, xTaskBuffer, object, overtaken>>

(* Five seconds later, wherever the task is.                               *)
TimerFires(s) ==
  /\ timer[s] # NoBuffer /\ timer' = [timer EXCEPT ![s] = NoBuffer]
  /\ freedBy' = [freedBy EXCEPT ![timer[s]] = @ \union {s}]
  /\ UNCHANGED <<runOnPSRAM, run, xTaskBuffer, object, overtaken>>

TaskNext ==
  \/ startTask \/ StartFails \/ Destroy
  \/ \E s \in Start :
       RunTaskReturns(s) \/ TimerStart(s) \/ vTaskDelete(s) \/ IdleCleans(s) \/ TimerFires(s)
Ending(s) == TimerStart(s) \/ vTaskDelete(s) \/ IdleCleans(s) \/ TimerFires(s)
TaskFairness == \A s \in Start : WF_taskVars(Ending(s))
TaskSpec == TaskInit /\ [][TaskNext]_taskVars /\ TaskFairness

(***************************************************************************)
(* Properties                                                              *)
(***************************************************************************)
(* A block is freed by the timer of its own task, never before that task   *)
(* is past runTask and has made the timer, unless a task was overtaken:    *)
(* only a timer of such a task frees another's block, and only then can a  *)
(* block be freed twice or under a task that still runs.                   *)
BlocksAreFreedByTheirTasks ==
  \A b \in Start : \A s \in freedBy[b] :
    /\ s = b \/ s \in overtaken
    /\ run[s] \notin {"none", "runTask", "cleanup"}

(* The block of a task that was not overtaken is freed in the end.         *)
BuffersAreFreed ==
  \A s \in Start :
    runOnPSRAM /\ run[s] = "cleanup" ~> s \in freedBy[s] \/ s \in overtaken

(* What fails: five seconds are meant to be enough for the idle task.      *)
BlockOutlivesItsTask ==
  \A s \in Start : freedBy[s] # {} => run[s] = "gone"
=============================================================================

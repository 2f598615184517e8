------------------------------- MODULE Tasks -------------------------------
(***************************************************************************)
(* The cooperative tasks of kernel/task.c: a ring of slots, a stack from   *)
(* malloc for each task, and a switch only where the running code calls    *)
(* yield, as draw_pixel, loadfile and the WAV player do.  The code running *)
(* before the first switch is the boot code, whose stack is no task's.     *)
(***************************************************************************)
EXTENDS Integers, FiniteSets

CONSTANTS
  MaxTasks,   \* MAX_TASKS
  StackSize,  \* TASK_STACK_SIZE
  Memory      \* the heap is 1 .. Memory

ASSUME TasksAssumption ==
  MaxTasks \in Nat \ {0} /\ StackSize \in Nat \ {0} /\ Memory \in Nat

Slots == 0 .. MaxTasks - 1
None == -1
States == {"unused", "ready", "running", "dead"}

VARIABLES
  state,        \* tasks[i].state
  base,         \* tasks[i].stack_base
  frame,        \* where tasks[i].esp resumes the task
  current_task,
  task_count,
  held, answer  \* the heap: blocks handed out, the last answer of malloc

taskVars == <<state, base, frame, current_task, task_count, held, answer>>

Heap == INSTANCE Allocator WITH First <- 1, Last <- Memory, Sizes <- {StackSize}

Stack(t) == base[t] .. base[t] + StackSize - 1

TaskInit ==
  /\ state = [t \in Slots |-> "unused"]
  /\ base = [t \in Slots |-> 0]
  /\ frame = [t \in Slots |-> "none"]
  /\ current_task = None
  /\ task_count = 0
  /\ Heap!Init

-----------------------------------------------------------------------------
Free(t) == state[t] = "unused"
FreeSlots == {t \in Slots : Free(t)}
FirstFree == CHOOSE t \in FreeSlots : \A u \in FreeSlots : t <= u

Runnable_Dead(t) == state[t] # "unused"
Runnable(t) == state[t] \in {"ready", "running"}

(* How many turns of find_next_task's loop lead to slot t.                 *)
Distance(t) ==
  LET start == IF current_task = None THEN 0 ELSE current_task
  IN  IF t = start THEN MaxTasks ELSE (t - start) % MaxTasks

find_next_task_First ==
  IF task_count = 0 \/ \A t \in Slots : ~ Runnable(t) THEN None
  ELSE CHOOSE t \in Slots : Runnable(t) /\ \A u \in Slots : Runnable(u) => t <= u
find_next_task ==
  IF task_count = 0 \/ \A t \in Slots : ~ Runnable(t) THEN None
  ELSE CHOOSE t \in Slots :
         Runnable(t) /\ \A u \in Slots : Runnable(u) => Distance(t) <= Distance(u)

(* task_exit ends in a loop of yields: a dead task does nothing else.      *)
Acting_Always == TRUE
Acting == current_task # None => state[current_task] = "running"

(* task_create: the first unused slot, then a stack, or -1 for want of     *)
(* either.                                                                 *)
Created(t, p) ==
  /\ state' = [state EXCEPT ![t] = "ready"]
  /\ base' = [base EXCEPT ![t] = p]
  /\ frame' = [frame EXCEPT ![t] = "entry"]
  /\ task_count' = task_count + 1
Create ==
  /\ Acting
  /\ FreeSlots # {}
  /\ Heap!Grant(StackSize)
  /\ Created(FirstFree, answer')
  /\ UNCHANGED current_task
CreateNoMemory ==
  /\ Acting
  /\ FreeSlots # {}
  /\ Heap!Refuse
  /\ UNCHANGED <<state, base, frame, current_task, task_count>>

(* yield: the next task of the ring goes on where it stopped; the boot     *)
(* code's stack pointer is stored in a local variable and lost.            *)
yield ==
  LET next == find_next_task  prev == current_task IN
  IF next \in {None, prev}
  THEN UNCHANGED taskVars
  ELSE /\ state' = [t \in Slots |-> IF t = next THEN "running"
                                    ELSE IF t = prev /\ state[t] = "running" THEN "ready"
                                    ELSE state[t]]
       /\ current_task' = next
       /\ frame' = [t \in Slots |-> IF t = prev THEN "yield" ELSE frame[t]]
       /\ UNCHANGED <<base, task_count, held, answer>>

(* task_exit up to its loop: the stack is freed while it is still in use.  *)
task_exit ==
  /\ current_task # None /\ Acting
  /\ state' = [state EXCEPT ![current_task] = "dead"]
  /\ Heap!GiveBack(base[current_task])
  /\ task_count' = task_count - 1
  /\ UNCHANGED <<base, frame, current_task>>

TaskNext == Create \/ CreateNoMemory \/ yield \/ task_exit

TaskSpec == TaskInit /\ [][TaskNext]_taskVars
(* The running code calls yield again and again: every pixel drawn does.   *)
FairTaskSpec == TaskSpec /\ WF_taskVars(yield)

-----------------------------------------------------------------------------
TaskTypeOK ==
  /\ state \in [Slots -> States]
  /\ base \in [Slots -> 0 .. Memory]
  /\ frame \in [Slots -> {"none", "entry", "yield"}]
  /\ current_task \in Slots \cup {None}
  /\ task_count \in 0 .. MaxTasks
  /\ DOMAIN held \subseteq 1 .. Memory

(* task_count counts the tasks that yield may choose, and only the current *)
(* task is marked as running: otherwise find_next_task gives up while a    *)
(* task waits, or a task goes on from a stale stack pointer.               *)
Counted ==
  /\ task_count = Cardinality({t \in Slots : state[t] \in {"ready", "running"}})
  /\ \A t \in Slots : state[t] = "running" => t = current_task
  /\ current_task # None => state[current_task] \in {"running", "dead"}

(* The stack of every task that can still be switched to belongs to it,    *)
(* with a frame to go on from, and no other task's stack touches it; not   *)
(* even the stack that task_exit has freed and still runs on.              *)
OnStack == {t \in Slots : state[t] \in {"ready", "running"} \/ t = current_task}
StacksApart ==
  /\ \A t \in Slots : state[t] \in {"ready", "running"} => base[t] \in DOMAIN held /\ frame[t] # "none"
  /\ \A t, u \in OnStack : t # u => Stack(t) \cap Stack(u) = {}

(* Slots, stacks and count stay sound over all creations, switches and     *)
(* exits (task.c:34-99).                                                   *)
TasksSound == Counted /\ StacksApart

(* Every task that is ready runs.                                          *)
EveryTaskRuns == \A t \in Slots : state[t] = "ready" ~> state[t] = "running"
=============================================================================

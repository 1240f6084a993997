------------------------------- MODULE Kernel -------------------------------
(***************************************************************************)
(* Tasks in the heap: the scheduler of module Scheduler with its task      *)
(* structs and stacks allocated by the malloc and free of module Heap.  A  *)
(* task struct's address is the pointer malloc returned.  The heap calls   *)
(* of task_create and kill_task are taken in full, so that the timer       *)
(* interrupt arrives within them too; `stage' is the one under way.        *)
(***************************************************************************)
EXTENDS Integers

CONSTANTS
    Base, AreaSize, WordSize,   \* the heap
    StructSize,                 \* sizeof(task_t): 280
    StackSize,                  \* the 8192 of task_create
    BufferSize,                 \* what other kernel code asks malloc for
    Task, Boot, LOST, TimeSlice, MaxPid, SwitchResumes

ASSUME AreaAligned == Base \in Nat /\ Base > 0 /\ Base % 4096 = 0
ASSUME AreaHoldsHeader == AreaSize \in Nat /\ AreaSize % 8 = 0 /\ AreaSize > 24
ASSUME WordHoldsArea == WordSize \in Nat /\ WordSize % 8 = 0 /\ WordSize > Base + AreaSize
ASSUME SizesAreSmall == {StructSize, StackSize, BufferSize} \subseteq 1..(WordSize - 8)
ASSUME ThreadsDistinct ==
    /\ Boot \notin Task /\ LOST \notin Task /\ 0 \notin Task
    /\ Boot # LOST /\ Boot # 0 /\ LOST # 0
ASSUME TimeSlicePositive == TimeSlice \in Nat \ {0}
ASSUME MaxPidNat == MaxPid \in Nat
ASSUME SwitchResumesBoolean == SwitchResumes \in BOOLEAN

\* Every place in the area that has room for a task struct can be a task.
ASSUME StructsAreTasks ==
    \A p \in Base..(Base + AreaSize) :
        p % 8 = 0 /\ Base + 24 <= p /\ p + StructSize <= Base + AreaSize => p \in Task

VARIABLES
    node, owned, hpc, cursor, want, heap_lock,
    runqueue, next, prev, pid, state, live, current_task, next_pid,
    need_schedule, tasks_exist, counter, held, thread, pc, subject, wanted,
    interrupts, wild,
    stack,      \* the stack field of the task structs
    buffer,     \* the block other kernel code holds, or 0
    stage

H == INSTANCE Heap WITH Requests <- {StructSize, StackSize, BufferSize}, pc <- hpc
S == INSTANCE Scheduler WITH NULL <- 0

heapVars == <<node, owned, hpc, cursor, want, heap_lock>>
taskVars == <<runqueue, next, prev, pid, state, live, current_task, next_pid,
              need_schedule, tasks_exist, counter, held, thread, pc, subject,
              wanted, interrupts, wild>>
vars == <<node, owned, hpc, cursor, want, heap_lock, runqueue, next, prev, pid,
          state, live, current_task, next_pid, need_schedule, tasks_exist,
          counter, held, thread, pc, subject, wanted, interrupts, wild, stack, buffer, stage>>

TypeOK ==
    /\ H!TypeOK /\ S!TypeOK
    /\ stack \in [Task -> Nat]
    /\ stage \in {"none", "struct", "filled", "stack", "undo", "undoing",
                  "reaping", "reaped", "freeing", "buffer", "release"}
    /\ buffer \in Nat

Init ==
    /\ H!Init /\ S!Init
    /\ stack = [t \in Task |-> 0]
    /\ buffer = 0 /\ stage = "none"

Block(p) == CHOOSE b \in owned : b.ptr = p

\* A step of task_create or kill_task.
From(here, there) == stage = here /\ stage' = there /\ UNCHANGED buffer

-----------------------------------------------------------------------------
(* task_create.                                                             *)

CreateCall ==
    /\ From("none", "struct")
    /\ S!Calls /\ next_pid <= MaxPid
    /\ H!MallocCall(StructSize)
    /\ UNCHANGED <<taskVars, stack>>

StructGot ==
    /\ From("struct", "filled")
    /\ H!MallocTake
    /\ S!CreateStruct(cursor + H!HeaderSize)
    /\ stack' = [stack EXCEPT ![cursor + H!HeaderSize] = 0]

StructFails ==
    /\ From("struct", "none")
    /\ H!MallocFail
    /\ UNCHANGED <<taskVars, stack>>

StackCall ==
    /\ From("filled", "stack")
    /\ H!MallocCall(StackSize)
    /\ UNCHANGED <<taskVars, stack>>

StackGot ==
    /\ From("stack", "none")
    /\ H!MallocTake
    /\ stack' = [stack EXCEPT ![subject] = cursor + H!HeaderSize]
    /\ S!CreateEnqueue

\* mutated: the struct is not freed when there is no stack
StackFails_Leaks ==
    /\ From("stack", "none")
    /\ H!MallocFail
    /\ S!CreateNoStack
    /\ UNCHANGED stack

StackFails ==
    /\ From("stack", "undo")
    /\ H!MallocFail
    /\ UNCHANGED <<taskVars, stack>>

Undo ==
    /\ From("undo", "undoing")
    /\ H!FreeCall(Block(subject))
    /\ UNCHANGED <<taskVars, stack>>

Undone ==
    /\ From("undoing", "none")
    /\ H!SweepEnd
    /\ S!CreateNoStack
    /\ UNCHANGED stack

(* The end of kill_task: first the stack, then the struct.                  *)

\* mutated: the stack is freed before the task is off the queue
Reaps_Early == pc = "kill" /\ S!Hit /\ subject # current_task

Reaps == pc = "reap"

ReapStack ==
    /\ From("none", "reaping")
    /\ Reaps
    /\ H!FreeCall(Block(stack[subject]))
    /\ UNCHANGED <<taskVars, stack>>

StackReaped ==
    /\ From("reaping", "reaped")
    /\ H!SweepEnd
    /\ UNCHANGED <<taskVars, stack>>

ReapStruct ==
    /\ From("reaped", "freeing")
    /\ H!FreeCall(Block(subject))
    /\ UNCHANGED <<taskVars, stack>>

StructReaped ==
    /\ From("freeing", "none")
    /\ H!SweepEnd
    /\ S!KillFree
    /\ UNCHANGED stack

(* Other kernel code allocates a buffer and frees it later.                 *)

BufferCall ==
    /\ stage = "none" /\ stage' = "buffer"
    /\ S!Calls /\ buffer = 0
    /\ H!MallocCall(BufferSize)
    /\ UNCHANGED <<taskVars, stack, buffer>>

BufferDone ==
    /\ stage = "buffer" /\ stage' = "none"
    /\ \/ H!MallocTake /\ buffer' = cursor + H!HeaderSize
       \/ H!MallocFail /\ UNCHANGED buffer
    /\ UNCHANGED <<taskVars, stack>>

BufferFree ==
    /\ stage = "none" /\ stage' = "release"
    /\ S!Calls /\ buffer # 0
    /\ H!FreeCall(Block(buffer))
    /\ buffer' = 0
    /\ UNCHANGED <<taskVars, stack>>

BufferFreed ==
    /\ stage = "release" /\ stage' = "none"
    /\ H!SweepEnd
    /\ UNCHANGED <<taskVars, stack, buffer>>

\* malloc and free move along the list.
Walk ==
    /\ H!MallocStep \/ H!SweepMerge \/ H!SweepStep
    /\ UNCHANGED <<taskVars, stack, buffer, stage>>

\* The calls and steps of the scheduler that leave the heap alone.
Schedule ==
    /\ stage = "none"
    /\ \/ S!ExitMark \/ S!ExitRemove \/ S!CallSchedule \/ S!schedule \/ S!SwitchTo
       \/ S!YieldTest \/ S!YieldClear \/ S!Sti
       \/ \E p \in 0..MaxPid, op \in {"find", "kill"} : S!Lookup(p, op)
       \/ S!ScanNext \/ S!ScanEnds \/ S!KillUnlink
    /\ UNCHANGED <<heapVars, stack, buffer, stage>>

Tick ==
    /\ S!scheduler_tick
    /\ UNCHANGED <<heapVars, stack, buffer, stage>>

Next ==
    \/ CreateCall \/ StructGot \/ StructFails \/ StackCall \/ StackGot
    \/ StackFails \/ Undo \/ Undone
    \/ ReapStack \/ StackReaped \/ ReapStruct \/ StructReaped
    \/ BufferCall \/ BufferDone \/ BufferFree \/ BufferFreed
    \/ Walk \/ Schedule \/ Tick

Spec == Init /\ [][Next]_vars

-----------------------------------------------------------------------------
\* The blocks the allocator has handed out and that are still in use.
Pointers == {b.ptr : b \in owned}

\* Between calls every allocated block is the struct or the stack of one task
\* that exists, or the buffer: neither the failure path of task_create nor kill_task leaks.
\* (A task that has exited keeps its blocks.)
NoLeak ==
    stage = "none" /\ pc = "client" =>
        Pointers = live \cup {stack[t] : t \in live} \cup ({buffer} \ {0})

\* A queued task has its struct and its stack, at all times, also while
\* another one is being created or freed, and shares them with nobody.
QueuedTasksHaveMemory ==
    \A t \in S!Queued :
        /\ {t, stack[t]} \subseteq Pointers
        /\ \A u \in S!Queued : stack[t] = stack[u] \/ stack[t] = u => t = u /\ stack[t] # u
=============================================================================

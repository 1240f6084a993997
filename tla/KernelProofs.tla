---------------------------- MODULE KernelProofs ----------------------------
(***************************************************************************)
(* Proofs about module Kernel, for every heap area, every set of sizes and *)
(* any number of tasks.  The invariants of the two components are taken    *)
(* over from HeapProofs and SchedulerProofs; what is proved here is that   *)
(* the kernel makes only the calls those proofs allow, and which block     *)
(* belongs to whom at every stage of task_create and kill_task.            *)
(***************************************************************************)
EXTENDS Kernel, TLAPS

Creating == {"filled", "stack", "undo", "undoing"}
Reaping == {"reaping", "reaped", "freeing"}

\* Which stage goes with which point of malloc and free, of task_create and
\* of kill_task.
StageInv ==
    /\ stage \in {"none", "struct", "buffer", "release"} \cup Creating \cup Reaping
    /\ hpc = IF stage \in {"struct", "stack", "buffer"} THEN "malloc"
             ELSE IF stage \in {"undoing", "reaping", "freeing", "release"} THEN "free"
             ELSE "client"
    /\ pc = "create" <=> stage \in Creating
    /\ stage \in Reaping => pc = "reap"
    /\ stage \in {"struct", "buffer", "release"} => pc = "client"
    /\ stage = "struct" => want = StructSize /\ thread # LOST /\ next_pid <= MaxPid
    /\ stage = "buffer" => buffer = 0

\* The struct that has no stack yet, or none any more ...
Stackless == IF stage \in Creating \cup Reaping THEN {subject} ELSE {}

\* ... and the one that has been given to free although its call goes on.
Returned == IF stage \in {"undoing", "freeing"} THEN {subject} ELSE {}

\* p is in use, and by what.
InUse(p) ==
    \/ p \in live \ Returned
    \/ \E t \in live \ Stackless : p = stack[t]
    \/ p = buffer /\ p # 0

OwnerInv ==
    /\ stack \in [Task -> Nat] /\ buffer \in Nat
    /\ \A p \in Pointers : InUse(p)
    /\ \A p : InUse(p) => p \in Pointers
    /\ \A t, u \in live \ Stackless : stack[t] = stack[u] => t = u
    /\ \A t \in live \ Stackless : stack[t] \notin live /\ stack[t] # buffer
    /\ buffer \notin live

\* What this part of the proof needs to know of the heap ...
HeapFacts ==
    /\ H!TypeOK /\ H!NodesTileArea /\ H!BlocksAreAllocated
    /\ \A a \in DOMAIN node : H!EndOf(a) <= H!End
    /\ hpc = "malloc" => cursor \in DOMAIN node

\* ... and of the scheduler: both follow from the components' invariants.
TaskFacts == S!TypeOK /\ S!SubjectInv /\ S!QueuedAreRunnable

Facts == HeapFacts /\ TaskFacts /\ StageInv /\ OwnerInv

-----------------------------------------------------------------------------
(* What malloc and free do to the pointers in use.                          *)

\* A block in use is not at address 0 and its node is not free.
LEMMA PointerFacts ==
    ASSUME HeapFacts
    PROVE  \A p \in Pointers : /\ p \in Nat /\ p # 0
                               /\ p - 24 \in DOMAIN node /\ ~node[p - 24].free
<1>1. \A b \in owned : b.ptr \in Nat /\ b.ptr - 24 \in DOMAIN node /\ ~node[b.ptr - 24].free
  BY DEF HeapFacts, H!TypeOK, H!BlocksAreAllocated, H!HeaderSize
<1>2. DOMAIN node \subseteq Nat \ {0}
  BY DEF HeapFacts, H!TypeOK, H!NULL
<1> QED
  BY <1>1, <1>2 DEF Pointers

\* The node that malloc takes is a node that nobody has ...
LEMMA NodeIsUnused ==
    ASSUME HeapFacts, hpc = "malloc", H!Fits(cursor)
    PROVE  /\ cursor \in DOMAIN node /\ cursor \in Nat
           /\ cursor + 24 \notin Pointers
<1>1. cursor \in DOMAIN node /\ cursor \in Nat /\ node[cursor].free
  BY DEF HeapFacts, H!TypeOK, H!Fits
<1>2. cursor + 24 - 24 = cursor
  BY <1>1
<1> QED
  BY <1>1, <1>2, PointerFacts

\* ... and becomes one more pointer in use.
LEMMA TakeFacts ==
    ASSUME HeapFacts, H!MallocTake
    PROVE  /\ cursor + 24 \in Nat /\ cursor + 24 # 0
           /\ cursor + 24 \notin Pointers
           /\ Pointers' = Pointers \cup {cursor + 24}
<1>1. cursor \in Nat /\ cursor + 24 \notin Pointers
  BY NodeIsUnused DEF H!MallocTake
<1> DEFINE r == [ptr |-> cursor + 24, want |-> want]
<1>2. r.ptr = cursor + 24 /\ owned' = owned \cup {r}
  BY DEF H!MallocTake, H!HeaderSize
<1> HIDE DEF r
<1>3. Pointers' = Pointers \cup {cursor + 24}
  BY <1>2 DEF Pointers
<1> QED
  BY <1>1, <1>3

\* Where malloc puts a task struct there can be a task.
LEMMA StructIsTask ==
    ASSUME HeapFacts, hpc = "malloc", H!Fits(cursor), want = StructSize
    PROVE  cursor + 24 \in Task
<1>1. /\ cursor \in DOMAIN node /\ cursor \in Nat /\ node[cursor].size >= H!size
      /\ node[cursor].size \in Nat
  BY DEF HeapFacts, H!TypeOK, H!Fits, H!Headers
<1>2. Base <= cursor /\ cursor % 8 = 0 /\ cursor + 24 + node[cursor].size <= Base + AreaSize
  BY <1>1 DEF HeapFacts, H!NodesTileArea, H!EndOf, H!End, H!HeaderSize
<1>3. StructSize \in Nat /\ StructSize + 7 < WordSize /\ WordSize \in Nat
  BY SizesAreSmall, WordHoldsArea
<1>4. H!size = (StructSize + 7) - ((StructSize + 7) % 8)
  BY <1>3 DEF H!size, H!Rounded, H!Sum
<1>5. H!size \in Nat /\ H!size >= StructSize
  BY <1>3, <1>4
<1>6. /\ cursor + 24 \in Base..(Base + AreaSize) /\ (cursor + 24) % 8 = 0
      /\ cursor + 24 + StructSize <= Base + AreaSize
  BY <1>1, <1>2, <1>3, <1>5, AreaAligned, AreaHoldsHeader
<1> QED
  BY <1>6, <1>1, <1>2, StructsAreTasks, AreaAligned

\* free takes back one block, and the call is one that HeapProofs allows.
LEMMA FreeFacts ==
    ASSUME HeapFacts, NEW p \in Pointers, H!FreeCall(Block(p))
    PROVE  /\ \E b \in owned : H!FreeCall(b)
           /\ Pointers' = Pointers \ {p}
<1>1. PICK c \in owned : c.ptr = p
  BY DEF Pointers
<1>2. Block(p) \in owned /\ Block(p).ptr = p
  BY <1>1 DEF Block
<1>3. owned' = owned \ {Block(p)}
  BY DEF H!FreeCall
<1>4. \A b \in owned : b.ptr = p => b = Block(p)
  BY <1>2 DEF HeapFacts, H!BlocksAreAllocated
<1> QED
  BY <1>2, <1>3, <1>4 DEF Pointers

-----------------------------------------------------------------------------
(* The actions.  Each is a step of the heap and a step of the scheduler, or *)
(* leaves one of them alone, and keeps the account of who uses what.        *)

Kept ==
    /\ [H!Next]_(H!vars) /\ [S!Next]_(S!vars)
    /\ StageInv' /\ OwnerInv'

\* A step that hands nothing out and takes nothing back keeps the account.
LEMMA SameOwners ==
    ASSUME OwnerInv, Pointers' = Pointers, UNCHANGED <<live, stack, buffer>>,
           Stackless' = Stackless, Returned' = Returned
    PROVE  OwnerInv'
<1>1. \A p : InUse(p)' <=> InUse(p)
  BY DEF InUse
<1> QED
  BY <1>1 DEF OwnerInv

\* The scheduler's variables under their two names.
LEMMA TaskVars ==
    UNCHANGED taskVars => UNCHANGED S!vars /\ UNCHANGED <<live, subject, pc, thread, next_pid>>
  BY DEF taskVars, S!vars

\* The heap's variables under their two names.
LEMMA HeapVars == UNCHANGED heapVars => UNCHANGED H!vars /\ UNCHANGED <<owned, hpc, want>>
  BY DEF heapVars, H!vars

\* task_create calls malloc for the struct.
LEMMA CreateCallKept == ASSUME Facts, CreateCall PROVE Kept
<1> USE DEF CreateCall, From, H!MallocCall
<1>1. H!Next
  BY DEF H!Next
<1>2. Pointers' = Pointers
  BY DEF Pointers
<1>3. StageInv' /\ Stackless' = Stackless /\ Returned' = Returned
  BY TaskVars DEF Facts, StageInv, Creating, Reaping, Stackless, Returned, S!Calls
<1> QED
  BY <1>1, <1>2, <1>3, SameOwners, TaskVars DEF Kept, Facts

\* task_create returns without a struct.
LEMMA StructFailsKept == ASSUME Facts, StructFails PROVE Kept
<1> USE DEF StructFails, From, H!MallocFail, H!Return
<1>1. H!Next
  BY DEF H!Next, H!Walk
<1>2. Pointers' = Pointers
  BY DEF Pointers
<1>3. StageInv' /\ Stackless' = Stackless /\ Returned' = Returned
  BY TaskVars DEF Facts, StageInv, Creating, Reaping, Stackless, Returned
<1> QED
  BY <1>1, <1>2, <1>3, SameOwners, TaskVars DEF Kept, Facts

\* task_create calls malloc for the stack.
LEMMA StackCallKept == ASSUME Facts, StackCall PROVE Kept
<1> USE DEF StackCall, From, H!MallocCall
<1>1. H!Next
  BY DEF H!Next
<1>2. Pointers' = Pointers
  BY DEF Pointers
<1>3. StageInv' /\ Stackless' = Stackless /\ Returned' = Returned
  BY TaskVars DEF Facts, StageInv, Creating, Reaping, Stackless, Returned
<1> QED
  BY <1>1, <1>2, <1>3, SameOwners, TaskVars DEF Kept, Facts

\* There is no stack: task_create turns back.
LEMMA StackFailsKept == ASSUME Facts, StackFails PROVE Kept
<1> USE DEF StackFails, From, H!MallocFail, H!Return
<1>1. H!Next
  BY DEF H!Next, H!Walk
<1>2. Pointers' = Pointers
  BY DEF Pointers
<1>3. StageInv' /\ Stackless' = Stackless /\ Returned' = Returned
  BY TaskVars DEF Facts, StageInv, Creating, Reaping, Stackless, Returned
<1> QED
  BY <1>1, <1>2, <1>3, SameOwners, TaskVars DEF Kept, Facts

\* free of the stack returns to kill_task.
LEMMA StackReapedKept == ASSUME Facts, StackReaped PROVE Kept
<1> USE DEF StackReaped, From, H!SweepEnd, H!Return
<1>1. H!Next
  BY DEF H!Next, H!Walk
<1>2. Pointers' = Pointers
  BY DEF Pointers
<1>3. StageInv' /\ Stackless' = Stackless /\ Returned' = Returned
  BY TaskVars DEF Facts, StageInv, Creating, Reaping, Stackless, Returned
<1> QED
  BY <1>1, <1>2, <1>3, SameOwners, TaskVars DEF Kept, Facts

\* Other code calls malloc.
LEMMA BufferCallKept == ASSUME Facts, BufferCall PROVE Kept
<1> USE DEF BufferCall, H!MallocCall
<1>1. H!Next
  BY DEF H!Next
<1>2. Pointers' = Pointers
  BY DEF Pointers
<1>3. StageInv' /\ Stackless' = Stackless /\ Returned' = Returned
  BY TaskVars DEF Facts, StageInv, Creating, Reaping, Stackless, Returned, S!Calls
<1> QED
  BY <1>1, <1>2, <1>3, SameOwners, TaskVars DEF Kept, Facts

\* free of the buffer returns.
LEMMA BufferFreedKept == ASSUME Facts, BufferFreed PROVE Kept
<1> USE DEF BufferFreed, H!SweepEnd, H!Return
<1>1. H!Next
  BY DEF H!Next, H!Walk
<1>2. Pointers' = Pointers
  BY DEF Pointers
<1>3. StageInv' /\ Stackless' = Stackless /\ Returned' = Returned
  BY TaskVars DEF Facts, StageInv, Creating, Reaping, Stackless, Returned
<1> QED
  BY <1>1, <1>2, <1>3, SameOwners, TaskVars DEF Kept, Facts

\* A walk of malloc or free along the list.
LEMMA WalkKept == ASSUME Facts, Walk PROVE Kept
<1> USE DEF Walk
<1>1. H!Next
  BY DEF H!Next, H!Walk
<1>2. UNCHANGED <<owned, hpc, want>>
  BY DEF H!MallocStep, H!SweepMerge, H!SweepStep
<1>3. Pointers' = Pointers
  BY <1>2 DEF Pointers
<1>4. StageInv' /\ Stackless' = Stackless /\ Returned' = Returned
  BY <1>2, TaskVars DEF Facts, StageInv, Creating, Reaping, Stackless, Returned
<1> QED
  BY <1>1, <1>3, <1>4, SameOwners, TaskVars DEF Kept, Facts

\* The timer interrupt, at any stage.
LEMMA TickKept == ASSUME Facts, Tick PROVE Kept
<1> USE DEF Tick
<1>1. S!Next
  BY DEF S!Next
<1>2. UNCHANGED <<live, subject, pc, thread, next_pid>>
  BY DEF S!scheduler_tick, S!structs, S!call
<1>3. Pointers' = Pointers
  BY HeapVars DEF Pointers
<1>4. StageInv' /\ Stackless' = Stackless /\ Returned' = Returned
  BY <1>2, HeapVars DEF Facts, StageInv, Creating, Reaping, Stackless, Returned
<1> QED
  BY <1>1, <1>2, <1>3, <1>4, SameOwners, HeapVars DEF Kept, Facts

\* No step of the scheduler by itself creates or frees a struct.
LEMMA ScheduleKept == ASSUME Facts, Schedule PROVE Kept
<1>1. S!Next
  BY Zenon DEF Schedule, S!Next, S!Continue
<1>2. UNCHANGED live /\ pc' # "create"
  <2>1. CASE S!ExitMark \/ S!ExitRemove \/ S!CallSchedule \/ S!YieldTest \/ S!YieldClear
    BY <2>1 DEF S!ExitMark, S!ExitRemove, S!CallSchedule, S!YieldTest, S!YieldClear,
                S!structs
  <2>2. CASE S!schedule \/ S!SwitchTo \/ S!Sti
    BY <2>2 DEF S!schedule, S!SwitchTo, S!Sti, S!structs, S!call, S!Return, S!Calls
  <2>3. ASSUME NEW p \in 0..MaxPid, NEW op \in {"find", "kill"}, S!Lookup(p, op)
        PROVE  UNCHANGED live /\ pc' # "create"
    BY <2>3 DEF S!Lookup, S!structs
  <2>4. CASE S!ScanNext \/ S!ScanEnds \/ S!KillUnlink
    BY <2>4 DEF S!ScanNext, S!ScanEnds, S!KillUnlink, S!Scanning, S!structs, S!Return,
                S!LiveUntilReaped
  <2> QED
    BY <2>1, <2>2, <2>3, <2>4 DEF Schedule
<1>3. stage = "none" /\ UNCHANGED <<heapVars, stack, buffer, stage>>
  BY DEF Schedule
<1>4. Pointers' = Pointers
  BY <1>3, HeapVars DEF Pointers
<1>5. StageInv' /\ Stackless' = Stackless /\ Returned' = Returned
  BY <1>2, <1>3, HeapVars DEF Facts, StageInv, Creating, Reaping, Stackless, Returned
<1> QED
  BY <1>1, <1>2, <1>3, <1>4, <1>5, SameOwners, HeapVars DEF Kept, Facts

\* What the invariants say of the subject of an unfinished call.
LEMMA SubjectFacts ==
    ASSUME Facts, pc \in {"create", "reap"}
    PROVE  subject \in live /\ subject \in Task /\ live \subseteq Task /\ subject # 0
<1>1. subject \in live /\ live \subseteq Task
  BY DEF Facts, TaskFacts, S!SubjectInv, S!TypeOK
<1> QED
  BY <1>1, ThreadsDistinct

\* malloc's struct is a new task: it was the struct or the stack of nobody.
LEMMA StructGotKept == ASSUME Facts, StructGot PROVE Kept
<1> DEFINE p == cursor + 24
<1>1. /\ stage = "struct" /\ stage' = "filled" /\ buffer' = buffer
      /\ H!MallocTake /\ S!CreateStruct(p) /\ stack' = [stack EXCEPT ![p] = 0]
  BY DEF StructGot, From, H!HeaderSize
<1>2. want = StructSize /\ HeapFacts
  BY <1>1 DEF Facts, StageInv
<1>3. p \in Task /\ p \in Nat /\ p # 0 /\ p \notin Pointers /\ Pointers' = Pointers \cup {p}
  BY <1>1, <1>2, TakeFacts, StructIsTask DEF H!MallocTake
<1>4. H!Next
  BY <1>1 DEF H!Next, H!Walk
<1>5. S!Next
  BY <1>1, <1>3, Zenon DEF S!Next
<1>6. live' = live \cup {p} /\ subject' = p /\ pc' = "create"
  BY <1>1 DEF S!CreateStruct
<1>7. hpc' = "client"
  BY <1>1 DEF H!MallocTake, H!Return
<1>8. /\ Stackless = {} /\ Returned = {} /\ Stackless' = {p} /\ Returned' = {}
      /\ StageInv'
  BY <1>1, <1>6, <1>7 DEF Facts, StageInv, Creating, Reaping, Stackless, Returned
<1> HIDE DEF p
<1>9. p \notin live /\ (\A t \in live : stack[t] # p) /\ buffer # p
  BY <1>3, <1>8 DEF Facts, OwnerInv, InUse
<1>10. live \subseteq Task /\ stack \in [Task -> Nat]
  BY DEF Facts, TaskFacts, S!TypeOK, OwnerInv
<1>11. stack' \in [Task -> Nat] /\ \A t \in live : stack'[t] = stack[t]
  BY <1>1, <1>3, <1>9, <1>10
<1>12. live' \ Stackless' = live /\ live' \ Returned' = live \cup {p}
  BY <1>6, <1>8, <1>9
<1>13. \A q : InUse(q)' <=> InUse(q) \/ q = p
  BY <1>1, <1>8, <1>11, <1>12 DEF InUse
<1>14. OwnerInv'
  BY <1>1, <1>3, <1>6, <1>8, <1>9, <1>11, <1>12, <1>13 DEF Facts, OwnerInv
<1> QED
  BY <1>4, <1>5, <1>8, <1>14 DEF Kept

\* malloc's stack goes to the new task alone.
LEMMA StackGotKept == ASSUME Facts, StackGot PROVE Kept
<1> DEFINE p == cursor + 24
<1>1. /\ stage = "stack" /\ stage' = "none" /\ buffer' = buffer
      /\ H!MallocTake /\ S!CreateEnqueue /\ stack' = [stack EXCEPT ![subject] = p]
  BY DEF StackGot, From, H!HeaderSize
<1>2. pc = "create" /\ HeapFacts
  BY <1>1 DEF Facts, StageInv, Creating
<1>3. p \in Nat /\ p # 0 /\ p \notin Pointers /\ Pointers' = Pointers \cup {p}
  BY <1>1, <1>2, TakeFacts
<1>4. H!Next
  BY <1>1 DEF H!Next, H!Walk
<1>5. S!Next
  BY <1>1, Zenon DEF S!Next, S!Continue
<1>6. live' = live /\ pc' = "client"
  BY <1>1 DEF S!CreateEnqueue, S!structs, S!Return
<1>7. hpc' = "client"
  BY <1>1 DEF H!MallocTake, H!Return
<1>8. /\ Stackless = {subject} /\ Returned = {} /\ Stackless' = {} /\ Returned' = {}
      /\ StageInv'
  BY <1>1, <1>6, <1>7 DEF Facts, StageInv, Creating, Reaping, Stackless, Returned
<1> HIDE DEF p
<1>9. p \notin live /\ (\A t \in live \ {subject} : stack[t] # p) /\ buffer # p
  BY <1>3, <1>8 DEF Facts, OwnerInv, InUse
<1>10. subject \in live /\ live \subseteq Task /\ stack \in [Task -> Nat]
  BY <1>2, SubjectFacts DEF Facts, OwnerInv
<1>11. /\ stack' \in [Task -> Nat] /\ stack'[subject] = p
       /\ \A t \in live \ {subject} : stack'[t] = stack[t]
  BY <1>1, <1>3, <1>10
<1>12. \A q : InUse(q)' <=> InUse(q) \/ q = p
  BY <1>1, <1>6, <1>8, <1>10, <1>11 DEF InUse
<1>13. OwnerInv'
  BY <1>1, <1>3, <1>6, <1>8, <1>9, <1>10, <1>11, <1>12 DEF Facts, OwnerInv
<1> QED
  BY <1>4, <1>5, <1>8, <1>13 DEF Kept

\* The struct without a stack goes back to the heap: task_create still has it.
LEMMA UndoKept == ASSUME Facts, Undo PROVE Kept
<1>1. /\ stage = "undo" /\ stage' = "undoing" /\ buffer' = buffer
      /\ H!FreeCall(Block(subject)) /\ UNCHANGED <<taskVars, stack>>
  BY DEF Undo, From
<1>2. pc = "create" /\ HeapFacts /\ UNCHANGED <<live, subject, pc>> /\ UNCHANGED S!vars
  BY <1>1, TaskVars DEF Facts, StageInv, Creating
<1>3. hpc' = "free"
  BY <1>1 DEF H!FreeCall
<1>4. /\ Stackless = {subject} /\ Returned = {} /\ Stackless' = {subject}
      /\ Returned' = {subject} /\ StageInv'
  BY <1>1, <1>2, <1>3 DEF Facts, StageInv, Creating, Reaping, Stackless, Returned
<1>5. subject \in live /\ subject # 0
  BY <1>2, SubjectFacts
<1>6. subject \in Pointers
  BY <1>4, <1>5 DEF Facts, OwnerInv, InUse
<1>7. (\E b \in owned : H!FreeCall(b)) /\ Pointers' = Pointers \ {subject}
  BY <1>1, <1>2, <1>6, FreeFacts
<1>8. H!Next
  BY <1>7 DEF H!Next
<1>9. \A q : InUse(q)' <=> InUse(q) /\ q # subject
  BY <1>1, <1>2, <1>4, <1>5 DEF InUse, Facts, OwnerInv
<1>10. OwnerInv'
  BY <1>1, <1>2, <1>4, <1>7, <1>9 DEF Facts, OwnerInv
<1> QED
  BY <1>2, <1>4, <1>8, <1>10 DEF Kept

\* The struct that has been freed is no task any more.
LEMMA UndoneKept == ASSUME Facts, Undone PROVE Kept
<1>1. /\ stage = "undoing" /\ stage' = "none" /\ buffer' = buffer
      /\ H!SweepEnd /\ S!CreateNoStack /\ UNCHANGED stack
  BY DEF Undone, From
<1>2. H!Next /\ hpc' = "client" /\ owned' = owned
  BY <1>1 DEF H!Next, H!Walk, H!SweepEnd, H!Return
<1>3. S!Next
  BY <1>1, Zenon DEF S!Next, S!Continue
<1>4. live' = live \ {subject} /\ pc' = "client"
  BY <1>1 DEF S!CreateNoStack, S!Return
<1>5. /\ Stackless = {subject} /\ Returned = {subject} /\ Stackless' = {}
      /\ Returned' = {} /\ StageInv'
  BY <1>1, <1>2, <1>4 DEF Facts, StageInv, Creating, Reaping, Stackless, Returned
<1>6. Pointers' = Pointers
  BY <1>2 DEF Pointers
<1>7. \A q : InUse(q)' <=> InUse(q)
  BY <1>1, <1>4, <1>5 DEF InUse
<1>8. OwnerInv'
  BY <1>1, <1>4, <1>5, <1>6, <1>7 DEF Facts, OwnerInv
<1> QED
  BY <1>2, <1>3, <1>5, <1>8 DEF Kept

\* kill_task frees the stack of the task it has taken off the queue.
LEMMA ReapStackKept == ASSUME Facts, ReapStack PROVE Kept
<1> DEFINE p == stack[subject]
<1>1. /\ stage = "none" /\ stage' = "reaping" /\ buffer' = buffer /\ pc = "reap"
      /\ H!FreeCall(Block(p)) /\ UNCHANGED <<taskVars, stack>>
  BY DEF ReapStack, From, Reaps
<1>2. HeapFacts /\ UNCHANGED <<live, subject, pc>> /\ UNCHANGED S!vars
  BY <1>1, TaskVars DEF Facts
<1>3. hpc' = "free"
  BY <1>1 DEF H!FreeCall
<1>4. /\ Stackless = {} /\ Returned = {} /\ Stackless' = {subject}
      /\ Returned' = {} /\ StageInv'
  BY <1>1, <1>2, <1>3 DEF Facts, StageInv, Creating, Reaping, Stackless, Returned
<1>5. subject \in live /\ live \subseteq Task
  BY <1>1, SubjectFacts
<1>6. p \in Pointers
  BY <1>4, <1>5 DEF Facts, OwnerInv, InUse
<1> HIDE DEF p
<1>7. (\E b \in owned : H!FreeCall(b)) /\ Pointers' = Pointers \ {p}
  BY <1>1, <1>2, <1>6, FreeFacts
<1> USE DEF p
<1>8. H!Next
  BY <1>7 DEF H!Next
<1>9. \A q : InUse(q)' <=> InUse(q) /\ q # p
  BY <1>1, <1>2, <1>4, <1>5 DEF InUse, Facts, OwnerInv
<1>10. OwnerInv'
  BY <1>1, <1>2, <1>4, <1>7, <1>9 DEF Facts, OwnerInv
<1> QED
  BY <1>2, <1>4, <1>8, <1>10 DEF Kept

\* ... and then its struct.
LEMMA ReapStructKept == ASSUME Facts, ReapStruct PROVE Kept
<1>1. /\ stage = "reaped" /\ stage' = "freeing" /\ buffer' = buffer
      /\ H!FreeCall(Block(subject)) /\ UNCHANGED <<taskVars, stack>>
  BY DEF ReapStruct, From
<1>2. pc = "reap" /\ HeapFacts /\ UNCHANGED <<live, subject, pc>> /\ UNCHANGED S!vars
  BY <1>1, TaskVars DEF Facts, StageInv, Reaping
<1>3. hpc' = "free"
  BY <1>1 DEF H!FreeCall
<1>4. /\ Stackless = {subject} /\ Returned = {} /\ Stackless' = {subject}
      /\ Returned' = {subject} /\ StageInv'
  BY <1>1, <1>2, <1>3 DEF Facts, StageInv, Creating, Reaping, Stackless, Returned
<1>5. subject \in live /\ subject # 0
  BY <1>2, SubjectFacts
<1>6. subject \in Pointers
  BY <1>4, <1>5 DEF Facts, OwnerInv, InUse
<1>7. (\E b \in owned : H!FreeCall(b)) /\ Pointers' = Pointers \ {subject}
  BY <1>1, <1>2, <1>6, FreeFacts
<1>8. H!Next
  BY <1>7 DEF H!Next
<1>9. \A q : InUse(q)' <=> InUse(q) /\ q # subject
  BY <1>1, <1>2, <1>4, <1>5 DEF InUse, Facts, OwnerInv
<1>10. OwnerInv'
  BY <1>1, <1>2, <1>4, <1>7, <1>9 DEF Facts, OwnerInv
<1> QED
  BY <1>2, <1>4, <1>8, <1>10 DEF Kept

\* kill_task returns: the task is gone.
LEMMA StructReapedKept == ASSUME Facts, StructReaped PROVE Kept
<1>1. /\ stage = "freeing" /\ stage' = "none" /\ buffer' = buffer
      /\ H!SweepEnd /\ S!KillFree /\ UNCHANGED stack
  BY DEF StructReaped, From
<1>2. H!Next /\ hpc' = "client" /\ owned' = owned
  BY <1>1 DEF H!Next, H!Walk, H!SweepEnd, H!Return
<1>3. S!Next
  BY <1>1, Zenon DEF S!Next, S!Continue
<1>4. live' = live \ {subject} /\ pc' = "client"
  BY <1>1 DEF S!KillFree, S!Return
<1>5. /\ Stackless = {subject} /\ Returned = {subject} /\ Stackless' = {}
      /\ Returned' = {} /\ StageInv'
  BY <1>1, <1>2, <1>4 DEF Facts, StageInv, Creating, Reaping, Stackless, Returned
<1>6. Pointers' = Pointers
  BY <1>2 DEF Pointers
<1>7. \A q : InUse(q)' <=> InUse(q)
  BY <1>1, <1>4, <1>5 DEF InUse
<1>8. OwnerInv'
  BY <1>1, <1>4, <1>5, <1>6, <1>7 DEF Facts, OwnerInv
<1> QED
  BY <1>2, <1>3, <1>5, <1>8 DEF Kept

\* Other code gets a buffer that is no task's struct or stack, or gets none.
LEMMA BufferDoneKept == ASSUME Facts, BufferDone PROVE Kept
<1>1. /\ stage = "buffer" /\ stage' = "none" /\ UNCHANGED <<taskVars, stack>>
      /\ HeapFacts /\ UNCHANGED <<live, subject, pc>> /\ UNCHANGED S!vars
  BY TaskVars DEF BufferDone, Facts
<1>2. H!Next /\ hpc' = "client"
  BY DEF BufferDone, H!Next, H!Walk, H!MallocTake, H!MallocFail, H!Return
<1>3. Stackless = {} /\ Returned = {} /\ Stackless' = {} /\ Returned' = {} /\ StageInv'
  BY <1>1, <1>2 DEF Facts, StageInv, Creating, Reaping, Stackless, Returned
<1>4. CASE H!MallocFail /\ UNCHANGED buffer
  <2>1. Pointers' = Pointers
    BY <1>4 DEF H!MallocFail, Pointers
  <2> QED
    BY <1>1, <1>2, <1>3, <1>4, <2>1, SameOwners DEF Kept, Facts
<1>5. CASE H!MallocTake /\ buffer' = cursor + H!HeaderSize
  <2> DEFINE p == cursor + 24
  <2>1. p \in Nat /\ p # 0 /\ p \notin Pointers /\ Pointers' = Pointers \cup {p} /\ buffer' = p
    BY <1>1, <1>5, TakeFacts DEF H!HeaderSize
  <2> HIDE DEF p
  <2>2. buffer = 0
    BY <1>1 DEF Facts, StageInv, OwnerInv
  <2>3. \A q : InUse(q)' <=> InUse(q) \/ q = p
    BY <1>1, <1>3, <2>1, <2>2 DEF InUse
  <2>4. p \notin live /\ \A t \in live : stack[t] # p
    BY <1>3, <2>1 DEF Facts, OwnerInv, InUse
  <2>5. OwnerInv'
    BY <1>1, <1>3, <2>1, <2>3, <2>4 DEF Facts, OwnerInv
  <2> QED
    BY <1>1, <1>2, <1>3, <2>5 DEF Kept
<1> QED
  BY <1>4, <1>5 DEF BufferDone

\* The buffer goes back.
LEMMA BufferFreeKept == ASSUME Facts, BufferFree PROVE Kept
<1>1. /\ stage = "none" /\ stage' = "release" /\ pc = "client" /\ buffer # 0 /\ buffer' = 0
      /\ H!FreeCall(Block(buffer)) /\ UNCHANGED <<taskVars, stack>>
  BY DEF BufferFree, S!Calls
<1>2. HeapFacts /\ UNCHANGED <<live, subject, pc>> /\ UNCHANGED S!vars
  BY <1>1, TaskVars DEF Facts
<1>3. hpc' = "free"
  BY <1>1 DEF H!FreeCall
<1>4. Stackless = {} /\ Returned = {} /\ Stackless' = {} /\ Returned' = {} /\ StageInv'
  BY <1>1, <1>2, <1>3 DEF Facts, StageInv, Creating, Reaping, Stackless, Returned
<1>5. buffer \in Pointers
  BY <1>1 DEF Facts, OwnerInv, InUse
<1>6. (\E b \in owned : H!FreeCall(b)) /\ Pointers' = Pointers \ {buffer}
  BY <1>1, <1>2, <1>5, FreeFacts
<1>7. H!Next
  BY <1>6 DEF H!Next
<1>8. \A q : InUse(q)' <=> InUse(q) /\ q # buffer
  BY <1>1, <1>2, <1>4 DEF InUse, Facts, OwnerInv
<1>9. 0 \notin live /\ \A t \in live : stack[t] # 0
  <2>1. live \subseteq Task
    BY DEF Facts, TaskFacts, S!TypeOK
  <2> QED
    BY <1>2, <1>4, <2>1, PointerFacts, ThreadsDistinct DEF Facts, OwnerInv, InUse
<1>10. OwnerInv'
  BY <1>1, <1>2, <1>4, <1>6, <1>8, <1>9 DEF Facts, OwnerInv
<1> QED
  BY <1>2, <1>4, <1>7, <1>10 DEF Kept

\* Every step of the kernel.
LEMMA NextKept == ASSUME Facts, [Next]_vars PROVE Kept
<1>1. CASE UNCHANGED vars
  <2>1. /\ UNCHANGED S!vars /\ UNCHANGED <<live, subject, pc, thread, next_pid>>
        /\ UNCHANGED H!vars /\ UNCHANGED <<owned, hpc, want>>
        /\ UNCHANGED <<stack, buffer, stage>>
    BY <1>1 DEF vars, S!vars, H!vars
  <2>2. Pointers' = Pointers
    BY <2>1, SMTT(30) DEF Pointers
  <2>3. StageInv' /\ Stackless' = Stackless /\ Returned' = Returned
    BY <2>1 DEF Facts, StageInv, Creating, Reaping, Stackless, Returned
  <2> QED
    BY <2>1, <2>2, <2>3, SameOwners, SMTT(30) DEF Kept, Facts
<1> QED
  BY <1>1, CreateCallKept, StructGotKept, StructFailsKept, StackCallKept, StackGotKept,
     StackFailsKept, UndoKept, UndoneKept, ReapStackKept, StackReapedKept, ReapStructKept,
     StructReapedKept, BufferCallKept, BufferDoneKept, BufferFreeKept, BufferFreedKept,
     WalkKept, ScheduleKept, TickKept, ZenonT(30) DEF Next

-----------------------------------------------------------------------------
(* What follows from the facts.                                             *)

\* malloc never gives task_create the struct of a task that exists.
StructIsFresh ==
    stage = "struct" /\ H!Fits(cursor) =>
        /\ S!Calls /\ next_pid <= MaxPid
        /\ cursor + H!HeaderSize \in Task \ live

\* Between calls nothing is stackless or returned, so what is in use is complete.
LEMMA FactsNoLeak == ASSUME Facts PROVE NoLeak
<1> SUFFICES ASSUME stage = "none"
             PROVE  Pointers = live \cup {stack[t] : t \in live} \cup ({buffer} \ {0})
  BY DEF NoLeak
<1>1. Stackless = {} /\ Returned = {}
  BY DEF Stackless, Returned, Creating, Reaping
<1>2. \A p : p \in Pointers <=> InUse(p)
  BY DEF Facts, OwnerInv
<1>3. \A p : InUse(p) <=> p \in live \/ (\E t \in live : p = stack[t]) \/ (p = buffer /\ p # 0)
  BY <1>1 DEF InUse
<1> QED
  BY <1>2, <1>3

\* The subject of an unfinished call is not queued.
LEMMA FactsQueued == ASSUME Facts PROVE QueuedTasksHaveMemory
<1>1. S!Queued \subseteq live
  BY DEF Facts, TaskFacts, S!QueuedAreRunnable
<1>2. pc \in {"create", "reap"} => subject \notin S!Queued
  BY DEF Facts, TaskFacts, S!SubjectInv
<1>3. Stackless \cap S!Queued = {} /\ Returned \cap S!Queued = {}
  BY <1>2 DEF Facts, StageInv, Stackless, Returned, Creating, Reaping
<1>4. \A t \in S!Queued : t \in live \ Stackless /\ t \in live \ Returned
  BY <1>1, <1>3
<1>5. \A t \in S!Queued : t \in Pointers /\ stack[t] \in Pointers
  BY <1>4 DEF Facts, OwnerInv, InUse
<1>6. \A t, u \in S!Queued : (stack[t] = stack[u] => t = u) /\ stack[t] # u
  BY <1>4 DEF Facts, OwnerInv
<1> QED
  BY <1>5, <1>6 DEF QueuedTasksHaveMemory

\* The node malloc takes is in use by nobody.
LEMMA FactsFresh == ASSUME Facts PROVE StructIsFresh
<1> SUFFICES ASSUME stage = "struct", H!Fits(cursor) PROVE StructIsFresh
  BY DEF StructIsFresh
<1>1. /\ hpc = "malloc" /\ pc = "client" /\ want = StructSize
      /\ thread # LOST /\ next_pid <= MaxPid
  BY DEF Facts, StageInv, Creating, Reaping
<1>2. HeapFacts
  BY DEF Facts
<1>3. cursor + 24 \in Task
  BY <1>1, <1>2, StructIsTask
<1>4. cursor + 24 \notin Pointers
  BY <1>1, <1>2, NodeIsUnused
<1>5. Returned = {}
  BY DEF Returned
<1>6. cursor + 24 \notin live
  BY <1>4, <1>5 DEF Facts, OwnerInv, InUse
<1> QED
  BY <1>1, <1>3, <1>6 DEF StructIsFresh, S!Calls, H!HeaderSize

\* Nothing is in use at the start.
LEMMA InitOwners == ASSUME Init PROVE StageInv /\ OwnerInv
<1>1. stage = "none" /\ hpc = "client" /\ pc = "client" /\ owned = {} /\ live = {}
      /\ buffer = 0 /\ stack = [t \in Task |-> 0]
  BY DEF Init, H!Init, S!Init
<1>2. StageInv
  BY <1>1 DEF StageInv, Creating, Reaping
<1>3. OwnerInv
  BY <1>1 DEF OwnerInv, InUse, Pointers, Stackless, Returned, Creating, Reaping
<1> QED
  BY <1>2, <1>3

-----------------------------------------------------------------------------
(* The two components, and their proofs.                                    *)

HP == INSTANCE HeapProofs WITH Requests <- {StructSize, StackSize, BufferSize}, pc <- hpc

\* The sizes the kernel asks for are words.
LEMMA SizesAreWords == {StructSize, StackSize, BufferSize} \subseteq 0..(WordSize - 1)
  BY SizesAreSmall, WordHoldsArea

\* A step of the heap keeps the invariant of HeapProofs.
LEMMA HeapStep ==
    ASSUME HP!IInv, [HP!Next]_(HP!vars)
    PROVE  HP!IInv'
  BY HP!NextInv, SizesAreWords, AreaAligned, AreaHoldsHeader, WordHoldsArea, SMTT(60)
     DEF HP!HeaderSize

\* The kernel's instance of the heap is the one the proofs are about ...
LEMMA SameHeap ==
    /\ H!Next <=> HP!Next
    /\ H!vars = HP!vars /\ H!vars' = HP!vars'
    /\ H!Init <=> HP!Init
<1> USE DEF H!NULL, HP!NULL, H!HeaderSize, HP!HeaderSize, H!SplitSlack,
         HP!SplitSlack, H!Header, HP!Header, H!Sum, HP!Sum, H!Rounded,
         HP!Rounded, H!Return, HP!Return, H!First, HP!First, H!size, HP!size,
         H!Fits, HP!Fits, H!Splits, HP!Splits, H!Taken, HP!Taken, H!Remainder,
         HP!Remainder, H!Split, HP!Split, H!Mergeable, HP!Mergeable,
         H!AfterMerge, HP!AfterMerge, H!AfterStep, HP!AfterStep
<1>1. H!MallocTake <=> HP!MallocTake
  BY SMTT(30) DEF H!MallocTake, HP!MallocTake
<1>2. H!MallocStep <=> HP!MallocStep
  BY SMTT(30) DEF H!MallocStep, HP!MallocStep
<1>3. H!MallocFail <=> HP!MallocFail
  BY SMTT(30) DEF H!MallocFail, HP!MallocFail
<1>4. H!SweepMerge <=> HP!SweepMerge
  BY SMTT(30) DEF H!SweepMerge, HP!SweepMerge
<1>5. H!SweepStep <=> HP!SweepStep
  BY SMTT(30) DEF H!SweepStep, HP!SweepStep
<1>6. H!SweepEnd <=> HP!SweepEnd
  BY SMTT(30) DEF H!SweepEnd, HP!SweepEnd
<1>7. \A n : H!MallocCall(n) <=> HP!MallocCall(n)
  BY SMTT(30) DEF H!MallocCall, HP!MallocCall
<1>8. \A b : H!FreeCall(b) <=> HP!FreeCall(b)
  BY SMTT(30) DEF H!FreeCall, HP!FreeCall
<1>9. H!Walk <=> HP!Walk
  BY <1>1, <1>2, <1>3, <1>4, <1>5, <1>6, ZenonT(30) DEF H!Walk, HP!Walk
<1>10. H!Next <=> HP!Next
  BY <1>7, <1>8, <1>9, ZenonT(30) DEF H!Next, HP!Next
<1>11. H!vars = HP!vars /\ H!vars' = HP!vars' /\ (H!Init <=> HP!Init)
  BY SMTT(30) DEF H!vars, HP!vars, H!Init, HP!Init
<1> QED
  BY <1>10, <1>11, ZenonT(30)

\* The heap's invariant gives the facts used above.
LEMMA HeapInvFacts == HP!IInv => HeapFacts
  BY ZenonT(30) DEF HP!IInv, HeapFacts, HP!TypeOK, H!TypeOK, HP!NULL, H!NULL, HP!Headers, H!Headers,
         HP!NodesTileArea, H!NodesTileArea, HP!BlocksAreAllocated, H!BlocksAreAllocated,
         HP!InArea, HP!EndOf, H!EndOf, HP!End, H!End, HP!HeaderSize, H!HeaderSize, HP!WalkInv

SP == INSTANCE SchedulerProofs WITH NULL <- 0

\* A step of the scheduler keeps the invariant of SchedulerProofs.
LEMMA SchedulerStep ==
    ASSUME SP!IInv, [SP!Next]_(SP!vars)
    PROVE  SP!IInv'
  BY SP!NextIInv, ThreadsDistinct, TimeSlicePositive, MaxPidNat, SwitchResumesBoolean, ZenonT(30)

\* ... and so is its instance of the scheduler.
LEMMA SameScheduler ==
    /\ S!Next <=> SP!Next
    /\ S!vars = SP!vars /\ S!vars' = SP!vars'
    /\ S!Init <=> SP!Init
<1> USE DEF S!Calls, SP!Calls, S!Deref, SP!Deref, S!Acquirable, SP!Acquirable,
         S!Return, SP!Return, S!Spliced, SP!Spliced, S!Unlink, SP!Unlink,
         S!add_task_to_runqueue, SP!add_task_to_runqueue, S!StillTasks,
         SP!StillTasks, S!remove_task_from_runqueue,
         SP!remove_task_from_runqueue, S!queue, SP!queue, S!structs,
         SP!structs, S!flags, SP!flags, S!call, SP!call, S!Successor,
         SP!Successor, S!First, SP!First,
         S!Scanning, SP!Scanning, S!Hit, SP!Hit, S!Unlocked, SP!Unlocked,
         S!MayKill, SP!MayKill, S!LiveUntilReaped, SP!LiveUntilReaped,
         S!RunqueueLock, SP!RunqueueLock, S!CurrentLock, SP!CurrentLock
<1>1. S!CreateNoStack <=> SP!CreateNoStack
  BY SMTT(30) DEF S!CreateNoStack, SP!CreateNoStack
<1>2. S!CreateEnqueue <=> SP!CreateEnqueue
  BY SMTT(30) DEF S!CreateEnqueue, SP!CreateEnqueue
<1>3. S!ExitMark <=> SP!ExitMark
  BY SMTT(30) DEF S!ExitMark, SP!ExitMark
<1>4. S!ExitRemove <=> SP!ExitRemove
  BY SMTT(30) DEF S!ExitRemove, SP!ExitRemove
<1>5. S!CallSchedule <=> SP!CallSchedule
  BY SMTT(30) DEF S!CallSchedule, SP!CallSchedule
<1>6. S!schedule <=> SP!schedule
  BY SMTT(30) DEF S!schedule, SP!schedule
<1>7. S!SwitchTo <=> SP!SwitchTo
  BY SMTT(30) DEF S!SwitchTo, SP!SwitchTo
<1>8. S!YieldTest <=> SP!YieldTest
  BY SMTT(30) DEF S!YieldTest, SP!YieldTest
<1>9. S!YieldClear <=> SP!YieldClear
  BY SMTT(30) DEF S!YieldClear, SP!YieldClear
<1>10. S!ScanNext <=> SP!ScanNext
  BY SMTT(30) DEF S!ScanNext, SP!ScanNext
<1>11. S!ScanEnds <=> SP!ScanEnds
  BY SMTT(30) DEF S!ScanEnds, SP!ScanEnds
<1>12. S!KillUnlink <=> SP!KillUnlink
  BY SMTT(30) DEF S!KillUnlink, SP!KillUnlink
<1>13. S!KillFree <=> SP!KillFree
  BY SMTT(30) DEF S!KillFree, SP!KillFree
<1>14. S!Sti <=> SP!Sti
  BY SMTT(30) DEF S!Sti, SP!Sti
<1>15. S!scheduler_tick <=> SP!scheduler_tick
  BY SMTT(30) DEF S!scheduler_tick, SP!scheduler_tick
<1>16. \A t : S!CreateStruct(t) <=> SP!CreateStruct(t)
  BY SMTT(30) DEF S!CreateStruct, SP!CreateStruct
<1>17. \A p, op : S!Lookup(p, op) <=> SP!Lookup(p, op)
  BY SMTT(30) DEF S!Lookup, SP!Lookup
<1>18. S!Continue <=> SP!Continue
  BY <1>1, <1>2, <1>3, <1>4, <1>5, <1>6, <1>7, <1>8, <1>9, <1>10,
     <1>11, <1>12, <1>13, <1>14, <1>15, ZenonT(30) DEF S!Continue, SP!Continue
<1>19. S!Next <=> SP!Next
  BY <1>1, <1>2, <1>3, <1>4, <1>5, <1>6, <1>7, <1>8, <1>9, <1>10,
     <1>11, <1>12, <1>13, <1>14, <1>15, <1>16, <1>17, <1>18, ZenonT(30) DEF S!Next, SP!Next
<1>20. S!vars = SP!vars /\ S!vars' = SP!vars' /\ (S!Init <=> SP!Init)
  BY SMTT(30) DEF S!vars, SP!vars, S!Init, SP!Init
<1> QED
  BY <1>19, <1>20, ZenonT(30)

\* The scheduler's invariant gives the facts used above.
LEMMA TaskInvFacts == SP!IInv => TaskFacts
  BY SMTT(30) DEF SP!IInv, TaskFacts, SP!TypeOK, S!TypeOK, SP!SubjectInv, S!SubjectInv,
         SP!QueuedAreRunnable, S!QueuedAreRunnable, SP!Queued, S!Queued, SP!States, S!States,
         SP!Labels, S!Labels, SP!RunqueueLock, S!RunqueueLock, SP!CurrentLock, S!CurrentLock

-----------------------------------------------------------------------------
(* The theorems.                                                            *)

\* The inductive invariant.
IInv == HP!IInv /\ SP!IInv /\ StageInv /\ OwnerInv

\* It gives the facts used above.
LEMMA InvFacts == IInv => Facts
  BY HeapInvFacts, TaskInvFacts, ZenonT(30) DEF IInv, Facts

\* heap_init and scheduler_init establish the invariant ...
LEMMA InitIInv == ASSUME Init PROVE IInv
<1>1. HP!IInv
  BY HP!InitInv, SameHeap, SizesAreWords, AreaAligned, AreaHoldsHeader, WordHoldsArea, SMTT(30)
     DEF HP!HeaderSize, Init
<1>2. SP!IInv
  BY SP!InitIInv, SameScheduler, ThreadsDistinct, TimeSlicePositive, MaxPidNat,
     SwitchResumesBoolean, ZenonT(30) DEF Init
<1> QED
  BY <1>1, <1>2, InitOwners, SMTT(30) DEF IInv

\* The heap's invariant, the scheduler's, and the account of who uses which
\* block hold together in every state of the kernel.
THEOREM KernelInvariant == Spec => []IInv
<1>1. IInv /\ [Next]_vars => IInv'
  <2> SUFFICES ASSUME IInv, [Next]_vars PROVE IInv'
    OBVIOUS
  <2>1. Kept
    BY NextKept, InvFacts, SMTT(30)
  <2>2. HP!IInv /\ SP!IInv
    BY SMTT(30) DEF IInv
  <2>3. [HP!Next]_(HP!vars) /\ [SP!Next]_(SP!vars)
    BY <2>1, SameHeap, SameScheduler, ZenonT(30) DEF Kept
  <2>4. HP!IInv'
    BY <2>2, <2>3, HeapStep, SMTT(30)
  <2>5. SP!IInv'
    BY <2>2, <2>3, SchedulerStep, SMTT(30)
  <2> QED
    BY <2>1, <2>4, <2>5, SMTT(30) DEF Kept, IInv
<1> QED
  BY <1>1, InitIInv, PTL DEF Spec

\* Between calls the blocks in use are the structs and stacks of the tasks
\* that exist, and the buffer: whatever order tasks are created, killed and
\* interrupted in, and wherever malloc fails, task_create and kill_task
\* leak nothing.
THEOREM KernelLeaksNothing == Spec => []NoLeak
<1>1. IInv => NoLeak
  BY InvFacts, FactsNoLeak, SMTT(30)
<1> QED
  BY <1>1, KernelInvariant, PTL

\* A queued task has its struct and its stack and shares neither, while any
\* other task is created, killed or taken down half-made.
THEOREM QueuedTasksKeepMemory == Spec => []QueuedTasksHaveMemory
<1>1. IInv => QueuedTasksHaveMemory
  BY InvFacts, FactsQueued, SMTT(30)
<1> QED
  BY <1>1, KernelInvariant, PTL

\* task_create and kill_task are well-behaved clients of the allocator: they
\* free only what malloc has given them, each block once, and never call it
\* from within itself.  So what is proved of the heap alone holds here.
THEOREM KernelUsesHeap == Spec => H!Spec
<1>1. Init => H!Init
  BY SMTT(30) DEF Init
<1>2. IInv /\ [Next]_vars => [H!Next]_(H!vars)
  BY NextKept, InvFacts, SMTT(30) DEF Kept
<1> QED
  BY <1>1, <1>2, KernelInvariant, PTL DEF Spec, H!Spec

\* With its structs and stacks in the heap the scheduler takes only steps it
\* takes when every struct is given to it fresh.  So what is proved of the
\* scheduler alone holds here.
THEOREM KernelUsesScheduler == Spec => S!Spec
<1>1. Init => S!Init
  BY SMTT(30) DEF Init
<1>2. IInv /\ [Next]_vars => [S!Next]_(S!vars)
  BY NextKept, InvFacts, SMTT(30) DEF Kept
<1> QED
  BY <1>1, <1>2, KernelInvariant, PTL DEF Spec, S!Spec

\* Wherever the heap puts a new struct, no task that exists is there: the guard
\* of CreateStruct never holds task_create up.
THEOREM StructsAreFresh == Spec => []StructIsFresh
<1>1. IInv => StructIsFresh
  BY InvFacts, FactsFresh, SMTT(30)
<1> QED
  BY <1>1, KernelInvariant, PTL

\* The heap keeps its promise to task_create and kill_task: the structs and
\* stacks they are given are aligned, large enough and apart, and freeing those of
\* one task leaves those of the others as they are.
THEOREM KernelAllocates == Spec => HP!ImplementsAllocator
<1>1. HP!Spec => HP!ImplementsAllocator
  BY HP!HeapIsAllocator, SizesAreWords, AreaAligned, AreaHoldsHeader, WordHoldsArea, SMTT(60)
     DEF HP!HeaderSize
<1>2. (H!Init => HP!Init) /\ ([H!Next]_(H!vars) => [HP!Next]_(HP!vars))
  BY SameHeap, ZenonT(30)
<1>3. H!Spec => HP!Spec
  BY <1>2, PTL DEF H!Spec, HP!Spec
<1> QED
  BY <1>1, <1>3, KernelUsesHeap, PTL

\* The tasks of the composed kernel take turns, although their structs come from
\* the heap and the addresses of killed ones are used again.
THEOREM KernelTakesTurns == Spec => SP!ImplementsRoundRobin
<1>1. SP!Spec => SP!ImplementsRoundRobin
  BY SP!SchedulerIsRoundRobin, ThreadsDistinct, TimeSlicePositive, MaxPidNat,
     SwitchResumesBoolean, ZenonT(30)
<1>2. (S!Init => SP!Init) /\ ([S!Next]_(S!vars) => [SP!Next]_(SP!vars))
  BY SameScheduler, ZenonT(30)
<1>3. S!Spec => SP!Spec
  BY <1>2, PTL DEF S!Spec, SP!Spec
<1> QED
  BY <1>1, <1>3, KernelUsesScheduler, PTL
=============================================================================

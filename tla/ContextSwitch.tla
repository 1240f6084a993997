--------------------------- MODULE ContextSwitch ---------------------------
(***************************************************************************)
(* The context switch of src/arch/x86_64/context.s on the structures that  *)
(* task_create fills in, at the level of byte offsets, registers and stack *)
(* words.  Tasks are numbers; each has its own stack and its own code.     *)
(***************************************************************************)
EXTENDS Integers

CONSTANTS
    Tasks,      \* the tasks on the run queue, numbers from 1
    Values,     \* what registers may hold; 0 is one of them
    CallFrame   \* bytes of stack that a task's call of schedule() takes

ASSUME TasksNumbered == Tasks \subseteq Nat \ {0}
ASSUME ZeroIsValue == 0 \in Values /\ Values \subseteq Nat
ASSUME CallFrameWords == CallFrame \in Nat /\ CallFrame % 8 = 0

NULL == 0
SavedRegs == {"r15", "r14", "r13", "r12", "rbx", "rbp"}

\* The layout of task_context_t that this model needs.
Field == [rcx |-> 88, rip |-> 128, cs |-> 136, rsp |-> 152]
Offsets == {8 * i : i \in 0..20}

\* mutated: two registers share a slot
SaveAt_Shared == [r15 |-> 0, r14 |-> 8, r13 |-> 16, r12 |-> 24, rbx |-> 32, rbp |-> 32]

\* The offsets that switch_to uses, and where its pushes leave the registers.
SaveAt == [r15 |-> 0, r14 |-> 8, r13 |-> 16, r12 |-> 24, rbx |-> 32, rbp |-> 40]
RspAt == 88
RipAt == 136
PushedAt == [r15 |-> 0, r14 |-> 8, r13 |-> 16, r12 |-> 24, rbx |-> 32, rbp |-> 40]
Frame == 48

\* Code addresses: the entry of each task's function.
Entry(t) == 4096 * t
KernelCS == 8

\* Stack addresses; a task's stack grows down from its (aligned) top.
Top(t) == 65536 * t
StackWords(t) == {Top(t) - 8 * i : i \in 1..((2 * Frame + CallFrame) \div 8)}
Memory == UNION {StackWords(t) : t \in Tasks}

VARIABLES
    context,        \* the context of every task, by offset
    memory,         \* the words of the stacks
    reg, rsp, rip,  \* the CPU
    current_task,
    kept            \* what the registers of a task held when it was switched from

vars == <<context, memory, reg, rsp, rip, current_task, kept>>

\* task_create: zeroed registers, an initial stack of six zero words.
NewContext(t) ==
    [o \in Offsets |-> CASE o = Field.rsp -> Top(t) - Frame
                         [] o = Field.rip -> Entry(t)
                         [] o = Field.cs -> KernelCS
                         [] OTHER -> 0]

Init ==
    /\ context = [t \in Tasks |-> NewContext(t)]
    /\ memory = [w \in Memory |-> 0]
    /\ reg = [r \in SavedRegs |-> 0] /\ rsp = 0 /\ rip = 0
    /\ current_task = NULL
    /\ kept = [t \in Tasks |-> <<>>]

\* schedule() without a current task: load RSP, jump to RIP.
FirstTask(t) ==
    /\ current_task = NULL
    /\ current_task' = t
    /\ rsp' = context[t][Field.rsp]
    /\ rip' = context[t][Field.rip]
    /\ UNCHANGED <<context, memory, reg, kept>>

\* The code of the current task is being executed.
Running == current_task # NULL /\ rip = Entry(current_task)

Work(r, v) ==
    /\ Running
    /\ reg' = [reg EXCEPT ![r] = v]
    /\ UNCHANGED <<context, memory, rsp, rip, current_task, kept>>

\* schedule() calls switch_to(&current->context, &t->context).
switch_to(t) ==
    LET sp == rsp - CallFrame - Frame   \* RSP after the pushes
        sp2 == context[t][RspAt]        \* RSP once the new context is loaded
    IN
    /\ Running /\ t # current_task
    /\ kept' = [kept EXCEPT ![current_task] = reg]
    /\ memory' = [w \in Memory |->
                     IF \E r \in SavedRegs : w = sp + PushedAt[r]
                     THEN reg[CHOOSE r \in SavedRegs : w = sp + PushedAt[r]]
                     ELSE memory[w]]
    /\ context' = [context EXCEPT ![current_task] =
                      [o \in Offsets |->
                          CASE \E r \in SavedRegs : o = SaveAt[r] ->
                                  reg[CHOOSE r \in SavedRegs : o = SaveAt[r]]
                            [] o = RspAt -> sp
                            [] OTHER -> @[o]]]
    /\ \E popped \in [SavedRegs -> Values] :    \* the pops win over the loads
          /\ \A r \in SavedRegs :               \* outside the stacks: anything
                sp2 + PushedAt[r] \in Memory => popped[r] = memory[sp2 + PushedAt[r]]
          /\ reg' = popped
    /\ rsp' = sp2 + Frame
    /\ rip' = context[t][RipAt]
    /\ current_task' = t

Next ==
    \E t \in Tasks :
        \/ FirstTask(t)
        \/ switch_to(t)
        \/ \E r \in SavedRegs, v \in Values : Work(r, v)

Spec == Init /\ [][Next]_vars

-----------------------------------------------------------------------------
\* TASKING.md: "Register Preservation: Saves callee-saved registers (RBP, RBX,
\* R12-R15)".  Both copies of the registers of a task that was switched from,
\* in its context and on its stack, are what the task had in them, and the pops
\* at the saved stack pointer would find them.
RegistersSaved ==
    \A t \in Tasks : kept[t] # <<>> =>
        \A r \in SavedRegs :
            /\ context[t][SaveAt[r]] = kept[t][r]
            /\ memory[context[t][RspAt] + PushedAt[r]] = kept[t][r]

\* TASKING.md: "It supports multiple concurrent tasks with proper context
\* switching": after a switch the CPU executes the code of the current task.
SwitchEntersTask == current_task # NULL => rip = Entry(current_task)
=============================================================================

----------------------------- MODULE Scheduler -----------------------------
(***************************************************************************)
(* The task scheduler of src/kernel/task/task.c: a circular doubly linked  *)
(* run queue of task structs, current_task, the deferred-scheduling flag,  *)
(* and the operations that change them.                                    *)
(*                                                                         *)
(* The kernel runs on one CPU and is cooperative: no interrupt handler     *)
(* calls schedule(), so the only code that runs between two steps of a     *)
(* scheduler call is the timer interrupt (Tick).  `thread' is the flow of  *)
(* control the CPU executes, kmain (Boot) or a task; its calls are cut     *)
(* into steps at every point where the timer could be told apart from not  *)
(* firing, where a loop turns, and where memory is allocated or freed.     *)
(* Any thread may make any call with any argument: the module is about     *)
(* what task.c promises every kernel that links it.                        *)
(***************************************************************************)
EXTENDS Integers, Sequences

CONSTANTS
    Task,           \* the addresses at which a task struct can be allocated
    Boot,           \* the thread of kmain
    LOST,           \* the CPU executes no known thread
    NULL,
    TimeSlice,      \* ticks per slice: the 25 of scheduler_tick
    MaxPid,         \* bound: pids handed out before task_create is cut off
    SwitchResumes   \* TRUE: switch_to continues the next task where it left
                    \* off; FALSE: it jumps to the code selector, as the
                    \* offsets of context.s make it do (module ContextSwitch)

ASSUME ThreadsDistinct ==
    /\ Boot \notin Task /\ LOST \notin Task /\ NULL \notin Task
    /\ Boot # LOST /\ Boot # NULL /\ LOST # NULL
ASSUME TimeSlicePositive == TimeSlice \in Nat \ {0}
ASSUME MaxPidNat == MaxPid \in Nat
ASSUME SwitchResumesBoolean == SwitchResumes \in BOOLEAN

VARIABLES
    runqueue, next, prev,       \* the list head and the link fields
    pid, state,                 \* the fields of the task structs
    live,                       \* the structs malloc has handed out
    current_task, next_pid, need_schedule, tasks_exist,
    counter,                    \* the static of scheduler_tick
    held,                       \* the spinlocks that are taken
    thread, pc,                 \* who runs, and where in a call it is
    subject,                    \* the call's pointer: new struct, cursor, target
    wanted,                     \* the pid that find_task_by_pid or kill_task seeks
    interrupts,                 \* the CPU's IF flag
    wild                        \* a dead or NULL struct was dereferenced

queue == <<runqueue, next, prev>>
structs == <<pid, state, live>>
flags == <<need_schedule, tasks_exist, counter>>
call == <<pc, subject, wanted>>
vars == <<runqueue, next, prev, pid, state, live, current_task, next_pid,
          need_schedule, tasks_exist, counter, held, thread, pc, subject,
          wanted, interrupts, wild>>

RunqueueLock == "runqueue_lock"
CurrentLock == "current_task_lock"
States == {"RUNNING", "ZOMBIE"}
Labels == {"client", "create", "exit", "schedule", "switch", "yield",
           "find", "kill", "reap"}

\* The structs on the run queue: the ones whose links are set.
Queued == {t \in Task : next[t] # NULL}

TypeOK ==
    /\ runqueue \in Task \cup {NULL}
    /\ next \in [Task -> Task \cup {NULL}]
    /\ prev \in [Task -> Task \cup {NULL}]
    /\ pid \in [Task -> Nat]
    /\ state \in [Task -> States]
    /\ live \subseteq Task
    /\ current_task \in Task \cup {NULL}
    /\ next_pid \in 1..(MaxPid + 1)
    /\ need_schedule \in BOOLEAN /\ tasks_exist \in BOOLEAN
    /\ counter \in 0..(TimeSlice - 1)
    /\ held \subseteq {RunqueueLock, CurrentLock}
    /\ thread \in Task \cup {Boot, LOST}
    /\ pc \in Labels
    /\ subject \in Task \cup {NULL}
    /\ wanted \in Nat
    /\ interrupts \in BOOLEAN /\ wild \in BOOLEAN

\* scheduler_init; kmain is running, interrupts are still disabled.
Init ==
    /\ runqueue = NULL
    /\ next = [t \in Task |-> NULL] /\ prev = [t \in Task |-> NULL]
    /\ pid = [t \in Task |-> 0] /\ state = [t \in Task |-> "RUNNING"]
    /\ live = {}
    /\ current_task = NULL /\ next_pid = 1
    /\ need_schedule = FALSE /\ tasks_exist = FALSE /\ counter = 0
    /\ held = {}
    /\ thread = Boot /\ pc = "client" /\ subject = NULL /\ wanted = 0
    /\ interrupts = FALSE /\ wild = FALSE

-----------------------------------------------------------------------------
\* Every struct a step reads or writes must be allocated.
Deref(ptrs) == wild' = (wild \/ ~(ptrs \subseteq live))

\* spinlock_acquire spins for ever on a lock that is taken.
Acquirable(locks) == locks \cap held = {}

Return == pc' = "client"

\* The thread calls one of the functions below.
Calls == pc = "client" /\ thread # LOST

\* mutated: the link of the struct that is taken out is not cleared
Spliced_KeepsLink(links, t, p, v) == [u \in Task |-> IF u = p THEN v ELSE links[u]]

\* links, after p's link is set to v and t's own link is cleared
Spliced(links, t, p, v) ==
    [u \in Task |-> IF u = t THEN NULL ELSE IF u = p THEN v ELSE links[u]]

\* The list surgery that remove_task_from_runqueue and kill_task share.
Unlink(t) ==
    /\ next' = Spliced(next, t, prev[t], next[t])
    /\ prev' = Spliced(prev, t, next[t], prev[t])
    /\ runqueue' = IF next[t] = t THEN NULL
                   ELSE IF runqueue = t THEN next[t] ELSE runqueue
    /\ Deref(IF next[t] = t THEN {t} ELSE {t, prev[t], next[t]})

\* Add t in front of the head.
add_task_to_runqueue(t) ==
    /\ Acquirable({RunqueueLock})
    /\ runqueue' = t
    /\ tasks_exist' = TRUE
    /\ IF runqueue = NULL
       THEN /\ next' = [next EXCEPT ![t] = t]
            /\ prev' = [prev EXCEPT ![t] = t]
            /\ Deref({t})
       ELSE /\ next' = [u \in Task |-> IF u = prev[runqueue] THEN t
                                       ELSE IF u = t THEN runqueue ELSE next[u]]
            /\ prev' = [prev EXCEPT ![t] = prev[runqueue], ![runqueue] = t]
            /\ Deref({t, runqueue, prev[runqueue]})

StillTasks(t) == tasks_exist /\ next[t] # t

remove_task_from_runqueue(t) ==
    /\ Acquirable({RunqueueLock})
    /\ IF runqueue = NULL
       THEN UNCHANGED <<runqueue, next, prev, tasks_exist, wild>>
       ELSE /\ Unlink(t)
            /\ tasks_exist' = StillTasks(t)

-----------------------------------------------------------------------------
(* task_create: the struct, then the stack, then the run queue.  A failed  *)
(* first malloc changes nothing and is a stuttering step.                  *)

CreateStruct(t) ==
    /\ Calls
    /\ t \notin live
    /\ next_pid <= MaxPid
    /\ live' = live \cup {t}
    /\ next' = [next EXCEPT ![t] = NULL] /\ prev' = [prev EXCEPT ![t] = NULL]
    /\ pid' = [pid EXCEPT ![t] = next_pid]
    /\ state' = [state EXCEPT ![t] = "RUNNING"]
    /\ next_pid' = next_pid + 1
    /\ pc' = "create" /\ subject' = t
    /\ UNCHANGED <<runqueue, current_task, flags, held, thread, wanted,
                   interrupts, wild>>

\* The stack could not be allocated: the struct is freed, its pid is spent.
CreateNoStack ==
    /\ pc = "create"
    /\ live' = live \ {subject}
    /\ Return
    /\ UNCHANGED <<queue, pid, state, current_task, next_pid, flags, held,
                   thread, subject, wanted, interrupts, wild>>

CreateEnqueue ==
    /\ pc = "create"
    /\ add_task_to_runqueue(subject)
    /\ Return
    /\ UNCHANGED <<structs, current_task, next_pid, need_schedule, counter,
                   held, thread, subject, wanted, interrupts>>

(* task_exit.  With no current task it returns at once: a stuttering step. *)

ExitMark ==
    /\ Calls
    /\ Acquirable({CurrentLock})
    /\ current_task # NULL
    /\ Deref({current_task})
    /\ state' = [state EXCEPT ![current_task] = "ZOMBIE"]
    /\ subject' = current_task
    /\ pc' = "exit"
    /\ UNCHANGED <<queue, pid, live, current_task, next_pid, flags, held,
                   thread, wanted, interrupts>>

ExitRemove ==
    /\ pc = "exit"
    /\ remove_task_from_runqueue(subject)
    /\ pc' = "schedule"
    /\ UNCHANGED <<structs, current_task, next_pid, need_schedule, counter,
                   held, thread, subject, wanted, interrupts>>

(* schedule, called directly or from yield and task_exit.                  *)

\* (kmain enables interrupts before it starts the first task)
CallSchedule ==
    /\ Calls
    /\ thread = Boot => interrupts
    /\ pc' = "schedule"
    /\ UNCHANGED <<queue, structs, current_task, next_pid, flags, held,
                   thread, subject, wanted, interrupts, wild>>

\* mutated: the walk starts at the head again every time
Successor_Head == runqueue

\* The task to run next, NULL when a current task is not on the queue.
Successor == IF current_task = NULL THEN runqueue ELSE next[current_task]

\* Both locks are taken and released within the step, before switch_to.
schedule ==
    /\ pc = "schedule"
    /\ Acquirable({RunqueueLock, CurrentLock})
    /\ IF runqueue # NULL /\ Successor \notin {NULL, current_task}
       THEN current_task' = Successor /\ subject' = current_task /\ pc' = "switch"
       ELSE Return /\ UNCHANGED <<current_task, subject>>
    /\ Deref(IF runqueue = NULL \/ current_task = NULL THEN {} ELSE {current_task})
    /\ UNCHANGED <<queue, structs, next_pid, flags, held, thread, wanted,
                   interrupts>>

\* subject is old_current.  The first task is entered with a plain jump; a
\* thread that was switched away from resumes behind its call of schedule.
SwitchTo ==
    /\ pc = "switch"
    /\ Deref({current_task} \cup ({subject} \ {NULL}))
    /\ thread' = IF subject = NULL \/ SwitchResumes THEN current_task ELSE LOST
    /\ Return
    /\ UNCHANGED <<queue, structs, current_task, next_pid, flags, held,
                   subject, wanted, interrupts>>

(* yield: the flag is read in one step and cleared in the next.            *)

YieldTest ==
    /\ Calls
    /\ need_schedule
    /\ pc' = "yield"
    /\ UNCHANGED <<queue, structs, current_task, next_pid, flags, held,
                   thread, subject, wanted, interrupts, wild>>

YieldClear ==
    /\ pc = "yield"
    /\ need_schedule' = FALSE
    /\ pc' = "schedule"
    /\ UNCHANGED <<queue, structs, current_task, next_pid, tasks_exist,
                   counter, held, thread, subject, wanted, interrupts, wild>>

(* find_task_by_pid and kill_task walk the list from its head with the     *)
(* queue locked, one struct per step.  pid <= 0 and an empty queue return  *)
(* at once: stuttering steps.                                              *)

\* mutated: the walk begins behind the head
First_BehindHead == next[runqueue]

First == runqueue

Lookup(p, op) ==
    /\ Calls
    /\ p > 0
    /\ Acquirable({RunqueueLock})
    /\ runqueue # NULL
    /\ held' = held \cup {RunqueueLock}
    /\ subject' = First /\ wanted' = p /\ pc' = op
    /\ UNCHANGED <<queue, structs, current_task, next_pid, flags, thread,
                   interrupts, wild>>

Scanning == pc \in {"find", "kill"}
Hit == pid[subject] = wanted

\* The loop moves on, or has come round to the head and finds nothing.
ScanNext ==
    /\ Scanning /\ ~Hit
    /\ subject' = next[subject]
    /\ IF next[subject] = runqueue
       THEN Return /\ held' = held \ {RunqueueLock}
       ELSE UNCHANGED <<pc, held>>
    /\ Deref({subject})
    /\ UNCHANGED <<queue, structs, current_task, next_pid, flags, thread,
                   wanted, interrupts>>

\* mutated: the lock is not released on the way out with -2
Unlocked_NotByKill == IF pc = "kill" THEN held ELSE held \ {RunqueueLock}

Unlocked == held \ {RunqueueLock}

\* find_task_by_pid has its task; kill_task refuses the current one (-2).
ScanEnds ==
    /\ Scanning /\ Hit
    /\ pc = "kill" => subject = current_task
    /\ Return /\ held' = Unlocked
    /\ Deref({subject})
    /\ UNCHANGED <<queue, structs, current_task, next_pid, flags, thread,
                   subject, wanted, interrupts>>

\* mutated: the current task may be killed
MayKill_Any == TRUE

MayKill == subject # current_task

\* mutated: the struct is freed before its stack field is read
LiveUntilReaped_Freed == live' = live \ {subject}

LiveUntilReaped == UNCHANGED live

\* kill_task takes its target off the queue; tasks_exist is left as it is.
KillUnlink ==
    /\ pc = "kill" /\ Hit /\ MayKill
    /\ state' = [state EXCEPT ![subject] = "ZOMBIE"]
    /\ Unlink(subject)
    /\ LiveUntilReaped
    /\ held' = held \ {RunqueueLock}
    /\ pc' = "reap"
    /\ UNCHANGED <<pid, current_task, next_pid, flags, thread, subject,
                   wanted, interrupts>>

\* ... and frees its stack and struct after the lock is released.
KillFree ==
    /\ pc = "reap"
    /\ Deref({subject})
    /\ live' = live \ {subject}
    /\ Return
    /\ UNCHANGED <<queue, pid, state, current_task, next_pid, flags, held,
                   thread, subject, wanted, interrupts>>

-----------------------------------------------------------------------------
\* kmain's sti.
Sti ==
    /\ thread = Boot /\ Calls /\ ~interrupts
    /\ interrupts' = TRUE
    /\ UNCHANGED <<queue, structs, current_task, next_pid, flags, held,
                   thread, call, wild>>

\* The timer interrupt: scheduler_tick, at any point of any call.
scheduler_tick ==
    /\ interrupts /\ thread # LOST
    /\ tasks_exist
    /\ counter' = (counter + 1) % TimeSlice
    /\ need_schedule' = (need_schedule \/ counter + 1 = TimeSlice)
    /\ UNCHANGED <<queue, structs, current_task, next_pid, tasks_exist, held,
                   thread, call, interrupts, wild>>

\* The steps a call takes by itself once it has begun.
Continue ==
    \/ CreateNoStack \/ CreateEnqueue \/ ExitRemove \/ schedule \/ SwitchTo
    \/ YieldClear \/ ScanNext \/ ScanEnds \/ KillUnlink \/ KillFree

Next ==
    \/ \E t \in Task : CreateStruct(t)
    \/ ExitMark \/ CallSchedule \/ YieldTest
    \/ \E p \in 0..MaxPid, op \in {"find", "kill"} : Lookup(p, op)
    \/ Continue
    \/ Sti \/ scheduler_tick

Spec == Init /\ [][Next]_vars

\* Code that has begun a call gets on with it: the CPU executes it, and a
\* handler returns to it.  Nothing is assumed of what the tasks call, or of the
\* timer: no code in the kernel makes a task yield.
Fairness == WF_vars(Continue)

FairSpec == Spec /\ Fairness

-----------------------------------------------------------------------------
\* s[1..n] lists the queue with head hd in the order of the nx links; the pv
\* links run the other way round and no other struct is linked.
RingOf(n, s, hd, nx, pv) ==
    /\ \A i, j \in 1..n : s[i] = s[j] => i = j
    /\ hd = IF n = 0 THEN NULL ELSE s[1]
    /\ \A i \in 1..n : /\ nx[s[i]] = s[IF i = n THEN 1 ELSE i + 1]
                       /\ pv[s[i]] = s[IF i = 1 THEN n ELSE i - 1]
    /\ \A t \in Task : (\A i \in 1..n : s[i] # t) => nx[t] = NULL /\ pv[t] = NULL

Ring(n, s) == RingOf(n, s, runqueue, next, prev)

\* A struct that task_create is still filling in has its pid already.
MaxQueued == IF pc = "create" THEN next_pid - 2 ELSE next_pid - 1

\* Between any two steps the queue is one cycle through exactly the linked
\* structs, whatever add_task_to_runqueue, remove_task_from_runqueue and the
\* list surgery of kill_task have done to it.
RunqueueIsRing ==
    \E n \in 0..MaxQueued : \E s \in [1..n -> Task] : Ring(n, s)

\* The walk of find_task_by_pid and kill_task is at a queued struct, and the
\* ones before it do not have the pid.
ScanProgress(n, s) ==
    Scanning => \E k \in 1..n : /\ subject = s[k]
                                /\ \A j \in 1..(k - 1) : pid[s[j]] # wanted

\* The inductive invariant: the queue and the walk along it ...
RingInv ==
    \E n \in 0..MaxQueued : \E s \in [1..n -> Task] : Ring(n, s) /\ ScanProgress(n, s)

\* ... the pids of the allocated structs ...
PidInv ==
    /\ \A t \in live : pid[t] < next_pid
    /\ \A t, u \in live : pid[t] = pid[u] => t = u

\* ... what the pointer of an unfinished call points to ...
SubjectInv ==
    /\ pc \in {"create", "reap"} =>
          /\ subject \in live \ Queued
          /\ subject # current_task
    /\ pc = "create" => state[subject] = "RUNNING"
    /\ pc = "exit" => subject # NULL /\ subject = current_task /\ state[subject] = "ZOMBIE"
    /\ pc = "switch" => current_task # NULL /\ subject \in live \cup {NULL}

\* ... and the locks, which no call keeps and no walk gives up.
LockInv == held = IF Scanning THEN {RunqueueLock} ELSE {}

\* Two queued tasks never share a pid, so find_task_by_pid and kill_task mean
\* one task: next_pid only grows, also when task_create fails half way.
PidsUnique == \A t, u \in Queued : pid[t] = pid[u] => t = u

\* No step of task.c touches a struct that kill_task or task_create has freed,
\* or one behind a NULL pointer, unless a task goes on making calls after its
\* own task_exit (which returns to it, see ExitSchedulesNext).
NoWildAccess == wild => current_task # NULL /\ state[current_task] = "ZOMBIE"

\* The CPU executes the task that current_task names (schedule changes the
\* pointer one step before switch_to changes the stack), and that task is
\* allocated and either queued or a zombie: kill_task never takes it away.
CurrentTaskSound ==
    /\ pc # "switch" /\ thread # LOST =>
          thread = IF current_task = NULL THEN Boot ELSE current_task
    /\ current_task # NULL =>
          /\ current_task \in live
          /\ current_task \in Queued \/ state[current_task] = "ZOMBIE"

\* Only tasks that are to run are queued: each queued struct is allocated, and
\* a zombie is queued only within task_exit, between its two steps.
QueuedAreRunnable ==
    \A t \in Queued :
        /\ t \in live
        /\ state[t] = "RUNNING" \/ (pc = "exit" /\ subject = t)

\* scheduler_tick skips the accounting when tasks_exist is clear: it is never
\* clear while a task is queued.
TasksExistCoversQueue == runqueue # NULL => tasks_exist

IInv ==
    /\ TypeOK /\ RingInv /\ PidInv /\ SubjectInv /\ LockInv
    /\ NoWildAccess /\ CurrentTaskSound /\ QueuedAreRunnable
    /\ TasksExistCoversQueue

\* A search that comes back to the head has seen every task: find_task_by_pid
\* returns NULL and kill_task -1 only for a pid that no queued task has.
LookupComplete ==
    [][ScanNext /\ pc' = "client" => \A t \in Queued : pid[t] # wanted]_vars

\* The queue as a sequence, its head first.
Order == CHOOSE s \in UNION {[1..n -> Task] : n \in 0..MaxQueued} : Ring(Len(s), s)

Line == INSTANCE RoundRobin WITH order <- Order, current <- current_task

\* The linked list, the two copies of the unlinking code and schedule implement
\* a line of tasks that take turns: no step of a create, an exit, a kill or a
\* lookup loses a task, changes the order of the others or skips a turn.
ImplementsRoundRobin == Line!Spec

\* No task is passed over: while the CPU is with a queued task, each time
\* schedule moves on, every other queued task is one turn nearer to the CPU.  A
\* kill or an exit in between sets nobody back, and a create, which queues the
\* new task at the head, sets nobody back by more than one turn.
TurnsComeNearer == Line!EveryTurnCounts

\* Every call returns: no list walk goes round for ever and no lock is waited
\* for that nobody will release.
CallsReturn == (pc # "client") ~> (pc = "client")

\* task.c:188, "Remove from runqueue and schedule next task": a task that has
\* exited hands over to one that is queued, and schedule never returns to it.
ExitSchedulesNext ==
    [][schedule /\ current_task # NULL /\ state[current_task] = "ZOMBIE"
         => runqueue = NULL \/ current_task' # current_task]_vars
=============================================================================

----------------------------- MODULE Interrupts -----------------------------
(***************************************************************************)
(* Interrupt entry and the interrupt controllers: src/arch/x86_64/         *)
(* interrupts.s, src/kernel/hardware/{idt,pic}.c, the report of a page     *)
(* fault in src/security/panic.c, and the calls by which kmain sets all of *)
(* it up.  Every gate is an interrupt gate, so a handler is not            *)
(* interrupted; that no handler faults is assumed.  Registers and the      *)
(* stack hold names: what the interrupted code had in them, or junk.       *)
(***************************************************************************)
EXTENDS Integers, Sequences

CONSTANTS
    Lines,      \* the lines that devices may raise, of 0..15 without the cascade
    Exceptions  \* the CPU exceptions that may happen, by vector

ASSUME LinesTyped == Lines \subseteq (0..15) \ {2} /\ Exceptions \subseteq 0..31

VARIABLES
    pc,             \* where kmain is
    call,           \* the call of pic.c that holds pic_lock, if any
    mask, irr, isr, \* the registers of the two controllers, as sets of lines
    base,           \* the first vector of each controller
    idt,            \* the stub of every vector
    interrupts,     \* the interrupt flag of the CPU: "on" or "off"
    reg, stack,     \* what registers and stack hold
    cpu,            \* the stub that runs, how far it is, and what it runs for
    lock            \* the console lock of stdio.c

vars == <<pc, call, mask, irr, isr, base, idt, interrupts, reg, stack, cpu, lock>>

Cascade == 2
AllLines == Lines \cup {Cascade}

\* By the calling convention these may hold anything after a call of a C function.
CallerSaved == {"rax", "rcx", "rdx", "rsi", "rdi", "r8", "r9", "r10", "r11"}
Registers == CallerSaved \cup {"rbx", "rbp", "r12", "r13", "r14", "r15"}
Own == [r \in Registers |-> r]

Pushed ==
    <<"rax", "rcx", "rdx", "rsi", "rdi", "rbp", "r8",
      "r9", "r10", "r11", "r12", "r13", "r14", "r15">>

\* mutated: two registers are popped in the wrong order
Popped_Swapped ==
    <<"r15", "r14", "r13", "r12", "r11", "r10", "r9",
      "r8", "rdi", "rbp", "rsi", "rdx", "rcx", "rax">>

Popped ==
    <<"r15", "r14", "r13", "r12", "r11", "r10", "r9",
      "r8", "rbp", "rdi", "rsi", "rdx", "rcx", "rax">>

\* page_fault_isr saves rbx as well.
PushedBy(stub) ==
    IF stub = "page_fault_isr" THEN <<"rax", "rbx">> \o Tail(Pushed) ELSE Pushed

\* What the CPU pushes, rflags with the interrupt flag, and the vectors that
\* get an error code on top.
Frame == <<"ss", "rsp", interrupts, "cs", "rip">>
ErrorCode == {8, 10, 11, 12, 13, 14, 17}

\* mutated: the default gates are set after those of the keyboard and the timer
Gates_DefaultLater == [v \in 0..255 |-> IF v = 14 THEN "page_fault_isr" ELSE "generic_isr"]

Gates ==
    [v \in 0..255 |-> CASE v = 14 -> "page_fault_isr" [] v = 33 -> "keyboard_isr"
                        [] v = 32 -> "timer_isr" [] OTHER -> "generic_isr"]

\* mutated: interrupts are enabled before the timer is set up
kmain_EarlySti == <<"pic_init", "idt", "keyboard_init", "sti", "pit_init", "drivers", "tasks">>

\* mutated: interrupts are not enabled
kmain_NoSti == <<"pic_init", "idt", "keyboard_init", "pit_init", "drivers", "tasks">>

\* The steps of kmain.  "drivers" stands for further drivers, which enable
\* their lines as keyboard_init and pit_init do.
kmain == <<"pic_init", "idt", "keyboard_init", "pit_init", "drivers", "sti", "tasks">>

NoCall == [op |-> "none", line |-> Cascade]

At(step) == kmain[pc] = step /\ cpu.stub = "none" /\ call = NoCall

NoStub == [stub |-> "none", step |-> "none", vector |-> 0, line |-> -1]

Init ==
    /\ pc = 1 /\ call = NoCall /\ interrupts = "off" /\ lock = FALSE
    /\ mask \in SUBSET AllLines /\ irr = {} /\ isr = {} /\ base = <<8, 112>>
    /\ idt = [v \in 0..255 |-> "none"]
    /\ reg = Own /\ stack = <<>> /\ cpu = NoStub

-----------------------------------------------------------------------------
(* kmain.                                                                   *)

cpuVars == <<interrupts, reg, stack, cpu>>

\* pic_remap starts both controllers anew and puts the masks back;
\* pic_irq_mask_all masks every line.
pic_init ==
    /\ At("pic_init")
    /\ base' = <<32, 40>> /\ irr' = {} /\ isr' = {} /\ mask' = AllLines
    /\ pc' = pc + 1
    /\ UNCHANGED <<call, idt, lock, cpuVars>>

idt_init ==
    /\ At("idt")
    /\ idt' = Gates /\ pc' = pc + 1
    /\ UNCHANGED <<call, mask, irr, isr, base, lock, cpuVars>>

\* A call that changes a mask: the lock is taken and the port read ...
PicCall(c) ==
    /\ call' = c
    /\ UNCHANGED <<pc, mask, irr, isr, base, idt, lock, cpuVars>>

Enable(line) == [op |-> "enable", line |-> line]
DriverCalls ==
    {[op |-> o, line |-> l] : o \in {"enable", "disable"}, l \in AllLines} \cup
    {[op |-> o, line |-> Cascade] : o \in {"mask_all", "unmask_all"}}

\* ... and the port written and the lock released.
Program ==
    /\ call # NoCall /\ cpu.stub = "none"
    /\ mask' = CASE call.op = "enable" -> mask \ {call.line}
                 [] call.op = "disable" -> mask \cup {call.line}
                 [] call.op = "mask_all" -> AllLines
                 [] call.op = "unmask_all" -> {}
    /\ call' = NoCall
    /\ pc' = IF kmain[pc] \in {"keyboard_init", "pit_init"} THEN pc + 1 ELSE pc
    /\ UNCHANGED <<irr, isr, base, idt, lock, cpuVars>>

keyboard_init == At("keyboard_init") /\ PicCall(Enable(1))
pit_init == At("pit_init") /\ PicCall(Enable(0))
Driver == \E c \in DriverCalls : At("drivers") /\ PicCall(c)

DriversDone ==
    /\ At("drivers")
    /\ pc' = pc + 1
    /\ UNCHANGED <<call, mask, irr, isr, base, idt, lock, cpuVars>>

Sti ==
    /\ At("sti")
    /\ interrupts' = "on" /\ pc' = pc + 1
    /\ UNCHANGED <<call, mask, irr, isr, base, idt, lock, reg, stack, cpu>>

\* Code that prints takes the console lock for every character.
PrintChar ==
    /\ cpu.stub = "none"
    /\ lock' = ~lock
    /\ UNCHANGED <<pc, call, mask, irr, isr, base, idt, cpuVars>>

-----------------------------------------------------------------------------
(* The controllers and the CPU.                                             *)

Raise(l) ==
    /\ l \notin irr
    /\ irr' = irr \cup {l}
    /\ UNCHANGED <<pc, call, mask, isr, base, idt, lock, cpuVars>>

\* The lines of the second controller come in at the cascade line.  What the
\* second controller has in service holds back lines of its own only: the first
\* one knows of it no more than its cascade line tells.
Rank(l) == IF l >= 8 THEN 16 * Cascade + l ELSE 16 * l
MostUrgent(S) == {l \in S : \A m \in S : Rank(l) <= Rank(m)}
Requests ==
    MostUrgent({l \in irr \ mask : /\ l >= 8 => Cascade \notin mask
                                   /\ \A s \in isr : s < 8 \/ l >= 8 => Rank(l) < Rank(s)})

\* The CPU turns to a vector.
Enter(vector, line) ==
    /\ cpu.stub = "none" /\ idt[vector] # "none"
    /\ cpu' = [stub |-> idt[vector], step |-> "push", vector |-> vector, line |-> line]
    /\ stack' = stack \o Frame \o (IF vector \in ErrorCode /\ line = -1 THEN <<"error">> ELSE <<>>)
    /\ interrupts' = "off"
    /\ UNCHANGED <<pc, call, mask, base, idt, lock, reg>>

Vector(l) == IF l >= 8 THEN base[2] + l - 8 ELSE base[1] + l

Interrupt ==
    /\ interrupts = "on"
    /\ \E l \in Requests :
          /\ Enter(Vector(l), l)
          /\ irr' = irr \ {l}
          /\ isr' = isr \cup {l} \cup (IF l >= 8 THEN {Cascade} ELSE {})

\* The line is withdrawn before the CPU asks for its vector: the controller
\* answers with its last one and has nothing in service.
Spurious ==
    /\ interrupts = "on"
    /\ \E l \in Requests :
          /\ Enter(IF l >= 8 THEN base[2] + 7 ELSE base[1] + 7, -1)
          /\ irr' = irr \ {l}
          /\ isr' = IF l >= 8 THEN isr \cup {Cascade} ELSE isr

\* The few port accesses under pic_lock raise no exception.
Exception == call = NoCall /\ \E v \in Exceptions : Enter(v, -1) /\ UNCHANGED <<irr, isr>>

-----------------------------------------------------------------------------
(* The stubs.                                                               *)

picVars == <<pc, call, mask, irr, base, idt>>

Push ==
    /\ cpu.step = "push"
    /\ stack' = stack \o [i \in 1..Len(PushedBy(cpu.stub)) |-> reg[PushedBy(cpu.stub)[i]]]
    /\ cpu' = [cpu EXCEPT !.step = "handle"]
    /\ UNCHANGED <<picVars, isr, interrupts, reg, lock>>

\* mutated: keyboard_handler returns early when there is no data
AfterHandler_NoData == IF cpu.stub = "keyboard_isr" THEN "pop" ELSE "eoi"

AfterHandler == "eoi"

\* scheduler_tick, generic_handler and keyboard_handler up to the call of
\* pic_send_eoi; keyboard_handler gets there on every path.
Handle ==
    /\ cpu.step = "handle" /\ cpu.stub # "page_fault_isr"
    /\ reg' = [r \in Registers |-> IF r \in CallerSaved THEN "junk" ELSE reg[r]]
    /\ cpu' = [cpu EXCEPT !.step = AfterHandler]
    /\ UNCHANGED <<picVars, isr, interrupts, stack, lock>>

\* The controller takes the most urgent line out of service.
EoiLine == IF cpu.stub = "keyboard_isr" THEN 1 ELSE 0
pic_send_eoi ==
    /\ cpu.step = "eoi" /\ call = NoCall
    /\ isr' = (isr \ MostUrgent({l \in isr : l < 8})) \
              (IF EoiLine >= 8 THEN MostUrgent({l \in isr : l >= 8}) ELSE {})
    /\ cpu' = [cpu EXCEPT !.step = "pop"]
    /\ UNCHANGED <<picVars, interrupts, reg, stack, lock>>

\* The pops and iretq, which takes whatever is on top for a frame.
Pop ==
    /\ cpu.step = "pop"
    /\ LET n == Len(stack)
           rest == SubSeq(stack, 1, n - Len(Popped))
           top == SubSeq(rest, Len(rest) - 4, Len(rest))
       IN  /\ reg' = [r \in Registers |->
                         IF \E i \in DOMAIN Popped : Popped[i] = r
                         THEN stack[n + 1 - (CHOOSE i \in DOMAIN Popped : Popped[i] = r)]
                         ELSE reg[r]]
           /\ stack' = SubSeq(rest, 1, Len(rest) - 5)
           /\ IF top[4] = "cs" /\ top[5] = "rip"
              THEN cpu' = NoStub /\ interrupts' = top[3]
              ELSE cpu' = [cpu EXCEPT !.stub = "lost", !.step = "lost"] /\ UNCHANGED interrupts
    /\ UNCHANGED <<picVars, isr, lock>>

\* page_fault_handler: print_clear, then the report, and the CPU halts.  Both
\* wait for the console lock, for ever if the fault came while it was taken.
FaultClear ==
    /\ cpu.step = "handle" /\ cpu.stub = "page_fault_isr" /\ ~lock
    /\ cpu' = [cpu EXCEPT !.step = "report"]
    /\ UNCHANGED <<picVars, isr, interrupts, reg, stack, lock>>

FaultReport ==
    /\ cpu.step = "report" /\ ~lock
    /\ cpu' = [cpu EXCEPT !.step = "halt"]
    /\ UNCHANGED <<picVars, isr, interrupts, reg, stack, lock>>

Stub == Push \/ Handle \/ pic_send_eoi \/ Pop \/ FaultClear \/ FaultReport
Boot ==
    \/ pic_init \/ idt_init \/ keyboard_init \/ pit_init \/ Driver \/ DriversDone
    \/ Program \/ Sti

Next ==
    \/ Boot \/ PrintChar \/ Stub
    \/ \E l \in Lines : Raise(l)
    \/ Interrupt \/ Spurious \/ Exception

\* A stub goes on, and the CPU takes a request when its flag is set: also
\* when exceptions keep coming, for it looks for one between instructions.
Spec == Init /\ [][Next]_vars /\ WF_vars(Stub) /\ SF_vars(Interrupt)

-----------------------------------------------------------------------------
\* A request of line 0 or 1 runs its own stub and any other the generic one,
\* and none ever the stub of an exception: the controllers have been given
\* their vectors and the gates have been set when the first one comes in.
RightStub ==
    cpu.line # -1 /\ cpu.stub # "lost" =>
        /\ cpu.vector \notin 0..31
        /\ cpu.stub = CASE cpu.line = 0 -> "timer_isr" [] cpu.line = 1 -> "keyboard_isr"
                        [] OTHER -> "generic_isr"

\* Whatever interrupted it, code goes on with its registers, its stack and its
\* interrupt flag as they were.  The exception is generic_isr on a vector with
\* an error code, which it does not take off the stack.
CodeUndisturbed ==
    /\ cpu.stub = "none" =>
          /\ reg = Own /\ stack = <<>>
          /\ interrupts = "on" <=> \E i \in 1..(pc - 1) : kmain[i] = "sti"
    /\ cpu.stub = "lost" => cpu.line = -1 /\ cpu.vector \in ErrorCode \ {14}

\* Every handler ends the service of the first controller's lines, also when
\* the request was spurious: outside handlers none of them is in service.  (A
\* line of the second controller stays in service for ever: generic_handler
\* never acknowledges it there.)
NothingInService == cpu.stub = "none" => \A l \in isr : l >= 8

\* A handler never has to wait for pic_lock: nothing it can interrupt holds it.
HandlersNeverSpin == cpu.step = "eoi" => call = NoCall

\* Code that runs with interrupts on takes a pending tick or key next, the tick
\* first, and in its own stub.  A line of the second controller that the generic
\* handler has left in service does not hold them up.
DevicesComeFirst ==
    kmain[pc] = "tasks" /\ cpu.stub = "none" =>
        /\ interrupts = "on"
        /\ 0 \in irr \ mask => Requests = {0} /\ idt[Vector(0)] = "timer_isr"
        /\ 1 \in irr \ mask /\ 0 \notin irr \ mask =>
              Requests = {1} /\ idt[Vector(1)] = "keyboard_isr"

\* Once interrupts are enabled, a tick of the timer is taken, unless the CPU
\* stops for a page fault or is lost, and whatever the CPU has taken comes to
\* its end: no stub waits for a lock that the code it has interrupted holds,
\* save for the report of a page fault.
TicksAreHandled ==
    /\ (kmain[pc] = "tasks" /\ 0 \in irr \ mask) ~>
          (0 \notin irr \/ cpu.stub \in {"lost", "page_fault_isr"})
    /\ (cpu.stub \notin {"none", "page_fault_isr"}) ~> (cpu.stub \in {"none", "lost"})
=============================================================================

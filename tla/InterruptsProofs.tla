-------------------------- MODULE InterruptsProofs --------------------------
(***************************************************************************)
(* Proofs about module Interrupts, for every set of lines that devices may *)
(* raise and every set of exceptions, and, at the end, about ContextSwitch *)
(* for every set of tasks: the two places where assembly saves registers.  *)
(***************************************************************************)
EXTENDS Interrupts, SequenceTheorems, TLAPS

\* The interrupt flag of code that runs outside handlers, set by the sti of kmain.
Flag == IF pc = 7 THEN "on" ELSE "off"

\* An error code lies below what the stub has pushed.
Extra == IF cpu.vector \in ErrorCode /\ cpu.line = -1 THEN 1 ELSE 0

\* What the stack holds.
Words == {"ss", "rsp", "on", "off", "cs", "rip", "error", "junk"} \cup Registers

\* The frame of the CPU at the bottom of the stack.
FrameOn(s, n) ==
    /\ s \in Seq(Words) /\ Len(s) = n
    /\ s[3] = Flag /\ s[4] = "cs" /\ s[5] = "rip"

\* Above it the registers, once they are pushed.
SavedOn(s, e) ==
    /\ FrameOn(s, 19 + e)
    /\ \A i \in 1..14 : s[5 + e + i] = Pushed[i]

Stubs == {"page_fault_isr", "keyboard_isr", "timer_isr", "generic_isr"}
Steps == {"none", "push", "handle", "eoi", "pop", "report", "halt", "lost"}
Cpus == [stub : Stubs \cup {"none", "lost"}, step : Steps, vector : 0..255, line : (0..15) \cup {-1}]

TypeInv ==
    /\ pc \in 1..7 /\ irr \subseteq Lines /\ isr \subseteq 0..15
    /\ cpu \in Cpus

\* kmain: what has been set up, and where calls of pic.c happen.
SetupInv ==
    /\ pc >= 2 => base = <<32, 40>>
    /\ pc >= 3 => idt = Gates
    /\ pc < 3 => idt = [v \in 0..255 |-> "none"]
    /\ call # NoCall => pc \in 3..5 /\ cpu.stub = "none"

\* What the CPU runs a stub for.
CauseInv ==
    /\ cpu.stub = "none" => cpu.step = "none" /\ cpu.line = -1
    /\ cpu.stub \in Stubs => cpu.stub = Gates[cpu.vector] /\ cpu.step \notin {"none", "lost"}
    /\ cpu.stub = "lost" => cpu.step = "lost" /\ cpu.line = -1 /\ cpu.vector \in ErrorCode \ {14}
    /\ cpu.line # -1 => cpu.vector = 32 + cpu.line
    /\ cpu.stub = "page_fault_isr" => cpu.step \in {"push", "handle", "report", "halt"}
    /\ cpu.step \in {"report", "halt"} => cpu.stub = "page_fault_isr"

\* Registers and stack, at every step of a stub that will return.
SavedInv ==
    /\ cpu.stub = "none" => reg = Own /\ stack = <<>> /\ interrupts = Flag
    /\ cpu.step = "push" => reg = Own /\ FrameOn(stack, 5 + Extra)
    /\ cpu.step \in {"handle", "eoi", "pop"} /\ cpu.stub # "page_fault_isr" =>
          SavedOn(stack, Extra) /\ reg["rbx"] = "rbx"

\* The lines in service: at most one of the first controller, until it is acknowledged.
ServiceInv ==
    /\ cpu.step \in {"none", "pop"} => \A l \in isr : l >= 8
    /\ cpu.step \in {"push", "handle", "eoi"} => \A l, m \in isr : l < 8 /\ m < 8 => l = m

IInv == TypeInv /\ SetupInv /\ CauseInv /\ SavedInv /\ ServiceInv

-----------------------------------------------------------------------------
LEMMA Kmain ==
    /\ kmain[1] = "pic_init" /\ kmain[2] = "idt" /\ kmain[3] = "keyboard_init"
    /\ kmain[4] = "pit_init" /\ kmain[5] = "drivers" /\ kmain[6] = "sti" /\ kmain[7] = "tasks"
  BY DEF kmain

\* The registers are popped in the reverse order.
LEMMA PopOrder ==
    /\ DOMAIN Popped = 1..14
    /\ \A i \in 1..14 : Popped[i] = Pushed[15 - i]
    /\ \A r \in Registers : r # "rbx" => \E i \in 1..14 : Popped[i] = r
<1>1. DOMAIN Popped = 1..14
  BY DEF Popped
<1>2. \A i \in 1..14 : Popped[i] = Pushed[15 - i]
  BY DEF Popped, Pushed
<1>3. ASSUME NEW r \in Registers, r # "rbx" PROVE \E i \in 1..14 : Popped[i] = r
  BY <1>3 DEF Popped, Registers, CallerSaved
<1> QED
  BY <1>1, <1>2, <1>3

LEMMA GateFacts ==
    /\ \A v \in 0..255 : Gates[v] \in Stubs
    /\ Gates[14] = "page_fault_isr" /\ Gates[32] = "timer_isr" /\ Gates[33] = "keyboard_isr"
    /\ \A v \in 0..255 \ {14, 32, 33} : Gates[v] = "generic_isr"
  BY DEF Gates, Stubs

\* What the CPU puts on an empty stack, and t on top of it.
LEMMA FrameFirst ==
    ASSUME NEW f \in Words, NEW t \in Seq(Words), NEW s,
           s = <<>> \o <<"ss", "rsp", f, "cs", "rip">> \o t
    PROVE  s \in Seq(Words) /\ Len(s) = 5 + Len(t) /\ s[3] = f /\ s[4] = "cs" /\ s[5] = "rip"
<1> DEFINE q == <<"ss", "rsp", f, "cs", "rip">>
<1>1. q \in Seq(Words) /\ Len(q) = 5 /\ q[3] = f /\ q[4] = "cs" /\ q[5] = "rip"
  <2>1. "ss" \in Words /\ "rsp" \in Words /\ "cs" \in Words /\ "rip" \in Words
    BY DEF Words
  <2> QED
    BY <2>1
<1> HIDE DEF q
<1>2. <<>> \o q = q
  BY <1>1, ConcatEmptySeq
<1>3. s = q \o t
  BY <1>2 DEF q
<1>4. /\ q \o t \in Seq(Words) /\ Len(q \o t) = Len(q) + Len(t)
      /\ \A i \in 1..(Len(q) + Len(t)) : (q \o t)[i] = IF i <= Len(q) THEN q[i] ELSE t[i - Len(q)]
  BY <1>1, ConcatProperties, Zenon
<1>5. Len(t) \in Nat
  OBVIOUS
<1> QED
  BY <1>1, <1>3, <1>4, <1>5

LEMMA InitInv == Init => IInv
<1> SUFFICES ASSUME Init PROVE IInv
  OBVIOUS
<1>1. /\ pc = 1 /\ call = NoCall /\ interrupts = "off" /\ irr = {} /\ isr = {}
      /\ idt = [v \in 0..255 |-> "none"] /\ reg = Own /\ stack = <<>>
      /\ cpu = [stub |-> "none", step |-> "none", vector |-> 0, line |-> -1]
  BY DEF Init, NoStub
<1>2. cpu.stub = "none" /\ cpu.step = "none" /\ cpu.line = -1
  BY <1>1
<1>3. TypeInv
  BY <1>1 DEF TypeInv, Cpus, Steps
<1>4. SetupInv
  BY <1>1 DEF SetupInv
<1>5. CauseInv
  BY <1>2 DEF CauseInv, Stubs
<1>6. SavedInv /\ ServiceInv
  BY <1>1, <1>2 DEF SavedInv, ServiceInv, Flag
<1> QED
  BY <1>3, <1>4, <1>5, <1>6 DEF IInv

-----------------------------------------------------------------------------
(* kmain and the devices.                                                   *)

\* A step of kmain keeps what concerns stubs.
LEMMA KmainStep ==
    ASSUME IInv, cpu.stub = "none", UNCHANGED <<reg, stack, cpu>>,
           TypeInv', SetupInv', interrupts' = Flag', isr' \subseteq isr
    PROVE  IInv'
<1>1. cpu' = cpu /\ cpu'.step = "none" /\ cpu'.stub = "none"
  BY DEF IInv, CauseInv
<1>2. CauseInv'
  BY <1>1 DEF IInv, CauseInv
<1>3. SavedInv'
  BY <1>1 DEF IInv, SavedInv
<1>4. ServiceInv'
  BY <1>1 DEF IInv, ServiceInv
<1> QED
  BY <1>2, <1>3, <1>4 DEF IInv

LEMMA BootInv ==
    ASSUME IInv, Boot
    PROVE  IInv'
<1>1. pc \in 1..7 /\ irr \subseteq Lines /\ isr \subseteq 0..15 /\ cpu \in Cpus
  BY DEF IInv, TypeInv
<1>2. cpu.stub = "none" => interrupts = Flag
  BY DEF IInv, SavedInv
<1>3. CASE pic_init
  <2>1. pc = 1 /\ call = NoCall /\ cpu.stub = "none" /\ pc' = 2
        /\ idt = [v \in 0..255 |-> "none"]
    BY <1>1, <1>3, Kmain DEF pic_init, At, IInv, SetupInv
  <2>2. UNCHANGED <<reg, stack, cpu, call, idt, interrupts>> /\ irr' = {} /\ isr' = {} /\ base' = <<32, 40>>
    BY <1>3 DEF pic_init, cpuVars
  <2>3. TypeInv' /\ SetupInv' /\ interrupts' = Flag'
    BY <1>1, <1>2, <2>1, <2>2 DEF TypeInv, SetupInv, Flag
  <2> QED
    BY <2>1, <2>2, <2>3, KmainStep
<1>4. CASE idt_init
  <2>1. pc = 2 /\ call = NoCall /\ cpu.stub = "none" /\ pc' = 3 /\ base = <<32, 40>>
    BY <1>1, <1>4, Kmain DEF idt_init, At, IInv, SetupInv
  <2>2. UNCHANGED <<reg, stack, cpu, call, base, interrupts, irr, isr>> /\ idt' = Gates
    BY <1>4 DEF idt_init, cpuVars
  <2>3. TypeInv' /\ SetupInv' /\ interrupts' = Flag'
    BY <1>1, <1>2, <2>1, <2>2 DEF TypeInv, SetupInv, Flag
  <2> QED
    BY <2>1, <2>2, <2>3, KmainStep
<1>5. CASE keyboard_init \/ pit_init \/ Driver
  <2>1. pc \in 3..5 /\ cpu.stub = "none"
        /\ UNCHANGED <<pc, base, idt, irr, isr, reg, stack, cpu, interrupts>>
    BY <1>1, <1>5, Kmain DEF keyboard_init, pit_init, Driver, At, PicCall, cpuVars
  <2>2. TypeInv' /\ SetupInv' /\ interrupts' = Flag'
    BY <1>1, <1>2, <2>1 DEF TypeInv, SetupInv, Flag, IInv
  <2> QED
    BY <2>1, <2>2, KmainStep
<1>6. CASE Program
  <2>1. /\ call # NoCall /\ call' = NoCall /\ cpu.stub = "none"
        /\ UNCHANGED <<base, idt, irr, isr, reg, stack, cpu, interrupts>>
    BY <1>6 DEF Program, cpuVars
  <2>2. pc \in 3..5 /\ pc' \in 3..5
    BY <1>1, <1>6, <2>1, Kmain DEF Program, IInv, SetupInv
  <2>3. TypeInv' /\ SetupInv' /\ interrupts' = Flag'
    BY <1>1, <1>2, <2>1, <2>2 DEF TypeInv, SetupInv, Flag, IInv
  <2> QED
    BY <2>1, <2>3, KmainStep
<1>7. CASE DriversDone
  <2>1. pc = 5 /\ pc' = 6 /\ cpu.stub = "none" /\ call = NoCall
        /\ UNCHANGED <<call, base, idt, irr, isr, reg, stack, cpu, interrupts>>
    BY <1>1, <1>7, Kmain DEF DriversDone, At, cpuVars
  <2>2. TypeInv' /\ SetupInv' /\ interrupts' = Flag'
    BY <1>1, <1>2, <2>1 DEF TypeInv, SetupInv, Flag, IInv
  <2> QED
    BY <2>1, <2>2, KmainStep
<1>8. CASE Sti
  <2>1. pc = 6 /\ pc' = 7 /\ cpu.stub = "none" /\ call = NoCall /\ interrupts' = "on"
        /\ UNCHANGED <<call, base, idt, irr, isr, reg, stack, cpu>>
    BY <1>1, <1>8, Kmain DEF Sti, At
  <2>2. TypeInv' /\ SetupInv' /\ interrupts' = Flag'
    BY <1>1, <2>1 DEF TypeInv, SetupInv, Flag, IInv
  <2> QED
    BY <2>1, <2>2, KmainStep
<1> QED
  BY <1>3, <1>4, <1>5, <1>6, <1>7, <1>8 DEF Boot

\* Printing, a device that raises its line, and no step at all.
LEMMA OutsideInv ==
    ASSUME IInv, PrintChar \/ (\E l \in Lines : Raise(l)) \/ UNCHANGED vars
    PROVE  IInv'
<1>1. UNCHANGED <<pc, call, isr, base, idt, interrupts, reg, stack, cpu>>
  BY DEF PrintChar, Raise, vars, cpuVars
<1>2. irr' \subseteq Lines
  BY DEF PrintChar, Raise, vars, IInv, TypeInv
<1>3. TypeInv'
  BY <1>1, <1>2 DEF IInv, TypeInv
<1>4. SetupInv' /\ CauseInv' /\ ServiceInv'
  BY <1>1 DEF IInv, SetupInv, CauseInv, ServiceInv
<1>5. SavedInv'
  BY <1>1 DEF IInv, SavedInv, SavedOn, FrameOn, Flag, Extra
<1> QED
  BY <1>3, <1>4, <1>5 DEF IInv

-----------------------------------------------------------------------------
(* The CPU turns to a vector.                                               *)

LEMMA EnterInv ==
    ASSUME IInv, NEW v \in 0..255, NEW line \in (0..15) \cup {-1}, Enter(v, line), call = NoCall,
           line # -1 => v = 32 + line,
           irr' \subseteq Lines, isr' \subseteq 0..15,
           \A l, m \in isr' : l < 8 /\ m < 8 => l = m
    PROVE  IInv'
<1>1. /\ cpu.stub = "none" /\ idt[v] # "none" /\ UNCHANGED <<pc, call, base, idt, reg>>
      /\ cpu' = [stub |-> idt[v], step |-> "push", vector |-> v, line |-> line]
      /\ stack' = stack \o Frame \o (IF v \in ErrorCode /\ line = -1 THEN <<"error">> ELSE <<>>)
  BY DEF Enter
<1>2. pc \in 1..7 /\ pc >= 3 /\ idt = Gates
  <2>1. pc \in 1..7 /\ (pc >= 3 => idt = Gates) /\ (pc < 3 => idt = [w \in 0..255 |-> "none"])
    BY DEF IInv, TypeInv, SetupInv
  <2>2. ~(pc < 3)
    BY <1>1, <2>1, ZenonT(30)
  <2> QED
    BY <2>1, <2>2
<1>3. Gates[v] \in Stubs
  BY GateFacts
<1>4. /\ cpu'.stub = Gates[v] /\ cpu'.step = "push" /\ cpu'.vector = v /\ cpu'.line = line
      /\ cpu' \in Cpus
  BY <1>1, <1>2, <1>3 DEF Cpus, Steps
<1>5. TypeInv'
  BY <1>1, <1>2, <1>4 DEF TypeInv
<1>6. SetupInv'
  BY <1>1, <1>2 DEF IInv, SetupInv
<1>7. CauseInv'
  BY <1>3, <1>4 DEF CauseInv, Stubs
<1>8. ServiceInv'
  BY <1>4, Zenon DEF ServiceInv
<1>9. SavedInv'
  <2>1. reg' = Own /\ stack = <<>> /\ interrupts = Flag /\ Flag \in Words /\ Flag' = Flag
    BY <1>1 DEF IInv, SavedInv, Flag, Words
  <2> DEFINE t == IF v \in ErrorCode /\ line = -1 THEN <<"error">> ELSE <<>>
  <2>2. t \in Seq(Words) /\ Len(t) = Extra'
    <3>1. "error" \in Words
      BY DEF Words
    <3> QED
      BY <1>4, <3>1 DEF Extra
  <2>3. stack' = <<>> \o <<"ss", "rsp", Flag, "cs", "rip">> \o t
    BY <1>1, <2>1 DEF Frame
  <2> HIDE DEF t
  <2>4. FrameOn(stack, 5 + Extra)'
    BY <2>1, <2>2, <2>3, FrameFirst, SMTT(30) DEF FrameOn
  <2> QED
    BY <1>3, <1>4, <2>1, <2>4 DEF SavedInv, Stubs
<1> QED
  BY <1>5, <1>6, <1>7, <1>8, <1>9 DEF IInv

LEMMA TakenInv ==
    ASSUME IInv, Interrupt \/ Spurious \/ Exception
    PROVE  IInv'
<1>1. pc \in 1..7 /\ irr \subseteq Lines /\ isr \subseteq 0..15 /\ Lines \subseteq 0..15
  BY LinesTyped DEF IInv, TypeInv
<1>2. cpu.stub = "none" => \A l \in isr : l >= 8
  BY DEF IInv, CauseInv, ServiceInv
<1>3. interrupts = "on" /\ cpu.stub = "none" => pc = 7 /\ base = <<32, 40>> /\ call = NoCall
  BY <1>1 DEF IInv, SetupInv, SavedInv, Flag
<1>4. CASE Interrupt
  <2>1. PICK l \in Requests : /\ Enter(Vector(l), l)
                              /\ irr' = irr \ {l}
                              /\ isr' = isr \cup {l} \cup (IF l >= 8 THEN {Cascade} ELSE {})
    BY <1>4 DEF Interrupt
  <2>2. l \in irr
    BY DEF Requests, MostUrgent
  <2>3. l \in 0..15 /\ cpu.stub = "none" /\ call = NoCall /\ base = <<32, 40>>
    BY <1>1, <1>3, <1>4, <2>1, <2>2 DEF Interrupt, Enter
  <2>4. Vector(l) = 32 + l /\ Vector(l) \in 0..255
    BY <2>3 DEF Vector
  <2>5. irr' \subseteq Lines /\ isr' \subseteq 0..15
    BY <1>1, <2>1, <2>3 DEF Cascade
  <2>6. \A k, m \in isr' : k < 8 /\ m < 8 => k = m
    BY <1>1, <1>2, <2>1, <2>3, SMTT(30) DEF Cascade
  <2> QED
    BY <2>1, <2>3, <2>4, <2>5, <2>6, EnterInv, Zenon
<1>5. CASE Spurious
  <2>1. PICK l \in Requests : /\ Enter(IF l >= 8 THEN base[2] + 7 ELSE base[1] + 7, -1)
                              /\ irr' = irr \ {l}
                              /\ isr' = IF l >= 8 THEN isr \cup {Cascade} ELSE isr
    BY <1>5 DEF Spurious
  <2>2. cpu.stub = "none" /\ call = NoCall /\ base = <<32, 40>>
    BY <1>3, <1>5, <2>1 DEF Spurious, Enter
  <2>3. PICK v \in 0..255 : Enter(v, -1)
    BY <2>1, <2>2
  <2>4. irr' \subseteq Lines /\ isr' \subseteq 0..15
    <3>1. isr' = isr \cup {2} \/ isr' = isr
      <4>1. CASE l >= 8
        BY <2>1, <4>1 DEF Cascade
      <4>2. CASE ~(l >= 8)
        BY <2>1, <4>2, Zenon
      <4> QED
        BY <4>1, <4>2
    <3>2. ASSUME NEW m \in isr' PROVE m \in 0..15
      <4>1. m \in isr \/ m = 2
        BY <3>1, <3>2
      <4>2. CASE m \in isr
        BY <1>1, <4>2
      <4>3. CASE m = 2
        BY <4>3
      <4> QED
        BY <4>1, <4>2, <4>3
    <3>3. irr' \subseteq Lines
      BY <1>1, <2>1, Zenon
    <3> QED
      BY <3>2, <3>3
  <2>5. \A k, m \in isr' : k < 8 /\ m < 8 => k = m
    BY <1>1, <1>2, <2>1, <2>2 DEF Cascade
  <2> QED
    BY <2>2, <2>3, <2>4, <2>5, EnterInv, SMTT(30)
<1>6. CASE Exception
  <2>1. PICK v \in Exceptions : call = NoCall /\ Enter(v, -1) /\ UNCHANGED <<irr, isr>>
    BY <1>6 DEF Exception
  <2>2. v \in 0..255 /\ cpu.stub = "none"
    BY <2>1, LinesTyped DEF Enter
  <2>3. /\ irr' \subseteq Lines /\ isr' \subseteq 0..15
        /\ \A k, m \in isr' : k < 8 /\ m < 8 => k = m
    BY <1>1, <1>2, <2>1, <2>2
  <2> QED
    BY <2>1, <2>2, <2>3, EnterInv, Zenon
<1> QED
  BY <1>4, <1>5, <1>6

-----------------------------------------------------------------------------
(* The stubs.                                                               *)

\* The fields of cpu when only the step changes.
LEMMA StepFields ==
    ASSUME cpu \in Cpus, NEW step \in Steps, cpu' = [cpu EXCEPT !.step = step]
    PROVE  /\ cpu' \in Cpus /\ cpu'.step = step
           /\ cpu'.stub = cpu.stub /\ cpu'.vector = cpu.vector /\ cpu'.line = cpu.line
  BY DEF Cpus

\* A step of a stub that leaves pic.c and kmain alone.
LEMMA StubStep ==
    ASSUME IInv, cpu.stub # "none", NEW step \in Steps, cpu' = [cpu EXCEPT !.step = step],
           UNCHANGED picVars, cpu.stub \in Stubs, step \notin {"none", "lost"},
           cpu.stub = "page_fault_isr" => step \in {"push", "handle", "report", "halt"},
           step \in {"report", "halt"} => cpu.stub = "page_fault_isr",
           isr' \subseteq 0..15
    PROVE  /\ TypeInv' /\ SetupInv' /\ CauseInv' /\ Flag' = Flag /\ Extra' = Extra
           /\ cpu'.step = step /\ cpu'.stub = cpu.stub
<1>1. /\ cpu \in Cpus /\ cpu' \in Cpus /\ cpu'.step = step
      /\ cpu'.stub = cpu.stub /\ cpu'.vector = cpu.vector /\ cpu'.line = cpu.line
  BY StepFields DEF IInv, TypeInv
<1>2. TypeInv'
  BY <1>1 DEF IInv, TypeInv, picVars
<1>3. SetupInv'
  BY <1>1 DEF IInv, SetupInv, picVars
<1>4. CauseInv'
  BY <1>1 DEF IInv, CauseInv, Stubs
<1>5. Flag' = Flag /\ Extra' = Extra
  BY <1>1 DEF Flag, Extra, picVars
<1> QED
  BY <1>1, <1>2, <1>3, <1>4, <1>5

\* The registers of interrupted code go on the stack in the order of Pushed.
LEMMA PushInv ==
    ASSUME IInv, Push
    PROVE  IInv'
<1>1. cpu.step = "push" /\ cpu.stub \in Stubs
  BY DEF Push, IInv, TypeInv, CauseInv, Cpus
<1>2. /\ cpu' = [cpu EXCEPT !.step = "handle"] /\ UNCHANGED picVars
      /\ UNCHANGED <<isr, reg>>
      /\ stack' = stack \o [i \in 1..Len(PushedBy(cpu.stub)) |-> reg[PushedBy(cpu.stub)[i]]]
  BY DEF Push
<1>3. isr \subseteq 0..15 /\ reg = Own /\ FrameOn(stack, 5 + Extra) /\ Extra \in {0, 1}
  BY <1>1 DEF IInv, TypeInv, SavedInv, Extra
<1>4. /\ TypeInv' /\ SetupInv' /\ CauseInv' /\ Flag' = Flag /\ Extra' = Extra
      /\ cpu'.step = "handle" /\ cpu'.stub = cpu.stub
  BY <1>1, <1>2, <1>3, StubStep DEF Stubs, Steps
<1>5. ServiceInv'
  BY <1>1, <1>2, <1>4 DEF IInv, ServiceInv
<1>6. ASSUME cpu.stub # "page_fault_isr" PROVE SavedOn(stack, Extra)' /\ reg'["rbx"] = "rbx"
  <2> DEFINE p == [i \in 1..14 |-> Pushed[i]]
  <2>1. \A i \in 1..14 : Pushed[i] \in Registers /\ Pushed[i] \in Words
    BY DEF Pushed, Registers, CallerSaved, Words
  <2>2. Len(Pushed) = 14
    BY DEF Pushed
  <2>3. \A i \in 1..14 : reg[Pushed[i]] = Pushed[i]
    BY <1>3, <2>1 DEF Own
  <2>4. stack' = stack \o [i \in 1..14 |-> reg[Pushed[i]]]
    BY <1>2, <1>6, <2>2, Zenon DEF PushedBy
  <2>5. stack' = stack \o p
    BY <2>3, <2>4, Zenon
  <2>6. p \in Seq(Words) /\ Len(p) = 14 /\ \A i \in 1..14 : p[i] = Pushed[i]
    BY <2>1
  <2> HIDE DEF p
  <2>7. stack \in Seq(Words) /\ Len(stack) = 5 + Extra
        /\ stack[3] = Flag /\ stack[4] = "cs" /\ stack[5] = "rip"
    BY <1>3 DEF FrameOn
  <2>8. /\ stack \o p \in Seq(Words) /\ Len(stack \o p) = Len(stack) + Len(p)
        /\ \A i \in 1..(Len(stack) + Len(p)) :
              (stack \o p)[i] = IF i <= Len(stack) THEN stack[i] ELSE p[i - Len(stack)]
    BY <2>6, <2>7, ConcatProperties, ZenonT(30)
  <2>9. stack' \in Seq(Words) /\ Len(stack') = 19 + Extra
        /\ stack'[3] = Flag /\ stack'[4] = "cs" /\ stack'[5] = "rip"
    BY <1>3, <2>5, <2>6, <2>7, <2>8
  <2>10. \A i \in 1..14 : stack'[5 + Extra + i] = Pushed[i]
    <3> SUFFICES ASSUME NEW i \in 1..14 PROVE stack'[5 + Extra + i] = Pushed[i]
      OBVIOUS
    <3> DEFINE k == 5 + Extra + i
    <3>1. k \in 1..(Len(stack) + Len(p)) /\ ~(k <= Len(stack)) /\ k - Len(stack) = i
      BY <1>3, <2>6, <2>7
    <3> HIDE DEF k
    <3>2. (stack \o p)[k] = p[k - Len(stack)]
      BY <2>8, <3>1
    <3>3. stack'[k] = Pushed[i]
      BY <2>5, <2>6, <3>1, <3>2, SMTT(30)
    <3> QED
      BY <3>3 DEF k
  <2>11. reg'["rbx"] = "rbx"
    BY <1>2, <1>3 DEF Own, Registers
  <2> QED
    BY <1>4, <2>9, <2>10, <2>11 DEF SavedOn, FrameOn
<1>7. SavedInv'
  BY <1>1, <1>4, <1>6 DEF SavedInv, Stubs
<1> QED
  BY <1>4, <1>5, <1>7 DEF IInv

\* The handler spoils the registers the calling convention lets it spoil.
LEMMA HandleInv ==
    ASSUME IInv, Handle
    PROVE  IInv'
<1>1. cpu.step = "handle" /\ cpu.stub \in Stubs /\ cpu.stub # "page_fault_isr"
  BY DEF Handle, IInv, TypeInv, CauseInv, Cpus
<1>2. /\ cpu' = [cpu EXCEPT !.step = "eoi"] /\ UNCHANGED picVars /\ UNCHANGED <<isr, stack>>
      /\ reg' = [r \in Registers |-> IF r \in CallerSaved THEN "junk" ELSE reg[r]]
  BY DEF Handle, AfterHandler
<1>3. isr \subseteq 0..15 /\ SavedOn(stack, Extra) /\ reg["rbx"] = "rbx"
  BY <1>1 DEF IInv, TypeInv, SavedInv
<1>4. /\ TypeInv' /\ SetupInv' /\ CauseInv' /\ Flag' = Flag /\ Extra' = Extra
      /\ cpu'.step = "eoi" /\ cpu'.stub = cpu.stub
  BY <1>1, <1>2, <1>3, StubStep DEF Stubs, Steps
<1>5. ServiceInv'
  BY <1>1, <1>2, <1>4 DEF IInv, ServiceInv
<1>6. reg'["rbx"] = "rbx"
  BY <1>2, <1>3 DEF Registers, CallerSaved
<1>7. SavedOn(stack, Extra)'
  BY <1>2, <1>3, <1>4 DEF SavedOn, FrameOn
<1>8. SavedInv'
  BY <1>1, <1>4, <1>6, <1>7 DEF SavedInv, Stubs
<1> QED
  BY <1>4, <1>5, <1>8 DEF IInv

\* The one line of the first controller that is in service is acknowledged.
LEMMA EoiInv ==
    ASSUME IInv, pic_send_eoi
    PROVE  IInv'
<1>1. cpu.step = "eoi" /\ cpu.stub \in Stubs /\ cpu.stub # "page_fault_isr"
  BY DEF pic_send_eoi, IInv, TypeInv, CauseInv, Cpus
<1>2. /\ cpu' = [cpu EXCEPT !.step = "pop"] /\ UNCHANGED picVars /\ UNCHANGED <<reg, stack>>
      /\ isr' \subseteq isr \ MostUrgent({l \in isr : l < 8})
  BY DEF pic_send_eoi
<1>3. isr \subseteq 0..15 /\ SavedOn(stack, Extra) /\ reg["rbx"] = "rbx"
  BY <1>1 DEF IInv, TypeInv, SavedInv
<1>4. isr' \subseteq 0..15
  BY <1>2, <1>3, Zenon
<1>5. /\ TypeInv' /\ SetupInv' /\ CauseInv' /\ Flag' = Flag /\ Extra' = Extra
      /\ cpu'.step = "pop" /\ cpu'.stub = cpu.stub
  BY <1>1, <1>2, <1>4, StubStep DEF Stubs, Steps
<1>6. ASSUME NEW l \in isr' PROVE l >= 8
  <2>1. l \in isr /\ l \in 0..15 /\ l \notin MostUrgent({m \in isr : m < 8})
    BY <1>2, <1>3, <1>6
  <2>2. \A m \in isr : l < 8 /\ m < 8 => l = m
    BY <1>1, <2>1 DEF IInv, ServiceInv
  <2>3. l < 8 => l \in MostUrgent({m \in isr : m < 8})
    BY <2>1, <2>2 DEF MostUrgent, Rank, Cascade
  <2> QED
    BY <2>1, <2>3
<1>7. ServiceInv'
  BY <1>5, <1>6 DEF ServiceInv
<1>8. SavedOn(stack, Extra)'
  BY <1>2, <1>3, <1>5 DEF SavedOn, FrameOn
<1>9. SavedInv'
  BY <1>1, <1>2, <1>3, <1>5, <1>8 DEF SavedInv, Stubs
<1> QED
  BY <1>5, <1>7, <1>9 DEF IInv

\* page_fault_handler does not return.
LEMMA FaultInv ==
    ASSUME IInv, FaultClear \/ FaultReport
    PROVE  IInv'
<1>1. cpu.stub = "page_fault_isr"
  BY DEF FaultClear, FaultReport, IInv, CauseInv
<1>2. PICK step \in {"report", "halt"} : cpu' = [cpu EXCEPT !.step = step]
  BY DEF FaultClear, FaultReport
<1>3. UNCHANGED picVars /\ UNCHANGED <<isr, reg, stack>> /\ isr \subseteq 0..15
  BY DEF FaultClear, FaultReport, IInv, TypeInv
<1>4. TypeInv' /\ SetupInv' /\ CauseInv' /\ cpu'.step = step /\ cpu'.stub = "page_fault_isr"
  BY <1>1, <1>2, <1>3, StubStep DEF Stubs, Steps
<1>5. SavedInv' /\ ServiceInv'
  BY <1>4 DEF SavedInv, ServiceInv
<1> QED
  BY <1>4, <1>5 DEF IInv

\* The pops give every register its value back, and iretq finds the frame
\* unless an error code lies above it.
LEMMA PopInv ==
    ASSUME IInv, Pop
    PROVE  IInv'
<1> DEFINE n == Len(stack)
           rest == SubSeq(stack, 1, n - 14)
           top == SubSeq(rest, Len(rest) - 4, Len(rest))
<1>1. cpu.step = "pop" /\ cpu.stub \in Stubs /\ cpu.stub # "page_fault_isr"
      /\ cpu.stub = Gates[cpu.vector] /\ cpu.vector \in 0..255 /\ cpu \in Cpus
  BY DEF Pop, IInv, TypeInv, CauseInv, Cpus
<1>2. cpu.vector # 14
  BY <1>1, GateFacts
<1>3. isr \subseteq 0..15 /\ SavedOn(stack, Extra) /\ reg["rbx"] = "rbx" /\ Extra \in {0, 1}
  BY <1>1 DEF IInv, TypeInv, SavedInv, Extra
<1>4. /\ UNCHANGED picVars /\ UNCHANGED isr
      /\ stack' = SubSeq(rest, 1, Len(rest) - 5)
      /\ IF top[4] = "cs" /\ top[5] = "rip"
         THEN cpu' = NoStub /\ interrupts' = top[3]
         ELSE cpu' = [cpu EXCEPT !.stub = "lost", !.step = "lost"] /\ UNCHANGED interrupts
      /\ reg' = [r \in Registers |->
                    IF \E i \in DOMAIN Popped : Popped[i] = r
                    THEN stack[n + 1 - (CHOOSE i \in DOMAIN Popped : Popped[i] = r)]
                    ELSE reg[r]]
  <2>1. Len(Popped) = 14
    BY DEF Popped
  <2> QED
    BY <2>1, Zenon DEF Pop
<1>5. n = 19 + Extra /\ stack \in Seq(Words) /\ stack[3] = Flag /\ stack[4] = "cs" /\ stack[5] = "rip"
      /\ \A i \in 1..14 : stack[5 + Extra + i] = Pushed[i]
  BY <1>3 DEF SavedOn, FrameOn
<1>6. Len(rest) = 5 + Extra /\ \A i \in 1..(5 + Extra) : rest[i] = stack[i] /\ rest[i] \in Words
  <2>1. \A i \in 1..(n - 14) : stack[i] \in Words
    BY <1>3, <1>5
  <2>2. /\ Len(rest) = IF 1 <= n - 14 THEN n - 14 - 1 + 1 ELSE 0
        /\ \A i \in 1..(n - 14 - 1 + 1) : rest[i] = stack[1 + i - 1]
    BY <1>3, <1>5, <2>1, SubSeqProperties
  <2>3. n - 14 = 5 + Extra /\ Len(rest) = 5 + Extra
    <3>1. n \in Nat /\ n - 14 = 5 + Extra /\ 1 <= n - 14 /\ n - 14 - 1 + 1 = n - 14
      BY <1>3, <1>5
    <3> QED
      BY <2>2, <3>1
  <2>4. ASSUME NEW i \in 1..(5 + Extra) PROVE rest[i] = stack[i] /\ rest[i] \in Words
    <3>1. i \in 1..(n - 14) /\ i \in 1..(n - 14 - 1 + 1) /\ 1 + i - 1 = i
      BY <1>3, <1>5, <2>4
    <3> QED
      BY <2>1, <2>2, <3>1
  <2> QED
    BY <2>3, <2>4
<1> HIDE DEF rest
<1>7. \A j \in 1..5 : top[j] = stack[Extra + j]
  <2>1. \A i \in (Len(rest) - 4)..Len(rest) : rest[i] \in Words
    BY <1>3, <1>6
  <2>2. \A j \in 1..(Len(rest) - (Len(rest) - 4) + 1) : top[j] = rest[Len(rest) - 4 + j - 1]
    BY <1>3, <1>6, <2>1, SubSeqProperties
  <2> QED
    BY <1>3, <1>6, <2>2
<1> HIDE DEF top
<1>8. reg' = Own
  <2>1. ASSUME NEW r \in Registers PROVE reg'[r] = r
    <3>1. CASE r = "rbx"
      <4>1. \A i \in 1..14 : Popped[i] # "rbx"
        BY DEF Popped
      <4> QED
        BY <1>3, <1>4, <3>1, <4>1, PopOrder
    <3>2. CASE r # "rbx"
      <4>1. PICK i \in 1..14 : /\ Popped[i] = r
                               /\ i = CHOOSE k \in DOMAIN Popped : Popped[k] = r
        BY <3>2, PopOrder
      <4>2. reg'[r] = stack[n + 1 - i]
        BY <1>4, <4>1, PopOrder, Zenon
      <4>3. n + 1 - i = 5 + Extra + (15 - i) /\ 15 - i \in 1..14
        BY <1>3, <1>5
      <4> QED
        BY <1>5, <4>1, <4>2, <4>3, PopOrder, ZenonT(30)
    <3> QED
      BY <3>1, <3>2
  <2> QED
    BY <1>4, <2>1, ZenonT(30) DEF Own
<1>9. ServiceInv'
  <2>1. \A l \in isr : l \in 0..15 /\ l >= 8
    BY <1>1, <1>3 DEF IInv, ServiceInv
  <2>2. \A l \in isr : ~(l < 8)
    BY <2>1
  <2> QED
    BY <1>4, <2>1, <2>2 DEF ServiceInv
<1>10. CASE Extra = 0
  <2>1. cpu' = [stub |-> "none", step |-> "none", vector |-> 0, line |-> -1] /\ interrupts' = Flag
    BY <1>4, <1>5, <1>7, <1>10 DEF NoStub
  <2>2. stack' = <<>>
    BY <1>4, <1>6, <1>10, SubSeqEmpty
  <2>3. cpu'.stub = "none" /\ cpu'.step = "none" /\ cpu'.line = -1 /\ cpu' \in Cpus
    BY <2>1 DEF Cpus, Steps
  <2>4. TypeInv' /\ SetupInv'
    BY <1>4, <2>3 DEF IInv, TypeInv, SetupInv, picVars
  <2>5. CauseInv'
    BY <2>3 DEF CauseInv, Stubs
  <2>6. Flag' = Flag
    BY <1>4 DEF Flag, picVars
  <2>7. SavedInv'
    BY <1>8, <2>1, <2>2, <2>3, <2>6 DEF SavedInv
  <2> QED
    BY <1>9, <2>4, <2>5, <2>7 DEF IInv
<1>11. CASE Extra = 1
  <2>1. cpu' = [cpu EXCEPT !.stub = "lost", !.step = "lost"]
    BY <1>4, <1>5, <1>7, <1>11
  <2>2. /\ cpu'.stub = "lost" /\ cpu'.step = "lost" /\ cpu' \in Cpus
        /\ cpu'.vector = cpu.vector /\ cpu'.line = cpu.line
    BY <1>1, <2>1, ZenonT(30) DEF Cpus, Steps
  <2>3. cpu.line = -1 /\ cpu.vector \in ErrorCode \ {14}
    BY <1>2, <1>11 DEF Extra
  <2>4. TypeInv' /\ SetupInv'
    BY <1>1, <1>4, <2>2 DEF IInv, TypeInv, SetupInv, picVars, Stubs
  <2>5. CauseInv' /\ SavedInv'
    BY <2>2, <2>3 DEF CauseInv, SavedInv, Stubs
  <2> QED
    BY <1>9, <2>4, <2>5 DEF IInv
<1> QED
  BY <1>3, <1>10, <1>11

-----------------------------------------------------------------------------
(* The theorems.                                                            *)

\* The inductive invariant: what kmain has set up when a vector can be taken,
\* and what stack, registers and controllers hold at every step of a stub.
THEOREM InterruptInvariant == Spec => []IInv
<1>1. IInv /\ [Next]_vars => IInv'
  BY BootInv, OutsideInv, TakenInv, PushInv, HandleInv, EoiInv, PopInv, FaultInv DEF Next, Stub
<1> QED
  BY <1>1, InitInv, PTL DEF Spec

\* Whatever lines devices raise, each runs the stub that idt_init chose for it
\* and never the one of an exception.
THEOREM StubsStayRight == Spec => []RightStub
<1>1. ASSUME IInv, cpu.line # -1, cpu.stub # "lost" PROVE RightStub
  <2>1. cpu.line \in 0..15 /\ cpu.vector = 32 + cpu.line /\ cpu.stub = Gates[cpu.vector]
    BY <1>1 DEF IInv, TypeInv, CauseInv, Cpus
  <2>2. cpu.vector \in 32..47
    BY <2>1
  <2>3. CASE cpu.line = 0
    BY <2>1, <2>2, <2>3, GateFacts DEF RightStub
  <2>4. CASE cpu.line = 1
    BY <2>1, <2>2, <2>4, GateFacts DEF RightStub
  <2>5. CASE cpu.line \notin {0, 1}
    <3>1. cpu.vector \in 0..255 \ {14, 32, 33}
      BY <2>1, <2>2, <2>5
    <3>2. cpu.stub = "generic_isr"
      BY <2>1, <3>1, GateFacts
    <3> QED
      BY <2>2, <2>5, <3>2 DEF RightStub
  <2> QED
    BY <2>3, <2>4, <2>5
<1>2. IInv => RightStub
  BY <1>1 DEF RightStub
<1> QED
  BY <1>2, InterruptInvariant, PTL

\* A stub gives the code it interrupted its registers, its stack and its
\* interrupt flag back, unless it is generic_isr on a vector with an error code.
THEOREM CodeStaysUndisturbed == Spec => []CodeUndisturbed
<1>1. ASSUME IInv PROVE CodeUndisturbed
  <2>1. pc \in 1..7
    BY <1>1 DEF IInv, TypeInv
  <2>2. (\E i \in 1..(pc - 1) : kmain[i] = "sti") <=> pc = 7
    BY <2>1, Kmain
  <2>3. Flag = "on" <=> pc = 7
    BY DEF Flag
  <2> QED
    BY <1>1, <2>2, <2>3 DEF IInv, CauseInv, SavedInv, CodeUndisturbed
<1> QED
  BY <1>1, InterruptInvariant, PTL

\* generic_handler, keyboard_handler and the timer acknowledge whatever the
\* first controller has in service, spurious requests and exceptions included.
\* Nothing is said of the second one, whose lines generic_handler leaves in
\* service.
THEOREM ServiceIsEnded == Spec => []NothingInService
<1>1. IInv => NothingInService
  BY DEF IInv, CauseInv, ServiceInv, NothingInService
<1> QED
  BY <1>1, InterruptInvariant, PTL

\* pic_send_eoi never finds pic_lock taken, because the code that takes it
\* runs before the sti of kmain.
THEOREM HandlersDoNotWait == Spec => []HandlersNeverSpin
<1>1. IInv => HandlersNeverSpin
  BY DEF IInv, SetupInv, CauseInv, HandlersNeverSpin
<1> QED
  BY <1>1, InterruptInvariant, PTL

\* Ticks and keys are never held up by other lines: what remains of
\* TicksAreHandled is that the CPU goes on.
THEOREM DevicesAreServedFirst == Spec => []DevicesComeFirst
<1>1. IInv => DevicesComeFirst
  <2> SUFFICES ASSUME IInv, kmain[pc] = "tasks", cpu.stub = "none" PROVE DevicesComeFirst
    BY DEF DevicesComeFirst
  <2>1. pc = 7
    BY Kmain DEF IInv, TypeInv
  <2>2. /\ base = <<32, 40>> /\ idt = Gates /\ interrupts = "on"
        /\ \A l \in isr : l >= 8
        /\ irr \subseteq 0..15 /\ isr \subseteq 0..15
    BY <2>1, LinesTyped DEF IInv, TypeInv, SetupInv, CauseInv, SavedInv, ServiceInv, Flag
  <2>3. idt[Vector(0)] = "timer_isr" /\ idt[Vector(1)] = "keyboard_isr"
    BY <2>2, GateFacts DEF Vector
  <2>4. /\ Rank(0) = 0 /\ Rank(1) = 16
        /\ \A l \in 2..15 : Rank(l) > 16 /\ Rank(l) \in Int
    BY DEF Rank, Cascade
  <2>5. \A s \in isr : s \in 2..15
    BY <2>2
  <2>6. ASSUME NEW d \in {0, 1}, d \in irr \ mask, d = 1 => 0 \notin irr \ mask
        PROVE  Requests = {d}
    <3> DEFINE R == {l \in irr \ mask : /\ l >= 8 => Cascade \notin mask
                                        /\ \A s \in isr : s < 8 \/ l >= 8 => Rank(l) < Rank(s)}
    <3>1. d \in R
      BY <2>4, <2>5, <2>6
    <3>2. \A l \in R : l # d => Rank(d) < Rank(l) /\ Rank(l) \in Int
      <4> SUFFICES ASSUME NEW l \in R, l # d PROVE Rank(d) < Rank(l) /\ Rank(l) \in Int
        OBVIOUS
      <4>1. l \in 0..15 /\ l \in irr \ mask
        BY <2>2
      <4>2. l = 1 \/ l \in 2..15
        BY <2>6, <4>1
      <4>3. l = 1 => d = 0
        BY <2>6
      <4> QED
        BY <2>4, <4>2, <4>3
    <3>3. Rank(d) \in Int
      BY <2>4
    <3>4. Requests = MostUrgent(R)
      BY Zenon DEF Requests
    <3> HIDE DEF R
    <3>5. \A l \in R : Rank(d) <= Rank(l) /\ (l # d => ~(Rank(l) <= Rank(d)))
      BY <3>2, <3>3
    <3> QED
      BY <3>1, <3>4, <3>5, Zenon DEF MostUrgent
  <2> QED
    BY <2>2, <2>3, <2>6 DEF DevicesComeFirst
<1> QED
  BY <1>1, InterruptInvariant, PTL

-----------------------------------------------------------------------------
(* The other machine code of the kernel, switch_to: module ContextSwitch,    *)
(* for every set of tasks, every set of register values and every frame of   *)
(* schedule().  Its variables have nothing to do with the ones above.        *)

CONSTANTS Tasks, Values, CallFrame
VARIABLES context, memory, regs, rsp, rip, current_task, kept

CS == INSTANCE ContextSwitch WITH reg <- regs

\* The assumptions of ContextSwitch.
SwitchAssumptions ==
    /\ Tasks \subseteq Nat \ {0}
    /\ 0 \in Values /\ Values \subseteq Nat
    /\ CallFrame \in Nat /\ CallFrame % 8 = 0

\* Until a task is switched from, every context is as task_create filled it in
\* and the task that runs is on the stack it started with.
FreshInv ==
    /\ context = [t \in Tasks |-> CS!NewContext(t)]
    /\ kept = [t \in Tasks |-> <<>>]
    /\ CS!Running => rsp = CS!Top(current_task) - CS!Frame

\* The inductive invariant.  switch_to jumps to the code selector, which is no
\* task's code: once a task has been switched from, no task runs.
SwitchInv ==
    /\ current_task \in Tasks \cup {0}
    /\ regs \in [CS!SavedRegs -> Values]
    /\ CS!Running => FreshInv
    /\ current_task = 0 => FreshInv
    /\ CS!RegistersSaved

\* Where the registers go, written out.
LEMMA SavedWhere ==
    /\ \A r \in CS!SavedRegs : /\ CS!SaveAt[r] = CS!PushedAt[r]
                               /\ CS!SaveAt[r] \in {0, 8, 16, 24, 32, 40}
                               /\ CS!SaveAt[r] \in CS!Offsets
    /\ \A q, r \in CS!SavedRegs : CS!SaveAt[q] = CS!SaveAt[r] => q = r
<1>1. /\ CS!SaveAt = CS!PushedAt
      /\ CS!SaveAt["r15"] = 0 /\ CS!SaveAt["r14"] = 8 /\ CS!SaveAt["r13"] = 16
      /\ CS!SaveAt["r12"] = 24 /\ CS!SaveAt["rbx"] = 32 /\ CS!SaveAt["rbp"] = 40
  BY DEF CS!SaveAt, CS!PushedAt
<1>2. {0, 8, 16, 24, 32, 40} \subseteq CS!Offsets
  <2>1. /\ 0 = 8 * 0 /\ 8 = 8 * 1 /\ 16 = 8 * 2 /\ 24 = 8 * 3 /\ 32 = 8 * 4 /\ 40 = 8 * 5
        /\ {0, 1, 2, 3, 4, 5} \subseteq 0..20
    OBVIOUS
  <2> QED
    BY <2>1 DEF CS!Offsets
<1>3. \A r \in CS!SavedRegs : CS!SaveAt[r] \in {0, 8, 16, 24, 32, 40}
  BY <1>1, ZenonT(30) DEF CS!SavedRegs
<1>4. \A q, r \in CS!SavedRegs : CS!SaveAt[q] = CS!SaveAt[r] => q = r
  BY <1>1 DEF CS!SavedRegs
<1> QED
  BY <1>1, <1>2, <1>3, <1>4, Zenon

\* The words that switch_to pushes lie on the stack of the task that it leaves.
LEMMA PushesFit ==
    ASSUME SwitchAssumptions, NEW t \in Tasks, NEW r \in CS!SavedRegs
    PROVE  CS!Top(t) - CS!Frame - CallFrame - CS!Frame + CS!PushedAt[r] \in CS!Memory
<1>1. PICK k \in 0..5 : CS!PushedAt[r] = 8 * k
  <2>1. CS!PushedAt[r] \in {0, 8, 16, 24, 32, 40}
    BY SavedWhere, Zenon
  <2>2. /\ 0 = 8 * 0 /\ 8 = 8 * 1 /\ 16 = 8 * 2 /\ 24 = 8 * 3 /\ 32 = 8 * 4 /\ 40 = 8 * 5
        /\ {0, 1, 2, 3, 4, 5} \subseteq 0..5
    OBVIOUS
  <2> QED
    BY <2>1, <2>2
<1>2. PICK c \in Nat : CallFrame = 8 * c
  <2>1. CallFrame \in Nat /\ CallFrame % 8 = 0
    BY DEF SwitchAssumptions
  <2>2. CallFrame = 8 * (CallFrame \div 8) /\ CallFrame \div 8 \in Nat
    BY <2>1
  <2> QED
    BY <2>2
<1>3. (2 * CS!Frame + CallFrame) \div 8 = 12 + c
  BY <1>2 DEF CS!Frame
<1>4. t \in Nat
  BY DEF SwitchAssumptions
<1>5. CS!Top(t) - CS!Frame - CallFrame - CS!Frame + CS!PushedAt[r] = CS!Top(t) - 8 * (12 + c - k)
  BY <1>1, <1>2, <1>4 DEF CS!Top, CS!Frame
<1>6. 12 + c - k \in 1..(12 + c)
  BY <1>1, <1>2
<1>7. CS!Top(t) - 8 * (12 + c - k) \in CS!StackWords(t)
  BY <1>3, <1>6, Zenon DEF CS!StackWords
<1> QED
  BY <1>5, <1>7 DEF CS!Memory

\* A new context: the stack of the task at 152, its code at 128, and the code
\* selector at 136, where switch_to looks for the code.
LEMMA NewContextIs ==
    ASSUME NEW t \in Tasks
    PROVE  /\ CS!NewContext(t)[CS!Field.rsp] = CS!Top(t) - CS!Frame
           /\ CS!NewContext(t)[CS!Field.rip] = CS!Entry(t)
           /\ CS!NewContext(t)[CS!RipAt] = CS!KernelCS
<1>1. CS!Field.rsp = 152 /\ CS!Field.rip = 128 /\ CS!Field.cs = 136 /\ CS!RipAt = 136
  BY DEF CS!Field, CS!RipAt
<1>2. 152 \in CS!Offsets /\ 128 \in CS!Offsets /\ 136 \in CS!Offsets
  <2>1. 152 = 8 * 19 /\ 128 = 8 * 16 /\ 136 = 8 * 17 /\ {16, 17, 19} \subseteq 0..20
    OBVIOUS
  <2> QED
    BY <2>1 DEF CS!Offsets
<1>3. CS!NewContext(t)[152] = CS!Top(t) - CS!Frame
  BY <1>1, <1>2 DEF CS!NewContext
<1>4. CS!NewContext(t)[128] = CS!Entry(t)
  BY <1>1, <1>2 DEF CS!NewContext
<1>5. CS!NewContext(t)[136] = CS!KernelCS
  BY <1>1, <1>2 DEF CS!NewContext
<1> QED
  BY <1>1, <1>3, <1>4, <1>5, Zenon

\* No task's code is where the code selector points.
LEMMA SelectorIsNoEntry ==
    ASSUME SwitchAssumptions, NEW t \in Tasks
    PROVE  t # 0 /\ CS!KernelCS # CS!Entry(t)
  BY DEF SwitchAssumptions, CS!KernelCS, CS!Entry

\* What switch_to saves.
LEMMA SwitchSaves ==
    ASSUME SwitchAssumptions, SwitchInv, NEW t \in Tasks, CS!switch_to(t)
    PROVE  CS!RegistersSaved'
<1> DEFINE c == current_task
           sp == rsp - CallFrame - CS!Frame
<1>1. FreshInv /\ CS!Running /\ c \in Tasks
  BY Zenon DEF SwitchInv, CS!switch_to, CS!Running, CS!NULL
<1>2. sp = CS!Top(c) - CS!Frame - CallFrame - CS!Frame
  BY <1>1 DEF FreshInv
<1>3. kept' = [kept EXCEPT ![c] = regs]
  BY Zenon DEF CS!switch_to
<1>4. \A u \in Tasks : kept'[u] # <<>> => u = c
  BY <1>1, <1>3 DEF FreshInv
<1>5. kept'[c] = regs
  BY <1>1, <1>3 DEF FreshInv
<1>6. context'[c] = [o \in CS!Offsets |->
                        CASE \E r \in CS!SavedRegs : o = CS!SaveAt[r] ->
                                regs[CHOOSE r \in CS!SavedRegs : o = CS!SaveAt[r]]
                          [] o = CS!RspAt -> sp
                          [] OTHER -> context[c][o]]
  BY <1>1, Zenon DEF FreshInv, CS!switch_to
<1>7. memory' = [w \in CS!Memory |->
                    IF \E r \in CS!SavedRegs : w = sp + CS!PushedAt[r]
                    THEN regs[CHOOSE r \in CS!SavedRegs : w = sp + CS!PushedAt[r]]
                    ELSE memory[w]]
  BY Zenon DEF CS!switch_to
<1> HIDE DEF sp
<1>8. context'[c][CS!RspAt] = sp
  <2>1. CS!RspAt \in CS!Offsets
    <3>1. CS!RspAt = 8 * 11 /\ 11 \in 0..20
      BY DEF CS!RspAt
    <3> QED
      BY <3>1, Zenon DEF CS!Offsets
  <2>2. \A r \in CS!SavedRegs : CS!RspAt # CS!SaveAt[r]
    BY SavedWhere DEF CS!RspAt
  <2> QED
    BY <1>6, <2>1, <2>2, Zenon
<1>9. ASSUME NEW r \in CS!SavedRegs
      PROVE  /\ context'[c][CS!SaveAt[r]] = regs[r]
             /\ memory'[sp + CS!PushedAt[r]] = regs[r]
  <2>1. (CHOOSE q \in CS!SavedRegs : CS!SaveAt[r] = CS!SaveAt[q]) = r
    BY SavedWhere, Zenon
  <2>2. context'[c][CS!SaveAt[r]] = regs[r]
    <3>1. CS!SaveAt[r] \in CS!Offsets /\ \E q \in CS!SavedRegs : CS!SaveAt[r] = CS!SaveAt[q]
      BY SavedWhere
    <3>2. CS!SaveAt[r] # CS!RspAt
      BY SavedWhere DEF CS!RspAt
    <3> HIDE DEF c
    <3> QED
      BY <1>6, <2>1, <3>1, <3>2, ZenonT(30)
  <2>3. sp \in Int
    <3>1. current_task \in Nat /\ CallFrame \in Nat
      BY <1>1 DEF SwitchAssumptions
    <3> QED
      BY <1>2, <3>1 DEF CS!Top, CS!Frame
  <2>4. \A q \in CS!SavedRegs : sp + CS!PushedAt[r] = sp + CS!PushedAt[q] => q = r
    <3> SUFFICES ASSUME NEW q \in CS!SavedRegs, sp + CS!PushedAt[r] = sp + CS!PushedAt[q]
                 PROVE  q = r
      OBVIOUS
    <3>1. CS!PushedAt[q] \in Int /\ CS!PushedAt[r] \in Int
      BY SavedWhere
    <3>2. CS!PushedAt[r] = CS!PushedAt[q]
      BY <2>3, <3>1
    <3>3. CS!SaveAt[r] = CS!SaveAt[q]
      BY <3>2, SavedWhere
    <3> QED
      BY <3>3, SavedWhere, Zenon
  <2>5. (CHOOSE q \in CS!SavedRegs : sp + CS!PushedAt[r] = sp + CS!PushedAt[q]) = r
    BY <2>4, Zenon
  <2>6. sp + CS!PushedAt[r] \in CS!Memory
    BY <1>1, <1>2, PushesFit
  <2>7. memory'[sp + CS!PushedAt[r]] = regs[r]
    BY <1>7, <2>5, <2>6, Zenon
  <2> QED
    BY <2>2, <2>7
<1> HIDE DEF c
<1> QED
  BY <1>4, <1>5, <1>8, <1>9, Zenon DEF CS!RegistersSaved

\* Every step of the tasks and of switch_to keeps the invariant.
LEMMA SwitchStepInv ==
    ASSUME SwitchAssumptions, SwitchInv, [CS!Next]_(CS!vars)
    PROVE  SwitchInv'
<1>1. ASSUME NEW t \in Tasks, CS!FirstTask(t) PROVE SwitchInv'
  <2>1. FreshInv /\ current_task' = t
    BY <1>1, Zenon DEF SwitchInv, CS!FirstTask, CS!NULL
  <2>2. rsp' = CS!Top(t) - CS!Frame
    BY <1>1, <2>1, NewContextIs, Zenon DEF FreshInv, CS!FirstTask
  <2>3. context' = context /\ kept' = kept /\ memory' = memory /\ regs' = regs
    BY <1>1, Zenon DEF CS!FirstTask
  <2>4. FreshInv'
    BY <2>1, <2>2, <2>3, Zenon DEF FreshInv
  <2>5. CS!RegistersSaved'
    BY <2>3, Zenon DEF SwitchInv, CS!RegistersSaved
  <2> QED
    BY <2>1, <2>3, <2>4, <2>5, Zenon DEF SwitchInv
<1>2. ASSUME NEW t \in Tasks, CS!switch_to(t) PROVE SwitchInv'
  <2>1. FreshInv
    BY <1>2, Zenon DEF SwitchInv, CS!switch_to
  <2>2. rip' = CS!KernelCS /\ current_task' = t
    BY <1>2, <2>1, NewContextIs, Zenon DEF FreshInv, CS!switch_to
  <2>3. ~CS!Running' /\ current_task' # 0
    BY <2>2, SelectorIsNoEntry, Zenon DEF CS!Running
  <2>4. regs' \in [CS!SavedRegs -> Values]
    BY <1>2, Zenon DEF CS!switch_to
  <2> QED
    BY <1>2, <2>2, <2>3, <2>4, SwitchSaves, Zenon DEF SwitchInv
<1>3. ASSUME NEW r \in CS!SavedRegs, NEW v \in Values, CS!Work(r, v) PROVE SwitchInv'
  <2>1. regs' \in [CS!SavedRegs -> Values]
    BY <1>3 DEF SwitchInv, CS!Work
  <2>2. /\ context' = context /\ kept' = kept /\ memory' = memory
        /\ rsp' = rsp /\ rip' = rip /\ current_task' = current_task
    BY <1>3, Zenon DEF CS!Work
  <2>3. (FreshInv' <=> FreshInv) /\ (CS!Running' <=> CS!Running)
    BY <2>2, Zenon DEF FreshInv, CS!Running
  <2>4. CS!RegistersSaved'
    BY <2>2, Zenon DEF SwitchInv, CS!RegistersSaved
  <2> QED
    BY <2>1, <2>2, <2>3, <2>4, Zenon DEF SwitchInv
<1>4. CASE UNCHANGED CS!vars
  BY <1>4, Zenon DEF SwitchInv, FreshInv, CS!Running, CS!RegistersSaved, CS!vars
<1> QED
  BY <1>1, <1>2, <1>3, <1>4, Zenon DEF CS!Next

\* switch_to saves the callee-saved registers of the task it leaves twice, in
\* the task's context and on its stack, each in a slot of its own.
THEOREM SwitchSavesRegisters ==
    ASSUME SwitchAssumptions
    PROVE  CS!Spec => []CS!RegistersSaved
<1>1. CS!Init => SwitchInv
  <2> SUFFICES ASSUME CS!Init PROVE SwitchInv
    OBVIOUS
  <2>1. current_task = 0 /\ ~CS!Running
    BY Zenon DEF CS!Init, CS!Running, CS!NULL
  <2>2. regs \in [CS!SavedRegs -> Values]
    BY DEF CS!Init, SwitchAssumptions
  <2>3. FreshInv
    BY <2>1, Zenon DEF CS!Init, FreshInv
  <2>4. CS!RegistersSaved
    BY <2>3 DEF FreshInv, CS!RegistersSaved
  <2> QED
    BY <2>1, <2>2, <2>3, <2>4, Zenon DEF SwitchInv
<1>2. SwitchInv /\ [CS!Next]_(CS!vars) => SwitchInv'
  BY SwitchStepInv
<1>3. SwitchInv => CS!RegistersSaved
  BY DEF SwitchInv
<1> QED
  BY <1>1, <1>2, <1>3, PTL DEF CS!Spec
=============================================================================

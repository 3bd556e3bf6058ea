----------------------------- MODULE Interrupts -----------------------------
(***************************************************************************)
(* How an IRQ reaches its handler and leaves it again:                     *)
(* kernel/interrupts/interrupt_vectors.asm (IRQ_STUB), irq.c and pic.c,    *)
(* over the two 8259 interrupt controllers, which are external.            *)
(*                                                                         *)
(* end_of_interrupt sends a non-specific EOI to both controllers whatever  *)
(* the IRQ was, and the stub then sends another: every one of them retires *)
(* the highest-priority request in service, whoever it belongs to.  What   *)
(* makes that right is that the gates (FLAGS, 0x8E) keep interrupts off    *)
(* from the acceptance to the iret.                                        *)
(***************************************************************************)
EXTENDS Integers, Sequences, FiniteSets, FiniteSetsExt

CONSTANTS
  Irqs,   \* the interrupt lines in use
  Bytes,  \* values a thread keeps in AL
  EOI     \* the EOI command byte, 0x20, that the stub loads into AL

ASSUME IrqsAssumption == Irqs \subseteq (0 .. 15) \ {2}
ASSUME EOIAssumption == EOI \notin Bytes

CASCADE == 2   \* the master's line the slave is wired to

VARIABLES
  irr,      \* requests latched by the controllers
  isr,      \* requests in service
  iflag,    \* the processor's interrupt flag
  al,       \* the low byte of EAX
  stack,    \* the stub frames on the kernel stack, innermost first
  handlers, \* irq_handlers: the lines that have a handler
  boot      \* how far kmain has come in KmainOrder

vars == <<irr, isr, iflag, al, stack, handlers, boot>>

Master == 0 .. 7
Slave == 8 .. 15
Lines(i) == IF i \in Slave THEN {i, CASCADE} ELSE {i}

\* Mutant of Retire: PIC2_COMMAND is not the slave's command port.
RetireMasterOnly(chip) ==
  LET inService == isr \cap Master
  IN  isr \ (IF chip = Slave \/ inService = {} THEN {} ELSE {Min(inService)})

\* What a chip does with a non-specific EOI (external): it drops its
\* highest-priority bit in service, and does nothing when it has none.
Retire(chip) ==
  LET inService == isr \cap chip
  IN  isr \ (IF inService = {} THEN {} ELSE {Min(inService)})

\* The order in which the controllers serve lines (external): the slave's
\* come at the cascade line's place.
Rank(i) == IF i \in Slave THEN <<CASCADE, i>> ELSE <<i, 0>>
Before(i, j) == \/ Rank(i)[1] < Rank(j)[1]
                \/ Rank(i)[1] = Rank(j)[1] /\ Rank(i)[2] < Rank(j)[2]

\* The line the controllers present to the processor (external): the first
\* pending one, if nothing at its level or above is in service.
Presented(i) ==
  /\ i \in irr
  /\ \A j \in irr \ {i} : Before(i, j)
  /\ \A j \in isr \ {CASCADE} : Before(i, j)
  /\ CASCADE \in isr => i < CASCADE

Init ==
  /\ irr = {}
  /\ isr = {}
  /\ iflag = FALSE
  /\ al \in Bytes
  /\ stack = << >>
  /\ handlers = {}
  /\ boot = 1

Thread == stack = << >>

-----------------------------------------------------------------------------
(***************************************************************************)
(* The devices and the interrupted thread.                                 *)
(***************************************************************************)
\* External.  A line rises again only after its last request was handled:
\* the timer's period and the disk's work are longer than a handler.  The 8259
\* would take an edge during the handler too; one from a device that is always
\* faster than its handler keeps the lines behind it waiting for ever.
Raise(i) ==
  /\ i \notin irr
  /\ \A f \in 1 .. Len(stack) : stack[f].irq # i
  /\ irr' = irr \cup {i}
  /\ UNCHANGED <<isr, iflag, al, stack, handlers, boot>>

\* kmain sets the timer's and the keyboard's handlers, turns interrupts on,
\* and sets the disk's handler (irq_set_handler) while they are on.
STI == -1
\* Mutant of KmainOrder: interrupts go on before the first handler is set.
KmainOrderStiFirst == <<STI, 0, 1, 14>>

KmainOrder == <<0, 1, STI, 14>>
Booted == boot > Len(KmainOrder)

Kmain ==
  /\ Thread
  /\ ~Booted
  /\ LET step == KmainOrder[boot]
     IN  /\ iflag' = (iflag \/ step = STI)
         /\ handlers' = handlers \cup ({step} \cap Irqs)
  /\ boot' = boot + 1
  /\ UNCHANGED <<irr, isr, al, stack>>

\* The thread computes in AL, and turns interrupts on (kmain, the system
\* calls that wait) and off (switch_to_user_mode).
Compute(b) ==
  /\ Thread
  /\ al' = b
  /\ UNCHANGED <<irr, isr, iflag, stack, handlers, boot>>

Sti ==
  /\ Thread
  /\ Booted
  /\ ~iflag
  /\ iflag' = TRUE
  /\ UNCHANGED <<irr, isr, al, stack, handlers, boot>>

Cli ==
  /\ Thread
  /\ Booted
  /\ iflag
  /\ iflag' = FALSE
  /\ UNCHANGED <<irr, isr, al, stack, handlers, boot>>

-----------------------------------------------------------------------------
(***************************************************************************)
(* The stub.                                                               *)
(***************************************************************************)
At(pc) == stack # << >> /\ Head(stack).pc = pc
Irq == Head(stack).irq
Goto(pc) == stack' = <<[Head(stack) EXCEPT !.pc = pc]>> \o Tail(stack)

\* Mutant of GateFlag: trap gates (0x8F), which leave interrupts on.
GateFlagTrap == TRUE

\* What an interrupt gate leaves the flag at: off.
GateFlag == FALSE

\* The processor takes an interrupt through its gate; the stub's cli changes
\* nothing more and pushad saves the registers.
Accept(i) ==
  /\ iflag
  /\ Presented(i)
  /\ irr' = irr \ {i}
  /\ isr' = isr \cup Lines(i)
  /\ iflag' = GateFlag
  /\ stack' = <<[irq |-> i, pc |-> "common", al |-> al]>> \o stack
  /\ UNCHANGED <<al, handlers, boot>>

\* irq_common_c: the handler, or the default message; both use AL as they like.
Common(b) ==
  /\ At("common")
  /\ al' = b
  /\ Goto("eoiSlave")
  /\ UNCHANGED <<irr, isr, iflag, handlers, boot>>

\* end_of_interrupt.
EoiSlave ==
  /\ At("eoiSlave")
  /\ isr' = Retire(Slave)
  /\ Goto("eoiMaster")
  /\ UNCHANGED <<irr, iflag, al, handlers, boot>>

EoiMaster ==
  /\ At("eoiMaster")
  /\ isr' = Retire(Master)
  /\ Goto("popad")
  /\ UNCHANGED <<irr, iflag, al, handlers, boot>>

\* popad restores the saved registers; then the EOI byte goes into AL.
Popad ==
  /\ At("popad")
  /\ al' = Head(stack).al
  /\ Goto("load")
  /\ UNCHANGED <<irr, isr, iflag, handlers, boot>>

LoadEoi ==
  /\ At("load")
  /\ al' = EOI
  /\ Goto("out")
  /\ UNCHANGED <<irr, isr, iflag, handlers, boot>>

OutMaster ==
  /\ At("out")
  /\ isr' = Retire(Master)
  /\ Goto(IF Irq >= 8 THEN "outSlave" ELSE "iret")
  /\ UNCHANGED <<irr, iflag, al, handlers, boot>>

OutSlave ==
  /\ At("outSlave")
  /\ isr' = Retire(Slave)
  /\ Goto("iret")
  /\ UNCHANGED <<irr, iflag, al, handlers, boot>>

Iret ==
  /\ At("iret")
  /\ stack' = Tail(stack)
  /\ iflag' = TRUE
  /\ UNCHANGED <<irr, isr, al, handlers, boot>>

Stub ==
  \/ \E b \in Bytes : Common(b)
  \/ EoiSlave \/ EoiMaster \/ Popad \/ LoadEoi \/ OutMaster \/ OutSlave \/ Iret

Next ==
  \/ \E i \in Irqs : Raise(i) \/ Accept(i)
  \/ \E b \in Bytes : Compute(b)
  \/ Kmain \/ Sti \/ Cli \/ Stub

Spec == Init /\ [][Next]_vars

\* The stub runs to its end, and the processor takes an interrupt that it
\* finds presented again and again.  Nothing is assumed of the thread.
Fairness == WF_vars(Stub) /\ \A i \in Irqs : SF_vars(Accept(i))

FairSpec == Spec /\ Fairness

-----------------------------------------------------------------------------
TypeOK ==
  /\ irr \subseteq Irqs
  /\ isr \subseteq Irqs \cup {CASCADE}
  /\ iflag \in BOOLEAN
  /\ al \in Bytes \cup {EOI}
  /\ \A f \in 1 .. Len(stack) :
       stack[f] \in [irq : Irqs, al : Bytes \cup {EOI},
                     pc : {"common", "eoiSlave", "eoiMaster", "popad",
                           "load", "out", "outSlave", "iret"}]
  /\ handlers \subseteq Irqs
  /\ boot \in 1 .. Len(KmainOrder) + 1

\* No EOI retires a request that belongs to another handler, although four
\* are sent without naming a line.
EoiRetiresOwn ==
  [][\A i \in isr \ isr' : stack # << >> /\ i \in Lines(Irq)]_vars

\* When the thread runs nothing is left in service: a level left behind would
\* shut out every line of lower priority for good.
NothingLeftInService == stack = << >> => isr = {}

\* The default handler prints itoa(10, irq_num), the arguments swapped: for
\* line 0 that divides by zero.  The timer never gets to it.
TimerNeverDefault == At("common") /\ Irq = 0 => 0 \in handlers

\* Every interrupt a device raises gets to irq_common_c, also one raised while
\* another is handled, unless lines of higher priority keep it out for good:
\* i's turn is a moment when the thread has interrupts on and none is pending.
Turn(i) == Thread /\ iflag /\ \A j \in irr \ {i} : Before(i, j)
EveryIrqHandled ==
  \A i \in Irqs : []<>Turn(i) => (i \in irr ~> At("common") /\ Irq = i)

\* An interrupt is invisible to the code it interrupts: AL is what it was
\* ("save registers" at interrupt_vectors.asm:10).
RegistersPreserved ==
  [][stack # << >> /\ stack' = Tail(stack) => al' = Head(stack).al]_vars
=============================================================================

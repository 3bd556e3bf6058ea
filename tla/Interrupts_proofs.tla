-------------------------- MODULE Interrupts_proofs --------------------------
(***************************************************************************)
(* Proofs about Interrupts, for every set of lines in use: an EOI retires  *)
(* the request of the handler that sends it, no level is left in service   *)
(* when the thread goes on, and line 0 never gets to the default handler.  *)
(*                                                                         *)
(* NothingLeftInService speaks of the thread.  What makes it inductive is  *)
(* how much of the request is in service at each statement of the stub     *)
(* (Serving), and that the stub is never interrupted (OneStub): with two   *)
(* stubs on the stack an EOI would retire whichever line comes first.      *)
(*                                                                         *)
(* Then proofs about AtaDisk, the driver whose reads the interrupt of line *)
(* 14 may or may not be waited for.                                        *)
(***************************************************************************)
EXTENDS Interrupts, AtaDisk, TLAPS

Statements == {"common", "eoiSlave", "eoiMaster", "popad", "load", "out",
               "outSlave", "iret"}
Frame == [irq : Irqs, al : Bytes \cup {EOI}, pc : Statements]

OneStub == stack # << >> => ~iflag /\ \E f \in Frame : stack = <<f>>

\* The levels in service while the stub is at a statement.
Served(f) == CASE f.pc \in {"common", "eoiSlave"} -> Lines(f.irq)
               [] f.pc = "eoiMaster" -> Lines(f.irq) \cap Master
               [] OTHER -> {}

Serving == isr = IF Thread THEN {} ELSE Served(Head(stack))

\* kmain sets the timer's handler before any interrupt can come.
TimerSet ==
  /\ boot > 1 => {0} \cap Irqs \subseteq handlers
  /\ iflag \/ ~Thread => boot > 3

StateInv ==
  /\ irr \subseteq Irqs /\ handlers \subseteq Irqs
  /\ iflag \in BOOLEAN /\ al \in Bytes \cup {EOI}
  /\ boot \in 1 .. 5

StubInv == StateInv /\ OneStub /\ Serving /\ TimerSet

-----------------------------------------------------------------------------
\* The request of a single line is the first of what a chip has in service.
LEMMA RetireAlone ==
  ASSUME NEW chip, NEW i \in Int, isr \cap chip = {i}
  PROVE  Retire(chip) = isr \ {i}
<1>1. Min({i}) = i
  BY DEF Min
<1> QED BY <1>1 DEF Retire

LEMMA RetireNone ==
  ASSUME NEW chip, isr \cap chip = {}
  PROVE  Retire(chip) = isr
BY DEF Retire

\* Each line belongs to one chip, and the cascade to the master.
LEMMA LinesByChip ==
  ASSUME NEW i \in Irqs
  PROVE  /\ i \in Master => Lines(i) = {i} /\ Lines(i) \cap Slave = {}
                            /\ Lines(i) \cap Master = {i}
         /\ i \notin Master => Lines(i) = {i, CASCADE}
                               /\ Lines(i) \cap Slave = {i}
                               /\ Lines(i) \cap Master = {CASCADE}
BY IrqsAssumption DEF Lines, Master, Slave, CASCADE

LEMMA InitStub == Init => StubInv
<1> SUFFICES ASSUME Init PROVE StubInv
  OBVIOUS
<1>1. StateInv
  <2>1. iflag \in BOOLEAN
    BY DEF Init
  <2> QED BY <2>1 DEF Init, StateInv
<1>2. OneStub /\ Serving
  BY DEF Init, OneStub, Serving, Thread
<1>3. TimerSet
  BY DEF Init, TimerSet, Thread
<1> QED BY <1>1, <1>2, <1>3 DEF StubInv

\* The steps of the devices and of the thread, which finds nothing in service.
LEMMA ThreadSteps ==
  ASSUME StubInv,
         \/ \E i \in Irqs : Raise(i)
         \/ \E b \in Bytes : Compute(b)
         \/ Kmain \/ Sti \/ Cli \/ UNCHANGED vars
  PROVE  StubInv'
<1> USE DEF StubInv, StateInv, OneStub, Serving, TimerSet, Thread
<1>1. CASE \E i \in Irqs : Raise(i)
  BY <1>1 DEF Raise
<1>2. CASE \E b \in Bytes : Compute(b)
  BY <1>2 DEF Compute
<1>3. CASE Kmain
  BY <1>3 DEF Kmain, KmainOrder, Booted, STI
<1>4. CASE Sti \/ Cli
  <2>1. boot > 4
    BY <1>4 DEF Sti, Cli, Booted, KmainOrder
  <2>2. iflag' \in BOOLEAN
    BY <1>4 DEF Sti, Cli
  <2> QED BY <1>4, <2>1, <2>2 DEF Sti, Cli
<1>5. CASE UNCHANGED vars
  BY <1>5 DEF vars
<1> QED BY <1>1, <1>2, <1>3, <1>4, <1>5

\* The gate puts the flag off: the stub starts on an empty stack and alone.
LEMMA AcceptStep ==
  ASSUME StubInv, NEW i \in Irqs, Accept(i)
  PROVE  StubInv'
<1> DEFINE f == [irq |-> i, pc |-> "common", al |-> al]
<1>1. stack = << >> /\ isr = {} /\ iflag
  BY DEF Accept, StubInv, OneStub, Serving, Thread
<1>2. f \in Frame /\ stack' = <<f>>
  <2>1. f \in Frame
    BY DEF StubInv, StateInv, Frame, Statements
  <2>2. stack' = <<f>> \o << >>
    BY <1>1 DEF Accept
  <2> QED BY <2>1, <2>2
<1>3. Serving'
  BY <1>1, <1>2 DEF Accept, Serving, Served, Thread
<1>4. OneStub'
  BY <1>2 DEF Accept, OneStub, GateFlag
<1>5. StateInv' /\ TimerSet'
  BY <1>1, <1>2 DEF Accept, StubInv, StateInv, TimerSet, Thread, GateFlag
<1> QED BY <1>3, <1>4, <1>5 DEF StubInv

\* A statement of the stub that leaves the flag and kmain's state alone keeps
\* StubInv if what it leaves in service is right.
LEMMA StubStep ==
  ASSUME StubInv, NEW q \in Statements, Goto(q),
         NEW f \in Frame, stack = <<f>>,
         isr' = Served([f EXCEPT !.pc = q]), al' \in Bytes \cup {EOI},
         UNCHANGED <<irr, iflag, handlers, boot>>
  PROVE  StubInv'
<1> DEFINE g == [f EXCEPT !.pc = q]
<1>1. g \in Frame /\ stack' = <<g>>
  BY DEF Frame, Goto
<1>2. OneStub'
  BY <1>1 DEF StubInv, OneStub
<1>3. Serving'
  BY <1>1 DEF Serving, Thread
<1>4. StateInv' /\ TimerSet'
  BY <1>1 DEF StubInv, StateInv, TimerSet, Thread
<1> QED BY <1>2, <1>3, <1>4 DEF StubInv

\* An EOI of end_of_interrupt retires the stub's own request on its chip; those
\* the stub sends later find nothing in service.
LEMMA StubSteps ==
  ASSUME StubInv, Stub
  PROVE  StubInv'
<1>1. PICK f \in Frame : stack = <<f>>
  BY DEF Stub, Common, EoiSlave, EoiMaster, Popad, LoadEoi, OutMaster,
         OutSlave, Iret, At, StubInv, OneStub
<1>2. isr = Served(f) /\ f.irq \in Irqs /\ f.al \in Bytes \cup {EOI}
  BY <1>1 DEF StubInv, Serving, Thread, Frame
<1>3. \A q \in Statements : /\ [f EXCEPT !.pc = q].irq = f.irq
                            /\ [f EXCEPT !.pc = q].pc = q
  BY DEF Frame
<1>4. CASE \E b \in Bytes : Common(b)
  <2>1. f.pc = "common"
    BY <1>1, <1>4 DEF Common, At
  <2>2. isr' = Served([f EXCEPT !.pc = "eoiSlave"])
    BY <1>2, <1>3, <1>4, <2>1 DEF Common, Served, Statements
  <2> QED BY <1>1, <1>4, <2>2, StubStep DEF Common, Statements
<1>5. CASE EoiSlave
  <2>1. f.pc = "eoiSlave" /\ isr = Lines(f.irq)
    BY <1>1, <1>2, <1>5 DEF EoiSlave, At, Served
  <2>2. Retire(Slave) = Lines(f.irq) \cap Master
    <3>1. CASE f.irq \in Master
      BY <1>2, <2>1, <3>1, LinesByChip, RetireNone
    <3>2. CASE f.irq \notin Master
      <4>1. isr \cap Slave = {f.irq} /\ f.irq \in Int
        <5>1. isr \cap Slave = {f.irq}
          BY <1>2, <2>1, <3>2, LinesByChip
        <5>2. f.irq \in 0 .. 15
          BY <1>2, IrqsAssumption
        <5> QED BY <5>1, <5>2
      <4>2. Retire(Slave) = isr \ {f.irq}
        BY <4>1, RetireAlone
      <4> QED BY <1>2, <2>1, <3>2, <4>2, LinesByChip, IrqsAssumption
              DEF CASCADE
    <3> QED BY <3>1, <3>2
  <2>3. isr' = Served([f EXCEPT !.pc = "eoiMaster"])
    BY <1>3, <1>5, <2>2 DEF EoiSlave, Served, Statements
  <2> QED BY <1>1, <1>5, <2>3, StubStep
          DEF EoiSlave, Statements, StubInv, StateInv
<1>6. CASE EoiMaster
  <2>1. isr = Lines(f.irq) \cap Master
    BY <1>1, <1>2, <1>6 DEF EoiMaster, At, Served
  <2>2. PICK i \in Int : isr = {i} /\ isr \cap Master = {i}
    <3>1. CASE f.irq \in Master
      BY <1>2, <2>1, <3>1, LinesByChip DEF Master
    <3>2. CASE f.irq \notin Master
      BY <1>2, <2>1, <3>2, LinesByChip DEF CASCADE
    <3> QED BY <3>1, <3>2
  <2>3. Retire(Master) = {}
    BY <2>2, RetireAlone
  <2>4. isr' = Served([f EXCEPT !.pc = "popad"])
    BY <1>3, <1>6, <2>3 DEF EoiMaster, Served, Statements
  <2> QED BY <1>1, <1>6, <2>4, StubStep
          DEF EoiMaster, Statements, StubInv, StateInv
<1>7. CASE Popad \/ LoadEoi
  <2>1. isr' = Served([f EXCEPT !.pc = "load"])
        /\ isr' = Served([f EXCEPT !.pc = "out"])
    BY <1>1, <1>2, <1>3, <1>7 DEF Popad, LoadEoi, At, Served, Statements
  <2>2. al' \in Bytes \cup {EOI}
    BY <1>1, <1>2, <1>7 DEF Popad, LoadEoi
  <2>3. CASE Popad
    BY <1>1, <2>1, <2>2, <2>3, StubStep DEF Popad, Statements
  <2>4. CASE LoadEoi
    BY <1>1, <2>1, <2>2, <2>4, StubStep DEF LoadEoi, Statements
  <2> QED BY <1>7, <2>3, <2>4
<1>8. CASE OutMaster \/ OutSlave
  <2>1. isr = {}
    BY <1>1, <1>2, <1>8 DEF OutMaster, OutSlave, At, Served
  <2>2. isr' = {}
    BY <1>8, <2>1, RetireNone DEF OutMaster, OutSlave
  <2>3. isr' = Served([f EXCEPT !.pc = "outSlave"])
        /\ isr' = Served([f EXCEPT !.pc = "iret"])
    BY <1>3, <2>2 DEF Served, Statements
  <2> QED BY <1>1, <1>8, <2>3, StubStep
          DEF OutMaster, OutSlave, Statements, StubInv, StateInv
<1>9. CASE Iret
  <2>1. isr = {} /\ stack' = << >>
    BY <1>1, <1>2, <1>9 DEF Iret, At, Served
  <2> QED BY <1>1, <1>9, <2>1
          DEF Iret, StubInv, StateInv, OneStub, Serving, TimerSet, Thread
<1> QED BY <1>4, <1>5, <1>6, <1>7, <1>8, <1>9 DEF Stub

LEMMA StubInvariance == Spec => []StubInv
<1>1. StubInv /\ [Next]_vars => StubInv'
  BY ThreadSteps, AcceptStep, StubSteps DEF Next
<1> QED BY <1>1, InitStub, PTL DEF Spec

-----------------------------------------------------------------------------
\* For every set of lines: the types, and one stub frame at most.
THEOREM TypeCorrect == Spec => []TypeOK
<1>1. StubInv => TypeOK
  <2> SUFFICES ASSUME StubInv PROVE TypeOK
    OBVIOUS
  <2>1. stack = << >> \/ \E f \in Frame : stack = <<f>>
    BY DEF StubInv, OneStub
  <2>2. isr \subseteq Irqs \cup {CASCADE}
    BY <2>1 DEF StubInv, Serving, Served, Thread, Lines, Frame
  <2>3. \A n \in 1 .. Len(stack) : stack[n] \in Frame
    BY <2>1
  <2> QED BY <2>2, <2>3
          DEF StubInv, StateInv, TypeOK, KmainOrder, Frame, Statements
<1> QED BY <1>1, StubInvariance, PTL

\* end_of_interrupt and the stub name no line in their EOIs; each retires a
\* level that the interrupt being handled had taken.
THEOREM EoiOwn == Spec => EoiRetiresOwn
<1>1. StubInv /\ [Next]_vars =>
        [\A i \in isr \ isr' : stack # << >> /\ i \in Lines(Irq)]_vars
  <2> SUFFICES ASSUME StubInv, NEW i \in isr
               PROVE  stack # << >> /\ i \in Lines(Irq)
    OBVIOUS
  <2> QED BY DEF StubInv, OneStub, Serving, Served, Thread, Irq
<1> QED BY <1>1, StubInvariance, PTL DEF Spec, EoiRetiresOwn

\* When the interrupted code goes on the controllers hold nothing back.
THEOREM NothingLeft == Spec => []NothingLeftInService
<1>1. StubInv => NothingLeftInService
  BY DEF StubInv, Serving, Thread, NothingLeftInService
<1> QED BY <1>1, StubInvariance, PTL

\* The default handler, which would divide by the line's number, never runs
\* for the timer: kmain enables interrupts only after irq_set_handler(0).
THEOREM TimerHasHandler == Spec => []TimerNeverDefault
<1>1. StubInv => TimerNeverDefault
  <2> SUFFICES ASSUME StubInv, At("common"), Irq = 0 PROVE 0 \in handlers
    BY DEF TimerNeverDefault
  <2>1. PICK f \in Frame : stack = <<f>>
    BY DEF StubInv, OneStub, At
  <2>2. 0 \in Irqs
    BY <2>1 DEF Irq, Frame
  <2> QED BY <2>1, <2>2 DEF StubInv, StateInv, TimerSet, Thread
<1> QED BY <1>1, StubInvariance, PTL

-----------------------------------------------------------------------------
(***************************************************************************)
(* AtaDisk, for every width of the registers, size of a sector and set of  *)
(* sector numbers: ata_read returns the sector it was asked for.           *)
(*                                                                         *)
(* ReadsRequestedSector speaks of the end of a read.  ReadInv says where   *)
(* the drive is at each statement: from the command on it works on the     *)
(* sector in the registers, and while words are read it has data and has   *)
(* handed over as many words as the buffer holds.  The interrupt flag is   *)
(* not part of it: that the flag is stale after the first read, and that   *)
(* the drive's old status may be read, do no harm, because a command takes *)
(* the drive out of the state in which it shows data.                      *)
(***************************************************************************)
Asked == {"command", "waitIrq", "waitBsy", "waitDrq", "data", "done"}
Commanded == {"waitIrq", "waitBsy", "waitDrq"}

AllWords(s) == {<<s, i>> : i \in Nat}

\* The words read so far are the sector's first ones.
WordsInv == buffer = [i \in 1 .. Len(buffer) |-> <<sector, i - 1>>]

ReadInv ==
  /\ lba \in Nat
  /\ buffer \in Seq(AllWords(sector))
  /\ pc \in Asked => regs = Split(SLAVE, lba)
  /\ pc \in Commanded \cup {"data", "done"} => sector = Addressed
  /\ pc \in {"waitReady", "select", "command"} \cup Commanded =>
       buffer = << >>
  /\ pc \in Commanded => offset = 0
  /\ pc = "data" => /\ DRQ /\ WordsInv
                    /\ offset = Len(buffer) /\ offset < WORDS
  /\ pc = "done" => WordsInv /\ Len(buffer) = WORDS

DiskInv == DiskTypeOK /\ ReadInv

-----------------------------------------------------------------------------
(***************************************************************************)
(* Numbers in registers.                                                   *)
(***************************************************************************)
\* Quotient and remainder are the only numbers of their kind.
LEMMA Division ==
  ASSUME NEW m \in Nat \ {0}, NEW q \in Nat, NEW r \in 0 .. m - 1
  PROVE  (m * q + r) \div m = q /\ (m * q + r) % m = r
<1> DEFINE n == m * q + r
           d == n \div m
           e == n % m
<1>1. n \in Nat
  OBVIOUS
<1>2. d \in Nat /\ e \in 0 .. m - 1 /\ n = m * d + e
  BY <1>1
<1>3. m * (q - d) = e - r
  BY <1>2
<1>4. CASE q = d
  BY <1>2, <1>3, <1>4
<1>5. CASE q >= d + 1
  <2>1. m * (q - d) >= m
    BY <1>2, <1>5
  <2> QED BY <1>2, <1>3, <2>1
<1>6. CASE d >= q + 1
  <2>1. m * (d - q) >= m
    BY <1>2, <1>6
  <2>2. m * (d - q) = r - e
    BY <1>2
  <2> QED BY <1>2, <2>1, <2>2
<1> QED BY <1>2, <1>4, <1>5, <1>6

LEMMA Remainder ==
  ASSUME NEW n \in Nat, NEW m \in Nat \ {0}
  PROVE  /\ n \div m \in Nat /\ n % m \in 0 .. m - 1
         /\ n = m * (n \div m) + (n % m)
OBVIOUS

LEMMA Distributes ==
  ASSUME NEW a \in Int, NEW x \in Int, NEW s \in Int
  PROVE  a * (x + s) = a * x + a * s
OBVIOUS

LEMMA Associates ==
  ASSUME NEW a \in Int, NEW b \in Int, NEW p \in Int
  PROVE  a * (b * p) = (a * b) * p
OBVIOUS

LEMMA Product ==
  ASSUME NEW a \in Nat, NEW b \in Nat, NEW p \in Nat, NEW s \in Nat
  PROVE  a * (b * p + s) = (a * b) * p + a * s
<1>1. b * p \in Int /\ a \in Int /\ s \in Int /\ b \in Int /\ p \in Int
  OBVIOUS
<1>2. a * (b * p + s) = a * (b * p) + a * s
  BY <1>1, Distributes
<1>3. a * (b * p) = (a * b) * p
  BY <1>1, Associates
<1> QED BY <1>2, <1>3

LEMMA Positive ==
  ASSUME NEW a \in Nat \ {0}, NEW b \in Nat \ {0}
  PROVE  a * b \in Nat \ {0}
OBVIOUS

\* Dividing twice.
LEMMA DivisionTwice ==
  ASSUME NEW n \in Nat, NEW a \in Nat \ {0}, NEW b \in Nat \ {0}
  PROVE  n \div (a * b) = (n \div a) \div b
<1> DEFINE q == n \div a
           r == n % a
           p == q \div b
           s == q % b
<1>1. q \in Nat /\ r \in 0 .. a - 1 /\ n = a * q + r
  BY Remainder, Zenon
<1>2. p \in Nat /\ s \in 0 .. b - 1 /\ q = b * p + s
  BY <1>1, Remainder
<1> HIDE DEF q, r, p, s
<1>3. n = (a * b) * p + (a * s + r)
  BY <1>1, <1>2, Product
<1>4. a * s <= a * (b - 1)
  BY <1>2
<1>5. a * s + r \in 0 .. a * b - 1 /\ a * b \in Nat \ {0}
  BY <1>1, <1>2, <1>4
<1>6. n \div (a * b) = p
  BY <1>2, <1>3, <1>5, Division
<1> QED BY <1>6 DEF p, q

\* A number below t times b cubed has three digits to the base b and a rest
\* below t.
LEMMA Positional ==
  ASSUME NEW n \in Nat, NEW b \in Nat \ {0}, NEW t \in Nat, n < t * b * b * b
  PROVE  (n % b) + b * (((n \div b) % b) + b * (((n \div (b * b)) % b)
           + b * ((n \div (b * b * b)) % t))) = n
<1>1. PICK q \in Nat : /\ q = n \div b
                       /\ n = b * q + (n % b)
                       /\ n % b \in 0 .. b - 1
  BY Remainder, Zenon
<1>2. PICK p \in Nat : /\ p = q \div b
                       /\ q = b * p + (q % b)
                       /\ q % b \in 0 .. b - 1
  BY Remainder, Zenon
<1>3. PICK o \in Nat : /\ o = p \div b
                       /\ p = b * o + (p % b)
                       /\ p % b \in 0 .. b - 1
  BY Remainder, Zenon
<1>4. PICK c \in Nat \ {0} : c = b * b
  BY Positive
<1>5. PICK d \in Nat \ {0} : d = c * b
  BY Positive
<1>6. n \div c = p
  BY <1>1, <1>2, <1>4, DivisionTwice
<1>7. n \div d = o
  BY <1>3, <1>5, <1>6, DivisionTwice
<1>8. o < t
  <2>1. n = d * o + (n % d) /\ n % d \in 0 .. d - 1
    BY <1>7, Remainder, Zenon
  <2>2. t * b * b * b = d * t
    BY <1>4, <1>5
  <2>3. o >= t => d * o >= d * t
    OBVIOUS
  <2>4. d * o \in Int /\ d * t \in Int
    OBVIOUS
  <2> QED BY <2>1, <2>2, <2>3, <2>4
<1>9. o % t = o
  BY <1>8
<1>10. n = (n % b) + b * q /\ q = (q % b) + b * p /\ p = (p % b) + b * o
  BY <1>1, <1>2, <1>3
<1> QED BY <1>1, <1>4, <1>5, <1>6, <1>7, <1>9, <1>10

\* A sector number of 28 bits goes through the registers unchanged.
LEMMA SplitAddressed ==
  ASSUME NEW n \in Nat, n < TOP * REG * REG * REG, regs = Split(SLAVE, n)
  PROVE  Addressed = Sector(SLAVE, n)
BY DiskAssumption, Positional DEF Split, Addressed

-----------------------------------------------------------------------------
(***************************************************************************)
(* The invariant.                                                          *)
(***************************************************************************)
LEMMA InitDisk == DiskInit => DiskInv
<1> SUFFICES ASSUME DiskInit PROVE DiskInv
  OBVIOUS
<1>1. DiskTypeOK
  <2>1. flag \in BOOLEAN /\ irq14 \in BOOLEAN
    BY DEF DiskInit
  <2> QED BY <2>1, DiskAssumption DEF DiskInit, DiskTypeOK
<1>2. ReadInv
  BY DEF DiskInit, ReadInv, Asked, Commanded
<1> QED BY <1>1, <1>2 DEF DiskInv

LEMMA ReadSteps ==
  ASSUME DiskInv,
         \/ \E n \in Lbas : Call(n)
         \/ WaitReady \/ Select \/ Command \/ WaitIrq \/ WaitBsy \/ WaitDrq
         \/ Return
  PROVE  DiskInv'
<1> USE DiskAssumption DEF DiskInv, DiskTypeOK, ReadInv, Asked, Commanded, DRQ,
                           WordsInv, device
<1>1. CASE \E n \in Lbas : Call(n)
  BY <1>1 DEF Call
<1>2. CASE WaitReady \/ WaitIrq \/ WaitBsy
  BY <1>2 DEF WaitReady, WaitIrq, WaitBsy, Addressed
<1>3. CASE Select
  BY <1>3 DEF Select
<1>4. CASE Command
  BY <1>4 DEF Command, Addressed
<1>5. CASE WaitDrq
  BY <1>5 DEF WaitDrq, Addressed
<1>6. CASE Return
  BY <1>6 DEF Return
<1> QED BY <1>1, <1>2, <1>3, <1>4, <1>5, <1>6

\* A word of the sector follows those in the buffer.
LEMMA NextWord ==
  ASSUME DiskInv, ReadWord
  PROVE  DiskInv'
<1>1. /\ pc = "data" /\ DRQ /\ WordsInv /\ buffer \in Seq(AllWords(sector))
      /\ offset = Len(buffer) /\ offset < WORDS /\ offset \in Nat
      /\ lba \in Nat /\ regs = Split(SLAVE, lba) /\ sector = Addressed
  BY DEF ReadWord, DiskInv, ReadInv, DiskTypeOK, Asked
<1>2. buffer' = Append(buffer, <<sector, offset>>)
  BY <1>1 DEF ReadWord, Word
<1>3. <<sector, offset>> \in AllWords(sector)
  BY <1>1 DEF AllWords
<1>4. buffer' \in Seq(AllWords(sector)) /\ Len(buffer') = offset + 1
  BY <1>1, <1>2, <1>3
<1>5. buffer' = [i \in 1 .. Len(buffer') |-> <<sector, i - 1>>]
  BY <1>1, <1>2, <1>3, <1>4 DEF WordsInv
<1>6. offset' = offset + 1 /\ UNCHANGED <<lba, regs, sector>>
  BY <1>1 DEF ReadWord
<1>7. IF offset + 1 = WORDS THEN drive' = "ready" /\ pc' = "done"
                            ELSE drive' = drive /\ pc' = "data"
  BY <1>1 DEF ReadWord
<1>8. DiskTypeOK'
  BY <1>1, <1>4, <1>6, <1>7, DiskAssumption DEF ReadWord, DiskInv, DiskTypeOK
<1>9. regs' = Split(SLAVE, lba') /\ sector' = Addressed'
  BY <1>1, <1>6 DEF Addressed
<1>10. WordsInv' /\ buffer' \in Seq(AllWords(sector'))
  BY <1>4, <1>5, <1>6 DEF WordsInv
<1>11. ReadInv'
  BY <1>1, <1>4, <1>6, <1>7, <1>9, <1>10, DiskAssumption
     DEF ReadInv, Commanded, DRQ
<1> QED BY <1>8, <1>11 DEF DiskInv

\* The drive is not at work while its data is read.
LEMMA DeviceSteps ==
  ASSUME DiskInv, AtaIrqHandler \/ Drive \/ UNCHANGED disk_vars
  PROVE  DiskInv'
<1> USE DEF DiskInv, DiskTypeOK, ReadInv, Asked, Commanded, DRQ, WordsInv,
            Addressed
<1>1. CASE AtaIrqHandler
  BY <1>1 DEF AtaIrqHandler, device
<1>2. CASE Drive
  BY <1>2 DEF Drive, DriveStarts, DriveDelivers, driver
<1>3. CASE UNCHANGED disk_vars
  BY <1>3 DEF disk_vars, driver, device
<1> QED BY <1>1, <1>2, <1>3

LEMMA DiskInvariance == DiskSpec => []DiskInv
<1>1. DiskInv /\ [DiskNext]_disk_vars => DiskInv'
  BY ReadSteps, NextWord, DeviceSteps DEF DiskNext, AtaRead
<1> QED BY <1>1, InitDisk, PTL DEF DiskSpec

-----------------------------------------------------------------------------
\* The buffer never holds more words than a sector has, nor does the drive
\* hand over more.
THEOREM DiskTypes == DiskSpec => []DiskTypeOK
<1>1. DiskInv => DiskTypeOK
  BY DEF DiskInv
<1> QED BY <1>1, DiskInvariance, PTL

\* ata_read returns the words of the slave's sector it was asked for, in order.
THEOREM SectorRead == DiskSpec => []ReadsRequestedSector
<1>1. DiskInv => ReadsRequestedSector
  <2> SUFFICES ASSUME DiskInv, pc = "done", lba < TOP * REG * REG * REG
               PROVE  buffer = [i \in 1 .. WORDS |->
                                  <<Sector(SLAVE, lba), i - 1>>]
    BY DEF ReadsRequestedSector
  <2>1. sector = Sector(SLAVE, lba)
    BY SplitAddressed DEF DiskInv, ReadInv, Asked
  <2> QED BY <2>1 DEF DiskInv, ReadInv, WordsInv
<1> QED BY <1>1, DiskInvariance, PTL
=============================================================================

------------------------------- MODULE AtaDisk ------------------------------
(***************************************************************************)
(* kernel/disk/disk.c: ata_read and the IRQ 14 handler, with the drives on *)
(* the primary channel, which are external.                                *)
(*                                                                         *)
(* ata_read waits for the interrupt flag ata_irq_invoked, but the line     *)
(* that would reset the flag is commented out: from the second read on the *)
(* driver relies on polling alone, and an interrupt may arrive in any      *)
(* later read.  A drive shows its old status for a moment after a command. *)
(***************************************************************************)
EXTENDS Integers, Sequences

CONSTANTS
  REG,     \* values of an LBA register (256)
  TOP,     \* values of the LBA bits in the drive register (16)
  WORDS,   \* words of a sector (256)
  Lbas     \* the sector numbers asked for

ASSUME DiskAssumption == /\ REG \in Nat \ {0} /\ TOP \in Nat \ {0}
                         /\ WORDS \in Nat \ {0} /\ Lbas \subseteq Nat

VARIABLES
  pc,       \* where ata_read is
  lba,      \* its argument
  buffer,   \* the words it has read
  flag,     \* ata_irq_invoked
  regs,     \* the drive and LBA registers
  drive,    \* the selected drive's state
  sector,   \* the sector the drive is working on
  offset,   \* the words the drive has handed over
  irq14     \* the line's request is pending

driver == <<pc, lba, buffer, flag>>
device == <<regs, drive, sector, offset>>
disk_vars == <<driver, device, irq14>>

\* 0xF0 in the drive register selects the slave, in LBA mode.
SLAVE == "slave"
Sector(d, n) == <<d, n>>
NoSector == Sector("none", 0)
Split(d, n) == [drive |-> d,
                low   |-> n % REG,
                mid   |-> (n \div REG) % REG,
                high  |-> (n \div (REG * REG)) % REG,
                top   |-> (n \div (REG * REG * REG)) % TOP]
Addressed == Sector(regs.drive, regs.low + REG * (regs.mid +
                      REG * (regs.high + REG * regs.top)))

DiskInit ==
  /\ pc = "idle"
  /\ lba = 0
  /\ buffer = << >>
  /\ flag = FALSE
  /\ regs = Split("master", 0)
  /\ drive = "ready"
  /\ sector = NoSector
  /\ offset = 0
  /\ irq14 = FALSE

\* The status register, as far as the driver looks at it.
BSY == drive = "busy"
DRQ == drive = "data"

-----------------------------------------------------------------------------
(***************************************************************************)
(* ata_read.                                                               *)
(***************************************************************************)
Call(n) ==
  /\ pc = "idle"
  /\ lba' = n
  /\ buffer' = << >>
  /\ pc' = "waitReady"
  /\ UNCHANGED <<flag, device, irq14>>

WaitReady ==
  /\ pc = "waitReady"
  /\ ~BSY
  /\ pc' = "select"
  /\ UNCHANGED <<lba, buffer, flag, device, irq14>>

Select ==
  /\ pc = "select"
  /\ regs' = Split(SLAVE, lba)
  /\ pc' = "command"
  /\ UNCHANGED <<lba, buffer, flag, drive, sector, offset, irq14>>

Command ==
  /\ pc = "command"
  /\ drive' = "accepted"
  /\ sector' = Addressed
  /\ offset' = 0
  /\ pc' = "waitIrq"
  /\ UNCHANGED <<lba, buffer, flag, regs, irq14>>

WaitIrq ==
  /\ pc = "waitIrq"
  /\ flag
  /\ pc' = "waitBsy"
  /\ UNCHANGED <<lba, buffer, flag, device, irq14>>

WaitBsy ==
  /\ pc = "waitBsy"
  /\ ~BSY
  /\ pc' = "waitDrq"
  /\ UNCHANGED <<lba, buffer, flag, device, irq14>>

\* Mutant of WaitDrq: the driver reads as soon as BSY is clear.
WaitDrqSkipped ==
  /\ pc = "waitDrq"
  /\ pc' = "data"
  /\ UNCHANGED <<lba, buffer, flag, device, irq14>>

\* There is no test of the error bit: after an error this waits for ever.
WaitDrq ==
  /\ pc = "waitDrq"
  /\ DRQ
  /\ pc' = "data"
  /\ UNCHANGED <<lba, buffer, flag, device, irq14>>

\* The data port gives the drive's next word, and a stale one without DRQ.
Word == IF DRQ THEN <<sector, offset>> ELSE <<NoSector, 0>>

ReadWord ==
  /\ pc = "data"
  /\ buffer' = Append(buffer, Word)
  /\ offset' = IF DRQ THEN offset + 1 ELSE offset
  /\ drive' = IF DRQ /\ offset + 1 = WORDS THEN "ready" ELSE drive
  /\ pc' = IF Len(buffer) + 1 = WORDS THEN "done" ELSE "data"
  /\ UNCHANGED <<lba, flag, regs, sector, irq14>>

Return ==
  /\ pc = "done"
  /\ pc' = "idle"
  /\ UNCHANGED <<lba, buffer, flag, device, irq14>>

AtaRead ==
  \/ WaitReady \/ Select \/ Command \/ WaitIrq \/ WaitBsy \/ WaitDrq
  \/ ReadWord \/ Return

\* Mutant of AtaIrqHandler: the flag is not set.
AtaIrqHandlerSilent ==
  /\ irq14
  /\ irq14' = FALSE
  /\ UNCHANGED <<pc, lba, buffer, flag, device>>

AtaIrqHandler ==
  /\ irq14
  /\ irq14' = FALSE
  /\ flag' = TRUE
  /\ UNCHANGED <<pc, lba, buffer, device>>

-----------------------------------------------------------------------------
(***************************************************************************)
(* The drive (external): the command shows as BSY, then as data or as an   *)
(* error, with the interrupt.                                              *)
(***************************************************************************)
DriveStarts ==
  /\ drive = "accepted"
  /\ drive' = "busy"
  /\ UNCHANGED <<driver, regs, sector, offset, irq14>>

DriveDelivers(outcome) ==
  /\ drive = "busy"
  /\ drive' = outcome
  /\ irq14' = TRUE
  /\ UNCHANGED <<driver, regs, sector, offset>>

Drive == DriveStarts \/ \E outcome \in {"data", "error"} :
                           DriveDelivers(outcome)

DiskNext == AtaRead \/ AtaIrqHandler \/ Drive \/ \E n \in Lbas : Call(n)

DiskSpec == DiskInit /\ [][DiskNext]_disk_vars

\* The driver runs, a drive finishes what it accepted, and interrupts are on
\* wherever the kernel reads the disk.
FairDiskSpec ==
  /\ DiskSpec
  /\ WF_disk_vars(AtaRead) /\ WF_disk_vars(Drive)
  /\ WF_disk_vars(AtaIrqHandler)

-----------------------------------------------------------------------------
Words(s) == {<<s, i>> : i \in 0 .. WORDS - 1}
DiskTypeOK ==
  /\ pc \in {"idle", "waitReady", "select", "command", "waitIrq", "waitBsy",
             "waitDrq", "data", "done"}
  /\ lba \in Lbas \cup {0}
  /\ Len(buffer) <= WORDS
  /\ flag \in BOOLEAN /\ irq14 \in BOOLEAN
  /\ drive \in {"ready", "accepted", "busy", "data", "error"}
  /\ offset \in 0 .. WORDS

\* What ata_read returns is the slave's sector that was asked for, whole and
\* in order, although the wait for the interrupt no longer waits: no word of
\* an earlier sector, none read before the drive had the data, none after an
\* error.  28 bits of the sector number go to the drive.
ReadsRequestedSector ==
  pc = "done" /\ lba < TOP * REG * REG * REG =>
    buffer = [i \in 1 .. WORDS |-> <<Sector(SLAVE, lba), i - 1>>]

\* A read returns, the first one and those that find the flag set, unless the
\* drive reports an error.
ReadReturns == pc = "waitReady" ~> pc = "done" \/ drive = "error"
=============================================================================

--------------------------- MODULE Process_proofs ---------------------------
(***************************************************************************)
(* Proofs about Process, for every width of the tick counter, size of the  *)
(* keyboard buffer and number of programs: the kernel has interrupts on,   *)
(* a program runs on the stack pointer its own exec saved, and the sleep   *)
(* of a system call is the sleep of Sleep.tla, with its length.            *)
(*                                                                         *)
(* ContextIsOwnExec speaks of programs.  On the way there, while one is    *)
(* loaded, its exec frame is on top already (StackInv): that carries the   *)
(* property over the change to user mode, whatever failed before.          *)
(*                                                                         *)
(* SleepLength says something of the end of a sleep only.  What makes it   *)
(* inductive is where the loop is on the way (SleepInv): the counter it    *)
(* read last is the present one, or the one before when a tick has come    *)
(* since, and it has not gone past the deadline.  The proofs about the     *)
(* loop are about Sleep alone, whoever calls it and however long.          *)
(***************************************************************************)
EXTENDS Process, SequenceTheorems, TLAPS

\* Where a character may lead.
After(m) ==
  CASE m \in {"getchar", "input"} -> {m, "user"}
    [] m \in KeyWaits \ {"getchar"} ->
         {m, "prompt", "suspended", "pshell", "search", "squint"}
    [] OTHER -> {m, "command", "selected", "mess"}

ExecOnTop == ctx = Len(kstack) /\ ctx > 0 /\ kstack[ctx] = "exec"

StackInv ==
  /\ kstack \in Seq({"shell", "exec"})
  /\ mode \in Program \cup {"loading", "exiting", "jumping"} => ExecOnTop

KeysInv == keys \in Seq(Keys) /\ latch \in Keys \cup {NoKey}

ThreadInv == KernelHasInterruptsOn /\ StackInv /\ KeysInv

-----------------------------------------------------------------------------
LEMMA AfterKeyModes ==
  ASSUME NEW m \in KeyWaits \cup LineWaits, NEW k \in Keys
  PROVE  AfterKey(m, k) \in After(m)
BY DEF AfterKey, After, KeyWaits, LineWaits, Keys

LEMMA HeadIsKey ==
  ASSUME KeysInv, keys # << >>
  PROVE  Head(keys) \in Keys /\ Tail(keys) \in Seq(Keys)
BY DEF KeysInv

LEMMA InitThread == Init => ThreadInv
<1> SUFFICES ASSUME Init PROVE ThreadInv
  OBVIOUS
<1>1. KernelHasInterruptsOn
  BY DEF Init, KernelHasInterruptsOn
<1>2. StackInv
  BY DEF Init, StackInv, Program
<1>3. KeysInv
  BY DEF Init, KeysInv
<1> QED BY <1>1, <1>2, <1>3 DEF ThreadInv

\* Interrupts go off with the change to a program's flags only.
LEMMA StepFlag == ThreadInv /\ [Next]_vars => KernelHasInterruptsOn'
<1> SUFFICES ASSUME ThreadInv, [Next]_vars PROVE KernelHasInterruptsOn'
  OBVIOUS
<1> USE DEF ThreadInv, KernelHasInterruptsOn
<1>1. CASE Pulse \/ TimerIrq \/ KeyIrq \/ \E k \in Keys : KeyDown(k)
  BY <1>1 DEF Pulse, TimerIrq, KeyIrq, KeyDown, thread
<1>2. CASE ReadKey
  BY <1>2 DEF ReadKey, FlagIn, KeyWaits
<1>3. CASE ConsoleInput
  BY <1>3 DEF ConsoleInput, FlagIn, LineWaits
<1>4. CASE Command
  BY <1>4 DEF Command
<1>5. CASE Exec \/ LoadFails \/ SwitchToUserMode
  BY <1>5 DEF Exec, LoadFails, SwitchToUserMode
<1>6. CASE ShutdownCmd
  BY <1>6 DEF ShutdownCmd
<1>7. CASE SleepLoop
  BY <1>7 DEF SleepLoop, thread
<1>8. CASE Wake
  BY <1>8 DEF Wake, FlagIn
<1>9. CASE TrampolineSti \/ TrampolineJump
  BY <1>9 DEF TrampolineSti, TrampolineJump
<1>10. CASE SyscallGetchar \/ SyscallInput \/ SyscallSleep
  BY <1>10 DEF SyscallGetchar, SyscallInput, SyscallSleep, SyscallWait
<1>11. CASE SyscallExit
  BY <1>11 DEF SyscallExit
<1>12. CASE Panic
  BY <1>12 DEF Panic
<1>13. CASE UNCHANGED vars
  BY <1>13 DEF vars, thread
<1> QED
  BY <1>1, <1>2, <1>3, <1>4, <1>5, <1>6, <1>7, <1>8, <1>9, <1>10, <1>11,
     <1>12, <1>13 DEF Next, KernelStep, ProgramStep

\* No step that stays with a program, or starts or ends one, moves the stack
\* away from its exec's frame.
LEMMA StepStack == ThreadInv /\ [Next]_vars => StackInv'
<1> SUFFICES ASSUME ThreadInv, [Next]_vars PROVE StackInv'
  OBVIOUS
<1> USE DEF ThreadInv, StackInv, ExecOnTop
<1>1. CASE Pulse \/ TimerIrq \/ KeyIrq \/ \E k \in Keys : KeyDown(k)
  BY <1>1 DEF Pulse, TimerIrq, KeyIrq, KeyDown, thread
<1>2. CASE ReadKey
  <2>1. mode' \in After(mode)
    BY <1>2, HeadIsKey, AfterKeyModes DEF ReadKey
  <2> QED BY <1>2, <2>1 DEF ReadKey, After, KeyWaits, Program
<1>3. CASE ConsoleInput
  <2>1. mode' \in After(mode) \cup {mode}
    BY <1>3, HeadIsKey, AfterKeyModes DEF ConsoleInput
  <2> QED BY <1>3, <2>1 DEF ConsoleInput, After, KeyWaits, LineWaits, Program
<1>4. CASE Command
  BY <1>4 DEF Command, Program
<1>5. CASE Exec
  <2>1. /\ kstack' \in Seq({"shell", "exec"})
        /\ Len(kstack') = Len(kstack) + 1
        /\ kstack'[Len(kstack) + 1] = "exec"
    BY <1>5 DEF Exec
  <2> QED BY <1>5, <2>1 DEF Exec
<1>6. CASE LoadFails
  <2>1. Len(kstack) - 1 \in 0 .. Len(kstack)
    BY <1>6 DEF LoadFails
  <2>2. kstack' \in Seq({"shell", "exec"})
    BY <1>6, <2>1, SubSeqProperties DEF LoadFails
  <2> QED BY <1>6, <2>2 DEF LoadFails, Program
<1>7. CASE SwitchToUserMode \/ ShutdownCmd
  BY <1>7 DEF SwitchToUserMode, ShutdownCmd, Program
<1>8. CASE SleepLoop \/ Wake
  BY <1>8 DEF SleepLoop, Wake, thread, Program
<1>9. CASE TrampolineSti
  BY <1>9 DEF TrampolineSti
<1>10. CASE TrampolineJump
  <2>1. SubSeq(kstack, 1, ctx) \in Seq({"shell", "exec"})
    BY <1>10, SubSeqProperties DEF TrampolineJump
  <2>2. kstack' \in Seq({"shell", "exec"})
    BY <1>10, <2>1 DEF TrampolineJump
  <2> QED BY <1>10, <2>2 DEF TrampolineJump, Program
<1>11. CASE SyscallGetchar \/ SyscallInput \/ SyscallSleep \/ SyscallExit
  BY <1>11 DEF SyscallGetchar, SyscallInput, SyscallSleep, SyscallWait,
               SyscallExit, Program
<1>12. CASE Panic
  BY <1>12 DEF Panic, MayFault, Program
<1>13. CASE UNCHANGED vars
  BY <1>13 DEF vars, thread
<1> QED
  BY <1>1, <1>2, <1>3, <1>4, <1>5, <1>6, <1>7, <1>8, <1>9, <1>10, <1>11,
     <1>12, <1>13 DEF Next, KernelStep, ProgramStep

LEMMA StepKeys == ThreadInv /\ [Next]_vars => KeysInv'
<1> SUFFICES ASSUME KeysInv, [Next]_vars PROVE KeysInv'
  BY DEF ThreadInv
<1>1. CASE UNCHANGED keyboard
  BY <1>1 DEF KeysInv, keyboard
<1>2. CASE KeyIrq
  <2>1. Append(keys, latch) \in Seq(Keys)
    BY <1>2 DEF KeyIrq, KeysInv
  <2> QED BY <1>2, <2>1 DEF KeyIrq, KeysInv
<1>3. CASE \E k \in Keys : KeyDown(k)
  BY <1>3 DEF KeyDown, KeysInv
<1>4. CASE ReadKey
  BY <1>4, HeadIsKey DEF ReadKey, KeysInv
<1>5. CASE ConsoleInput
  BY <1>5, HeadIsKey DEF ConsoleInput, KeysInv
<1>6. CASE Pulse \/ TimerIrq \/ Command \/ Exec \/ LoadFails
  BY <1>1, <1>6 DEF Pulse, TimerIrq, Command, Exec, LoadFails, keyboard
<1>7. CASE SwitchToUserMode \/ ShutdownCmd \/ SleepLoop \/ Wake
  BY <1>1, <1>7 DEF SwitchToUserMode, ShutdownCmd, SleepLoop, Wake, keyboard
<1>8. CASE TrampolineSti \/ TrampolineJump \/ ProgramStep
  BY <1>1, <1>8
     DEF TrampolineSti, TrampolineJump, ProgramStep, SyscallGetchar,
         SyscallInput, SyscallSleep, SyscallWait, SyscallExit, Panic, keyboard
<1>9. CASE UNCHANGED vars
  BY <1>1, <1>9 DEF vars
<1> QED
  BY <1>2, <1>3, <1>4, <1>5, <1>6, <1>7, <1>8, <1>9 DEF Next, KernelStep

LEMMA ThreadInvariance == Spec => []ThreadInv
<1>1. ThreadInv /\ [Next]_vars => ThreadInv'
  BY StepFlag, StepStack, StepKeys DEF ThreadInv
<1> QED BY <1>1, InitThread, PTL DEF Spec

-----------------------------------------------------------------------------
\* Every wait of the kernel, of a program's system call and of an exception
\* handler has interrupts on: only user mode, the way out of it and the
\* shutdown have them off (syscall.c, idt.c, user_switch.asm).
THEOREM InterruptsOn == Spec => []KernelHasInterruptsOn
<1>1. ThreadInv => KernelHasInterruptsOn
  BY DEF ThreadInv
<1> QED BY <1>1, ThreadInvariance, PTL

\* SYSCALL_EXIT finds in kernel_ctx.esp the frame of the exec that started
\* this program, after any number of programs that ended, failed to load or
\* crashed.
THEOREM OwnContext == Spec => []ContextIsOwnExec
<1>1. ThreadInv => ContextIsOwnExec
  BY DEF ThreadInv, StackInv, ExecOnTop, ContextIsOwnExec
<1> QED BY <1>1, ThreadInvariance, PTL

-----------------------------------------------------------------------------
\* Ticks from the start to the loop's last look at the counter.
Looked == IF polled THEN elapsed ELSE elapsed - 1

\* The counter is elapsed ticks past the start.
TicksInv ==
  ticks = IF start + elapsed < W THEN start + elapsed ELSE start + elapsed - W

\* A deadline within the counter's range is not missed; one that wrapped lies
\* below the start, and the first test ends the loop.
LoopInv ==
  /\ TicksInv
  /\ dest = IF S!Wrapped THEN start + asked - W ELSE start + asked
  /\ Looked >= 0
  /\ now = start + Looked
  /\ S!Wrapped => spc = "test" /\ Looked = 0
  /\ ~S!Wrapped => Looked <= asked
  /\ spc = "read" => Looked < asked

SleepInv ==
  /\ S!TypeOK
  /\ S!Asleep => LoopInv
  /\ S!SleepLength

-----------------------------------------------------------------------------
\* The counter after a tick.
LEMMA NextTick ==
  ASSUME NEW t \in 0 .. W - 1
  PROVE  S!Ticked(t) = IF t + 1 < W THEN t + 1 ELSE 0
<1>1. CASE t + 1 < W
  BY <1>1, WAssumption DEF S!Ticked
<1>2. CASE t + 1 = W
  BY <1>2, WAssumption DEF S!Ticked
<1> QED BY <1>1, <1>2, WAssumption

\* The deadline, which may be past the end of the counter.
LEMMA Deadline ==
  ASSUME NEW t \in 0 .. W - 1, NEW n \in 0 .. W - 1
  PROVE  (t + n) % W = IF t + n < W THEN t + n ELSE t + n - W
<1>1. CASE t + n < W
  BY <1>1, WAssumption
<1>2. CASE t + n >= W
  <2>1. t + n - W \in 0 .. W - 1
    BY <1>2, WAssumption
  <2>2. t + n = 1 * W + (t + n - W)
    BY WAssumption
  <2> QED BY <1>2, <2>1, <2>2, WAssumption
<1> QED BY <1>1, <1>2, WAssumption

LEMMA SleepInit == S!Init => SleepInv
BY WAssumption
   DEF S!Init, SleepInv, S!TypeOK, S!Asleep, S!SleepLength, S!MaxElapsed

\* Every step of the loop, of a caller and of the timer keeps the invariant.
LEMMA SleepStep == SleepInv /\ [S!Next]_S!vars => SleepInv'
<1> SUFFICES ASSUME SleepInv, [S!Next]_S!vars PROVE SleepInv'
  OBVIOUS
<1> USE WAssumption
<1>1. CASE S!PitUptimeHandler
  <2>1. ticks' = IF ticks + 1 < W THEN ticks + 1 ELSE 0
    BY <1>1, NextTick DEF S!PitUptimeHandler, SleepInv, S!TypeOK
  <2>2. S!TypeOK'
    <3>1. elapsed' \in 0 .. S!MaxElapsed
      BY <1>1 DEF S!PitUptimeHandler, SleepInv, S!TypeOK, S!MaxElapsed
    <3>2. ticks' \in 0 .. W - 1
      BY <2>1 DEF SleepInv, S!TypeOK
    <3> QED BY <1>1, <3>1, <3>2
            DEF S!PitUptimeHandler, SleepInv, S!TypeOK, S!MaxElapsed
  <2>3. S!SleepLength'
    BY <1>1
       DEF S!PitUptimeHandler, SleepInv, S!SleepLength, S!Wrapped, S!Asleep
  <2>4. ASSUME S!Asleep' PROVE LoopInv'
    <3>1. S!Asleep /\ polled /\ LoopInv
      BY <1>1, <2>4 DEF S!PitUptimeHandler, S!Asleep, SleepInv
    <3>2. elapsed <= asked \/ (S!Wrapped /\ elapsed = 0)
      BY <3>1 DEF LoopInv, Looked
    <3>3. elapsed' = elapsed + 1 /\ polled' = FALSE
      BY <1>1, <3>1, <3>2
         DEF S!PitUptimeHandler, SleepInv, S!TypeOK, S!MaxElapsed
    <3>4. Looked' = Looked
      BY <3>1, <3>3 DEF Looked, SleepInv, S!TypeOK
    <3>5. TicksInv'
      BY <1>1, <2>1, <3>1, <3>2, <3>3
         DEF S!PitUptimeHandler, LoopInv, TicksInv, S!Wrapped, SleepInv,
             S!TypeOK
    <3> QED BY <1>1, <3>1, <3>4, <3>5
            DEF S!PitUptimeHandler, LoopInv, S!Wrapped
  <2> QED BY <2>2, <2>3, <2>4 DEF SleepInv
<1>2. ASSUME NEW n \in 0 .. W - 1, S!Call(n) PROVE SleepInv'
  <2>1. dest' = IF ticks + n < W THEN ticks + n ELSE ticks + n - W
    BY <1>2, Deadline DEF S!Call, SleepInv, S!TypeOK
  <2>2. S!TypeOK'
    BY <1>2, <2>1 DEF S!Call, SleepInv, S!TypeOK, S!MaxElapsed
  <2>3. LoopInv'
    BY <1>2, <2>1
       DEF S!Call, SleepInv, S!TypeOK, LoopInv, TicksInv, Looked, S!Wrapped
  <2> QED BY <1>2, <2>2, <2>3 DEF S!Call, SleepInv, S!SleepLength
<1>3. CASE S!Test
  <2>1. LoopInv /\ S!TypeOK
    BY <1>3 DEF S!Test, SleepInv, S!Asleep
  <2>2. S!TypeOK'
    BY <1>3, <2>1 DEF S!Test, S!TypeOK
  <2>3. CASE dest > now
    <3>1. spc' = "read" /\ ~S!Wrapped /\ Looked < asked
      BY <1>3, <2>1, <2>3 DEF S!Test, LoopInv, S!Wrapped, S!TypeOK, Looked
    <3>2. LoopInv'
      BY <1>3, <2>1, <3>1 DEF S!Test, LoopInv, TicksInv, S!Wrapped, Looked
    <3> QED BY <2>2, <3>1, <3>2 DEF SleepInv, S!SleepLength
  <2>4. CASE ~(dest > now)
    <3>1. spc' = "done"
      BY <1>3, <2>4 DEF S!Test
    <3>2. IF S!Wrapped THEN elapsed <= 1 ELSE elapsed \in asked .. asked + 1
      BY <2>1, <2>4 DEF LoopInv, S!Wrapped, S!TypeOK, Looked, S!MaxElapsed
    <3> QED BY <1>3, <2>2, <3>1, <3>2
            DEF S!Test, SleepInv, S!SleepLength, S!Wrapped, S!Asleep
  <2> QED BY <2>3, <2>4
<1>4. CASE S!Read
  <2>1. LoopInv /\ S!TypeOK /\ spc = "read"
    BY <1>4 DEF S!Read, SleepInv, S!Asleep
  <2>2. ~S!Wrapped /\ elapsed <= asked
    BY <2>1 DEF LoopInv, Looked, S!TypeOK, S!MaxElapsed
  <2>3. ticks = start + elapsed
    BY <2>1, <2>2 DEF LoopInv, TicksInv, S!Wrapped, S!TypeOK, S!MaxElapsed
  <2>4. S!TypeOK' /\ S!SleepLength'
    BY <1>4, <2>1 DEF S!Read, S!TypeOK, S!SleepLength
  <2>5. LoopInv'
    BY <1>4, <2>1, <2>2, <2>3
       DEF S!Read, LoopInv, TicksInv, Looked, S!Wrapped, S!TypeOK, S!MaxElapsed
  <2> QED BY <2>4, <2>5 DEF SleepInv
<1>5. CASE S!Return
  BY <1>5
     DEF S!Return, SleepInv, S!TypeOK, S!Asleep, S!SleepLength, S!MaxElapsed
<1>6. CASE UNCHANGED S!vars
  BY <1>6
     DEF S!vars, SleepInv, S!TypeOK, S!Asleep, S!SleepLength, S!Wrapped,
         LoopInv, TicksInv, Looked
<1> QED BY <1>1, <1>2, <1>3, <1>4, <1>5, <1>6 DEF S!Next, S!Loop

\* The invariant, of every behaviour.
LEMMA SleepInvariance == S!Spec => []SleepInv
<1> QED BY SleepInit, SleepStep, PTL DEF S!Spec

-----------------------------------------------------------------------------
\* ticks, now and dest stay counter values whatever the width W.
THEOREM SleepTypes == S!Spec => []S!TypeOK
<1>1. SleepInv => S!TypeOK
  BY DEF SleepInv
<1> QED BY <1>1, SleepInvariance, PTL

\* sleep(n) of utils.c lasts n ticks or n + 1, unless its deadline wraps: then
\* it returns after at most one.
THEOREM LoopLasts == S!Spec => []S!SleepLength
<1>1. SleepInv => S!SleepLength
  BY DEF SleepInv
<1> QED BY <1>1, SleepInvariance, PTL

-----------------------------------------------------------------------------
\* The timer and the sleeps of system calls, whatever happens between them,
\* take the steps of Sleep.tla and no others.
THEOREM SleepRefined == Spec => S!Spec
<1>1. Init => S!Init
  BY DEF Init, S!Init
<1>2. [Next]_vars => [S!Next]_S!vars
  <2> SUFFICES ASSUME [Next]_vars PROVE [S!Next]_S!vars
    OBVIOUS
  <2>1. CASE TimerIrq
    BY <2>1 DEF TimerIrq, S!PitUptimeHandler, S!Asleep, S!MaxElapsed, S!Ticked,
                S!Next
  <2>2. CASE SyscallSleep
    <3>1. PICK n \in 0 .. MaxSleep : S!Call(n)
      BY <2>2 DEF SyscallSleep
    <3>2. n \in 0 .. W - 1
      BY ProcessAssumption, WAssumption
    <3> QED BY <3>1, <3>2 DEF S!Next
  <2>3. CASE SleepLoop
    BY <2>3 DEF SleepLoop, S!Test, S!Read, S!Next, S!Loop
  <2>4. CASE Wake
    BY <2>4 DEF Wake, S!Return, S!Next, S!Loop
  <2>5. CASE UNCHANGED sleep
    BY <2>5 DEF sleep, S!vars
  <2>6. CASE Pulse \/ KeyIrq \/ \E k \in Keys : KeyDown(k)
    BY <2>5, <2>6 DEF Pulse, KeyIrq, KeyDown, timer
  <2>7. CASE ReadKey \/ ConsoleInput \/ Command \/ Exec \/ LoadFails
    BY <2>5, <2>7 DEF ReadKey, ConsoleInput, Command, Exec, LoadFails, timer
  <2>8. CASE SwitchToUserMode \/ ShutdownCmd \/ TrampolineSti \/ TrampolineJump
    BY <2>5, <2>8 DEF SwitchToUserMode, ShutdownCmd, TrampolineSti,
                      TrampolineJump, timer
  <2>9. CASE SyscallGetchar \/ SyscallInput \/ SyscallExit \/ Panic
    BY <2>5, <2>9 DEF SyscallGetchar, SyscallInput, SyscallExit, Panic, timer
  <2>10. CASE UNCHANGED vars
    BY <2>5, <2>10 DEF vars, timer
  <2> QED
    BY <2>1, <2>2, <2>3, <2>4, <2>6, <2>7, <2>8, <2>9, <2>10
       DEF Next, KernelStep, ProgramStep
<1> QED BY <1>1, <1>2, PTL DEF Spec, S!Spec

\* SYSCALL_SLEEP lasts the ticks the program asked for, or one more, as the
\* loop alone does.
THEOREM SleepLasts == Spec => []SleepLength
<1>1. S!SleepLength => SleepLength
  BY DEF SleepLength
<1> QED BY SleepRefined, LoopLasts, <1>1, PTL
=============================================================================

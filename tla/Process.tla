------------------------------- MODULE Process ------------------------------
(***************************************************************************)
(* The one thread of BoinkOS, from the question "Enter shell?" on: the     *)
(* shell's prompt (shell.c), the programs it starts (exec_bin and exec_elf *)
(* in glfs.c, user_switch.asm), their system calls (syscall.c), the exit   *)
(* trampoline that abandons a program, the panic of an unhandled exception *)
(* (idt.c) and the shutdown (power.c), with the two interrupts the thread  *)
(* waits for.                                                              *)
(*                                                                         *)
(* switch_to_user_mode clears the interrupt flag before it pushes the      *)
(* flags for iret, so a program runs with interrupts off; a system call    *)
(* that waits turns them on, and its iret restores the program's flags.    *)
(* A program never returns to its caller: the trampoline loads the stack   *)
(* pointer saved at exec and jumps to shell_start, below the frames of the *)
(* shell and of the exec function that started the program.                *)
(*                                                                         *)
(* A program that sleeps runs the loop of Sleep.tla, over the counter that *)
(* the timer interrupt increments.  KeyRing.tla holds the detail of the    *)
(* keyboard buffer, a sequence here.                                       *)
(***************************************************************************)
EXTENDS Ticks, Sequences

CONSTANTS
  MaxKeys,      \* characters the keyboard buffer holds (127 in the code)
  MaxSleep,     \* bound: the longest sleep a program asks for
  MaxPrograms   \* bound: programs started

ASSUME ProcessAssumption == /\ MaxKeys \in Nat \ {0}
                            /\ MaxSleep \in 0 .. W - 1
                            /\ MaxPrograms \in Nat

\* The characters the loops tell apart: "yes" is the 'y', 'q' or 's' that the
\* question or viewer at hand accepts, "enter" ends a line, "slash" is the '\'
\* that makes mess ask for a search term.  It stands for all other characters
\* too: no other loop knows it, and mess ignores them as it ignores "enter".
Keys == {"yes", "slash", "enter"}
NoKey == "none"

VARIABLES
  mode,     \* what the thread is doing
  iflag,    \* the interrupt flag
  kstack,   \* the frames on the kernel stack, outermost first
  ctx,      \* kernel_ctx.esp, as the height of the stack it points to
  ended,    \* history: programs that ended through the trampoline
  pulse,    \* a timer request is pending
  fresh,    \* ticks has changed since the input loop looked last
  ticks, spc, now, dest, asked, start, elapsed, polled,  \* Sleep's variables
  latch,    \* the key in the keyboard controller
  keys      \* the keyboard buffer

S == INSTANCE Sleep WITH pc <- spc

sleep == <<ticks, spc, now, dest, asked, start, elapsed, polled>>
timer == <<pulse, fresh, sleep>>
keyboard == <<latch, keys>>
thread == <<mode, iflag, kstack, ctx, ended>>
vars == <<thread, timer, keyboard>>

\* "open" is squint's question, "mess" and "squint" are the viewers' loops.
KeyWaits ==                                                 \* read_key
  {"confirm", "mess", "open", "squint", "getchar", "panic", "pshell"}
LineWaits == {"prompt", "select", "input", "search"}        \* console_input
Program == {"user", "getchar", "sleep", "input"}
Waits == KeyWaits \cup LineWaits \cup {"sleep"}

\* Where the code uses addresses that a program, a file or the user chose, or
\* runs code that was loaded, so that an exception may come: system calls that
\* only wait touch no memory of the program.
MayFault ==
  {"command", "selected", "loading", "user", "input", "mess", "search", "open",
   "squint", "pshell"}

Init ==
  /\ mode = "confirm"
  /\ iflag = TRUE
  /\ kstack = <<"shell">>
  /\ ctx = 0
  /\ ended = 0
  /\ pulse = FALSE /\ fresh = FALSE /\ S!Init
  /\ latch = NoKey /\ keys = << >>

-----------------------------------------------------------------------------
(***************************************************************************)
(* Interrupts.  The timer's pulses come no faster than the processor takes *)
(* an interrupt it has not turned off; those that come while one is        *)
(* pending merge with it.                                                  *)
(***************************************************************************)
Pulse ==
  /\ pulse => ~iflag
  /\ pulse' = TRUE
  /\ UNCHANGED <<fresh, sleep, keyboard, thread>>

TimerIrq ==
  /\ iflag /\ pulse
  /\ pulse' = FALSE
  /\ fresh' = TRUE
  /\ S!PitUptimeHandler
  /\ UNCHANGED <<keyboard, thread>>

KeyDown(k) ==
  /\ latch = NoKey
  /\ latch' = k
  /\ UNCHANGED <<keys, timer, thread>>

KeyIrq ==
  /\ iflag /\ latch # NoKey
  /\ latch' = NoKey
  /\ keys' = IF Len(keys) < MaxKeys THEN Append(keys, latch) ELSE keys
  /\ UNCHANGED <<timer, thread>>

-----------------------------------------------------------------------------
(***************************************************************************)
(* The thread in the kernel.                                               *)
(***************************************************************************)
\* What a character does to the loop that read it.
AfterKey(m, k) ==
  CASE m = "confirm" -> IF k = "yes" THEN "prompt" ELSE "suspended"
    [] m = "panic"   -> IF k = "yes" THEN "pshell" ELSE "suspended"
    [] m = "mess"    -> [yes |-> "prompt", slash |-> "search",
                         enter |-> "mess"][k]
    [] m = "search"  -> IF k = "enter" THEN "mess" ELSE "search"
    [] m = "open"    -> IF k = "yes" THEN "squint" ELSE "prompt"
    [] m = "squint"  -> IF k = "yes" THEN "prompt" ELSE "squint"
    [] m = "pshell"  -> "pshell"
    [] m = "getchar" -> "user"
    [] m = "prompt"  -> IF k = "enter" THEN "command" ELSE "prompt"
    [] m = "select"  -> IF k = "enter" THEN "selected" ELSE "select"
    [] m = "input"   -> IF k = "enter" THEN "user" ELSE "input"

\* console_input and console_input_nonl start with last_loop_tick = 0: they
\* look for a key at once.
FreshIn(m) == fresh \/ (m # mode /\ m \in LineWaits)

\* iret from a system call gives the program its flags back: interrupts off.
FlagIn(m) == iflag /\ m # "user"

ReadKey ==
  /\ mode \in KeyWaits
  /\ keys # << >>
  /\ keys' = Tail(keys)
  /\ mode' = AfterKey(mode, Head(keys))
  /\ iflag' = FlagIn(mode')
  /\ fresh' = FreshIn(mode')
  /\ UNCHANGED <<kstack, ctx, ended, pulse, sleep, latch>>

\* console_input looks for a key only when ticks has changed, and reads one.
ConsoleInput ==
  /\ mode \in LineWaits
  /\ fresh
  /\ fresh' = FALSE
  /\ keys' = IF keys = << >> THEN keys ELSE Tail(keys)
  /\ mode' = IF keys = << >> THEN mode ELSE AfterKey(mode, Head(keys))
  /\ iflag' = FlagIn(mode')
  /\ UNCHANGED <<kstack, ctx, ended, pulse, sleep, latch>>

\* shell_start runs the line: an empty, unknown, misused or built-in command
\* comes back; autorun asks which file; mess shows one, squint asks first.
Command ==
  /\ \/ mode = "command" /\ mode' \in {"prompt", "select", "mess", "open"}
     \/ mode = "selected" /\ mode' \in {"prompt", "mess", "open"}
  /\ fresh' = FreshIn(mode')
  /\ UNCHANGED <<iflag, kstack, ctx, ended, pulse, sleep, keyboard>>

\* Mutant of Exec: the stack pointer is not saved.
ExecUnsaved ==
  /\ mode \in {"command", "selected"}
  /\ ended < MaxPrograms
  /\ mode' = "loading"
  /\ kstack' = Append(kstack, "exec")
  /\ UNCHANGED <<iflag, ctx, ended, timer, keyboard>>

\* exec_bin and exec_elf save the stack pointer first.
Exec ==
  /\ mode \in {"command", "selected"}
  /\ ended < MaxPrograms
  /\ mode' = "loading"
  /\ kstack' = Append(kstack, "exec")
  /\ ctx' = Len(kstack')
  /\ UNCHANGED <<iflag, ended, timer, keyboard>>

LoadFails ==
  /\ mode = "loading"
  /\ mode' = "prompt"
  /\ kstack' = SubSeq(kstack, 1, Len(kstack) - 1)
  /\ fresh' = FreshIn(mode')
  /\ UNCHANGED <<iflag, ctx, ended, pulse, sleep, keyboard>>

SwitchToUserMode ==
  /\ mode = "loading"
  /\ mode' = "user"
  /\ iflag' = FALSE
  /\ UNCHANGED <<kstack, ctx, ended, timer, keyboard>>

ShutdownCmd ==
  /\ mode = "command"
  /\ mode' = "off"
  /\ iflag' = FALSE
  /\ UNCHANGED <<kstack, ctx, ended, timer, keyboard>>

\* Mutant of Panic: the handler does not turn interrupts on.
PanicNoSti ==
  /\ mode \in MayFault
  /\ mode' = "panic"
  /\ UNCHANGED <<iflag, kstack, ctx, ended, timer, keyboard>>

\* extensible_exception_handler, when no registered handler resolves it: the
\* sti comes before the read_key.
Panic ==
  /\ mode \in MayFault
  /\ mode' = "panic"
  /\ iflag' = TRUE
  /\ UNCHANGED <<kstack, ctx, ended, timer, keyboard>>

-----------------------------------------------------------------------------
(***************************************************************************)
(* System calls.  SYSCALL_PUTCHAR, SYSCALL_UPTIME and SYSCALL_CLEAR return *)
(* with nothing changed here and are stuttering steps.                     *)
(***************************************************************************)
\* Mutant of SyscallWait: the call waits with the program's flags.
SyscallWaitNoSti(m) ==
  /\ mode = "user"
  /\ mode' = m
  /\ fresh' = FreshIn(m)
  /\ UNCHANGED <<iflag, kstack, ctx, ended, pulse, keyboard>>

SyscallWait(m) ==
  /\ mode = "user"
  /\ mode' = m
  /\ iflag' = TRUE
  /\ fresh' = FreshIn(m)
  /\ UNCHANGED <<kstack, ctx, ended, pulse, keyboard>>

SyscallGetchar == SyscallWait("getchar") /\ UNCHANGED sleep
SyscallInput == SyscallWait("input") /\ UNCHANGED sleep
SyscallSleep == SyscallWait("sleep") /\ \E n \in 0 .. MaxSleep : S!Call(n)

SleepLoop ==
  /\ mode = "sleep"
  /\ S!Test \/ S!Read
  /\ UNCHANGED <<pulse, fresh, keyboard, thread>>

Wake ==
  /\ mode = "sleep"
  /\ S!Return
  /\ mode' = "user"
  /\ iflag' = FlagIn(mode')
  /\ UNCHANGED <<kstack, ctx, ended, pulse, fresh, keyboard>>

\* SYSCALL_EXIT and unknown numbers print and go to the trampoline.
SyscallExit ==
  /\ mode = "user"
  /\ mode' = "exiting"
  /\ UNCHANGED <<iflag, kstack, ctx, ended, timer, keyboard>>

\* Mutant of TrampolineSti: interrupts stay off.
TrampolineNoSti ==
  /\ mode = "exiting"
  /\ mode' = "jumping"
  /\ UNCHANGED <<iflag, kstack, ctx, ended, timer, keyboard>>

TrampolineSti ==
  /\ mode = "exiting"
  /\ mode' = "jumping"
  /\ iflag' = TRUE
  /\ UNCHANGED <<kstack, ctx, ended, timer, keyboard>>

\* mov esp, kernel_ctx.esp; jmp kernel_ctx.ret_addr.  That address is set once,
\* by shell_init before the first program, to shell_start (shell.c:26), which
\* makes itself a frame.
TrampolineJump ==
  /\ mode = "jumping"
  /\ mode' = "prompt"
  /\ kstack' = Append(SubSeq(kstack, 1, ctx), "shell")
  /\ ended' = ended + 1
  /\ fresh' = FreshIn(mode')
  /\ UNCHANGED <<iflag, ctx, pulse, sleep, keyboard>>

KernelStep ==
  \/ ReadKey \/ ConsoleInput \/ Command \/ Exec \/ LoadFails
  \/ SwitchToUserMode \/ ShutdownCmd \/ SleepLoop \/ Wake
  \/ TrampolineSti \/ TrampolineJump

ProgramStep ==
  SyscallGetchar \/ SyscallInput \/ SyscallSleep \/ SyscallExit \/ Panic

Next ==
  \/ Pulse \/ TimerIrq \/ KeyIrq \/ (\E k \in Keys : KeyDown(k))
  \/ KernelStep \/ ProgramStep

Spec == Init /\ [][Next]_vars

\* The timer keeps pulsing, the processor takes the interrupts it finds with
\* the flag on and executes the kernel's code.  The user need not type, and a
\* program need not do anything.
Fairness ==
  /\ WF_vars(Pulse) /\ SF_vars(TimerIrq) /\ SF_vars(KeyIrq)
  /\ WF_vars(KernelStep)

FairSpec == Spec /\ Fairness

-----------------------------------------------------------------------------
TypeOK ==
  /\ mode \in Waits \cup {"command", "selected", "loading", "user", "exiting",
                          "jumping", "suspended", "off"}
  /\ iflag \in BOOLEAN
  /\ kstack \in Seq({"shell", "exec"})
  /\ ctx \in Nat
  /\ ended \in 0 .. MaxPrograms
  /\ pulse \in BOOLEAN /\ fresh \in BOOLEAN
  /\ S!TypeOK /\ (spc = "awake" <=> mode # "sleep")
  /\ latch \in Keys \cup {NoKey}
  /\ keys \in Seq(Keys) /\ Len(keys) <= MaxKeys

\* Interrupts are off only while a program runs or exits and after the
\* shutdown.  So the kernel never waits for a key, a tick or the disk without
\* them, neither for a program that runs with them off nor after an exception.
KernelHasInterruptsOn == ~iflag => mode \in {"user", "exiting", "off"}

\* While a program runs, kernel_ctx.esp designates the frame of the exec that
\* started it, whatever was started, failed or ended before.
ContextIsOwnExec ==
  mode \in Program \cup {"exiting", "jumping"} =>
    ctx = Len(kstack) /\ kstack[ctx] = "exec"

\* sleep(n) lasts n ticks, or one more when the tick falls after its last
\* look, whatever interrupts come; but a deadline past the end of the counter
\* makes it return at once.
SleepLength == S!SleepLength

\* A program that sleeps runs again, also when its deadline is the last value
\* of the counter, which the counter has for one tick only, and one that waits
\* for a key gets the one that was typed: both calls wait for an interrupt.
WaitsEnd ==
  /\ mode = "sleep" ~> mode = "user"
  /\ mode = "getchar" /\ latch # NoKey ~> mode = "user"

\* A line that was ended is taken, though each tick takes one character only.
LineTaken ==
  \A m \in LineWaits :
    (mode = m /\ \E n \in 1 .. Len(keys) : keys[n] = "enter") ~> mode # m
=============================================================================

# BoinkOS in TLA+

BoinkOS is a small 32-bit kernel in C and assembly: one thread, three
interrupts, a shell that runs programs from a read-only disk, in user mode but
one at a time. This directory holds TLA+ models of its parts, the TLC
configurations that check them, and TLAPS proofs of what matters most.

Paths below are relative to `src/kernel/` unless they start with `src/`.

## 1. The system

| Part | State it keeps | Operations | Talks to |
|---|---|---|---|
| keyboard buffer `klib/input/keyboard/buffer.c` | `buffer`, `head`, `tail` | put, get, has_char | filled by the keyboard handler, emptied by `read_key` and `console_input` |
| keyboard driver `keyboard.c`, `keymap.c` | `shift`, `ctrl`, `alt`, `caps` | the IRQ 1 handler | controller port 0x60; the buffer |
| interrupt path `interrupts/` | `irq_handlers`, the gates, the 8259s | stubs, `irq_common_c`, `end_of_interrupt`, `irq_set_handler` | calls the handlers; interrupts the thread |
| ticks and sleep `klib/uptime/uptime.c`, `utils.c` | `ticks` | the IRQ 0 handler, `uptime_ticks`, `sleep` | read by sleeps, line input and the cursor |
| thread of control `sys/`, `cpu/user_switch.asm`, `klib/shell/`, `interrupts/idt.c`, `klib/power/` | the kernel stack, the interrupt flag, `kernel_ctx`, `is_shutting_down`, `command_list`, the line and its tokens | prompt, commands, exec, system calls, exit trampoline, panic, shutdown | everything |
| frame allocator `mem/frame_alloc.c` | `frame_bitmap` | init, `reserve_region`, `alloc_frame`, `free_frame` | paging, the loaders, the scratchpad |
| paging `mem/paging.c` | page directory and tables | `paging_init`, `get_page`, `map_page`, the page-fault handler | the MMU and its TLB; the loaders |
| disk driver `disk/disk.c` | `ata_irq_invoked` | `ata_read`, the IRQ 14 handler | the drive; the file system |
| file system and loaders `fs/glfs.c`, `execs/elf/elf.c` | `glfs_files`, mapped buffers | read the directory, load a file, `exec_bin`, `exec_elf` | disk, paging, user mode |
| console `klib/console/console.c` | cursor, colours, blink state | print, scroll, `console_input` | everything prints |
| viewers `execs/mess`, `execs/squint` | scroll position, matches; the file's bytes | keys, search, drawing a bitmap | keyboard, console, loader |
| panic shell `klib/panicshell/` | its own window and cursor, the line | registers, backtrace, memory dump | entered from exceptions |
| text functions `utils.c` | `strtok`'s static pointer | `strtok`, `strcmp`, `itoa`, `atoi`, `parse_hex` | both shells |
| scratchpad `klib/kscratch/` | its pages | `kscratch_init`, `kscratch_zero` | paging, the directory's buffers |
| descriptor tables, drawing, ports, old boot loader | constants, pixels | | |

What makes the code hard is the small amount of concurrency it has. Interrupts
fall between any two instructions of the thread unless the flag is off; the
handlers share plain variables with the thread; the flag itself is switched in
six places; the devices work on their own; the TLB caches what the tables said
earlier. There is no persistence and there are no other processors, so crash
recovery and multi-processor races are not hazards here. The list of hazards,
with their lines and the properties that watch them, is in `PROJECT.json`.

## 2. The modules

| Module | Models | Relation to others |
|---|---|---|
| `KeyQueue` | what a keyboard buffer promises: a bounded FIFO | abstract specification of `KeyRing` |
| `KeyRing` | `buffer.c`, `read_key` | implements `KeyQueue` |
| `Keyboard`, `MCKeyboard` | `keyboard.c`, `keymap.c`; keyboard and controller external | the path from the key to the reader, over the queue that `KeyRing` implements |
| `Interrupts` | `interrupt_vectors.asm`, `irq.c`, `pic.c`, the order of boot | justifies that a handler is one step in the other modules |
| `Ticks` | the counter of `uptime.c` | extended by `Sleep`, `Process`, `Console` |
| `Sleep` | `sleep` over the counter, with wrap-around | instantiated in `Process` |
| `Process` | shell, exec, user mode, system calls, exit, panic, shutdown | composes the thread with timer, keyboard and `Sleep` |
| `Text` | the string and number functions of `utils.c` | extended by `Shell` |
| `Shell`, `MCShell` | the lines of both shells: `shell.c`, `panicshell/shell.c`, `glfs_prompt`, `glfs_exec_elf_shell`, the panic's question | `Console` gives it the line, `Process` its place in the thread, `Loader` takes the arguments |
| `FrameAlloc`, `MCFrameAlloc` | `frame_alloc.c` | its `AllocFrame` is `Paging`'s `NextFrame` |
| `Paging`, `MCPaging` | `paging.c` with the processor's TLB, the pages of `kscratch.c` | the loaders' `map_page` calls are its inputs |
| `AtaDisk` | `ata_read`, its interrupt; the drive external | |
| `Console` | `console.c` and `panic_console.c`: cells, cursor, scrolling, the line editors, blinking | the detail behind the line input of `Process` and `Shell` |
| `Mess`, `MCMess` | `mess.c`: layout, scrolling, search | reads a text that `Loader` put in place |
| `Loader`, `MCLoader` | `glfs.c`, `elf.c`, `squint.c`: directory, loading, segments, argument stack, picture | uses sectors (`AtaDisk`), frames (`FrameAlloc`) and mappings (`Paging`) as those modules justify them |
| `Keyboard_proofs`, `Interrupts_proofs`, `Process_proofs`, `Memory_proofs`, `Console_proofs`, `Loader_proofs`, `Shell_proofs`, `Mess_proofs` | theorems, with their proofs | each extends the module it is named after; `Memory_proofs` has those of `FrameAlloc` and `Paging`, `Keyboard_proofs` also those of `KeyRing`, `Process_proofs` those of `Sleep`, `Interrupts_proofs` those of `AtaDisk` |

Variables and actions have the code's names where TLA+ allows it. Variables
marked *history* in the modules record what a property needs and decide
nothing. A definition under the comment "Mutant of X" is not part of a model:
it is X with a plausible bug, and shows which property notices.

**KeyRing.** The handler's `kb_buffer_put` is one action, since the gate keeps
interrupts off. The reader is split at every access to shared memory:
`HasChar`, then `Load` and `Advance`, then `Return`. `head`, `tail` and
`buffer` are not volatile and nothing orders the two accesses of
`kb_buffer_get`, so the order the compiler may choose instead is modelled too
(`AdvanceEarly`, `LoadLate`). The refinement mapping makes the slots from
`tail` to `head` the queue; a character counts as delivered when `tail` has
moved past it.

**Interrupts.** The two controllers are external: they latch requests, present
the first one whose level is not in service, and take the highest level out of
service on an EOI that names none. The code sends up to four such EOIs for one
interrupt, two from `end_of_interrupt` and one or two from the stub. The thread
only appears as far as it installs handlers, changes the flag and computes in
AL. IRQ 2, the cascade, never reaches the processor. A line is raised again only
when its last request is out of the stub (`Raise`): a device that is always
faster would leave the lines behind it waiting, which no code here prevents.

**Process.** `mode` is where the thread is: at a question, a prompt or a viewer
that waits for keys (`mess` also for the line of a search), executing a
command, loading a program, inside the program, inside a system call that
waits, in the exit trampoline, in a panic, or stopped. An exception may come
wherever code that was loaded runs or addresses are used that somebody chose
(`MayFault`). `kstack` is the list of frames, and `ctx` the stack pointer that
`exec_bin` and `exec_elf` save. `ReadKey` consumes a key where the code calls
`read_key`; `ConsoleInput` one per tick where it calls `console_input`.
`TrampolineJump` cuts the stack back to `ctx` and starts `shell_start` on top
of it: `kernel_ctx.ret_addr` has that one value from `shell_init` on. So a
shell and an exec frame stay below for each program that ended. Here the
keyboard buffer is a sequence, which `KeyRing` justifies. The sleep of a system
call is the loop of `Sleep`, an instance of that module whose counter the timer
interrupt of `Process` increments: `SyscallSleep` is its `Call`, `SleepLoop`
its `Test` and `Read`, `Wake` its `Return`.

**Sleep.** `ticks`, `dest` and `now` count modulo `W`. The loop and the timer
interleave freely, but the loop reads the counter at least once between two
ticks: a tick lasts ten milliseconds.

**FrameAlloc.** The bitmap is kept as a set of bits per byte, because
`alloc_frame` looks for a byte that is not full first and for a clear bit in it
second; `reserve_region` has its alignment arithmetic. `held` counts the
callers that have a frame. `free_frame` has one caller, `test_paging`, which
frees what it was given and which nothing calls; it is modelled all the same.

**Paging.** `mem` is physical memory as far as it is read as page tables.
`MapPage` is `get_page`, the store of the entry and the caller's `invlpg`, in
one step, since the kernel uses no such page in between. The store goes through
the virtual address that equals the table's physical one, as in the code:
`Translation` says where it ends up, and the TLB may answer with something old.
Where the directory has no table (`kscratch`'s window, if the framebuffer lies
below it) `get_page` makes one in a frame from the pool, whose old contents are
`Garbage`, and zeroes it through the frame's own address. Not modelled: the RW
flag. All callers of `map_page` set it but `elf_load`, for segments that are
read-only (`execs/elf/elf.c:43`); `Loader` has those rights, and no property of
`Paging` depends on them.

**AtaDisk.** One action per statement of `ata_read` that looks at the drive. The
drive shows its old status until it takes the command up, then BSY, then data
or an error with the interrupt. A word read without DRQ is a stale one.

**Keyboard.** A hand presses, holds and releases keys; the controller keeps
scancodes for the handler and loses those that do not fit, which is what
happens while a program runs with interrupts off; the buffer drops characters
when it is full. The history variable `want` holds the characters as meant at
the moment of pressing and not read yet, `stale` the modifiers of which the
handler missed a change: while there is one, `want` holds `Doubtful`.

**Console.** The screen is the only copy of the text, so the state is its
cells, the position and `cursor_drawn`; the block of the cursor is a content a
cell can have. `Putc` is `console_putc`, `Poll`, `Update` and `Key` are the
three statements of the input loop between which the timer ticks. The history
variable `text` is what was printed and not taken back. `Panic` opens the
window of `panic_console.c`, whose functions are the console's without the
cursor; `window` says which of the two is in use, and `Top` where its input
loop starts. `console_set_cursor`, which only `mess` uses, and `console_clear`
in the middle of a line are left out; so is output from an interrupt, which
`Interrupts` rules out after boot.

**Shell.** A line is a buffer of characters with a NUL and whatever was in it
before; pointers are indices, and `next` is `strtok`'s static pointer.
`ShellAdd` is one call of `shell_add`, by `kmain` or by `shell_init`, in their
order; when all have returned, `ShellInit` starts the prompt.
`TypeLine` is `console_input` and the first `strtok`, `NextToken` one turn of
the loop that fills `argv`, `Dispatch` the search in `command_list`, `ExecElf`
and `Prompt` the two commands that read the line or another one themselves. A
command that runs returns, or an exception leads to `Question` and the panic
shell; `PanicLine` is one turn of `panic_shell`, `DumpRow` one turn of
`dump_hex_range_to_pshell`, which faults on a page that is not mapped.

**Mess.** The loops of `mess.c` over the text are recursive functions on their
local variables, one turn for each character at most: `Counted`, `Skipped` and
`Laid`, whose turns are `CountStep`, `SkipStep` and `LayStep`. `page` is what
the window shows, with the highlighting. Scrolling and searching are the
actions; the matches are kept from one text to the next, as in the code, and
`fresh` says whether they belong to the text shown. The blanks behind a line
number are as many as the unsigned difference of `mess.c:178` says, so a number
that does not fit its columns (`NumberFits`) scrolls the page away (`Blanked`).
Of the status line only the message is kept; it is taken to fit the console's
width. `TextRows` is the reference:
the rows of a text without a loop, by counting what lies before each character.

**Loader.** A byte is known by what it is part of (byte k of file f, of the end
marker, of an argument), so that a property can tell where every byte of
memory came from. `BeginLoad` reads the directory again, looks the file up in it
(`LookedUp`: by name for `exec_bin`, by number otherwise) and maps the pages,
`CopySector` is one turn of `glfs_load_file`, `LoadSegment` one program header,
`StartElf` and `StartBin` the stack, `RenderBmpImage` the loops of `squint` that
turn the bytes of a bitmap into pixels of the screen; a picture that is too high
is stored past the framebuffer (`put_pixel` has no bounds), and that part of it
is left out. A page that is mapped gets
the value `Junk` in every byte: frames are not cleared. `own` and `stray` record
stores outside the pages mapped for the file.

## 3. The runs

| Run | Shows | Instance |
|---|---|---|
| `key_ring` | the ring is a queue, its reader gets characters only and gets all of them, no put touches the slot being read | 4 slots, 2 characters: the ring fills, wraps and empties at every position |
| `interrupts` | EOIs retire their own requests, nothing stays in service, every request is handled, the timer has its handler in time | IRQs 0, 1 and 14: one above and one below on the master, one on the slave |
| `process` | interrupts are on in the kernel, `kernel_ctx` is that of the running program, a sleep lasts what was asked, waits end | 2 keys buffered, sleeps up to 2 ticks on a counter of 4 values, with and without wrap, 2 programs: one after another that ended or failed |
| `frame_alloc` | one holder, regions spared, full use | 16 frames in 2 bytes; regions that end inside a frame and inside a byte, overlap, or are aligned |
| `paging` | mappings reach their frames through tables and TLB; programs reach their own frames only | 7 tables of 4 entries, some inside the user range, an eighth to be made, 4 frames to hand out |
| `ata_disk` | the sector asked for is the sector returned; reads return | registers of 1 bit, so that the 5 sector numbers differ in every register and one has too many bits |
| `keyboard` | what is read is what was typed; modifiers recover from a lost release | six keys, any of them down, 2 scancodes waiting, 1 character buffered: both fill and overflow |
| `console` | the cells are the end of what was printed; one block, at the cursor; the line shown is the line returned; the cursor goes on blinking | 2 rows of 2 columns, so that three characters wrap and scroll; a buffer of 3 fills; the counter wraps at 4 |
| `mess` | the window shows the text's own rows, highlights are matches, scrolling stops at the ends | 3 columns by 2 rows; all texts up to 4 characters, some of 7, one of eleven lines, whose last two numbers are too wide; 2 matches at most |
| `loader` | directory, file, segments, argument stack and picture are in place, nothing is stored elsewhere | pages of 16, sectors of 8, entries of 7 bytes: entries, marker, segments and arguments lie across all boundaries; a directory too long; two loads after each other, over each other's memory; a program without an entry point; bitmaps with and without padding, upwards and downwards, larger than the screen of 4 by 2 |
| `shell` | commands and programs get the words that were typed, `autorun` starts the file with the number shown, a dump shows its range | all lines of up to 7 of 3 characters, so up to four words, as many as `argv` takes; one command's name begins another's; `elf_argv` of one; 12 files, so that numbers have two digits; addresses of 11 bits, ranges that are empty, too large, not whole rows or end at the last page |

The run `interrupts_registers` shows that the program does not do what it says:
"save registers" (`interrupts/interrupt_vectors.asm:10`), but the stub loads AL
after `popad`, and interrupted code finds 0x20 in it. The other modules take
the registers as preserved.

The models contain, as the code does, some more behaviour that differs from
what a message or comment says. No property is stated for it, since it would
fail whenever the code is reached:

- `mem/frame_alloc.c:80`: frames beyond the machine's memory are counted as
  "total available (free) memory" and handed out.
- `mem/paging.c:93`: the page that resolves a program's fault is mapped without
  `PAGE_USER`, and the access faults again.
- `disk/disk.c:28`: `ata_irq_invoked` is never reset, so only the first read
  waits for its interrupt. `ata_disk` shows that polling is enough.
- `fs/glfs.c:196`: `exec_bin` maps 0x4FD000 to 0x500FFF as stack and starts the
  program with 0x503FFC, where it may not write.
- `execs/elf/elf.c:50`: of two segments that share a page, the second takes the
  first one's bytes away.
- `execs/mess/mess.c:178`: from line 100000 on the blanks behind the number are
  2^32 less a few, and the page is gone.
- `execs/mess/mess.c:299`: a text shorter than the window can be scrolled out
  of it, down to line 4294967296.
- `klib/console/console.c:195`: backspace stops at the left edge of a line that
  wrapped; the buffer goes on losing characters.
- `klib/input/keyboard/keyboard.c:33`: a press of caps lock that the controller
  lost turns its meaning round until another one is lost (`ModifiersRecover`
  says exactly that).
- `fs/glfs.c:394`: `exec-elf` takes any number of arguments, its array ten: the
  eleventh is stored past its end. `Shell` stops there (`overrun`).
- `klib/panicshell/shell.c:36`: `whereami` is compared with the line instead of
  the first word, and is unknown after a blank.
- `utils.c:112`: the last row of a dump always has 16 bytes, also where the
  range ends earlier.

The properties are stated for the other cases (no shared pages, texts that fill
the window, line numbers that fit, lines that did not wrap).

Deadlock is checked except where the machine really stops: out of memory
(`frame_alloc`, `paging`), a panic (`paging`), a drive error (`ata_disk`), a
shutdown, a user who declines or the overrun (`shell`); and where the bound on
loads is reached (`loader`).

Modules state their type invariant as `TypeOK`, or as `DiskTypeOK`,
`FrameTypeOK`, `RingTypeOK` where a proof module extends two modules. All are
proved; the runs spend their properties on what could go wrong with the values.

**Fairness.** The processor executes kernel code whenever it is not
interrupted, so the reader, the stub, the kernel's steps in `Process`, the
loop of `console_input` and `ata_read` are weakly fair, each as a whole:
fairness never says which way a branch goes. An interrupt that is pending and
let in again and again is taken: strong fairness, since the flag goes on and
off. The timer keeps pulsing, a drive finishes what it accepted. In `Console`
the loop comes round several times between two blinks, as a tick lasts ten
milliseconds. Nothing is assumed of the user, who need not type, or of
programs, which may compute for ever.

## 4. The proofs

`Keyboard_proofs` begins with the ring, `KeyRing`, whose specification is
`RingSpec` so that one module can extend both. It proves, for every
`KB_BUF_SIZE` of at least 2 and every set of characters, the type invariant,
`GetReturnsKey`, `SlotInFlight` and the refinement of `KeyQueue`. The inductive
invariant `RingInv` adds two things to the types. The occupied slots hold
characters, never the 0 (`SlotsStored`), so that what the reader loads is one.
And the reader, once it has seen a character, still has one: only it advances
`tail`, a put moves `head` away from `tail` and stops one short of it
(`ReaderInv`). In the order that stores `tail` first the
slot just freed is the one a put reaches only after `KB_BUF_SIZE - 1` others,
and the full test keeps one slot free: that slot is the one being read.

`Memory_proofs` begins with `FrameAlloc`, whose definitions have names of their
own (`FrameSpec`, `FrameTypeOK`) so that one module can extend it and `Paging`.
It proves, for every size of bitmap and frame and every framebuffer that ends a
frame short of the address space, the type invariant, `OneHolder`,
`RegionsSpared` and `NoFrameForgotten`. `FrameInv` relates the bits and the
holders both ways: what is held is marked, what is marked is held or reserved.
`OneHolder` alone is not inductive, for `alloc_frame` never sees the holders,
only bits; and the bits of held frames survive `free_frame` only because no
frame has two holders. That reserved frames cover the regions is the lemma
`RegionCovered` about the alignment arithmetic.

`Process_proofs` begins with `Sleep`, and proves its type invariant and
`SleepLength` for every width of the counter (`SleepTypes`, `LoopLasts`).
`SleepLength` speaks of the end of a sleep only; `SleepInv` adds where the loop
is on the way: its last reading is the counter's present value, or the one
before if a tick has come since, and it is not past the deadline. This rests on
the loop's coming round between two ticks; without that, a deadline that is the
counter's last value could be missed. Then, for every counter width, buffer size
and number of programs, it proves `KernelHasInterruptsOn`, `ContextIsOwnExec`,
and that the thread of control takes only the steps of `Sleep` on the sleep's
variables (`SleepRefined`); `SleepLength` then follows for system calls
(`SleepLasts`). `ContextIsOwnExec` speaks of running programs and is not
inductive: `StackInv` adds that the exec frame is on top of the stack, and
`kernel_ctx.esp` at it, from `loading` on and still on the trampoline.

`Keyboard_proofs` goes on with the driver. It proves, for every size of the
controller and of the buffer and every set of keys, the type invariant,
`TypedIsRead` and `ModifiersRecover`. Both speak of scancodes that the handler
has not seen yet: `want` gets a character when its key goes down, the handler
makes it when it comes to the scancode, with the modifiers it has then.
`WireInv` says what the codes in the controller will do. There is a way through
them (`Run`, `Leads`): a sequence of modifier states, each made from the one
before by the handler's rules, that begins with the modifiers now and ends with
those of the keys, except for the stale ones; and the characters made on the way
are, one by one, the part of `want` behind the characters in the buffer. A key
makes the way longer at its end (`Extended`); what does not fit the controller
leaves it as it is and makes the modifier stale; the handler takes the first
step of it (`Taken`); a character that finds the buffer full is taken out of
`want` and off the way (`Removed`); the reader moves buffer and `want` together
(`Moved`). When the handler has caught up the way is empty, and its two ends are
the same state: that is `ModifiersRecover`.

`Loader_proofs` proves, for every size of sector, entry, marker, buffer, page
and word, every layout of the areas, and every disk, program and list of
arguments that keep to the assumptions, the type invariant, `DirectoryRead`,
`LoadsStayInside`, `ChosenFileInPlace`, `SegmentsIntact`, `ArgsIntact` and
`ImageShown`. These speak of what is in memory when a program or viewer starts,
`LoadInv` of how it came there. What is read from the directory is the beginning
of it: the marker's bytes are found at one place only, behind the last entry,
wherever the sectors end (`Markers`, `DirSizeIs`), and the n-th stretch of bytes
before it is the n-th entry (`EntryParsed`). The file that is loaded is the one
the user meant, because a name leads back to its number (`FindNumber`,
`JobInv`). `CopyInv` is the invariant of the loop in `glfs_load_file`: the next
sector and the next address belong to the same byte of the file, and the bytes
before it are in place; the sector holds bytes of this file, since files share
no sectors (`DiskByteIs`), and the store stays in the pages mapped at the
beginning, since these hold the file whatever its size (`PagesForHold`).
`FileInv`, `SegmentsInv` and `StackInv` keep what is in place: segments and
stacks are mapped on other pages than the file, and than each other where the
property asks for it. In `StartElf` everything `exec_elf` stores must find its
place: that the strings follow each other to the top of the stack is counted as
the cardinality of the sets of their bytes (`ArgBytesAre`, `ArgStrings`); the
array lies below them, the two words and the canary below it, aligned, and all
of it above the bottom of the mapped pages, because of the 64 KB that `exec_elf`
adds (`StackLayout`, `StackPagesAre`, `StackBytesAre`). A bitmap is read by two
folds over its rows and pixels; `FlattenBlocks` says by induction where each
element of such a fold comes from, so that every byte is padding or that of the
pixel that `squint` looks for there (`BitmapIs`), and `PictureIs` that no two
pixels of a picture that is not too wide have the same place on the screen.

`Interrupts_proofs` proves, for every set of interrupt lines, the type
invariant, `NothingLeftInService`, `TimerNeverDefault` and the action property
`EoiRetiresOwn`. `NothingLeftInService` speaks of the thread only. `StubInv`
adds what is in service at each statement of the stub (`Serving`): both lines of
a request until the slave's EOI, the master's until its own, nothing after
that, so that the stub's further EOIs find nothing to retire. That is inductive
only because the stub is never interrupted itself (`OneStub`): with two of them
on the stack an EOI would retire the higher of two levels, whichever stub sent
it. `TimerSet` keeps the order of boot: interrupts go on after the timer has its
handler.

`Interrupts_proofs` goes on with the driver behind IRQ 14, `AtaDisk`, whose
definitions have names of their own (`DiskSpec`, `DiskTypeOK`) so that one
module can extend both: for every width of the registers, every size of a sector
and every set of sector numbers, it proves `DiskTypeOK` and
`ReadsRequestedSector`. `ReadInv` says where the drive is at each statement of
`ata_read`: from the command on it works on the sector in the registers, and as
many words have been taken from it as the buffer holds. That `ata_irq_invoked`
is stale after the first read is not excluded by it, and need not be. That the
four parts of a sector number put together again are the number is the lemma
`SplitAddressed`, from a chain of lemmas on quotients and remainders that the
SMT solver does not find by itself.

`Memory_proofs` goes on with `Paging`, and proves the type invariant,
`MappingsHold` and `UserReachesOwnFrames` for every geometry and every set of
windows that keeps to `LayoutAssumption`. Both properties speak of translations,
`PagingInv` of what lies in the tables. Pages that are never mapped anew keep
their identity entries (`IdentityInv`), and those through which `get_page` edits
a table are among them: so every store reaches the table it is meant for, a
table that is just being made included (`TableEdited`). No two directory entries
share a table, and no table lies in a frame that a page was mapped to (`DirInv`,
`UserInv`): so no store changes another page's entry (`OtherEntries`). The TLB
agrees with the tables about frames and may be late in letting programs in
(`TlbInv`); the one translation a call makes wrong is flushed by it.
`LayoutAssumption` says that no window covers a page through which the tables of
the windows are edited. The code's own windows are the programs' pages between
0x400 and 0x600, those from 0x40000 and 0x60000 on and, for the kernel, from
0xC1000 on; their tables are pages 0x202, 0x301, 0x381, 0x505, 0x509, 0x50D and
0x541. `exec_bin`'s stack lies below the last four and the ELF stack above them.
The frames a table may get later lie above 16 MB, where the assumption only
matters if a window has no table yet. Programs meet it unless they are linked
over those tables (section 5).

`Console_proofs` proves, for every size of the screen, of the caller's buffer
and of the counter, the type invariant, `ScreenShowsText`, `BlockIsCursor` and
the action property `LineReturned`. `ScreenShowsText` says nothing of what is
under a block and is not inductive alone: when the block is erased, a blank is
painted there, and that is right because the block is the cursor
(`BlockIsCursor`) and no character of the text is placed where the next one
goes (`EndIsBlank`). `LineReturned` speaks of Enter; `LineInv` relates buffer
and text at every key before it. A backspace takes one character from both only
if the cursor is not at the left edge, and where the cursor is in the text
comes from `ScreenShowsText`. The reference `Place` is a recursive function of
the text. What it computes is proved by induction on the length of the text
(`PlaceIsFunction`, `PlaceOnPage`, `PlacesOrdered`, `PlaceAppended`), with
induction stated for sets of numbers (`Induction`), which follows from the
well-foundedness of the order and needs no theorem with an operator as a
parameter.

`Mess_proofs` proves, for every size of the console, width of the tabs and of
the numbers, and every set of texts and terms, the type invariant,
`PageIsText`, `HighlightsAreMatches` and `ScrollStopsAtEnds`. `PageIsText`
speaks of windows whose line numbers fit their columns (`Numbered`), up to
99999 in the code. The numbers grow with the rows (`NumbersFit`), so in such a
window no row begins with blanks that run over. The three loops of `mess.c`
take turns over the same text and must agree, so each is related to the
reference `TextRows` by an invariant of its turns, with the same induction as
in `Console_proofs`. The column of a character is its distance from the
beginning of its line modulo the width of the text (`Column`), and a row begins
where that is 0; `VisualLines` shows that the counting loop counts as many rows
as `TextRows` has, `SkippedIs` that the skipping loop ends where the row wanted
begins. `LayInv` says of the printing loop that the rows completed are rows of
the text and the open one is the beginning of the next (`Partial`), at each
kind of turn: a newline, a character, and a match, which takes many characters
but never reaches the end of the row (`NewlineKeeps`, `CharacterKeeps`,
`MatchKeeps`). This holds whatever is highlighted, as long as matches lie in
one line of this text (`Hits`). That highlighted cells are places of the term
(`Lit`) is proved for texts with tabs, too. `PageIsText` says nothing of the
matches the next page will be printed with; `MessInv` adds that they were found
in the text shown, if they are fresh (`MatchesFit`), and that the offset leaves
the window inside a text that fills it (`ScrollInside`), so that the unsigned
difference in `scroll_down` does not wrap for such a text. For a shorter one it
wraps to a number the bounded offset never reaches (`MaxScrollIs`).

`Shell_proofs` proves `CommandGetsWords`, `ProgramGetsArguments`,
`NumberShownSelects` and `MemdumpShowsRange`, for every line that fits the
buffer and every list of commands with names of their own that finds room.
`strtok` returns pointers into the line and overwrites it as it goes, so that
both properties hold only if the words are still there when the command reads
them. `ParseInv` says at each turn of the loop that the buffer is the line with
the ends of the tokens so far cut out (`Cut`), that the tokens are the first
words of the line (`Taken`, `Upto`), and that they are all of them when
`strtok` has nothing more to return (`Every`). One call of `strtok` is the
lemma `StrtokIs`. `argv` never fills before the line ends: words are at least
two characters apart, so a line shorter than `2 * MAX_ARGS` has at most
`MAX_ARGS` of them (`AllTaken`). The reference `Words` has no loop, it orders
the words by how many lie before each; that this order is that of the tokens is
`WordsAre`. What `Dispatch` finds is the command of that name because names are
distinct (`FoundIs`) and all have been registered before the prompt
(`RegistryInv`). That the number `autorun` shows is read as that number is an
induction over its digits: `Itoa` and the loop of `Atoi` are recursive
functions (`NumeralIs`, `IsReading`), and what is read from the first k digits
of a number is the number they are the digits of (`Behind`, `BehindMore`). It
holds for lines shorter than 2^31 is, which is what `glfs_prompt`'s ten bytes
take.

The dump of memory shows rows that follow each other from its first address on
(`DumpInv`); a row that is mapped ends before the last page, which is never
mapped (`ShellAssumption`), so that no address wraps (`MappedRow`). Its two
numbers are the second and the third word, because the words `strtok` has
returned so far are the first of all (`OtherWords`), and a word of hexadecimal
digits is read as the number it stands for, in whatever letters and with or
without its prefix (`MeantIsRead`).

Assumptions used: `SizeAssumption` and `NULAssumption` of `KeyRing`;
`SizesAssumption` and `RegionsAssumption`; `WAssumption`, which `Ticks`
declares; `ProcessAssumption`; `IrqsAssumption` and `EOIAssumption`;
`KeyboardAssumption`; `DiskAssumption`; `GeometryAssumption` and
`LayoutAssumption` of `Paging`; `SizeAssumption`
and `TextAssumption` of `Console`, that the control characters and the block
are no letters. TLC evaluates them in the runs above. It also checked each
inductive invariant on the instance of the component's run before it was
proved.

`Shell` has three, `ShellAssumption`, which gives the sizes, `LinesAssumption`
and `CommandsAssumption`. A line has no NUL and fits the buffer with one:
`console_input` ends it there, as `LineReturned` of `Console` shows. `argv` has
half as many places as the buffer has bytes (64 and 128). The commands that
`kmain` and `shell_init` register have distinct names, and `command_list` has
room for them; a line that `glfs_prompt` reads has fewer digits than 2^31.

`Loader` has six. `SizesAssumption`: the directory's buffer is a whole number of
sectors, and the marker fits an entry and a sector (8, 40 and 512 bytes).
`LayoutAssumption`: the areas begin with a page, each stack lies below what its
programs are loaded at, as the addresses in `glfs.c` do, and the 64 KB added to
the stack hold the aligned words. `ArgsAssumption`: at most ten arguments, as
`elf_argv` takes, whose stack does not reach down to address 0; a line of the
shell is far shorter. `DisksAssumption`: files have sectors of their own, which
the program that writes the disk sees to and the kernel does not check.
`ProgramsAssumption`: the headers of a program lie within its file, and its
segments away from the file's buffer and the stack; `elf_load` checks none of
it, so it is what a linker makes of an ordinary program. `BitmapsAssumption`:
the pixels of a bitmap lie within its file, as its header has them; `squint`
does not check it, so it is what a drawing program makes.

`Mess` has four. `ScreenAssumption`: the console has a row for the status line
and another for text, and columns right of the line numbers; the status line
fits (its longest has 96 columns, a screen of 1024 pixels has 122); and the
bound on the offset is less than `W` by a window. `PaddingAssumption`: the
blanks of a difference that wrapped are more than the console has cells.
`TextsAssumption`: a text has no NUL before its end and is shorter than 2^32
characters less a window. `TermsAssumption`: a search term has neither NUL nor
a newline, since Enter ends the line that `console_input_nonl` returns.

Only liveness is model-checked and not proved (`EveryKeyTaken`,
`EveryIrqHandled`, `WaitsEnd`, `LineTaken`, `ReadReturns`, `CursorBlinks`),
since the prover does not handle fairness.

## 5. Not modelled

- Drawing, the text-mode driver, descriptor tables, port access, the old boot
  loader: output, constants or straight-line code.
- `disk_write`, `unmap_page`, `test_paging`, `test_page_fault_panic`: nothing
  calls them.
- `strtol`, `strncmp`, `dump_hex_range`, `kscratch_alloc`, `kscratch_free_all`:
  nothing calls them. `strcat` and `strlen_max` prepare titles.
- What a store past the end of `elf_argv` does: it depends on the compiler's
  layout of the stack.
- Register dumps and backtraces, which only print; a backtrace that meets a bad
  frame pointer is a `Fault` of `Shell`.
- The registers and the frame that the exception stubs build.
- Tabs in `mess` as far as counting and layout disagree about them, and matches
  left over from another file: the models have both, the properties do not.
- Two shift keys at a time, and a caps lock key that repeats, are outside
  `Keyboard`; the code has one flag for both shift keys and toggles caps lock on
  every make code.
- A framebuffer that ends in the last page of the address space, whose
  reservation would wrap (`RegionsAssumption`).
- Programs linked to the virtual addresses of page tables (0x400000 up to about
  0x5F7000): `get_page` would then edit the program's page instead of the
  table. `Paging` is checked and proved for windows that cover no page through
  which their own tables are edited (`LayoutAssumption`).

## 6. Plan

In this order, each with its properties and mutants:

1. An abstract loader, a program image that appears at once, implemented by
   `Loader`; the zeroed scratch pages behind its buffers as a state of their
   own.
2. Programs linked over the page tables.

The modules have recursive functions only, no recursive operators, so that all
of them can be reasoned about.

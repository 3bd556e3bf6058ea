-------------------------------- MODULE Shell -------------------------------
(***************************************************************************)
(* The two command lines.  The kernel's shell (klib/shell/shell.c) splits  *)
(* a line into argv, finds the command and runs it; exec-elf hands the     *)
(* rest of argv on, autorun asks for the number of a file (fs/glfs.c).  An *)
(* exception nobody resolves (interrupts/idt.c) ends in the panic shell    *)
(* (klib/panicshell/shell.c), whose memdump may raise the next one.        *)
(*                                                                         *)
(* Console.tla says that a line typed is the line returned, Process.tla    *)
(* how programs start and end, Loader.tla what happens to a file and to    *)
(* its arguments: here a command that runs returns, faults or, if it is    *)
(* exec-elf, starts its program.                                           *)
(***************************************************************************)
EXTENDS Text, FiniteSets

CONSTANTS
  Registered,        \* the shell_add calls of main.c and shell_init, in order
  MAX_COMMANDS,      \* 64
  MAX_ARGS,          \* argv holds as many (64); the buffer has 128 bytes
  ELF_ARGS,          \* elf_argv holds as many (10)
  FILES,             \* glfs_file_count
  PLAIN, BACKTRACE, MEMDUMP, WHEREAMI,  \* the panic shell's commands
  ROW, MAX_DUMP,     \* 16 bytes in a row, 0x1000 at most in a dump
  PAGE_SIZE, Absent, \* the pages that are not mapped
  Lines, Numbers, PanicLines       \* bound: what the user types

ASSUME ShellAssumption ==
  /\ {MAX_COMMANDS, MAX_ARGS, ELF_ARGS, FILES, ROW, MAX_DUMP, PAGE_SIZE}
       \subseteq Nat \ {0}
  /\ WORD % PAGE_SIZE = 0 /\ WORD % ROW = 0
  /\ WORD \div PAGE_SIZE - 1 \in Absent

\* Every command finds room and has a name of its own.
ASSUME CommandsAssumption ==
  /\ Registered \in Seq(ToSet(Registered)) /\ Len(Registered) <= MAX_COMMANDS
  /\ \A i, j \in DOMAIN Registered :
       Registered[i].name = Registered[j].name => i = j
  /\ \A cmd \in ToSet(Registered) :
       /\ cmd.func \notin {"unknown", "none", "refused", "no file", "memdump"}
       /\ cmd.min_args \in Int /\ cmd.max_args \in Int

\* A line that the console returns has no NUL and fits its buffer: shell_start
\* reads 127 characters into room for 64 words, glfs_prompt nine, which are
\* fewer than 2^31 has.
ASSUME LinesAssumption ==
  /\ \A l \in Lines \cup Numbers \cup PanicLines : l \in Seq(ToSet(l) \ {NUL})
  /\ \A l \in Lines : Len(l) + 1 <= 2 * MAX_ARGS
  /\ \A l \in Numbers : Len(l) < Len(Itoa(WORD \div 2, 10))

VARIABLES
  pc,            \* where the thread is
  command_list,  \* what is registered; command_count is its length
  calls,         \* how many calls of shell_add have returned
  buf,           \* input: the characters, NULs, and what was there before
  next,          \* strtok's static pointer
  token, argv,   \* shell_start's variables; argc is the length of argv
  ran,           \* the command the line turned out to be, or what was printed
  handed,        \* elf_argv
  file,          \* the number glfs_prompt read
  dump,          \* dump_hex_range_to_pshell: from, to and addr
  typed,         \* history: the last line
  rows           \* history: the rows of the dump

registry == <<command_list, calls>>
tokens == <<buf, next, token, argv>>
dumping == <<dump, rows>>
vars == <<pc, registry, tokens, ran, handed, file, dumping, typed>>

NoDump == [from |-> 0, to |-> 0, addr |-> 0]

Init ==
  /\ pc = "boot" /\ command_list = <<>> /\ calls = 0
  /\ buf = <<NUL>> /\ next = Null /\ token = Null /\ argv = <<>>
  /\ ran = "none" /\ handed = <<>> /\ file = 0 /\ typed = <<>>
  /\ dump = NoDump /\ rows = <<>>

Input(l) == l \o <<NUL, "?">>

-----------------------------------------------------------------------------
(***************************************************************************)
(* kmain's question and shell_start.                                       *)
(***************************************************************************)
Boot(conf) ==
  /\ pc = "boot"
  /\ pc' = IF conf \in {"y", "Y"} THEN "register" ELSE "suspended"
  /\ UNCHANGED <<registry, tokens, ran, handed, file, dumping, typed>>

\* Those of kmain, then those of shell_init.
ShellAdd ==
  /\ pc = "register" /\ calls < Len(Registered)
  /\ command_list' = IF Len(command_list) >= MAX_COMMANDS THEN command_list
                     ELSE Append(command_list, Registered[calls + 1])
  /\ calls' = calls + 1
  /\ UNCHANGED <<pc, tokens, ran, handed, file, dumping, typed>>

ShellInit ==
  /\ pc = "register" /\ calls = Len(Registered)
  /\ pc' = "prompt"
  /\ UNCHANGED <<registry, tokens, ran, handed, file, dumping, typed>>

TypeLine(l) ==
  /\ pc = "prompt"
  /\ LET r == Strtok(Input(l), 1)
     IN  buf' = r.buf /\ next' = r.next /\ token' = r.token
  /\ argv' = <<>> /\ typed' = l
  /\ pc' = "parse"
  /\ UNCHANGED <<registry, ran, handed, file, dumping>>

Room == Len(argv) < MAX_ARGS

NextToken ==
  /\ pc = "parse" /\ token # Null /\ Room
  /\ argv' = Append(argv, token)
  /\ LET r == Strtok(buf, next)
     IN  buf' = r.buf /\ next' = r.next /\ token' = r.token
  /\ UNCHANGED <<pc, registry, ran, handed, file, dumping, typed>>

\* Mutant of Matches: the command's name need only begin the word.
MatchesPrefix(cmd) == IsPrefix(cmd.name, StringAt(buf, argv[1]))

Matches(cmd) == SameString(cmd.name, StringAt(buf, argv[1]))

\* The first entry with the name decides.
Found ==
  LET with == {i \in DOMAIN command_list : Matches(command_list[i])}
  IN  IF with = {} THEN [func |-> "unknown"]
      ELSE command_list[CHOOSE i \in with : \A j \in with : i <= j]

Misused(cmd) ==
  \/ Len(argv) - 1 < cmd.min_args
  \/ cmd.max_args # -1 /\ Len(argv) - 1 > cmd.max_args

Dispatch ==
  /\ pc = "parse" /\ ~(token # Null /\ Room)
  /\ IF argv = <<>> THEN pc' = "answered" /\ ran' = ran
     ELSE IF Found.func = "unknown" \/ Misused(Found)
       THEN pc' = "answered" /\ ran' = "refused"
       ELSE pc' = "run" /\ ran' = Found.func
  /\ UNCHANGED <<registry, tokens, handed, file, dumping, typed>>

\* The values of the variables end: the next line overwrites them all.
Forget ==
  /\ buf' = <<NUL>> /\ next' = Null /\ token' = Null /\ argv' = <<>>
  /\ ran' = "none" /\ handed' = <<>> /\ file' = 0 /\ typed' = <<>>
  /\ dump' = NoDump /\ rows' = <<>>
  /\ UNCHANGED registry

\* A command prints, views or fails, a program ends: the loop goes on.
Return ==
  /\ \/ pc = "run" /\ ran \notin {"shutdown", "autorun"}
     \/ pc \in {"program", "answered"}
  /\ pc' = "prompt" /\ Forget

Shutdown ==
  /\ pc = "run" /\ ran = "shutdown"
  /\ pc' = "off"
  /\ UNCHANGED <<registry, tokens, ran, handed, file, dumping, typed>>

\* Mutant of ElfArgument: the file's name counts as an argument.
ElfArgumentFile(i) == argv[i + 1]

ElfArgument(i) == argv[i + 2]

\* glfs_exec_elf_shell of a file that is found.  Nothing stops the copy at the
\* end of elf_argv; what a store past it does is not modelled any further.
ExecElf ==
  /\ pc = "run" /\ ran = "exec-elf"
  /\ LET elf_argc == Len(argv) - 2
     IN  IF elf_argc > ELF_ARGS
           THEN pc' = "overrun" /\ UNCHANGED handed
           ELSE /\ pc' = "program"
                /\ handed' = [i \in 1 .. elf_argc |-> ElfArgument(i)]
  /\ UNCHANGED <<registry, tokens, ran, file, dumping, typed>>

\* glfs_prompt: f = atoi(input), an index from 1.
Prompt(l) ==
  /\ pc = "run" /\ ran = "autorun"
  /\ typed' = l
  /\ file' = Atoi(StringAt(Input(l), 1))
  /\ IF file' <= 0 \/ file' > FILES
       THEN pc' = "answered" /\ ran' = "no file"
       ELSE pc' = "program" /\ ran' = "autorun"
  /\ UNCHANGED <<registry, tokens, handed, dumping>>

-----------------------------------------------------------------------------
(***************************************************************************)
(* extensible_exception_handler and panic_shell.                           *)
(***************************************************************************)
\* Nobody returns to what the exception interrupted, another panic included.
Panic == pc' = "question" /\ Forget

Exception == pc \in {"run", "program"} /\ Panic

\* Registers are dumped; the question decides.
Question(conf) ==
  /\ pc = "question"
  /\ pc' = IF conf \in {"s", "S"} THEN "pshell" ELSE "suspended"
  /\ UNCHANGED <<registry, tokens, ran, handed, file, dumping, typed>>

\* cmd_memdump.
CmdMemdump(start, end) ==
  IF start >= end \/ end - start > MAX_DUMP
    THEN ran' = "refused" /\ pc' = "pshell" /\ dump' = NoDump
    ELSE /\ ran' = "memdump" /\ pc' = "dump"
         /\ dump' = [from |-> start, to |-> end, addr |-> start]

\* Three tokens are taken, whatever the command.  whereami is compared with
\* the line up to the end of the first, blanks before it included.
PanicLine(l) ==
  /\ pc = "pshell"
  /\ LET cmd == Strtok(Input(l), 1)
         arg1 == Strtok(cmd.buf, cmd.next)
         arg2 == Strtok(arg1.buf, arg1.next)
         Word(r) == StringAt(arg2.buf, r.token)
         Is(name) == cmd.token # Null /\ SameString(Word(cmd), name)
         Answer(a) == ran' = a /\ pc' = "pshell" /\ dump' = NoDump
     IN  /\ buf' = arg2.buf /\ next' = arg2.next
         /\ IF \E name \in PLAIN \cup {BACKTRACE} : Is(name)
              THEN Answer("plain")
            ELSE IF Is(MEMDUMP)
              THEN IF Null \in {arg1.token, arg2.token} THEN Answer("refused")
                   ELSE CmdMemdump(ParseHex(Word(arg1)), ParseHex(Word(arg2)))
            ELSE IF SameString(StringAt(arg2.buf, 1), WHEREAMI)
              THEN Answer("plain")
            ELSE IF cmd.token = Null THEN Answer("none")
            ELSE Answer("refused")
  /\ typed' = l /\ rows' = <<>>
  /\ UNCHANGED <<registry, token, argv, handed, file>>

RowBytes(a) == [i \in 1 .. ROW |-> (a + i - 1) % WORD]
Mapped(bytes) == \A a \in ToSet(bytes) : a \div PAGE_SIZE \notin Absent

\* One turn of dump_hex_range_to_pshell.  Rows that no dump of MAX_DUMP bytes
\* has are not remembered.
DumpRow ==
  /\ pc = "dump" /\ dump.addr < dump.to
  /\ Mapped(RowBytes(dump.addr))
  /\ LET row == [label |-> Itoa(dump.addr, 16), bytes |-> RowBytes(dump.addr)]
         room == Len(rows) * ROW <= MAX_DUMP
     IN  rows' = IF room THEN Append(rows, row) ELSE rows
  /\ dump' = [dump EXCEPT !.addr = (dump.addr + ROW) % WORD]
  /\ UNCHANGED <<pc, registry, tokens, ran, handed, file, typed>>

\* The page-fault handler resolves no fault of the kernel: the page it would
\* map is there.  bt may meet a frame pointer that leads nowhere.
Fault ==
  /\ \/ pc = "dump" /\ dump.addr < dump.to /\ ~Mapped(RowBytes(dump.addr))
     \/ pc = "pshell" /\ ran = "plain" /\ StringAt(buf, 1) = BACKTRACE
  /\ Panic

DumpDone ==
  /\ pc = "dump" /\ dump.addr >= dump.to
  /\ pc' = "pshell"
  /\ UNCHANGED <<registry, tokens, ran, handed, file, dumping, typed>>

Next ==
  \/ \E conf \in {"y", "Y", "n"} : Boot(conf)
  \/ ShellAdd \/ ShellInit
  \/ \E l \in Lines : TypeLine(l)
  \/ NextToken \/ Dispatch \/ Return \/ Shutdown \/ ExecElf \/ Exception
  \/ \E l \in Numbers : Prompt(l)
  \/ \E conf \in {"s", "S", "n"} : Question(conf)
  \/ \E l \in PanicLines : PanicLine(l)
  \/ DumpRow \/ Fault \/ DumpDone

Spec == Init /\ [][Next]_vars

-----------------------------------------------------------------------------
(***************************************************************************)
(* What the user means.                                                    *)
(***************************************************************************)
\* The words of a line are its longest runs without a space, in their order.
Runs(l) ==
  {r \in (1 .. Len(l)) \X (1 .. Len(l)) :
     /\ r[1] <= r[2] /\ \A k \in r[1] .. r[2] : l[k] # Space
     /\ r[1] > 1 => l[r[1] - 1] = Space
     /\ r[2] < Len(l) => l[r[2] + 1] = Space}

\* The one with n - 1 before it.
Run(l, n) ==
  CHOOSE r \in Runs(l) : Cardinality({q \in Runs(l) : q[1] < r[1]}) = n - 1

Words(l) ==
  [n \in 1 .. Cardinality(Runs(l)) |-> SubSeq(l, Run(l, n)[1], Run(l, n)[2])]

Strings(pointers) == [i \in DOMAIN pointers |-> StringAt(buf, pointers[i])]

\* The number a word of hexadecimal digits stands for: the one that is
\* printed as it, whatever zeros, prefix and small letters the user adds.
Capital(c) == IF c \in ToSet(LowDigits) THEN Digits[DigitValue(c) + 1] ELSE c
Means(word, a) ==
  \E zeros \in {<<>>, <<"0">>, <<"0", "x">>} :
    [i \in DOMAIN word |-> Capital(word[i])] = zeros \o Itoa(a, 16)

\* The shell of main.c runs the command the first word names with the words of
\* the line as its arguments, all of them, unchanged and in their order,
\* whatever the spaces; it refuses a line only if no command has that name or
\* the one that does is not for that many arguments.
CommandGetsWords ==
  LET words == Words(typed)
      Accepts(cmd) == /\ cmd.name = words[1]
                      /\ Len(words) - 1 >= cmd.min_args
                      /\ cmd.max_args = -1 \/ Len(words) - 1 <= cmd.max_args
  IN  /\ pc = "run" =>
           /\ Strings(argv) = words
           /\ \E cmd \in ToSet(Registered) : Accepts(cmd) /\ cmd.func = ran
      /\ pc = "answered" /\ ran = "refused" =>
           words # <<>> /\ ~\E cmd \in ToSet(Registered) : Accepts(cmd)

\* A program exec-elf starts gets the words behind its file's name, as they
\* were typed: splitting the line moved none, and no more than elf_argv holds
\* are handed on.
ProgramGetsArguments ==
  pc = "program" /\ ran = "exec-elf" =>
    /\ Strings(handed) = SubSeq(Words(typed), 3, Len(Words(typed)))
    /\ Len(handed) <= ELF_ARGS

\* The number that autorun shows before a file starts that file, and a file
\* starts only if its number is what the line begins with.
NumberShownSelects ==
  /\ ran = "no file" => ~\E n \in 1 .. FILES : typed = Itoa(n, 10)
  /\ pc = "program" /\ ran = "autorun" =>
       /\ file \in 1 .. FILES
       /\ \A n \in 1 .. FILES : typed = Itoa(n, 10) => file = n
       /\ \E n \in 0 .. Len(typed) :
            IsPrefix([i \in 1 .. n |-> "0"] \o Itoa(file, 10), typed)

\* "memdump <s> <e> - dump memory from 0x<s> to 0x<e>" (panicshell/shell.c)
\* shows the bytes of that range once each, in rows that carry the address of
\* their first byte and that end less than a row behind the range.  No dump
\* goes on at address 0 where the last row's end is WORD: it panics before.
MemdumpShowsRange ==
  ran = "memdump" =>
    LET words == Words(typed)
        Valid(word) == \E a \in 0 .. WORD - 1 : Means(word, a)
    IN  /\ \A r \in DOMAIN rows :
             /\ rows[r].bytes =
                  [i \in 1 .. ROW |-> dump.from + (r - 1) * ROW + i - 1]
             /\ Means(rows[r].label, rows[r].bytes[1])
        /\ Valid(words[2]) => Means(words[2], dump.from)
        /\ Valid(words[3]) => Means(words[3], dump.to)
        /\ pc = "pshell" =>
             Len(rows) * ROW - (dump.to - dump.from) \in 0 .. ROW - 1
=============================================================================

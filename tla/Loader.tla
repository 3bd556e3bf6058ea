------------------------------- MODULE Loader -------------------------------
(***************************************************************************)
(* kernel/fs/glfs.c, execs/elf/elf.c and execs/squint/squint.c: the        *)
(* directory of the disk, the choice of a file, its way from the sectors   *)
(* to the memory of a program or a viewer, the stack a program starts with *)
(* and the picture that squint makes of a bitmap.                          *)
(*                                                                         *)
(* Memory is a function on the addresses the loaders mapped so far; the    *)
(* rest is the kernel's identity mapping, which programs may not use.      *)
(* alloc_frame gives every page a frame of its own (FrameAlloc) and        *)
(* map_page with its invlpg makes the page lead there (Paging), so mapping *)
(* a page gives its bytes arbitrary values: Junk.  The directory and       *)
(* sector buffers are left out: nothing is read from them but what was     *)
(* just put there.  Interrupts do not touch any of this.                   *)
(*                                                                         *)
(* Each loader reads the directory again and looks its file up once more;  *)
(* as the disk is never written, what it reads is what was known.          *)
(***************************************************************************)
EXTENDS Integers, Sequences, FiniteSets, SequencesExt

CONSTANTS
  SECTOR_SIZE, DIR_ENTRY_SIZE, MARKER_SIZE,   \* 512, 40 and 8 bytes
  DIR_BUFFER_SIZE, MAX_FILES,                 \* 4096 bytes, 128 files
  PAGE_SIZE, PTR_SIZE, ALIGN,                 \* 4096, 4 and 16 bytes
  USER_BIN_BASE, USER_BIN_PAGES, BIN_STACK,   \* 0x40000000, 4, 0x500000
  ELF_TEMP_LOAD, ELF_STACK_TOP, SLACK,        \* 0xC3000000, 0x600000, 64 KB
  TXT_BASE,                                   \* 0x60000000, also IMG_BASE
  fb_width, fb_height, StatusBar,   \* pixels; those squint writes its line on
  Disks,         \* each the directory entries of a disk, in order
  ArgLists,      \* arguments of exec-elf: at most 10 strings fit elf_argv
  AutorunArgs,   \* those of autorun
  MaxLoads       \* bound: the files loaded one after the other

ASSUME SizesAssumption ==
  /\ {SECTOR_SIZE, DIR_ENTRY_SIZE, MARKER_SIZE, DIR_BUFFER_SIZE, PAGE_SIZE,
      PTR_SIZE, ALIGN, USER_BIN_PAGES} \subseteq Nat \ {0}
  /\ {MAX_FILES, MaxLoads, fb_width, fb_height} \subseteq Nat
  /\ DIR_BUFFER_SIZE % SECTOR_SIZE = 0
  /\ MARKER_SIZE <= SECTOR_SIZE /\ MARKER_SIZE <= DIR_ENTRY_SIZE

\* Every area begins with a page.  The stacks lie below what their programs are
\* loaded at.
ASSUME LayoutAssumption ==
  /\ \A b \in {USER_BIN_BASE, BIN_STACK, ELF_TEMP_LOAD, ELF_STACK_TOP,
               TXT_BASE} : b \in Nat /\ b % PAGE_SIZE = 0
  /\ BIN_STACK < USER_BIN_BASE /\ ELF_STACK_TOP <= ELF_TEMP_LOAD
  /\ SLACK \in Nat /\ ALIGN + PTR_SIZE <= SLACK

VARIABLES
  disk,        \* the directory entries on the disk; it is never written
  glfs_files,  \* the entries the kernel knows
  mem,         \* the byte at each mapped address
  flags,       \* for each mapped page: user and writable
  pc,          \* the next statement
  job,         \* the file being loaded: how, which, and with which arguments
  copy,        \* glfs_load_file: sector, remaining and dest
  seg,         \* elf_load: the next program header
  esp,         \* the stack pointer of the program that is started
  loads,       \* bound: files loaded so far
  chosen,      \* history: the entry the user meant
  own,         \* history: the pages mapped for this file
  stray,       \* history: a byte was stored outside these pages
  screen       \* the pixels squint has put, by their place in the framebuffer

vars == <<disk, glfs_files, mem, flags, pc, job, copy, seg, esp, loads,
          chosen, own, stray, screen>>

-----------------------------------------------------------------------------
(***************************************************************************)
(* The disk: sector 0 is the superblock, then the directory and, where     *)
(* their entries say, the files.  A byte is known by what it is part of.   *)
(***************************************************************************)
Byte(of, n, k) == <<of, n, k>>
Junk == Byte("junk", 0, 0)
Zero == Byte("zero", 0, 0)
Pad == Byte("pad", 0, 0)
FileByte(f, k) == Byte("file", f.id, k)

Sectors(f) == (f.size + SECTOR_SIZE - 1) \div SECTOR_SIZE

Files == UNION {ToSet(d) : d \in Disks}

\* glfs-add gives every file sectors of its own.
ASSUME DisksAssumption ==
  /\ Disks \subseteq Seq(Files)
  /\ \A f \in Files : /\ f.start \in Nat /\ f.size \in Nat
                      /\ f.phdrs \in Seq(ToSet(f.phdrs))
  /\ \A d \in Disks : \A m, n \in 1 .. Len(d) :
       m # n => \/ d[m].start + Sectors(d[m]) <= d[n].start
                \/ d[n].start + Sectors(d[n]) <= d[m].start

\* Byte i of the directory.
DirByte(i) ==
  LET n == i \div DIR_ENTRY_SIZE + 1
      past == i - Len(disk) * DIR_ENTRY_SIZE
  IN  IF n <= Len(disk) THEN Byte("entry", n, i % DIR_ENTRY_SIZE)
      ELSE IF past < MARKER_SIZE THEN Byte("marker", 0, past) ELSE Pad

\* disk_read of a sector of a file.
DiskByte(sector, k) ==
  LET at == {n \in 1 .. Len(disk) :
               sector - disk[n].start \in 0 .. Sectors(disk[n]) - 1}
      f == disk[CHOOSE n \in at : TRUE]
      offset == (sector - f.start) * SECTOR_SIZE + k
  IN  IF at # {} /\ offset < f.size THEN FileByte(f, offset) ELSE Pad

-----------------------------------------------------------------------------
(***************************************************************************)
(* glfs_read_directory.                                                    *)
(***************************************************************************)
\* Mutant of MarkersIn: only the sector just read is searched.
MarkersInLast(n) ==
  {i \in (n - 1) * SECTOR_SIZE .. n * SECTOR_SIZE - MARKER_SIZE :
     \A k \in 0 .. MARKER_SIZE - 1 : DirByte(i + k) = Byte("marker", 0, k)}

\* Where __END__ is found after n sectors were read.
MarkersIn(n) ==
  {i \in 0 .. n * SECTOR_SIZE - MARKER_SIZE :
     \A k \in 0 .. MARKER_SIZE - 1 : DirByte(i + k) = Byte("marker", 0, k)}

SectorsRead ==
  Min({n \in 1 .. DIR_BUFFER_SIZE \div SECTOR_SIZE :
         MarkersIn(n) # {} \/ (n + 1) * SECTOR_SIZE > DIR_BUFFER_SIZE})

DirSize ==
  LET n == SectorsRead
  IN  IF MarkersIn(n) # {} THEN Min(MarkersIn(n)) ELSE n * SECTOR_SIZE

NoBmp == [offset |-> 0, width |-> 0, height |-> 0, bpp |-> 0]
NoFile == [name |-> "?", ext |-> "?", id |-> -1, start |-> 0, size |-> 0,
           magic |-> FALSE, entry |-> FALSE, phdrs |-> <<>>, bmp |-> NoBmp]

\* The entry in the bytes from offset on.
Parse(offset) ==
  LET n == DirByte(offset)[2]
  IN  IF \A k \in 0 .. DIR_ENTRY_SIZE - 1 :
           DirByte(offset + k) = Byte("entry", n, k)
        THEN disk[n] ELSE NoFile

ReadDirectory ==
  LET count == Min({DirSize \div DIR_ENTRY_SIZE, MAX_FILES})
  IN  [n \in 1 .. count |-> Parse((n - 1) * DIR_ENTRY_SIZE)]

\* glfs_find_file_index: the first with the name, or 0.
Find(files, name) ==
  LET with == {n \in 1 .. Len(files) : files[n].name = name}
  IN  IF with = {} THEN 0 ELSE Min(with)

-----------------------------------------------------------------------------
(***************************************************************************)
(* Memory.                                                                 *)
(***************************************************************************)
Page(a) == a \div PAGE_SIZE
PageBytes(p) == p * PAGE_SIZE .. (p + 1) * PAGE_SIZE - 1

\* Mutant of PagesFor: the last page is forgotten.
PagesForWhole(base, size) ==
  Page(base) .. Page(base) + size \div PAGE_SIZE - 1

\* The loops over (size + 0xFFF) / 0x1000 pages.
PagesFor(base, size) ==
  Page(base) .. Page(base) + (size + PAGE_SIZE - 1) \div PAGE_SIZE - 1

\* From the page of a segment's first byte to that of its last.
SegmentPages(ph) ==
  Page(ph.vaddr) .. Page(ph.vaddr + ph.memsz + PAGE_SIZE - 1) - 1

\* The bytes of the arguments from the i-th on, each with its NUL.
ArgBytes(args, i) ==
  UNION {{j} \X (0 .. Len(args[j])) : j \in i .. Len(args)}

ArgDataSize(args) == Cardinality(ArgBytes(args, 1))

TotalMappedStack(args) ==
  LET needed == ArgDataSize(args) + (Len(args) + 1) * PTR_SIZE + 2 * PTR_SIZE
  IN  ((needed + SLACK + PAGE_SIZE - 1) \div PAGE_SIZE) * PAGE_SIZE

StackPages(args) ==
  PagesFor(ELF_STACK_TOP - TotalMappedStack(args), TotalMappedStack(args))

\* Where string i goes: the last one ends at the top.
ArgString(args, i) == ELF_STACK_TOP - Cardinality(ArgBytes(args, i))

\* elf_argv takes 10 strings, and a line of the shell is short.
ASSUME ArgsAssumption ==
  \A args \in ArgLists \cup {AutorunArgs} :
    /\ args \in Seq(ToSet(args)) /\ Len(args) <= 10
    /\ \A s \in ToSet(args) : s \in Seq(ToSet(s))
    /\ TotalMappedStack(args) < ELF_STACK_TOP

LoadSegments(f) == {n \in 1 .. Len(f.phdrs) : f.phdrs[n].load}

\* What a linker makes, and the loader does not check: segments lie within the
\* file, are no shorter in memory, and leave its buffer and the stack alone.
ASSUME ProgramsAssumption ==
  \A f \in Files : f.magic => \A n \in LoadSegments(f) :
    LET ph == f.phdrs[n]
    IN  /\ {ph.vaddr, ph.offset, ph.filesz, ph.memsz} \subseteq Nat
        /\ ph.write \in BOOLEAN
        /\ ph.filesz <= ph.memsz /\ ph.offset + ph.filesz <= f.size
        /\ SegmentPages(ph) \cap PagesFor(ELF_TEMP_LOAD, f.size) = {}
        /\ \A args \in ArgLists \cup {AutorunArgs} :
             SegmentPages(ph) \cap StackPages(args) = {}

\* What g holds where f holds nothing, and f.
f ++ g ==
  [a \in DOMAIN f \cup DOMAIN g |-> IF a \in DOMAIN f THEN f[a] ELSE g[a]]

\* The memory after these pages got new frames.
Fresh(m, pages) ==
  [a \in UNION {PageBytes(p) : p \in pages} |-> Junk] ++ m

Map(pages, user, rw) ==
  /\ flags' = [p \in pages |-> [user |-> user, rw |-> rw]] ++ flags
  /\ own' = own \cup pages

\* The kernel stores these bytes; it runs without write protection.
Strays(bytes) == {a \in DOMAIN bytes : Page(a) \notin own'} # {}

Store(m, bytes) ==
  /\ mem' = [a \in DOMAIN m |-> IF a \in DOMAIN bytes THEN bytes[a] ELSE m[a]]
  /\ stray' = (stray \/ Strays(bytes))

Zeros(from, to) == [a \in from .. to |-> Zero]

-----------------------------------------------------------------------------
NoJob == [how |-> "none", n |-> 0, file |-> NoFile, args |-> <<>>]

Init ==
  /\ disk \in Disks
  /\ glfs_files = ReadDirectory
  /\ mem = <<>> /\ flags = <<>>
  /\ pc = "shell" /\ job = NoJob
  /\ copy = [sector |-> 0, remaining |-> 0, dest |-> 0]
  /\ seg = 0 /\ esp = 0 /\ loads = 0
  /\ chosen = NoFile /\ own = {} /\ stray = FALSE /\ screen = <<>>

\* The command or the number typed means entry n.
Open(how, n, args) ==
  /\ pc = "shell" /\ loads < MaxLoads
  /\ loads' = loads + 1
  /\ pc' = "open"
  /\ job' = [how |-> how, n |-> n, file |-> glfs_files[n], args |-> args]
  /\ chosen' = glfs_files[n]
  /\ own' = {} /\ stray' = FALSE
  /\ UNCHANGED <<disk, glfs_files, mem, flags, copy, seg, esp, screen>>

\* glfs_exec_bin_shell, glfs_exec_elf_shell, mess_shell and squint_shell; a
\* name that is not found is an error message.
NamedCommand(how, name, args) ==
  /\ Find(glfs_files, name) # 0
  /\ Open(how, Find(glfs_files, name), args)

How(ext) == CASE ext = "bin" -> "bin" [] ext = "elf" -> "elf"
              [] ext = "txt" -> "mess" [] ext = "bmp" -> "squint"
              [] OTHER -> "none"

\* glfs_prompt, which counts from 1.
Autorun(f) ==
  /\ f \in 1 .. Len(glfs_files)
  /\ How(glfs_files[f].ext) # "none"
  /\ Open(How(glfs_files[f].ext), f,
          IF glfs_files[f].ext = "elf" THEN AutorunArgs ELSE <<>>)

LoadAddress ==
  CASE job.how = "bin" -> USER_BIN_BASE [] job.how = "elf" -> ELF_TEMP_LOAD
    [] OTHER -> TXT_BASE

\* Mutant of LookedUp: the number is used as an index.
LookedUpNext(files) == files[IF job.n < Len(files) THEN job.n + 1 ELSE 1]

\* The entry in the directory just read: exec_bin was given the name, the
\* others the number.
LookedUp(files) ==
  IF job.how = "bin" THEN files[Find(files, job.file.name)] ELSE files[job.n]

\* The directory is read and the file looked up again, the pages for it are
\* mapped, and glfs_load_file begins.
BeginLoad ==
  /\ pc = "open"
  /\ glfs_files' = ReadDirectory
  /\ job' = [job EXCEPT !.file = LookedUp(glfs_files')]
  /\ LET pages == PagesFor(LoadAddress, job'.file.size)
     IN  /\ mem' = Fresh(mem, pages)
         /\ Map(pages, job.how = "bin", TRUE)
  /\ copy' = [sector |-> job'.file.start, remaining |-> job'.file.size,
              dest |-> LoadAddress]
  /\ pc' = "copy"
  /\ UNCHANGED <<disk, seg, esp, loads, chosen, stray, screen>>

BytesToCopy ==
  IF copy.remaining >= SECTOR_SIZE THEN SECTOR_SIZE ELSE copy.remaining

CopySector ==
  /\ pc = "copy" /\ copy.remaining # 0
  /\ UNCHANGED <<flags, own>>
  /\ Store(mem, [a \in copy.dest .. copy.dest + BytesToCopy - 1 |->
                   DiskByte(copy.sector, a - copy.dest)])
  /\ copy' = [sector |-> copy.sector + 1, dest |-> copy.dest + BytesToCopy,
              remaining |-> copy.remaining - BytesToCopy]
  /\ UNCHANGED <<disk, glfs_files, pc, job, seg, esp, loads, chosen, screen>>

\* The file is in memory.  elf_load goes by the magic number, type and machine
\* (magic), squint by bfType; what is no program or bitmap they refuse, and the
\* shell is back.
EndLoad ==
  /\ pc = "copy" /\ copy.remaining = 0
  /\ pc' = CASE job.how = "bin" -> "stack" [] job.how = "mess" -> "view"
             [] job.how = "elf" /\ job.file.magic -> "elf"
             [] job.how = "squint" /\ job.file.bmp # NoBmp -> "confirm"
             [] OTHER -> "shell"
  /\ seg' = 1
  /\ UNCHANGED <<disk, glfs_files, mem, flags, job, copy, esp, loads, chosen,
                 own, stray, screen>>

-----------------------------------------------------------------------------
(***************************************************************************)
(* elf_load and the stack.                                                 *)
(***************************************************************************)
Segment == job.file.phdrs[seg]

\* Mutant of SegmentBytes: the rest of the segment is not zeroed.
SegmentBytesNoZeros(ph) ==
  [a \in ph.vaddr .. ph.vaddr + ph.filesz - 1 |->
     mem[ELF_TEMP_LOAD + ph.offset + a - ph.vaddr]]

\* mem_cpy from the buffer, then memset.
SegmentBytes(ph) ==
  [a \in ph.vaddr .. ph.vaddr + ph.filesz - 1 |->
     mem[ELF_TEMP_LOAD + ph.offset + a - ph.vaddr]]
  ++ Zeros(ph.vaddr + ph.filesz, ph.vaddr + ph.memsz - 1)

LoadSegment ==
  /\ pc = "elf" /\ seg <= Len(job.file.phdrs)
  /\ seg' = seg + 1
  /\ IF Segment.load
       THEN /\ Map(SegmentPages(Segment), TRUE, Segment.write)
            /\ Store(Fresh(mem, SegmentPages(Segment)), SegmentBytes(Segment))
       ELSE UNCHANGED <<mem, flags, own, stray>>
  /\ UNCHANGED <<disk, glfs_files, pc, job, copy, esp, loads, chosen, screen>>

\* An entry point of 0 (not entry) means that elf_load failed.
Loaded ==
  /\ pc = "elf" /\ seg > Len(job.file.phdrs)
  /\ pc' = IF job.file.entry THEN "stack" ELSE "shell"
  /\ UNCHANGED <<disk, glfs_files, mem, flags, job, copy, seg, esp, loads,
                 chosen, own, stray, screen>>

ArgvArray(args) == ArgString(args, 1) - (Len(args) + 1) * PTR_SIZE

\* Mutant of StackPointer: it is aligned after the two values are pushed.
StackPointerLate(args) ==
  ((ArgvArray(args) - 2 * PTR_SIZE + ALIGN - 1) \div ALIGN) * ALIGN

\* Aligned below the array, then the address of the array and argc.
StackPointer(args) ==
  (ArgvArray(args) \div ALIGN) * ALIGN - 2 * PTR_SIZE

WordByte(of, n, k) == IF n = 0 THEN Zero ELSE Byte(of, n, k)
Word(a, of, n) == [b \in a .. a + PTR_SIZE - 1 |-> WordByte(of, n, b - a)]

\* The pointers of the array, and the strings.
Pointers(args) ==
  [a \in ArgvArray(args) .. ArgvArray(args) + Len(args) * PTR_SIZE - 1 |->
     LET offset == a - ArgvArray(args)
     IN  WordByte("ptr", ArgString(args, offset \div PTR_SIZE + 1),
                  offset % PTR_SIZE)]

Strings(args) ==
  [a \in ArgString(args, 1) .. ELF_STACK_TOP - 1 |->
     LET i == CHOOSE i \in 1 .. Len(args) :
                a \in ArgString(args, i) .. ArgString(args, i + 1) - 1
         k == a - ArgString(args, i)
     IN  IF k < Len(args[i]) THEN Byte("char", args[i][k + 1], 0) ELSE Zero]

\* The stores of exec_elf, the last ones first.
StackBytes(args) ==
  Word(StackPointer(args) - PTR_SIZE, "canary", 1)
    ++ Word(StackPointer(args), "int", Len(args))
    ++ Word(StackPointer(args) + PTR_SIZE, "ptr", ArgvArray(args))
    ++ Word(ArgvArray(args) + Len(args) * PTR_SIZE, "ptr", 0)
    ++ Pointers(args)
    ++ Strings(args)
    ++ Zeros(ELF_STACK_TOP - TotalMappedStack(args), ELF_STACK_TOP - 1)

StartElf ==
  /\ pc = "stack" /\ job.how = "elf"
  /\ Map(StackPages(job.args), TRUE, TRUE)
  /\ Store(Fresh(mem, StackPages(job.args)), StackBytes(job.args))
  /\ esp' = StackPointer(job.args)
  /\ pc' = "user"
  /\ UNCHANGED <<disk, glfs_files, job, copy, seg, loads, chosen, screen>>

\* exec_bin maps the page of BIN_STACK and those below it, and starts the
\* program with a pointer that lies as many pages above.
StartBin ==
  /\ pc = "stack" /\ job.how = "bin"
  /\ LET pages == Page(BIN_STACK) - (USER_BIN_PAGES - 1) .. Page(BIN_STACK)
     IN  /\ Map(pages, TRUE, TRUE)
         /\ mem' = Fresh(mem, pages)
  /\ esp' = BIN_STACK + USER_BIN_PAGES * PAGE_SIZE - PTR_SIZE
  /\ pc' = "user"
  /\ UNCHANGED <<disk, glfs_files, job, copy, seg, loads, chosen, stray,
                 screen>>

-----------------------------------------------------------------------------
(***************************************************************************)
(* squint.                                                                 *)
(***************************************************************************)
TopDown(bmp) == bmp.height < 0
Height(bmp) == IF TopDown(bmp) THEN -bmp.height ELSE bmp.height
BytesPerPixel(bmp) == bmp.bpp \div 8

\* Mutant of RowSize: rows are not padded.
RowSizeBare(bmp) == bmp.width * BytesPerPixel(bmp)

RowSize(bmp) == ((bmp.width * BytesPerPixel(bmp) + 3) \div 4) * 4

\* What a drawing program makes, and squint does not check: the pixels lie
\* within the file.
ASSUME BitmapsAssumption ==
  \A f \in Files : f.bmp.bpp \in {24, 32} =>
    /\ f.bmp.offset \in Nat /\ f.bmp.width \in Nat /\ f.bmp.height \in Int
    /\ f.bmp.offset + Height(f.bmp) * RowSize(f.bmp) <= f.size

Bmp == job.file.bmp

ByteAt(a) == IF a \in DOMAIN mem THEN mem[a] ELSE Junk

\* Blue, green and red of pixel (x, y).
Color(x, y) ==
  LET row == IF TopDown(Bmp) THEN y ELSE Height(Bmp) - 1 - y
      px == LoadAddress + Bmp.offset + row * RowSize(Bmp)
              + x * BytesPerPixel(Bmp)
  IN  <<ByteAt(px), ByteAt(px + 1), ByteAt(px + 2)>>

\* put_pixel, row by row: what is too wide continues in the row below, where
\* the picture's next row covers it.  put_pixel has no bounds: what is too high
\* is stored past the framebuffer, which is left out.  The pitch is fb_width.
Put(i) ==
  LET at == {p \in (0 .. Bmp.width - 1) \X (0 .. Height(Bmp) - 1) :
               p[2] * fb_width + p[1] = i}
      last == CHOOSE p \in at : \A q \in at : q[2] <= p[2]
  IN  Color(last[1], last[2])

Picture ==
  [i \in {y * fb_width + x : x \in 0 .. Bmp.width - 1,
                             y \in 0 .. Height(Bmp) - 1}
           \cap 0 .. fb_width * fb_height - 1 |-> Put(i)]

\* The user has said y: render_bmp_image, which refuses other depths, then
\* draw_status_bar.
RenderBmpImage ==
  /\ pc = "confirm"
  /\ screen' = [i \in StatusBar |-> "bar"]
                 ++ IF Bmp.bpp \in {24, 32} THEN Picture ELSE <<>>
  /\ pc' = "view"
  /\ UNCHANGED <<disk, glfs_files, mem, flags, job, copy, seg, esp, loads,
                 chosen, own, stray>>

Cancel ==
  /\ pc = "confirm"
  /\ pc' = "shell"
  /\ UNCHANGED <<disk, glfs_files, mem, flags, job, copy, seg, esp, loads,
                 chosen, own, stray, screen>>

\* The program exits or the viewer is closed, which clears the screen; what was
\* mapped stays.
Leave ==
  /\ pc \in {"user", "view"}
  /\ pc' = "shell"
  /\ screen' = <<>>
  /\ UNCHANGED <<disk, glfs_files, mem, flags, job, copy, seg, esp, loads,
                 chosen, own, stray>>

Next ==
  \/ \E n \in 1 .. Len(glfs_files) :
       LET name == glfs_files[n].name
       IN  \/ NamedCommand("bin", name, <<>>)
           \/ NamedCommand("mess", name, <<>>)
           \/ NamedCommand("squint", name, <<>>)
           \/ \E args \in ArgLists : NamedCommand("elf", name, args)
           \/ Autorun(n)
  \/ BeginLoad \/ CopySector \/ EndLoad
  \/ LoadSegment \/ Loaded \/ StartElf \/ StartBin
  \/ Cancel \/ RenderBmpImage \/ Leave

Spec == Init /\ [][Next]_vars

-----------------------------------------------------------------------------
(***************************************************************************)
(* Properties.                                                             *)
(***************************************************************************)
\* The bytes are in memory from address a on.
Holds(a, bytes) ==
  \A k \in 1 .. Len(bytes) :
    a + k - 1 \in DOMAIN mem /\ mem[a + k - 1] = bytes[k]

FileText(f) == [k \in 1 .. f.size |-> FileByte(f, k - 1)]

Distinct(files) ==
  \A m, n \in 1 .. Len(files) : files[m].name = files[n].name => m = n

PagesApart(f) ==
  \A m, n \in LoadSegments(f) :
    m # n => SegmentPages(f.phdrs[m]) \cap SegmentPages(f.phdrs[n]) = {}

TypeOK ==
  /\ pc \in {"shell", "open", "copy", "elf", "stack", "user", "confirm",
             "view"}
  /\ ToSet(glfs_files) \subseteq ToSet(disk) \cup {NoFile}
  /\ DOMAIN mem = UNION {PageBytes(p) : p \in DOMAIN flags}
  /\ own \subseteq DOMAIN flags
  /\ pc = "copy" => copy.remaining \in 0 .. job.file.size
  /\ pc = "elf" => seg \in 1 .. Len(job.file.phdrs) + 1
  /\ loads \in 0 .. MaxLoads /\ stray \in BOOLEAN

\* glfs_read_directory gets the files of the disk, in order and up to what the
\* buffer and the table hold, and nothing else: no entry is made of the end
\* marker, which may lie across two sectors, or of what comes after it.
DirectoryRead ==
  glfs_files = SubSeq(disk, 1, Min({Len(disk), MAX_FILES,
                                    DIR_BUFFER_SIZE \div DIR_ENTRY_SIZE}))

\* What runs or is shown is the file the user chose by name or number, every
\* byte of it at its place, as long as no two files have the same name.
ChosenFileInPlace ==
  pc \in {"elf", "stack", "user", "confirm", "view"} /\ Distinct(disk) =>
    Holds(LoadAddress, FileText(chosen))

\* A bitmap as its format has it: rows of pixels, the lowest first unless the
\* height is negative, each filled up to a multiple of four bytes.
Stored(bmp) ==
  LET height == IF bmp.height < 0 THEN -bmp.height ELSE bmp.height
      Pixel(x, y) == [k \in 1 .. bmp.bpp \div 8 |-> <<x, y, k>>]
      Pixels(y) == FlattenSeq([x \in 1 .. bmp.width |-> Pixel(x - 1, y)])
      Filled(row) == row \o [k \in 1 .. (4 - (Len(row) % 4)) % 4 |-> <<>>]
      rows == [y \in 1 .. height |-> Filled(Pixels(y - 1))]
  IN  FlattenSeq(IF bmp.height < 0 THEN rows ELSE Reverse(rows))

\* squint shows every pixel of a bitmap of 24 or 32 bits that fits the screen
\* at its place and in its colour, whatever was loaded at that address before,
\* except under its line of text.
ImageShown ==
  pc = "view" /\ job.how = "squint" /\ Bmp.bpp \in {24, 32}
    /\ Bmp.width <= fb_width /\ Height(Bmp) <= fb_height =>
  LET stored == Stored(Bmp)
  IN  \A n \in DOMAIN stored :
        LET x == stored[n][1]
            y == stored[n][2]
            k == stored[n][3]
        IN  stored[n] = <<>> \/ k = 4 \/ y * fb_width + x \in StatusBar \/
            screen[y * fb_width + x][k] = FileByte(chosen, Bmp.offset + n - 1)

\* Loading a file, its segments and its stack stores nothing outside the pages
\* mapped for it, whatever the sizes: it may not reach what was loaded before
\* nor the kernel.
LoadsStayInside == ~stray

\* When an ELF program starts, each segment is as its header says: the bytes of
\* the file, then zeros, although frames come with old contents and a segment
\* may begin and end inside a page; and its pages have its rights.  Programs
\* with two segments in one page are left out (elf.c:50 maps it twice).
SegmentsIntact ==
  pc = "user" /\ job.how = "elf" /\ PagesApart(job.file) =>
    \A n \in LoadSegments(job.file) :
      LET ph == job.file.phdrs[n]
      IN  /\ Holds(ph.vaddr, [k \in 1 .. ph.memsz |->
                                IF k <= ph.filesz
                                  THEN FileByte(job.file, ph.offset + k - 1)
                                  ELSE Zero])
          /\ \A p \in SegmentPages(ph) :
               flags[p] = [user |-> TRUE, rw |-> ph.write]

\* A program's first instruction finds at esp what main(argc, argv) takes:
\* the count, the address of an array that ends with NULL, and in the array
\* the address of each argument, ended by a NUL; all of it, and the place for
\* the first push, in pages it may write.
ArgsIntact ==
  pc = "user" /\ job.how = "elf" =>
    LET argc == Len(job.args)
        Value(a) == [k \in 0 .. PTR_SIZE - 1 |-> mem[a + k]]
        Points(a, to) == \A k \in 0 .. PTR_SIZE - 1 :
                           mem[a + k] = Byte("ptr", to, k)
        argv == mem[esp + PTR_SIZE][2]
        arg(i) == mem[argv + (i - 1) * PTR_SIZE][2]
        Writable(from, to) ==
          \A p \in Page(from) .. Page(to) :
            p \in DOMAIN flags /\ flags[p] = [user |-> TRUE, rw |-> TRUE]
    IN  /\ Writable(esp - PTR_SIZE, ELF_STACK_TOP - 1)
        /\ Value(esp) = IF argc = 0 THEN [k \in 0 .. PTR_SIZE - 1 |-> Zero]
                        ELSE [k \in 0 .. PTR_SIZE - 1 |-> Byte("int", argc, k)]
        /\ Points(esp + PTR_SIZE, argv)
        /\ \A k \in 0 .. PTR_SIZE - 1 : mem[argv + argc * PTR_SIZE + k] = Zero
        /\ \A i \in 1 .. argc :
             /\ Points(argv + (i - 1) * PTR_SIZE, arg(i))
             /\ Holds(arg(i),
                      [k \in 1 .. Len(job.args[i]) |->
                         Byte("char", job.args[i][k], 0)] \o <<Zero>>)
=============================================================================

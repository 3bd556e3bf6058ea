---------------------------- MODULE Loader_proofs ---------------------------
(***************************************************************************)
(* Proofs about Loader, for every size of sector, entry, page and buffer,  *)
(* every layout of the areas and every disk and arguments that satisfy the *)
(* assumptions: the directory is read, files are loaded whole and where    *)
(* nothing else is stored, programs start with their segments and their    *)
(* arguments.                                                              *)
(*                                                                         *)
(* The properties speak of the moment a program or a viewer starts.        *)
(* LoadInv says how it came there: the entries known are the beginning of  *)
(* the disk's (Known); the file being loaded is the one meant (JobInv);    *)
(* memory is what the mapped pages hold (MemoryInv); glfs_load_file has    *)
(* copied all but the remaining bytes and goes on at the sector they begin *)
(* with (CopyInv); the file, the segments elf_load has come past and the   *)
(* stack stay as they were put, because what is mapped later is mapped     *)
(* elsewhere (FileInv, SegmentsInv, StackInv); and the screen shows the    *)
(* picture that lies in memory (ImageInv).                                 *)
(*                                                                         *)
(* The arithmetic is in the lemmas before: the marker is found only behind *)
(* the last entry; the pages mapped for an area hold it; a sector of a     *)
(* file holds the file's bytes; the strings, pointers and words exec_elf   *)
(* stores do not overlap and fit the pages of the stack; the rows of a     *)
(* bitmap are where the row size that squint computes puts them.           *)
(***************************************************************************)
EXTENDS Loader, FunctionTheorems, FiniteSetTheorems, SequenceTheorems,
        WellFoundedInduction, TLAPS

-----------------------------------------------------------------------------
(***************************************************************************)
(* The invariant.                                                          *)
(***************************************************************************)
\* The entries known are those that reading the disk gives.
Known == disk \in Disks /\ glfs_files = ReadDirectory

\* Memory is what the mapped pages hold, and nothing was stored elsewhere.
MemoryInv ==
  /\ DOMAIN flags \subseteq Int /\ own \subseteq DOMAIN flags
  /\ DOMAIN mem = UNION {PageBytes(p) : p \in DOMAIN flags}
  /\ stray = FALSE

\* The job is what the user asked for.
JobInv ==
  /\ pc \in {"shell", "open", "copy", "elf", "stack", "user", "confirm",
             "view"}
  /\ loads \in 0 .. MaxLoads
  /\ pc # "shell" =>
       /\ job.how \in {"bin", "elf", "mess", "squint"}
       /\ job.file \in ToSet(disk)
       /\ job.how = "elf" => job.args \in ArgLists \cup {AutorunArgs}
       /\ Distinct(disk) \/ job.how # "bin" => job.file = chosen
  /\ pc = "open" => /\ DOMAIN job = {"how", "n", "file", "args"}
                    /\ job.n \in 1 .. Len(glfs_files)
                    /\ job.file = glfs_files[job.n] /\ chosen = job.file
  /\ pc = "elf" => job.how = "elf" /\ seg \in 1 .. Len(job.file.phdrs) + 1
  /\ pc \in {"elf", "stack", "user"} /\ job.how = "elf" => job.file.magic

\* The first n bytes of the file are where it is loaded.
InPlace(n) ==
  \A k \in 0 .. n - 1 : /\ LoadAddress + k \in DOMAIN mem
                        /\ mem[LoadAddress + k] = FileByte(job.file, k)

\* glfs_load_file has copied all but the remaining bytes, and the sector it
\* reads next is the one they begin with.
CopyInv ==
  pc = "copy" =>
    LET f == job.file
    IN  /\ PagesFor(LoadAddress, f.size) \subseteq own
        /\ copy.remaining \in 0 .. f.size /\ copy.sector \in Int
        /\ copy.dest = LoadAddress + (f.size - copy.remaining)
        /\ copy.remaining # 0 =>
             SECTOR_SIZE * (copy.sector - f.start) = f.size - copy.remaining
        /\ InPlace(f.size - copy.remaining)

\* Afterwards the file stays where it is, whatever is mapped or stored then.
FileInv ==
  pc \in {"elf", "stack", "user", "confirm", "view"} => InPlace(job.file.size)

\* Segment n is in memory as its header says.
Intact(n) ==
  LET ph == job.file.phdrs[n]
  IN  /\ \A p \in SegmentPages(ph) :
           p \in DOMAIN flags /\ flags[p] = [user |-> TRUE, rw |-> ph.write]
      /\ \A k \in 0 .. ph.memsz - 1 :
           /\ ph.vaddr + k \in DOMAIN mem
           /\ mem[ph.vaddr + k] = IF k < ph.filesz
                                    THEN FileByte(job.file, ph.offset + k)
                                    ELSE Zero

\* The segments elf_load has come past are.
SegmentsInv ==
  pc \in {"elf", "stack", "user"} /\ job.how = "elf" /\ PagesApart(job.file) =>
    \A n \in LoadSegments(job.file) : (pc = "elf" => n < seg) => Intact(n)

\* The stack of an ELF program is what exec_elf stored.
StackInv ==
  pc = "user" /\ job.how = "elf" =>
    /\ esp = StackPointer(job.args)
    /\ \A p \in StackPages(job.args) :
         p \in DOMAIN flags /\ flags[p] = [user |-> TRUE, rw |-> TRUE]
    /\ \A a \in DOMAIN StackBytes(job.args) :
         a \in DOMAIN mem /\ mem[a] = StackBytes(job.args)[a]

\* A picture that fits the screen is there pixel by pixel.
ImageInv ==
  pc = "view" /\ job.how = "squint" /\ Bmp.bpp \in {24, 32}
    /\ Bmp.width <= fb_width /\ Height(Bmp) <= fb_height =>
    \A x \in 0 .. Bmp.width - 1, y \in 0 .. Height(Bmp) - 1 :
      \/ y * fb_width + x \in StatusBar
      \/ screen[y * fb_width + x] = Color(x, y)

LoadInv ==
  /\ Known /\ JobInv /\ MemoryInv /\ CopyInv /\ FileInv /\ SegmentsInv
  /\ StackInv /\ ImageInv

\* Everything but the directory, the job and the screen.
PlaceInv == MemoryInv /\ CopyInv /\ FileInv /\ SegmentsInv /\ StackInv

-----------------------------------------------------------------------------
(***************************************************************************)
(* Functions and numbers.                                                  *)
(***************************************************************************)
\* One function over another.
LEMMA Overlay ==
  ASSUME NEW f, NEW g, NEW a
  PROVE  /\ DOMAIN (f ++ g) = DOMAIN f \cup DOMAIN g
         /\ a \in DOMAIN f => (f ++ g)[a] = f[a]
         /\ a \in DOMAIN g \ DOMAIN f => (f ++ g)[a] = g[a]
BY DEF ++

\* The community modules' Min is in the set and below its elements.
LEMMA MinElement ==
  ASSUME NEW S \in SUBSET Nat, S # {}
  PROVE  Min(S) \in S /\ \A y \in S : Min(S) <= y
<1>1. PICK x \in S : \A y \in S : <<y, x>> \notin OpToRel(<, Nat)
  BY NatLessThanWellFounded, WFMin, Zenon
<1>2. \A y \in S : x <= y
  <2> SUFFICES ASSUME NEW y \in S PROVE ~(y < x)
    OBVIOUS
  <2>1. y < x => <<y, x>> \in OpToRel(<, Nat)
    BY DEF OpToRel
  <2> QED BY <1>1, <2>1
<1> QED BY <1>2 DEF Min

\* Quotients by m, for the provers: the number between two multiples.
LEMMA Quotient ==
  ASSUME NEW m \in Nat \ {0}, NEW n \in Int, NEW q \in Int,
         m * q <= n, n < m * q + m
  PROVE  n \div m = q
<1> DEFINE d == n \div m
           e == n % m
<1>1. d \in Int /\ e \in 0 .. m - 1 /\ n = m * d + e
  OBVIOUS
<1>2. CASE d > q
  <2>1. m * d >= m * q + m
    <3>1. d - q - 1 \in Nat
      BY <1>1, <1>2
    <3>2. m * (d - q - 1) >= 0
      BY <3>1
    <3> QED BY <1>1, <3>2
  <2> QED BY <1>1, <2>1
<1>3. CASE d < q
  <2>1. m * q >= m * d + m
    <3>1. q - d - 1 \in Nat
      BY <1>1, <1>3
    <3>2. m * (q - d - 1) >= 0
      BY <3>1
    <3> QED BY <1>1, <3>2
  <2> QED BY <1>1, <2>1
<1> QED BY <1>1, <1>2, <1>3

\* Quotient and remainder of any integer.
LEMMA Division ==
  ASSUME NEW m \in Nat \ {0}, NEW n \in Int
  PROVE  /\ n \div m \in Int /\ n % m \in 0 .. m - 1
         /\ m * (n \div m) <= n /\ n < m * (n \div m) + m
         /\ n = m * (n \div m) + (n % m)
<1>1. n \div m \in Int /\ n % m \in 0 .. m - 1 /\ n = m * (n \div m) + (n % m)
  OBVIOUS
<1>2. m * (n \div m) \in Int
  BY <1>1
<1> QED BY <1>1, <1>2

-----------------------------------------------------------------------------
(***************************************************************************)
(* The directory.                                                          *)
(***************************************************************************)
\* The sizes the directory depends on are what the assumptions say.
LEMMA DirSizes ==
  /\ DIR_ENTRY_SIZE \in Nat \ {0} /\ MARKER_SIZE \in Nat \ {0}
  /\ SECTOR_SIZE \in Nat \ {0} /\ DIR_BUFFER_SIZE \in Nat \ {0}
  /\ MARKER_SIZE <= DIR_ENTRY_SIZE /\ MAX_FILES \in Nat
BY SizesAssumption

\* A byte of the directory on the disk belongs to the entry it lies in, to the
\* marker behind the last one, or to what pads the sectors.
LEMMA DirBytes ==
  ASSUME Len(disk) \in Nat, NEW i \in Nat
  PROVE  LET le == Len(disk) * DIR_ENTRY_SIZE
         IN  DirByte(i) =
               IF i < le THEN Byte("entry", i \div DIR_ENTRY_SIZE + 1,
                                   i % DIR_ENTRY_SIZE)
               ELSE IF i < le + MARKER_SIZE THEN Byte("marker", 0, i - le)
               ELSE Pad
<1> DEFINE E == DIR_ENTRY_SIZE
           L == Len(disk)
           q == i \div E
<1>1. E \in Nat \ {0} /\ MARKER_SIZE \in Nat
  BY DirSizes
<1>2. q \in Int /\ E * q <= i /\ i < E * q + E
  BY <1>1, Division
<1>3. L * E \in Nat /\ E * q \in Int /\ L * E = E * L
  BY <1>1, <1>2
<1> HIDE DEF q, E, L
<1>4. q + 1 <= L <=> i < E * L
  <2>1. q + 1 <= L => E * (q + 1) <= E * L
    BY <1>1, <1>2 DEF L
  <2>2. E * (q + 1) = E * q + E
    BY <1>1, <1>2
  <2>3. L <= q => E * L <= E * q
    BY <1>1, <1>2 DEF L
  <2> QED BY <1>1, <1>2, <1>3, <2>1, <2>2, <2>3 DEF L
<1> QED BY <1>1, <1>2, <1>3, <1>4 DEF DirByte, q, E, L

\* The marker is found only where it is: behind the last entry.
LEMMA Markers ==
  ASSUME Len(disk) \in Nat, NEW n \in Nat, NEW i \in Nat
  PROVE  i \in MarkersIn(n) <=> /\ i = Len(disk) * DIR_ENTRY_SIZE
                               /\ i + MARKER_SIZE <= n * SECTOR_SIZE
<1> DEFINE le == Len(disk) * DIR_ENTRY_SIZE
<1>1. le \in Nat /\ MARKER_SIZE \in Nat \ {0} /\ n * SECTOR_SIZE \in Nat
  BY DirSizes
<1>2. ASSUME \A k \in 0 .. MARKER_SIZE - 1 :
               DirByte(i + k) = Byte("marker", 0, k)
      PROVE  i = le
  <2>1. DirByte(i) = Byte("marker", 0, 0)
    BY <1>1, <1>2
  <2>2. "entry" # "marker" /\ "pad" # "marker"
    OBVIOUS
  <2>3. DirByte(i) = IF i < le THEN Byte("entry", i \div DIR_ENTRY_SIZE + 1,
                                         i % DIR_ENTRY_SIZE)
                     ELSE IF i < le + MARKER_SIZE
                       THEN Byte("marker", 0, i - le) ELSE Pad
    BY DirBytes
  <2> HIDE DEF le
  <2>4. ~(i < le)
    BY <2>1, <2>2, <2>3 DEF Byte
  <2>5. i < le + MARKER_SIZE
    BY <2>1, <2>2, <2>3, <2>4 DEF Byte, Pad
  <2>6. i - le = 0
    BY <2>1, <2>3, <2>4, <2>5 DEF Byte
  <2> QED BY <1>1, <2>6
<1>3. ASSUME i = le, NEW k \in 0 .. MARKER_SIZE - 1
      PROVE  DirByte(i + k) = Byte("marker", 0, k)
  <2>1. i + k \in Nat /\ ~(i + k < le) /\ i + k < le + MARKER_SIZE
        /\ (i + k) - le = k
    BY <1>1, <1>3
  <2>2. DirByte(i + k) =
          IF i + k < le THEN Byte("entry", (i + k) \div DIR_ENTRY_SIZE + 1,
                                  (i + k) % DIR_ENTRY_SIZE)
          ELSE IF i + k < le + MARKER_SIZE
            THEN Byte("marker", 0, (i + k) - le) ELSE Pad
    BY <2>1, DirBytes
  <2> HIDE DEF le
  <2> QED BY <2>1, <2>2
<1>4. i \in 0 .. n * SECTOR_SIZE - MARKER_SIZE <=>
        i + MARKER_SIZE <= n * SECTOR_SIZE
  BY <1>1
<1> QED BY <1>2, <1>3, <1>4 DEF MarkersIn

\* Reading stops at the marker, or when the buffer is full.
LEMMA DirSizeIs ==
  ASSUME Len(disk) \in Nat
  PROVE  LET le == Len(disk) * DIR_ENTRY_SIZE
         IN  \/ DirSize = le /\ le + MARKER_SIZE <= DIR_BUFFER_SIZE
             \/ DirSize = DIR_BUFFER_SIZE /\ DIR_BUFFER_SIZE < le + MARKER_SIZE
<1> DEFINE le == Len(disk) * DIR_ENTRY_SIZE
           S == SECTOR_SIZE
           B == DIR_BUFFER_SIZE
           Q == B \div S
           stops == {n \in 1 .. Q : MarkersIn(n) # {} \/ (n + 1) * S > B}
           n == SectorsRead
<1>1. S \in Nat \ {0} /\ B \in Nat \ {0} /\ le \in Nat
      /\ MARKER_SIZE \in Nat \ {0}
  BY DirSizes
<1>2. Q \in Nat \ {0} /\ B = S * Q
  <2>1. Q \in Int /\ B = S * Q + (B % S) /\ B % S = 0
    BY <1>1, Division, SizesAssumption
  <2>2. S * Q \in Int
    BY <1>1, <2>1
  <2>3. B = S * Q
    BY <2>1, <2>2
  <2>4. Q <= 0 => S * Q <= 0
    BY <1>1, <2>1
  <2> QED BY <1>1, <2>1, <2>3, <2>4
<1> HIDE DEF Q
<1>3. (Q + 1) * S > B
  <2>1. (Q + 1) * S = S * Q + S
    BY <1>1, <1>2
  <2> QED BY <1>1, <1>2, <2>1
<1>4. Q \in stops /\ stops \in SUBSET Nat
  BY <1>2, <1>3
<1>5. n \in stops
  <2>1. n = Min(stops)
    BY DEF SectorsRead, Q
  <2> HIDE DEF stops, n
  <2> QED BY <1>4, <2>1, MinElement
<1>6. n \in 1 .. Q /\ n \in Nat /\ n * S \in Nat
      /\ (MarkersIn(n) # {} \/ (n + 1) * S > B)
  BY <1>1, <1>2, <1>5
<1>7. MarkersIn(n) \in SUBSET Nat
  BY <1>1, <1>6 DEF MarkersIn
<1>8. DirSize = IF MarkersIn(n) # {} THEN Min(MarkersIn(n)) ELSE n * S
  BY DEF DirSize
<1>9. n * S <= B
  <2>1. n * S <= Q * S
    BY <1>1, <1>2, <1>6
  <2> QED BY <1>1, <1>2, <2>1
<1> HIDE DEF n, le, stops, S, B
<1>10. CASE MarkersIn(n) # {}
  <2>1. Min(MarkersIn(n)) \in MarkersIn(n)
    BY <1>7, <1>10, MinElement
  <2>2. Min(MarkersIn(n)) = le /\ le + MARKER_SIZE <= n * S
    BY <1>6, <1>7, <2>1, Markers DEF le, S
  <2> QED BY <1>1, <1>6, <1>8, <1>9, <1>10, <2>2 DEF le, B
<1>11. CASE MarkersIn(n) = {}
  <2>1. n = Q
    <3>1. n < Q => n + 1 <= Q
      BY <1>2, <1>6
    <3>2. n + 1 <= Q => (n + 1) * S <= Q * S
      BY <1>1, <1>2, <1>6
    <3>3. Q * S = B
      BY <1>1, <1>2
    <3>4. (n + 1) * S \in Nat
      BY <1>1, <1>6
    <3> QED BY <1>1, <1>2, <1>6, <1>11, <3>1, <3>2, <3>3, <3>4
  <2>2. n * S = B
    BY <1>1, <1>2, <2>1
  <2>3. ~(le + MARKER_SIZE <= n * S)
    <3>1. le \notin MarkersIn(n)
      BY <1>11
    <3>2. le \in MarkersIn(n) <=> le + MARKER_SIZE <= n * S
      BY <1>1, <1>6, Markers DEF le, S
    <3> QED BY <3>1, <3>2
  <2> QED BY <1>1, <1>6, <1>8, <1>11, <2>2, <2>3 DEF le, B
<1> QED BY <1>10, <1>11

\* The bytes of the n-th entry make the n-th entry.
LEMMA EntryParsed ==
  ASSUME Len(disk) \in Nat, NEW n \in 1 .. Len(disk)
  PROVE  Parse((n - 1) * DIR_ENTRY_SIZE) = disk[n]
<1> DEFINE E == DIR_ENTRY_SIZE
           o == (n - 1) * E
           le == Len(disk) * E
<1>1. E \in Nat \ {0} /\ o \in Nat /\ n \in Nat /\ le \in Nat
  BY DirSizes
<1>2. ASSUME NEW k \in 0 .. E - 1
      PROVE  DirByte(o + k) = Byte("entry", n, k)
  <2>1. /\ o + k \in Nat /\ o + k \in Int /\ n - 1 \in Int
        /\ E * (n - 1) = o /\ k \in 0 .. E - 1
    BY <1>1
  <2>2. (o + k) \div E = n - 1
    <3>1. E * (n - 1) <= o + k /\ o + k < E * (n - 1) + E
      BY <1>1, <2>1
    <3> HIDE DEF o, E
    <3> QED BY <1>1, <2>1, <3>1, Quotient
  <2>3. (o + k) % E = k
    <3>1. o + k = E * ((o + k) \div E) + ((o + k) % E)
          /\ (o + k) % E \in 0 .. E - 1
      <4> HIDE DEF o, E
      <4> QED BY <1>1, <2>1, Division
    <3> HIDE DEF o, E
    <3> QED BY <1>1, <2>1, <2>2, <3>1
  <2>4. o + k < le
    <3>1. n * E <= Len(disk) * E /\ n * E = o + E
      BY <1>1
    <3> QED BY <1>1, <3>1
  <2>5. DirByte(o + k) = Byte("entry", (o + k) \div E + 1, (o + k) % E)
    <3>1. DirByte(o + k) =
            IF o + k < le THEN Byte("entry", (o + k) \div E + 1, (o + k) % E)
            ELSE IF o + k < le + MARKER_SIZE
              THEN Byte("marker", 0, (o + k) - le) ELSE Pad
      BY <2>1, DirBytes
    <3> HIDE DEF o, E, le
    <3> QED BY <2>4, <3>1
  <2>6. (n - 1) + 1 = n
    BY <1>1
  <2> HIDE DEF o, E, le
  <2> QED BY <2>2, <2>3, <2>5, <2>6
<1>3. DirByte(o)[2] = n
  <2>1. 0 \in 0 .. E - 1 /\ o + 0 = o
    BY <1>1
  <2> HIDE DEF o, E
  <2> QED BY <1>2, <2>1 DEF Byte
<1> HIDE DEF o
<1>4. Parse(o) = disk[n]
  BY <1>2, <1>3 DEF Parse
<1> QED BY <1>4 DEF o

\* What is read is the beginning of the directory: all of it, or what MAX_FILES
\* and the buffer take.
LEMMA DirectoryIs ==
  ASSUME NEW T, disk \in Seq(T)
  PROVE  ReadDirectory = SubSeq(disk, 1, Min({Len(disk), MAX_FILES,
                                      DIR_BUFFER_SIZE \div DIR_ENTRY_SIZE}))
<1> DEFINE E == DIR_ENTRY_SIZE
           L == Len(disk)
           b == DIR_BUFFER_SIZE \div E
           d == DirSize \div E
           count == Min({d, MAX_FILES})
           c == Min({L, MAX_FILES, b})
<1>1. L \in Nat /\ E \in Nat \ {0} /\ MAX_FILES \in Nat
      /\ DIR_BUFFER_SIZE \in Nat /\ L * E \in Nat /\ MARKER_SIZE \in Nat
      /\ MARKER_SIZE <= E /\ MARKER_SIZE \in Nat \ {0}
  BY DirSizes, LenProperties
<1>2. b \in Nat /\ E * b <= DIR_BUFFER_SIZE /\ DIR_BUFFER_SIZE < E * b + E
  <2>1. b \in Int /\ E * b <= DIR_BUFFER_SIZE /\ DIR_BUFFER_SIZE < E * b + E
    BY <1>1, Division
  <2>2. b <= -1 => E * b + E <= 0
    <3>1. b <= -1 => E * (b + 1) <= 0
      BY <1>1, <2>1
    <3>2. E * (b + 1) = E * b + E
      BY <1>1, <2>1
    <3> QED BY <3>1, <3>2
  <2>3. E * b \in Int
    BY <1>1, <2>1
  <2> QED BY <1>1, <2>1, <2>2, <2>3
<1>3. d \in Nat /\ ((d = L /\ L <= b) \/ (d = b /\ b <= L))
  <2>1. CASE DirSize = L * E /\ L * E + MARKER_SIZE <= DIR_BUFFER_SIZE
    <3>1. d = L
      <4>1. E * L <= L * E /\ L * E < E * L + E /\ L * E \in Int /\ L \in Int
        BY <1>1
      <4> HIDE DEF E, L
      <4>2. (L * E) \div E = L
        BY <1>1, <4>1, Quotient
      <4> QED BY <2>1, <4>2 DEF E, L
    <3>2. L <= b
      <4>1. E * L < E * b + E /\ E * b + E = E * (b + 1)
        BY <1>1, <1>2, <2>1
      <4>2. b + 1 <= L => E * (b + 1) <= E * L
        BY <1>1, <1>2
      <4>3. E * L \in Nat /\ E * (b + 1) \in Nat
        BY <1>1, <1>2
      <4> QED BY <1>1, <1>2, <4>1, <4>2, <4>3
    <3>3. d \in Nat
      BY <1>1, <3>1
    <3> HIDE DEF d, L, b
    <3> QED BY <3>1, <3>2, <3>3
  <2>2. CASE DirSize = DIR_BUFFER_SIZE /\ DIR_BUFFER_SIZE < L * E + MARKER_SIZE
    <3>1. b <= L
      <4>1. E * b < E * L + E /\ E * L + E = E * (L + 1)
        BY <1>1, <1>2, <2>2
      <4>2. L + 1 <= b => E * (L + 1) <= E * b
        BY <1>1, <1>2
      <4>3. E * b \in Nat /\ E * (L + 1) \in Nat
        BY <1>1, <1>2
      <4> QED BY <1>1, <1>2, <4>1, <4>2, <4>3
    <3>2. d = b
      BY <2>2
    <3>3. d \in Nat
      BY <1>2, <3>2
    <3> HIDE DEF d, L, b
    <3> QED BY <3>1, <3>2, <3>3
  <2> QED BY <1>1, <2>1, <2>2, DirSizeIs
<1> HIDE DEF d, b, L
<1>4. count = c /\ c \in Nat /\ c <= L
  <2>1. count \in {d, MAX_FILES} /\ count <= d /\ count <= MAX_FILES
    BY <1>1, <1>3, MinElement
  <2>2. c \in {L, MAX_FILES, b} /\ c <= L /\ c <= MAX_FILES /\ c <= b
    BY <1>1, <1>2, MinElement
  <2> HIDE DEF count, c
  <2> QED BY <1>1, <1>2, <1>3, <2>1, <2>2
<1>5. ReadDirectory = [n \in 1 .. count |-> Parse((n - 1) * E)]
  BY DEF ReadDirectory, d
<1> HIDE DEF count, c, E
<1>6. ASSUME NEW n \in 1 .. c PROVE Parse((n - 1) * E) = disk[n]
  BY <1>1, <1>4, EntryParsed DEF L, E
<1>7. ReadDirectory = [n \in 1 .. c |-> disk[n]]
  BY <1>4, <1>5, <1>6
<1>8. SubSeq(disk, 1, c) = [n \in 1 .. c |-> disk[n]]
  <2>1. \A n \in 1 .. c : 1 + n - 1 = n /\ disk[n] \in T
    BY <1>1, <1>4, ElementOfSeq DEF L
  <2>2. /\ SubSeq(disk, 1, c) \in Seq(T)
        /\ Len(SubSeq(disk, 1, c)) = IF 1 <= c THEN c - 1 + 1 ELSE 0
        /\ \A n \in 1 .. c - 1 + 1 : SubSeq(disk, 1, c)[n] = disk[1 + n - 1]
    BY <1>4, <2>1, SubSeqProperties
  <2>3. c - 1 + 1 = c /\ Len(SubSeq(disk, 1, c)) = c
    BY <1>4, <2>2
  <2>4. DOMAIN SubSeq(disk, 1, c) = 1 .. c
        /\ SubSeq(disk, 1, c) = [n \in 1 .. c |-> SubSeq(disk, 1, c)[n]]
    BY <2>2, <2>3, LenProperties
  <2> QED BY <2>1, <2>2, <2>3, <2>4
<1> QED BY <1>7, <1>8 DEF c, b, L, E

\* The files of a disk.
LEMMA DiskIs ==
  ASSUME disk \in Disks
  PROVE  /\ disk \in Seq(Files) /\ Len(disk) \in Nat
         /\ \A n \in 1 .. Len(disk) : disk[n] \in Files
         /\ \A f \in ToSet(disk) :
              f \in Files /\ \E n \in 1 .. Len(disk) : f = disk[n]
<1>1. disk \in Seq(Files)
  BY DisksAssumption
<1>2. DOMAIN disk = 1 .. Len(disk) /\ Len(disk) \in Nat
  BY <1>1, LenProperties
<1>3. \A n \in 1 .. Len(disk) : disk[n] \in Files
  BY <1>1, ElementOfSeq
<1> QED BY <1>1, <1>2, <1>3 DEF ToSet

\* The directory only has the files of the disk, at their places.
LEMMA KnownFiles ==
  ASSUME Known
  PROVE  /\ glfs_files \in Seq(Files)
         /\ Len(glfs_files) \in 0 .. Len(disk)
         /\ \A n \in 1 .. Len(glfs_files) : glfs_files[n] = disk[n]
         /\ DirectoryRead
<1> DEFINE c == Min({Len(disk), MAX_FILES,
                     DIR_BUFFER_SIZE \div DIR_ENTRY_SIZE})
<1>1. disk \in Seq(Files) /\ Len(disk) \in Nat
  BY DiskIs DEF Known
<1>2. glfs_files = SubSeq(disk, 1, c)
  BY <1>1, DirectoryIs DEF Known
<1>3. c \in Nat /\ c <= Len(disk)
  <2>1. DIR_BUFFER_SIZE \div DIR_ENTRY_SIZE \in Nat
    BY DirSizes
  <2> QED BY <1>1, <2>1, DirSizes, MinElement
<1> HIDE DEF c
<1>4. \A n \in 1 .. c : 1 + n - 1 = n /\ disk[n] \in Files
  BY <1>1, <1>3, ElementOfSeq
<1>5. /\ SubSeq(disk, 1, c) \in Seq(Files)
      /\ Len(SubSeq(disk, 1, c)) = IF 1 <= c THEN c - 1 + 1 ELSE 0
      /\ \A n \in 1 .. c - 1 + 1 : SubSeq(disk, 1, c)[n] = disk[1 + n - 1]
  BY <1>3, <1>4, SubSeqProperties
<1>6. Len(SubSeq(disk, 1, c)) = c /\ c - 1 + 1 = c
  BY <1>3, <1>5
<1>7. Len(glfs_files) = c /\ c \in 0 .. Len(disk)
  BY <1>1, <1>2, <1>3, <1>6
<1>8. ASSUME NEW n \in 1 .. Len(glfs_files) PROVE glfs_files[n] = disk[n]
  BY <1>2, <1>4, <1>5, <1>6, <1>7
<1>9. DirectoryRead
  BY <1>2 DEF c, DirectoryRead
<1> QED BY <1>2, <1>5, <1>7, <1>8, <1>9

-----------------------------------------------------------------------------
(***************************************************************************)
(* Pages.                                                                  *)
(***************************************************************************)
\* The sizes of pages and words.
LEMMA PageSizes ==
  /\ PAGE_SIZE \in Nat \ {0} /\ PTR_SIZE \in Nat \ {0} /\ ALIGN \in Nat \ {0}
  /\ SLACK \in Nat /\ USER_BIN_PAGES \in Nat \ {0}
BY SizesAssumption, LayoutAssumption

\* The page of an address.
LEMMA PageIs ==
  ASSUME NEW a \in Int
  PROVE  /\ Page(a) \in Int
         /\ PAGE_SIZE * Page(a) <= a
         /\ a < PAGE_SIZE * Page(a) + PAGE_SIZE
BY PageSizes, Division DEF Page

\* The bytes of a page are those whose page it is.
LEMMA InPage ==
  ASSUME NEW a, NEW p \in Int
  PROVE  a \in PageBytes(p) <=> a \in Int /\ Page(a) = p
<1> DEFINE P == PAGE_SIZE
<1>1. P \in Nat \ {0} /\ p * P = P * p /\ (p + 1) * P = P * p + P
      /\ P * p \in Int
  BY PageSizes
<1>2. a \in PageBytes(p) <=> a \in Int /\ P * p <= a /\ a < P * p + P
  BY <1>1 DEF PageBytes
<1>3. ASSUME a \in Int, P * p <= a, a < P * p + P
      PROVE  Page(a) = p
  BY <1>1, <1>3, Quotient DEF Page
<1>4. ASSUME a \in Int, Page(a) = p
      PROVE  P * p <= a /\ a < P * p + P
  BY <1>4, PageIs
<1> QED BY <1>2, <1>3, <1>4

\* The bytes of some pages are those whose page is one of them.
LEMMA InPages ==
  ASSUME NEW pages \in SUBSET Int, NEW a
  PROVE  a \in UNION {PageBytes(p) : p \in pages}
           <=> a \in Int /\ Page(a) \in pages
<1>1. a \in UNION {PageBytes(p) : p \in pages}
        <=> \E p \in pages : a \in PageBytes(p)
  OBVIOUS
<1>2. \A p \in pages : p \in Int
  OBVIOUS
<1> QED BY <1>1, <1>2, InPage

\* Pages are in the order of their addresses.
LEMMA PageMonotone ==
  ASSUME NEW a \in Int, NEW b \in Int, a <= b
  PROVE  Page(a) <= Page(b)
<1> DEFINE P == PAGE_SIZE
<1>1. /\ P \in Nat \ {0} /\ Page(a) \in Int /\ Page(b) \in Int
      /\ P * Page(a) <= a /\ b < P * Page(b) + P
  BY PageSizes, PageIs
<1>2. Page(b) + 1 <= Page(a) => P * (Page(b) + 1) <= P * Page(a)
  BY <1>1
<1>3. /\ P * (Page(b) + 1) = P * Page(b) + P /\ P * Page(b) \in Int
      /\ P * Page(a) \in Int
  BY <1>1
<1> QED BY <1>1, <1>2, <1>3

\* Where a page begins.
LEMMA PageStart ==
  ASSUME NEW b \in Int, b % PAGE_SIZE = 0
  PROVE  b = PAGE_SIZE * Page(b)
<1>1. b = PAGE_SIZE * (b \div PAGE_SIZE) + 0
  BY PageSizes, Division
<1>2. PAGE_SIZE * (b \div PAGE_SIZE) \in Int
  BY PageSizes, Division
<1> QED BY <1>1, <1>2 DEF Page

\* The page some whole pages further on.
LEMMA PageShift ==
  ASSUME NEW a \in Int, NEW n \in Int
  PROVE  Page(a + n * PAGE_SIZE) = Page(a) + n
<1> DEFINE P == PAGE_SIZE
           q == Page(a)
           b == a + n * P
<1>1. P \in Nat \ {0} /\ q \in Int /\ P * q <= a /\ a < P * q + P
  BY PageSizes, PageIs
<1>2. b \in Int /\ P * (q + n) = P * q + n * P /\ P * q \in Int
      /\ n * P \in Int
  BY <1>1
<1> HIDE DEF q
<1>3. P * (q + n) <= b /\ b < P * (q + n) + P
  BY <1>1, <1>2
<1>4. b \div P = q + n
  <2> HIDE DEF b, P
  <2> QED BY <1>1, <1>2, <1>3, Quotient DEF P
<1> QED BY <1>4 DEF q, Page

\* The pages mapped for a file, or any area that begins with a page, hold it.
LEMMA PagesForHold ==
  ASSUME NEW base \in Int, base % PAGE_SIZE = 0, NEW size \in Nat,
         NEW k \in 0 .. size - 1
  PROVE  Page(base + k) \in PagesFor(base, size)
<1> DEFINE P == PAGE_SIZE
           n == (size + P - 1) \div P
<1>1. P \in Nat \ {0}
  BY PageSizes
<1>2. n \in Int /\ size + P - 1 < P * n + P
  BY <1>1, Division
<1>3. P * n \in Int /\ n * P = P * n
  BY <1>1, <1>2
<1>4. size <= P * n
  BY <1>1, <1>2, <1>3
<1>5. base + k \in Int /\ base <= base + k
      /\ base + k <= base + n * P - 1 /\ base + n * P - 1 \in Int
  BY <1>1, <1>3, <1>4
<1>6. Page(base) <= Page(base + k)
  BY <1>5, PageMonotone
<1>7. Page(base + k) <= Page(base + n * P - 1)
  BY <1>5, PageMonotone
<1>8. Page(base + n * P - 1) = Page(base) + n - 1
  <2>1. base + n * P - 1 = (base + P - 1) + (n - 1) * P
    BY <1>1, <1>2, <1>3
  <2>2. base + P - 1 \in Int /\ n - 1 \in Int
    BY <1>1, <1>2
  <2>3. Page(base + P - 1) = Page(base)
    <3>1. base = P * Page(base) /\ Page(base) \in Int
      BY PageStart, PageIs
    <3>2. P * Page(base) \in Int
      BY <1>1, <3>1
    <3>3. P * Page(base) <= base + P - 1 /\ base + P - 1 < P * Page(base) + P
      BY <1>1, <3>1, <3>2
    <3> QED BY <1>1, <2>2, <3>1, <3>3, Quotient DEF Page
  <2>4. Page((base + P - 1) + (n - 1) * P) = Page(base + P - 1) + (n - 1)
    BY <2>2, PageShift
  <2>5. Page(base) \in Int
    BY PageIs
  <2> HIDE DEF n, P
  <2> QED BY <1>2, <2>1, <2>3, <2>4, <2>5
<1>9. Page(base) \in Int /\ Page(base + k) \in Int
  BY <1>5, PageIs
<1> HIDE DEF n, P
<1> QED BY <1>2, <1>6, <1>7, <1>8, <1>9 DEF PagesFor, n, P

LEMMA PagesForInt ==
  ASSUME NEW base \in Int, NEW size \in Nat
  PROVE  PagesFor(base, size) \in SUBSET Int
BY PageIs DEF PagesFor

\* The pages from a segment's first byte to its last.
LEMMA SegmentPagesHold ==
  ASSUME NEW ph, ph.vaddr \in Nat, ph.memsz \in Nat,
         NEW a \in ph.vaddr .. ph.vaddr + ph.memsz - 1
  PROVE  Page(a) \in SegmentPages(ph)
<1> DEFINE e == ph.vaddr + ph.memsz - 1
<1>1. a \in Int /\ e \in Int /\ ph.vaddr \in Int
  BY SMT
<1>2. Page(ph.vaddr) <= Page(a) /\ Page(a) <= Page(e)
  BY <1>1, PageMonotone
<1>3. Page(e + 1 * PAGE_SIZE) = Page(e) + 1
  BY <1>1, PageShift
<1>4. e + 1 * PAGE_SIZE = ph.vaddr + ph.memsz + PAGE_SIZE - 1
  BY PageSizes
<1>5. Page(ph.vaddr) \in Int /\ Page(a) \in Int /\ Page(e) \in Int
  BY <1>1, PageIs
<1> HIDE DEF e
<1> QED BY <1>2, <1>3, <1>4, <1>5 DEF SegmentPages

LEMMA SegmentPagesInt ==
  ASSUME NEW ph, ph.vaddr \in Nat, ph.memsz \in Nat
  PROVE  SegmentPages(ph) \in SUBSET Int
BY DEF SegmentPages

-----------------------------------------------------------------------------
(***************************************************************************)
(* Mapping and storing.                                                    *)
(***************************************************************************)
\* Mapping pages: their flags are these, everything else keeps its own.
LEMMA Mapped ==
  ASSUME MemoryInv, NEW pages \in SUBSET Int, NEW u, NEW w,
         Map(pages, u, w)
  PROVE  /\ DOMAIN flags' = pages \cup DOMAIN flags
         /\ DOMAIN flags' \subseteq Int
         /\ own' = own \cup pages /\ own' \subseteq DOMAIN flags'
         /\ \A p \in pages : flags'[p] = [user |-> u, rw |-> w]
         /\ \A p \in DOMAIN flags \ pages : flags'[p] = flags[p]
<1> DEFINE new == [p \in pages |-> [user |-> u, rw |-> w]]
<1>1. flags' = new ++ flags /\ DOMAIN new = pages /\ own' = own \cup pages
  BY DEF Map
<1>2. \A p \in pages : new[p] = [user |-> u, rw |-> w]
  OBVIOUS
<1> HIDE DEF new
<1>3. DOMAIN flags' = pages \cup DOMAIN flags
  BY <1>1 DEF ++
<1>4. \A p \in pages : flags'[p] = new[p]
  BY <1>1 DEF ++
<1>5. \A p \in DOMAIN flags \ pages : flags'[p] = flags[p]
  BY <1>1 DEF ++
<1> QED BY <1>1, <1>2, <1>3, <1>4, <1>5 DEF MemoryInv

\* Their memory is new; everything else keeps its bytes.
LEMMA FreshIs ==
  ASSUME MemoryInv, NEW pages \in SUBSET Int
  PROVE  /\ DOMAIN Fresh(mem, pages) =
              UNION {PageBytes(p) : p \in pages \cup DOMAIN flags}
         /\ \A a \in DOMAIN mem : a \in DOMAIN Fresh(mem, pages) /\ a \in Int
         /\ \A a \in DOMAIN mem : Page(a) \notin pages =>
              Fresh(mem, pages)[a] = mem[a]
         /\ \A a \in Int : Page(a) \in pages => a \in DOMAIN Fresh(mem, pages)
<1> DEFINE B == UNION {PageBytes(p) : p \in pages}
           new == [a \in B |-> Junk]
<1>1. Fresh(mem, pages) = new ++ mem /\ DOMAIN new = B
  BY DEF Fresh
<1> HIDE DEF new
<1>2. DOMAIN Fresh(mem, pages) = B \cup DOMAIN mem
  BY <1>1 DEF ++
<1>3. B \cup DOMAIN mem = UNION {PageBytes(p) : p \in pages \cup DOMAIN flags}
  BY DEF MemoryInv
<1>4. ASSUME NEW a \in Int, Page(a) \in pages PROVE a \in B
  BY <1>4, InPages
<1>5. ASSUME NEW a \in DOMAIN mem
      PROVE  /\ a \in Int
             /\ Page(a) \notin pages => Fresh(mem, pages)[a] = mem[a]
  <2>1. a \in Int
    BY <1>5, InPages DEF MemoryInv
  <2>2. Page(a) \notin pages => a \notin B
    BY InPages
  <2>3. a \notin B => Fresh(mem, pages)[a] = mem[a]
    BY <1>1, <1>5 DEF ++
  <2> QED BY <2>1, <2>2, <2>3
<1> QED BY <1>2, <1>3, <1>4, <1>5

\* Stores into the pages of this file.
LEMMA StoredIs ==
  ASSUME stray = FALSE, NEW m, NEW bytes, Store(m, bytes),
         \A a \in DOMAIN bytes : Page(a) \in own'
  PROVE  /\ DOMAIN mem' = DOMAIN m /\ stray' = FALSE
         /\ \A a \in DOMAIN m : a \in DOMAIN bytes => mem'[a] = bytes[a]
         /\ \A a \in DOMAIN m : a \notin DOMAIN bytes => mem'[a] = m[a]
<1>1. mem' = [a \in DOMAIN m |-> IF a \in DOMAIN bytes THEN bytes[a] ELSE m[a]]
  BY DEF Store
<1>2. Strays(bytes) = FALSE
  BY DEF Strays
<1>3. stray' = FALSE
  BY <1>2 DEF Store
<1> QED BY <1>1, <1>3

-----------------------------------------------------------------------------
(***************************************************************************)
(* The directory and the job.                                              *)
(***************************************************************************)
\* With distinct names, the number the user typed and the name that is looked
\* up for it lead to the same file.
LEMMA FindNumber ==
  ASSUME Known, NEW n \in 1 .. Len(glfs_files)
  PROVE  /\ Find(glfs_files, glfs_files[n].name) \in 1 .. Len(glfs_files)
         /\ Distinct(disk) => Find(glfs_files, glfs_files[n].name) = n
<1> DEFINE name == glfs_files[n].name
           with == {m \in 1 .. Len(glfs_files) : glfs_files[m].name = name}
<1>1. n \in with /\ with \in SUBSET Nat
  OBVIOUS
<1>2. Find(glfs_files, name) = Min(with)
  BY <1>1 DEF Find
<1> HIDE DEF with
<1>3. Find(glfs_files, name) \in with
  BY <1>1, <1>2, MinElement
<1>4. /\ Find(glfs_files, name) \in 1 .. Len(glfs_files)
      /\ glfs_files[Find(glfs_files, name)].name = name
  BY <1>3 DEF with
<1>5. ASSUME Distinct(disk) PROVE Find(glfs_files, name) = n
  <2>1. \A m \in 1 .. Len(glfs_files) :
          m \in 1 .. Len(disk) /\ glfs_files[m] = disk[m]
    BY KnownFiles, DiskIs DEF Known
  <2> QED BY <1>4, <1>5, <2>1 DEF Distinct
<1> QED BY <1>4, <1>5

LEMMA KnownOnDisk ==
  ASSUME Known, NEW n \in 1 .. Len(glfs_files)
  PROVE  glfs_files[n] \in ToSet(disk)
<1>1. n \in 1 .. Len(disk) /\ glfs_files[n] = disk[n]
  BY KnownFiles, DiskIs DEF Known
<1>2. DOMAIN disk = 1 .. Len(disk)
  BY DiskIs, LenProperties DEF Known
<1> QED BY <1>1, <1>2 DEF ToSet

LEMMA DirectoryInit ==
  ASSUME Init PROVE Known
BY DEF Init, Known

\* Reading the directory again gives the same entries: the disk is not
\* written.
LEMMA DirectoryStep ==
  ASSUME Known, [Next]_vars PROVE Known'
<1>1. disk' = disk
  BY DEF Next, vars, NamedCommand, Autorun, Open, BeginLoad, CopySector,
         EndLoad, LoadSegment, Loaded, StartElf, StartBin, Cancel,
         RenderBmpImage, Leave
<1>2. ReadDirectory' = ReadDirectory
  BY <1>1 DEF ReadDirectory, Parse, DirSize, SectorsRead, MarkersIn, DirByte
<1>3. glfs_files' = glfs_files \/ glfs_files' = ReadDirectory
  BY DEF Next, vars, NamedCommand, Autorun, Open, BeginLoad, CopySector,
         EndLoad, LoadSegment, Loaded, StartElf, StartBin, Cancel,
         RenderBmpImage, Leave
<1> QED BY <1>1, <1>2, <1>3 DEF Known

LEMMA JobInit ==
  ASSUME Init PROVE JobInv
BY SizesAssumption DEF Init, JobInv

\* A file that is opened is the one the user meant.
LEMMA Opened ==
  ASSUME Known, JobInv, NEW how \in {"bin", "elf", "mess", "squint"},
         NEW n \in 1 .. Len(glfs_files), NEW args,
         how = "elf" => args \in ArgLists \cup {AutorunArgs},
         Open(how, n, args)
  PROVE  JobInv'
<1> DEFINE f == glfs_files[n]
<1>1. /\ pc' = "open" /\ disk' = disk /\ glfs_files' = glfs_files
      /\ job' = [how |-> how, n |-> n, file |-> f, args |-> args]
      /\ chosen' = f /\ loads' = loads + 1 /\ loads < MaxLoads
  BY DEF Open
<1>2. /\ job'.how = how /\ job'.n = n /\ job'.file = f /\ job'.args = args
      /\ DOMAIN job' = {"how", "n", "file", "args"}
  BY <1>1
<1>3. loads' \in 0 .. MaxLoads
  BY <1>1, SizesAssumption DEF JobInv
<1>4. f \in ToSet(disk)
  BY KnownOnDisk
<1> HIDE DEF f
<1>5. n \in 1 .. Len(glfs_files') /\ f = glfs_files'[n]
  BY <1>1 DEF f
<1> QED BY <1>1, <1>2, <1>3, <1>4, <1>5 DEF JobInv, Distinct

\* The second lookup, in the directory read again, finds the file meant.
LEMMA LookedUpIs ==
  ASSUME Known, JobInv, pc = "open"
  PROVE  /\ LookedUp(ReadDirectory) \in ToSet(disk)
         /\ Distinct(disk) \/ job.how # "bin" =>
              LookedUp(ReadDirectory) = chosen
<1> DEFINE m == Find(glfs_files, glfs_files[job.n].name)
<1>1. /\ job.n \in 1 .. Len(glfs_files) /\ ReadDirectory = glfs_files
      /\ job.file = glfs_files[job.n] /\ chosen = glfs_files[job.n]
  BY DEF Known, JobInv
<1>2. m \in 1 .. Len(glfs_files) /\ (Distinct(disk) => m = job.n)
  BY <1>1, FindNumber
<1>3. LookedUp(ReadDirectory) =
        IF job.how = "bin" THEN glfs_files[m] ELSE glfs_files[job.n]
  BY <1>1 DEF LookedUp
<1> HIDE DEF m
<1>4. glfs_files[m] \in ToSet(disk) /\ glfs_files[job.n] \in ToSet(disk)
  BY <1>1, <1>2, KnownOnDisk
<1> QED BY <1>1, <1>2, <1>3, <1>4

\* Every way to a file is through its name in the directory, and nothing else
\* changes what is being loaded.
LEMMA JobStep ==
  ASSUME Known, JobInv, [Next]_vars PROVE JobInv'
<1>1. ASSUME NEW n \in 1 .. Len(glfs_files), NEW args,
             NEW how \in {"bin", "elf", "mess", "squint"},
             how = "elf" => args \in ArgLists \cup {AutorunArgs},
             NamedCommand(how, glfs_files[n].name, args)
      PROVE  JobInv'
  <2> DEFINE m == Find(glfs_files, glfs_files[n].name)
  <2>1. m \in 1 .. Len(glfs_files)
    BY FindNumber
  <2>2. Open(how, m, args)
    BY <1>1 DEF NamedCommand
  <2> HIDE DEF m
  <2> QED BY <1>1, <2>1, <2>2, Opened
<1>2. ASSUME NEW n \in 1 .. Len(glfs_files), Autorun(n)
      PROVE  JobInv'
  <2> DEFINE ext == glfs_files[n].ext
             args == IF ext = "elf" THEN AutorunArgs ELSE <<>>
  <2>1. How(ext) # "none" /\ Open(How(ext), n, args)
    BY <1>2 DEF Autorun
  <2>2. How(ext) \in {"bin", "elf", "mess", "squint"}
        /\ (How(ext) = "elf" => ext = "elf")
    <3>1. CASE ext \notin {"bin", "elf", "txt", "bmp"}
      BY <2>1, <3>1 DEF How
    <3>2. CASE ext \in {"bin", "elf", "txt", "bmp"}
      BY <3>2 DEF How
    <3> QED BY <3>1, <3>2
  <2>3. How(ext) = "elf" => args \in ArgLists \cup {AutorunArgs}
    BY <2>2
  <2> HIDE DEF ext, args
  <2> QED BY <2>1, <2>2, <2>3, Opened
<1>3. CASE BeginLoad
  <2> DEFINE f == LookedUp(ReadDirectory)
  <2>1. /\ pc = "open" /\ pc' = "copy" /\ job' = [job EXCEPT !.file = f]
        /\ UNCHANGED <<disk, loads, chosen>>
    BY <1>3 DEF BeginLoad, LookedUp, Find
  <2>2. /\ f \in ToSet(disk)
        /\ Distinct(disk) \/ job.how # "bin" => f = chosen
    BY <2>1, LookedUpIs
  <2> HIDE DEF f
  <2>3. /\ job'.how = job.how /\ job'.file = f /\ job'.args = job.args
        /\ job.how \in {"bin", "elf", "mess", "squint"}
        /\ job.how = "elf" => job.args \in ArgLists \cup {AutorunArgs}
    BY <2>1 DEF JobInv
  <2> QED BY <2>1, <2>2, <2>3 DEF JobInv, Distinct
<1>4. CASE CopySector
  BY <1>4 DEF CopySector, JobInv
<1>5. CASE EndLoad
  <2>1. pc = "copy" /\ seg' = 1
        /\ UNCHANGED <<disk, job, loads, chosen>>
    BY <1>5 DEF EndLoad
  <2>2. /\ pc' \in {"shell", "elf", "stack", "confirm", "view"}
        /\ pc' = "elf" => job.how = "elf" /\ job.file.magic
        /\ pc' \in {"elf", "stack", "user"} /\ job.how = "elf" =>
             job.file.magic
    <3>1. CASE job.how = "bin"
      BY <1>5, <3>1 DEF EndLoad
    <3>2. CASE job.how = "mess"
      BY <1>5, <3>2 DEF EndLoad
    <3>3. CASE job.how = "elf"
      BY <1>5, <3>3 DEF EndLoad
    <3>4. CASE job.how = "squint"
      BY <1>5, <3>4 DEF EndLoad
    <3> QED BY <2>1, <3>1, <3>2, <3>3, <3>4 DEF JobInv
  <2>3. job.file \in Files
    BY <2>1, DiskIs DEF JobInv, Known
  <2>4. 1 \in 1 .. Len(job.file.phdrs) + 1
    BY <2>3, DisksAssumption, LenProperties
  <2> QED BY <2>1, <2>2, <2>4 DEF JobInv, Distinct
<1>6. CASE LoadSegment
  <2>1. pc = "elf" /\ seg' = seg + 1 /\ seg <= Len(job.file.phdrs)
        /\ UNCHANGED <<disk, job, loads, chosen, pc>>
    BY <1>6 DEF LoadSegment
  <2>2. job.file \in Files
    BY <2>1, DiskIs DEF JobInv, Known
  <2>3. seg + 1 \in 1 .. Len(job.file.phdrs) + 1
    BY <2>1, <2>2, DisksAssumption, LenProperties DEF JobInv
  <2> QED BY <2>1, <2>3 DEF JobInv, Distinct
<1>7. CASE Loaded
  BY <1>7 DEF Loaded, JobInv, Distinct
<1>8. CASE StartElf
  BY <1>8 DEF StartElf, JobInv, Distinct
<1>9. CASE StartBin
  BY <1>9 DEF StartBin, JobInv, Distinct
<1>10. CASE Cancel \/ RenderBmpImage \/ Leave
  BY <1>10 DEF Cancel, RenderBmpImage, Leave, JobInv, Distinct
<1>11. CASE UNCHANGED vars
  BY <1>11 DEF vars, JobInv, Distinct
<1>12. ASSUME NEW n \in 1 .. Len(glfs_files),
              LET name == glfs_files[n].name
              IN  \/ NamedCommand("bin", name, <<>>)
                  \/ NamedCommand("mess", name, <<>>)
                  \/ NamedCommand("squint", name, <<>>)
                  \/ \E args \in ArgLists : NamedCommand("elf", name, args)
                  \/ Autorun(n)
       PROVE  JobInv'
  <2>1. CASE NamedCommand("bin", glfs_files[n].name, <<>>)
    BY <1>1, <2>1
  <2>2. CASE NamedCommand("mess", glfs_files[n].name, <<>>)
    BY <1>1, <2>2
  <2>3. CASE NamedCommand("squint", glfs_files[n].name, <<>>)
    BY <1>1, <2>3
  <2>4. CASE \E args \in ArgLists :
               NamedCommand("elf", glfs_files[n].name, args)
    BY <1>1, <2>4
  <2> QED BY <1>2, <1>12, <2>1, <2>2, <2>3, <2>4
<1> QED BY <1>3, <1>4, <1>5, <1>6, <1>7, <1>8, <1>9, <1>10, <1>11, <1>12
        DEF Next

-----------------------------------------------------------------------------
(***************************************************************************)
(* The bytes of a file, on the disk and in memory.                         *)
(***************************************************************************)
\* A sector of a file holds the bytes of the file: no other has it.
LEMMA DiskByteIs ==
  ASSUME disk \in Disks, NEW f \in ToSet(disk), NEW s \in Int,
         NEW k \in 0 .. SECTOR_SIZE - 1, NEW o \in 0 .. f.size - 1,
         SECTOR_SIZE * (s - f.start) + k = o
  PROVE  DiskByte(s, k) = FileByte(f, o)
<1> DEFINE S == SECTOR_SIZE
           q == s - f.start
           at == {n \in 1 .. Len(disk) :
                    s - disk[n].start \in 0 .. Sectors(disk[n]) - 1}
<1>1. PICK m \in 1 .. Len(disk) : f = disk[m]
  BY DiskIs
<1>2. \A n \in 1 .. Len(disk) :
        disk[n].start \in Nat /\ disk[n].size \in Nat
  BY DiskIs, DisksAssumption
<1>3. S \in Nat \ {0} /\ q \in Int /\ f.size \in Nat /\ f.start \in Nat
      /\ k \in 0 .. S - 1 /\ o \in 0 .. f.size - 1
  BY <1>1, <1>2, DirSizes
<1>4. \A n \in 1 .. Len(disk) :
        Sectors(disk[n]) \in Int
        /\ disk[n].size <= S * Sectors(disk[n])
  <2> SUFFICES ASSUME NEW n \in 1 .. Len(disk)
               PROVE  Sectors(disk[n]) \in Int
                      /\ disk[n].size <= S * Sectors(disk[n])
    OBVIOUS
  <2> DEFINE z == disk[n].size
             c == (z + S - 1) \div S
  <2>0. z \in Nat
    BY <1>2
  <2>1. z \in Nat /\ z + S - 1 \in Int
    <3> HIDE DEF z, S
    <3> QED BY <1>3, <2>0
  <2>2. c \in Int /\ z + S - 1 < S * c + S
    <3> HIDE DEF z, S
    <3> QED BY <1>3, <2>1, Division
  <2>3. z <= S * c
    <3> HIDE DEF z, S, c
    <3>1. S * c \in Int
      BY <1>3, <2>2
    <3> QED BY <1>3, <2>1, <2>2, <3>1
  <2> QED BY <2>2, <2>3 DEF Sectors
<1>5. q >= 0
  <2>1. S * q + k = o /\ S * q \in Int
    BY <1>3
  <2> HIDE DEF q, S
  <2>2. q <= -1 => S * (q + 1) <= 0
    BY <1>3
  <2>3. S * (q + 1) = S * q + S
    BY <1>3
  <2> QED BY <1>3, <2>1, <2>2, <2>3
<1>6. q < Sectors(f)
  <2>1. S * q + k = o /\ S * q \in Int
    BY <1>3
  <2>2. Sectors(f) \in Int /\ f.size <= S * Sectors(f)
    BY <1>1, <1>4
  <2>3. Sectors(f) <= q => S * Sectors(f) <= S * q
    <3> DEFINE c == Sectors(f)
    <3> HIDE DEF q, S, c
    <3>1. c \in Int
      BY <2>2 DEF c
    <3>2. c <= q => S * c <= S * q
      BY <1>3, <3>1
    <3> QED BY <3>2 DEF c
  <2>4. S * Sectors(f) \in Int
    BY <1>3, <2>2
  <2> HIDE DEF q, S
  <2> QED BY <1>3, <2>1, <2>2, <2>3, <2>4
<1>7. m \in at
  <2>1. Sectors(f) \in Int /\ s - disk[m].start = q
    BY <1>1, <1>4
  <2>2. q \in 0 .. Sectors(f) - 1
    BY <1>3, <1>5, <1>6, <2>1
  <2> QED BY <1>1, <2>1, <2>2
<1>8. ASSUME NEW n \in at, n # m PROVE FALSE
  <2>1. \/ disk[m].start + Sectors(disk[m]) <= disk[n].start
        \/ disk[n].start + Sectors(disk[n]) <= disk[m].start
    BY <1>8, DisksAssumption
  <2>2. Sectors(disk[m]) \in Int /\ Sectors(disk[n]) \in Int
        /\ disk[m].start \in Nat /\ disk[n].start \in Nat
    BY <1>2, <1>4
  <2>3. s - disk[n].start \in 0 .. Sectors(disk[n]) - 1
        /\ s - disk[m].start \in 0 .. Sectors(disk[m]) - 1
    BY <1>7
  <2> DEFINE a == disk[m].start
             b == disk[n].start
             c == Sectors(disk[m])
             d == Sectors(disk[n])
  <2> HIDE DEF at, a, b, c, d
  <2>4. (a + c <= b \/ b + d <= a) /\ c \in Int /\ d \in Int /\ a \in Int
        /\ b \in Int /\ s - b \in 0 .. d - 1 /\ s - a \in 0 .. c - 1
    BY <2>1, <2>2, <2>3 DEF a, b, c, d
  <2> QED BY <2>4
<1>9. at = {m}
  BY <1>7, <1>8
<1>10. (CHOOSE n \in at : TRUE) = m
  BY <1>9
<1>11. (s - f.start) * S + k = o
  <2>1. (s - f.start) * S = S * (s - f.start)
    BY <1>3
  <2> QED BY <2>1
<1>12. DiskByte(s, k) =
         IF at # {} /\ (s - disk[CHOOSE n \in at : TRUE].start) * S + k
                         < disk[CHOOSE n \in at : TRUE].size
           THEN FileByte(disk[CHOOSE n \in at : TRUE],
                         (s - disk[CHOOSE n \in at : TRUE].start) * S + k)
           ELSE Pad
  BY DEF DiskByte
<1> HIDE DEF at, S
<1>13. o < f.size
  BY <1>3
<1> QED BY <1>1, <1>7, <1>10, <1>11, <1>12, <1>13

-----------------------------------------------------------------------------
(***************************************************************************)
(* Pages and stores of this file.                                          *)
(***************************************************************************)
\* What mapping pages does to memory: their bytes are there, and may be
\* anything; the others are what they were.
LEMMA MapFresh ==
  ASSUME MemoryInv, NEW pages \in SUBSET Int, NEW u, NEW w,
         Map(pages, u, w), mem' = Fresh(mem, pages), stray' = stray
  PROVE  /\ MemoryInv'
         /\ \A a \in DOMAIN mem : Page(a) \notin pages =>
              a \in DOMAIN mem' /\ mem'[a] = mem[a]
         /\ \A a \in Int : Page(a) \in pages => a \in DOMAIN mem'
<1>1. /\ DOMAIN flags' = pages \cup DOMAIN flags /\ DOMAIN flags' \subseteq Int
      /\ own' \subseteq DOMAIN flags'
  BY Mapped
<1>2. DOMAIN mem' = UNION {PageBytes(p) : p \in DOMAIN flags'}
  BY <1>1, FreshIs
<1>3. MemoryInv'
  BY <1>1, <1>2 DEF MemoryInv, PageBytes
<1>4. ASSUME NEW a \in DOMAIN mem, Page(a) \notin pages
      PROVE  a \in DOMAIN mem' /\ mem'[a] = mem[a]
  <2>1. a \in DOMAIN Fresh(mem, pages)
    BY FreshIs
  <2>2. Fresh(mem, pages)[a] = mem[a]
    BY <1>4, FreshIs
  <2> QED BY <2>1, <2>2
<1>5. \A a \in Int : Page(a) \in pages => a \in DOMAIN mem'
  BY FreshIs
<1> QED BY <1>3, <1>4, <1>5

\* The same with stores into the pages mapped.
LEMMA MapStore ==
  ASSUME MemoryInv, NEW pages \in SUBSET Int, NEW u, NEW w,
         Map(pages, u, w), NEW bytes, Store(Fresh(mem, pages), bytes),
         \A a \in DOMAIN bytes : a \in Int /\ Page(a) \in pages
  PROVE  /\ MemoryInv'
         /\ \A a \in DOMAIN mem : Page(a) \notin pages =>
              a \in DOMAIN mem' /\ mem'[a] = mem[a]
         /\ \A a \in Int : Page(a) \in pages => a \in DOMAIN mem'
         /\ \A a \in DOMAIN bytes : a \in DOMAIN mem' /\ mem'[a] = bytes[a]
<1> DEFINE m == Fresh(mem, pages)
<1>1. /\ DOMAIN flags' = pages \cup DOMAIN flags /\ DOMAIN flags' \subseteq Int
      /\ own' \subseteq DOMAIN flags' /\ own' = own \cup pages
  BY Mapped
<1>2. /\ DOMAIN m = UNION {PageBytes(p) : p \in DOMAIN flags'}
      /\ \A a \in DOMAIN mem : a \in DOMAIN m /\ a \in Int
      /\ \A a \in DOMAIN mem : Page(a) \notin pages => m[a] = mem[a]
      /\ \A a \in Int : Page(a) \in pages => a \in DOMAIN m
  BY <1>1, FreshIs
<1> HIDE DEF m
<1>3. /\ DOMAIN mem' = DOMAIN m /\ stray' = FALSE
      /\ \A a \in DOMAIN m : a \in DOMAIN bytes => mem'[a] = bytes[a]
      /\ \A a \in DOMAIN m : a \notin DOMAIN bytes => mem'[a] = m[a]
  <2>1. Store(m, bytes) /\ stray = FALSE
    BY DEF m, MemoryInv
  <2>2. \A a \in DOMAIN bytes : Page(a) \in own'
    BY <1>1
  <2> QED BY <2>1, <2>2, StoredIs
<1>4. MemoryInv'
  BY <1>1, <1>2, <1>3 DEF MemoryInv, PageBytes
<1>5. ASSUME NEW a \in DOMAIN mem, Page(a) \notin pages
      PROVE  a \in DOMAIN mem' /\ mem'[a] = mem[a]
  <2>1. a \notin DOMAIN bytes
    BY <1>5
  <2>2. a \in DOMAIN m
    BY <1>2
  <2>3. m[a] = mem[a]
    BY <1>2, <1>5
  <2> QED BY <1>3, <2>1, <2>2, <2>3
<1>6. ASSUME NEW a \in DOMAIN bytes
      PROVE  a \in DOMAIN mem' /\ mem'[a] = bytes[a]
  BY <1>2, <1>3, <1>6
<1> QED BY <1>2, <1>3, <1>4, <1>5, <1>6

\* Files are loaded at the beginning of a page.
LEMMA LoadAddressIs == LoadAddress \in Nat /\ LoadAddress % PAGE_SIZE = 0
<1>1. CASE job.how = "bin"
  BY <1>1, LayoutAssumption DEF LoadAddress
<1>2. CASE job.how = "elf"
  BY <1>2, LayoutAssumption DEF LoadAddress
<1>3. CASE job.how # "bin" /\ job.how # "elf"
  BY <1>3, LayoutAssumption DEF LoadAddress
<1> QED BY <1>1, <1>2, <1>3

\* The file being loaded is one of the disk.
LEMMA JobFile ==
  ASSUME Known, JobInv, pc # "shell"
  PROVE  /\ job.file \in ToSet(disk) /\ job.file \in Files
         /\ job.file.size \in Nat /\ job.file.start \in Nat
         /\ job.file.phdrs \in Seq(ToSet(job.file.phdrs))
         /\ Len(job.file.phdrs) \in Nat
<1>1. job.file \in ToSet(disk) /\ job.file \in Files
  BY DiskIs DEF JobInv, Known
<1>2. job.file.phdrs \in Seq(ToSet(job.file.phdrs))
  BY <1>1, DisksAssumption
<1>3. Len(job.file.phdrs) \in Nat
  BY <1>2, LenProperties
<1> QED BY <1>1, <1>2, <1>3, DisksAssumption

\* What is mapped elsewhere leaves the file where it is.
LEMMA FileKept ==
  ASSUME NEW pages, job.file.size \in Nat, InPlace(job.file.size), job' = job,
         pages \cap PagesFor(LoadAddress, job.file.size) = {},
         \A a \in DOMAIN mem : Page(a) \notin pages =>
           a \in DOMAIN mem' /\ mem'[a] = mem[a]
  PROVE  InPlace(job.file.size)'
<1> DEFINE size == job.file.size
<1>1. LoadAddress' = LoadAddress
  BY DEF LoadAddress
<1>2. ASSUME NEW k \in 0 .. size - 1
      PROVE  /\ LoadAddress + k \in DOMAIN mem'
             /\ mem'[LoadAddress + k] = FileByte(job.file, k)
  <2>1. Page(LoadAddress + k) \in PagesFor(LoadAddress, size)
    BY LoadAddressIs, PagesForHold
  <2>2. LoadAddress + k \in DOMAIN mem
        /\ mem[LoadAddress + k] = FileByte(job.file, k)
    BY DEF InPlace
  <2> QED BY <2>1, <2>2
<1> QED BY <1>1, <1>2 DEF InPlace, FileByte, Byte

-----------------------------------------------------------------------------
(***************************************************************************)
(* The stack of an ELF program.                                            *)
(***************************************************************************)
\* The arguments are strings, and leave room for the stack below its top.
LEMMA ArgsAre ==
  ASSUME NEW args \in ArgLists \cup {AutorunArgs}
  PROVE  /\ Len(args) \in Nat /\ \A j \in 1 .. Len(args) : Len(args[j]) \in Nat
         /\ \A j \in 1 .. Len(args) : args[j] \in Seq(ToSet(args[j]))
         /\ TotalMappedStack(args) < ELF_STACK_TOP
<1>1. args \in Seq(ToSet(args)) /\ \A s \in ToSet(args) : s \in Seq(ToSet(s))
  BY ArgsAssumption
<1>2. Len(args) \in Nat
  BY <1>1, LenProperties
<1>3. \A j \in 1 .. Len(args) : args[j] \in ToSet(args)
  BY <1>1, ElementOfSeq
<1>4. \A j \in 1 .. Len(args) : args[j] \in Seq(ToSet(args[j]))
  BY <1>1, <1>3
<1>5. \A j \in 1 .. Len(args) : Len(args[j]) \in Nat
  BY <1>4, LenProperties
<1> QED BY <1>2, <1>4, <1>5, ArgsAssumption

\* The arguments from the i-th on take as many bytes as the i-th with its NUL
\* and those after it.
LEMMA ArgBytesAre ==
  ASSUME NEW args \in ArgLists \cup {AutorunArgs}
  PROVE  /\ \A i \in Nat \ {0} : Cardinality(ArgBytes(args, i)) \in Nat
         /\ Cardinality(ArgBytes(args, Len(args) + 1)) = 0
         /\ \A i \in 1 .. Len(args) :
              Cardinality(ArgBytes(args, i)) =
                Cardinality(ArgBytes(args, i + 1)) + Len(args[i]) + 1
         /\ \A i, j \in 1 .. Len(args) + 1 : i <= j =>
              Cardinality(ArgBytes(args, j)) <= Cardinality(ArgBytes(args, i))
<1> DEFINE n == Len(args)
           Of(j) == {j} \X (0 .. Len(args[j]))
           B(i) == ArgBytes(args, i)
<1>1. n \in Nat /\ \A j \in 1 .. n : Len(args[j]) \in Nat
  BY ArgsAre
<1>2. \A i \in Int : B(i) = UNION {Of(j) : j \in i .. n}
  BY DEF ArgBytes
<1>3. ASSUME NEW j \in 1 .. n
      PROVE  IsFiniteSet(Of(j)) /\ Cardinality(Of(j)) = Len(args[j]) + 1
  <2> DEFINE L == Len(args[j])
  <2>1. L \in Nat
    BY <1>1
  <2>2. IsFiniteSet(0 .. L) /\ Cardinality(0 .. L) = L + 1
    <3> HIDE DEF L
    <3>1. /\ IsFiniteSet(0 .. L)
          /\ Cardinality(0 .. L) = IF 0 > L THEN 0 ELSE L - 0 + 1
      BY <2>1, FS_Interval
    <3> QED BY <2>1, <3>1
  <2>3. IsFiniteSet({j}) /\ Cardinality({j}) = 1
    BY FS_Singleton
  <2>4. /\ IsFiniteSet({j} \X (0 .. L))
        /\ Cardinality({j} \X (0 .. L)) = 1 * (L + 1)
    <3> HIDE DEF L
    <3> QED BY <2>2, <2>3, FS_Product
  <2>5. 1 * (L + 1) = L + 1
    BY <2>1
  <2> QED BY <2>4, <2>5
<1>4. ASSUME NEW i \in 1 .. n
      PROVE  /\ B(i) = B(i + 1) \cup Of(i)
             /\ B(i + 1) \cap Of(i) = {}
  <2>1. i .. n = (i + 1 .. n) \cup {i}
    BY <1>1
  <2>2. UNION {Of(j) : j \in i .. n}
          = (UNION {Of(j) : j \in i + 1 .. n}) \cup Of(i)
    <3> HIDE DEF Of, n
    <3> QED BY <2>1
  <2>3. ASSUME NEW x, x \in UNION {Of(j) : j \in i + 1 .. n}, x \in Of(i)
        PROVE  FALSE
    <3>1. PICK j \in i + 1 .. n : x \in Of(j)
      BY <2>3
    <3>2. x[1] = j /\ x[1] = i
      BY <2>3, <3>1
    <3> QED BY <1>1, <3>1, <3>2
  <2>4. i \in Int /\ i + 1 \in Int
    BY <1>1
  <2>5. B(i) = UNION {Of(j) : j \in i .. n}
        /\ B(i + 1) = UNION {Of(j) : j \in i + 1 .. n}
    BY <1>2, <2>4
  <2> HIDE DEF B, Of
  <2> QED BY <2>2, <2>3, <2>5
<1>5. B(n + 1) = {}
  <2>1. n + 1 \in Int /\ n + 1 .. n = {}
    BY <1>1
  <2> QED BY <1>2, <2>1
<1>6. \A i, j \in Int : i <= j => B(j) \subseteq B(i)
  <2> SUFFICES ASSUME NEW i \in Int, NEW j \in Int, i <= j
               PROVE  B(j) \subseteq B(i)
    OBVIOUS
  <2>1. j .. n \subseteq i .. n
    BY <1>1
  <2>2. /\ B(i) = UNION {Of(m) : m \in i .. n}
        /\ B(j) = UNION {Of(m) : m \in j .. n}
    BY <1>2
  <2> HIDE DEF B, Of
  <2> QED BY <2>1, <2>2
<1>7. IsFiniteSet(B(1))
  <2> DEFINE F == [j \in 1 .. n |-> Of(j)]
             T == {Of(j) : j \in 1 .. n}
  <2>1. F \in Surjection(1 .. n, T)
    <3>1. F \in [1 .. n -> T] /\ \A t \in T : \E j \in 1 .. n : F[j] = t
      OBVIOUS
    <3> HIDE DEF F, T
    <3> QED BY <3>1, Fun_IsSurj
  <2>2. IsFiniteSet(1 .. n)
    BY <1>1, FS_Interval
  <2>3. IsFiniteSet(T)
    <3> HIDE DEF F, T
    <3> QED BY <2>1, <2>2, FS_Surjection
  <2>4. \A t \in T : IsFiniteSet(t)
    BY <1>3
  <2>5. IsFiniteSet(UNION T)
    <3> HIDE DEF T
    <3> QED BY <2>3, <2>4, FS_UNION
  <2>6. B(1) = UNION T
    BY <1>2
  <2> HIDE DEF B, T
  <2> QED BY <2>5, <2>6
<1>8. ASSUME NEW i \in Nat \ {0}
      PROVE  IsFiniteSet(B(i)) /\ Cardinality(B(i)) \in Nat
  <2>1. B(i) \in SUBSET B(1)
    BY <1>6
  <2> HIDE DEF B
  <2> QED BY <1>7, <2>1, FS_Subset, FS_CardinalityType
<1>9. Cardinality(B(n + 1)) = 0
  BY <1>5, FS_EmptySet
<1>10. ASSUME NEW i \in 1 .. n
       PROVE  Cardinality(B(i)) = Cardinality(B(i + 1)) + Len(args[i]) + 1
  <2>1. i + 1 \in Nat \ {0}
    BY <1>1
  <2>2. IsFiniteSet(B(i + 1)) /\ Cardinality(B(i + 1)) \in Nat
    BY <1>8, <2>1
  <2>3. IsFiniteSet(Of(i)) /\ Cardinality(Of(i)) = Len(args[i]) + 1
    BY <1>3
  <2>4. B(i) = B(i + 1) \cup Of(i) /\ B(i + 1) \cap Of(i) = {}
    BY <1>4
  <2>5. Len(args[i]) \in Nat
    BY <1>1
  <2> HIDE DEF B, Of
  <2>6. Cardinality(B(i + 1) \cup Of(i)) =
          Cardinality(B(i + 1)) + Cardinality(Of(i))
            - Cardinality(B(i + 1) \cap Of(i))
    BY <2>2, <2>3, FS_Union
  <2>7. Cardinality(B(i + 1) \cap Of(i)) = 0
    BY <2>4, FS_EmptySet
  <2> QED BY <2>2, <2>3, <2>4, <2>5, <2>6, <2>7
<1>11. ASSUME NEW i \in 1 .. n + 1, NEW j \in 1 .. n + 1, i <= j
       PROVE  Cardinality(B(j)) <= Cardinality(B(i))
  <2>1. i \in Nat \ {0} /\ B(j) \in SUBSET B(i)
    BY <1>1, <1>6, <1>11
  <2>2. IsFiniteSet(B(i))
    BY <1>8, <2>1
  <2> HIDE DEF B
  <2> QED BY <2>1, <2>2, FS_Subset
<1> HIDE DEF Of
<1> QED BY <1>8, <1>9, <1>10, <1>11

\* The stack's size, in whole pages, and where exec_elf puts things in it.
LEMMA StackLayout ==
  ASSUME NEW args \in ArgLists \cup {AutorunArgs}
  PROVE  LET n == Len(args)
             T == TotalMappedStack(args)
             AA == ArgvArray(args)
             SP == StackPointer(args)
         IN  /\ n \in Nat /\ T \in Nat /\ AA \in Nat /\ SP \in Int
             /\ T % PAGE_SIZE = 0 /\ T < ELF_STACK_TOP
             /\ ELF_STACK_TOP - T <= SP - PTR_SIZE
             /\ SP + 2 * PTR_SIZE <= AA /\ AA > 0
             /\ ArgString(args, 1) \in Nat
             /\ AA + (n + 1) * PTR_SIZE = ArgString(args, 1)
             /\ ArgString(args, 1) <= ELF_STACK_TOP
<1> DEFINE n == Len(args)
           T == TotalMappedStack(args)
           AA == ArgvArray(args)
           SP == StackPointer(args)
           D == Cardinality(ArgBytes(args, 1))
           P == PAGE_SIZE
           R == PTR_SIZE
           nR == (n + 1) * R
           z == D + nR + 2 * R + SLACK + P - 1
           q == z \div P
           g == AA \div ALIGN
<1>1. /\ P \in Nat \ {0} /\ R \in Nat \ {0} /\ ALIGN \in Nat \ {0}
      /\ SLACK \in Nat /\ ALIGN + R <= SLACK /\ ELF_STACK_TOP \in Nat
  BY PageSizes, LayoutAssumption
<1>2. n \in Nat /\ T < ELF_STACK_TOP
  BY ArgsAre
<1>3. D \in Nat
  BY ArgBytesAre
<1>4. nR \in Nat
  BY <1>1, <1>2
<1>5. T = q * P
  BY DEF TotalMappedStack, ArgDataSize
<1>6. AA = ELF_STACK_TOP - D - nR /\ ArgString(args, 1) = ELF_STACK_TOP - D
  BY DEF ArgvArray, ArgString
<1>7. SP = g * ALIGN - 2 * R
  BY DEF StackPointer
<1> HIDE DEF nR, D, n, AA, SP, T, P, R
<1>8. z \in Nat /\ AA \in Int
  BY <1>1, <1>3, <1>4, <1>6
<1>9. q \in Int /\ P * q <= z /\ z < P * q + P
  <2> HIDE DEF z
  <2> QED BY <1>1, <1>8, Division
<1>10. g \in Int /\ ALIGN * g <= AA /\ AA < ALIGN * g + ALIGN
  BY <1>1, <1>8, Division
<1>11. P * q \in Int /\ q * P = P * q /\ ALIGN * g \in Int
       /\ g * ALIGN = ALIGN * g
  BY <1>1, <1>9, <1>10
<1> HIDE DEF q, g
<1>12. T \in Int /\ T > D + nR + 2 * R + SLACK - 1
  BY <1>1, <1>3, <1>4, <1>5, <1>9, <1>11
<1>13. T % P = 0
  <2>1. T \div P = q
    <3>1. P * q <= T /\ T < P * q + P
      BY <1>1, <1>5, <1>11, <1>12
    <3> QED BY <1>1, <1>9, <1>12, <3>1, Quotient
  <2>2. T = P * (T \div P) + (T % P) /\ T % P \in 0 .. P - 1
    BY <1>1, <1>12, Division
  <2> QED BY <1>5, <1>11, <2>1, <2>2
<1>14. SP \in Int /\ SP + 2 * R <= AA /\ SP + 2 * R > AA - ALIGN
  BY <1>1, <1>7, <1>8, <1>10, <1>11
<1>15. ELF_STACK_TOP - T <= SP - R /\ AA > 0
  BY <1>1, <1>2, <1>3, <1>4, <1>6, <1>12, <1>14
<1>16. /\ AA + nR = ArgString(args, 1) /\ ArgString(args, 1) <= ELF_STACK_TOP
       /\ ArgString(args, 1) \in Nat
  BY <1>1, <1>3, <1>4, <1>6, <1>15
<1>17. T \in Nat /\ AA \in Nat
  BY <1>1, <1>3, <1>4, <1>8, <1>12, <1>15
<1>18. nR = (n + 1) * R
  BY DEF nR
<1> QED BY <1>2, <1>13, <1>14, <1>15, <1>16, <1>17, <1>18
        DEF n, T, AA, SP, P, R

\* The pages mapped for the stack hold all of it.
LEMMA StackPagesAre ==
  ASSUME NEW args \in ArgLists \cup {AutorunArgs}
  PROVE  /\ StackPages(args) \in SUBSET Int
         /\ \A p \in StackPages(args) : p < Page(ELF_STACK_TOP)
         /\ \A a \in ELF_STACK_TOP - TotalMappedStack(args)
                       .. ELF_STACK_TOP - 1 : Page(a) \in StackPages(args)
         /\ \A p \in Page(ELF_STACK_TOP - TotalMappedStack(args))
                       .. Page(ELF_STACK_TOP - 1) : p \in StackPages(args)
<1> DEFINE T == TotalMappedStack(args)
           P == PAGE_SIZE
           TOP == ELF_STACK_TOP
           base == TOP - T
           N == T \div P
<1>1. /\ P \in Nat \ {0} /\ TOP \in Nat /\ TOP % P = 0 /\ T \in Nat
      /\ T % P = 0 /\ T < TOP /\ T > 0
  <2>1. P \in Nat \ {0} /\ TOP \in Nat /\ TOP % P = 0 /\ PTR_SIZE \in Nat \ {0}
    BY PageSizes, LayoutAssumption
  <2>2. T \in Nat /\ T % P = 0 /\ T < TOP
    BY StackLayout
  <2>3. TOP - T <= StackPointer(args) - PTR_SIZE
        /\ StackPointer(args) + 2 * PTR_SIZE <= ArgvArray(args)
        /\ StackPointer(args) \in Int /\ ArgvArray(args) \in Int
    BY StackLayout
  <2>4. ArgvArray(args) <= TOP
    <3>1. (Len(args) + 1) * PTR_SIZE \in Nat
      BY <2>1, StackLayout
    <3>2. ArgvArray(args) + (Len(args) + 1) * PTR_SIZE = ArgString(args, 1)
          /\ ArgString(args, 1) <= TOP /\ ArgString(args, 1) \in Nat
      BY StackLayout
    <3> QED BY <2>1, <2>3, <3>1, <3>2
  <2> HIDE DEF T, TOP
  <2> QED BY <2>1, <2>2, <2>3, <2>4
<1> HIDE DEF T, TOP, P
<1>2. N \in Int /\ P * N \in Int /\ T = P * N
  <2>1. N \in Int /\ T = P * N + (T % P)
    BY <1>1, Division
  <2>2. P * N \in Int
    BY <1>1, <2>1
  <2> QED BY <1>1, <2>1, <2>2
<1> HIDE DEF N
<1>3. base \in Int /\ Page(base) = Page(TOP) - N /\ Page(TOP) \in Int
  <2>1. base = TOP + (-N) * PAGE_SIZE
    BY <1>1, <1>2 DEF P
  <2>2. Page(TOP + (-N) * PAGE_SIZE) = Page(TOP) + (-N)
    BY <1>1, <1>2, PageShift
  <2>3. Page(TOP) \in Int
    BY <1>1, PageIs
  <2> HIDE DEF base
  <2>4. Page(base) = Page(TOP) + (-N)
    BY <2>1, <2>2
  <2> QED BY <1>1, <1>2, <2>3, <2>4 DEF base
<1>4. (T + P - 1) \div P = N
  <2>1. P * N <= T + P - 1 /\ T + P - 1 < P * N + P /\ T + P - 1 \in Int
    BY <1>1, <1>2
  <2> QED BY <1>1, <1>2, <2>1, Quotient
<1>5. StackPages(args) = Page(TOP) - N .. Page(TOP) - 1
  <2>1. StackPages(args) = PagesFor(base, T)
    BY DEF StackPages, base, T, TOP
  <2>2. PagesFor(base, T)
          = Page(base) .. Page(base) + (T + P - 1) \div P - 1
    BY DEF PagesFor, P
  <2>3. (Page(TOP) - N) + N - 1 = Page(TOP) - 1
    BY <1>2, <1>3
  <2> HIDE DEF base
  <2> QED BY <1>3, <1>4, <2>1, <2>2, <2>3
<1>6. Page(TOP - 1) = Page(TOP) - 1
  <2>1. TOP = P * Page(TOP) /\ P * Page(TOP) \in Int
    BY <1>1, <1>3, PageStart DEF P
  <2>2. P * (Page(TOP) - 1) = P * Page(TOP) - P
    BY <1>1, <1>3
  <2>3. P * (Page(TOP) - 1) <= TOP - 1 /\ TOP - 1 < P * (Page(TOP) - 1) + P
        /\ TOP - 1 \in Int /\ Page(TOP) - 1 \in Int
    BY <1>1, <1>3, <2>1, <2>2
  <2>4. (TOP - 1) \div P = Page(TOP) - 1
    BY <1>1, <2>3, Quotient
  <2> QED BY <2>4 DEF Page, P
<1>7. ASSUME NEW a \in base .. TOP - 1 PROVE Page(a) \in StackPages(args)
  <2>1. a \in Int /\ base <= a /\ a <= TOP - 1 /\ TOP - 1 \in Int
    BY <1>1, <1>3
  <2>2. Page(base) <= Page(a) /\ Page(a) <= Page(TOP - 1) /\ Page(a) \in Int
    <3> HIDE DEF base
    <3> QED BY <1>3, <2>1, PageMonotone, PageIs
  <2> HIDE DEF base
  <2> QED BY <1>2, <1>3, <1>5, <1>6, <2>2
<1>8. ASSUME NEW p \in Page(base) .. Page(TOP - 1) PROVE p \in StackPages(args)
  <2> HIDE DEF base
  <2> QED BY <1>2, <1>3, <1>5, <1>6
<1>9. \A p \in StackPages(args) : p \in Int /\ p < Page(TOP)
  BY <1>2, <1>3, <1>5
<1> QED BY <1>7, <1>8, <1>9 DEF base, T, TOP

LEMMA Remainder ==
  ASSUME NEW m \in Nat \ {0}, NEW q \in Int, NEW k \in 0 .. m - 1
  PROVE  (q * m + k) \div m = q /\ (q * m + k) % m = k
<1> DEFINE o == q * m + k
<1>1. o \in Int /\ m * q <= o /\ o < m * q + m /\ m * q \in Int
      /\ o = m * q + k
  OBVIOUS
<1> HIDE DEF o
<1>2. o \div m = q
  BY <1>1, Quotient
<1>3. o = m * (o \div m) + (o % m) /\ o % m \in 0 .. m - 1
  BY <1>1, Division
<1>4. o % m = k
  BY <1>1, <1>2, <1>3
<1> QED BY <1>2, <1>4 DEF o

\* The strings follow each other up to the top of the stack.
LEMMA ArgStrings ==
  ASSUME NEW args \in ArgLists \cup {AutorunArgs}
  PROVE  /\ \A i \in 1 .. Len(args) + 1 :
              ArgString(args, i) \in ArgString(args, 1) .. ELF_STACK_TOP
         /\ \A i \in 1 .. Len(args) :
              ArgString(args, i + 1) = ArgString(args, i) + Len(args[i]) + 1
         /\ \A i, j \in 1 .. Len(args) + 1 :
              i <= j => ArgString(args, i) <= ArgString(args, j)
<1> DEFINE n == Len(args)
           C(i) == Cardinality(ArgBytes(args, i))
           A(i) == ArgString(args, i)
<1>1. /\ n \in Nat /\ ELF_STACK_TOP \in Nat
      /\ \A i \in 1 .. n : Len(args[i]) \in Nat
  BY ArgsAre, LayoutAssumption
<1>2. \A i \in 1 .. n + 1 : C(i) \in Nat
  BY <1>1, ArgBytesAre
<1>3. /\ C(n + 1) = 0
      /\ \A i \in 1 .. n : C(i) = C(i + 1) + Len(args[i]) + 1
      /\ \A i, j \in 1 .. n + 1 : i <= j => C(j) <= C(i)
  BY ArgBytesAre
<1>4. \A i : A(i) = ELF_STACK_TOP - C(i)
  BY DEF ArgString
<1> HIDE DEF C, A, n
<1>5. ASSUME NEW i \in 1 .. n + 1 PROVE A(i) \in A(1) .. ELF_STACK_TOP
  <2>1. C(1) \in Nat /\ C(i) \in Nat /\ C(i) <= C(1)
    BY <1>1, <1>2, <1>3
  <2>2. A(i) = ELF_STACK_TOP - C(i) /\ A(1) = ELF_STACK_TOP - C(1)
    BY <1>4
  <2> QED BY <1>1, <2>1, <2>2
<1>6. ASSUME NEW i \in 1 .. n PROVE A(i + 1) = A(i) + Len(args[i]) + 1
  <2>1. i \in 1 .. n + 1 /\ i + 1 \in 1 .. n + 1
    BY <1>1
  <2>2. C(i) \in Nat /\ C(i + 1) \in Nat /\ Len(args[i]) \in Nat
    BY <1>1, <1>2, <2>1
  <2>3. C(i) = C(i + 1) + Len(args[i]) + 1
    BY <1>3
  <2>4. A(i) = ELF_STACK_TOP - C(i) /\ A(i + 1) = ELF_STACK_TOP - C(i + 1)
    BY <1>4
  <2> QED BY <1>1, <2>2, <2>3, <2>4
<1>7. ASSUME NEW i \in 1 .. n + 1, NEW j \in 1 .. n + 1, i <= j
      PROVE  A(i) <= A(j)
  <2>1. C(i) \in Nat /\ C(j) \in Nat /\ C(j) <= C(i)
    BY <1>2, <1>3, <1>7
  <2>2. A(i) = ELF_STACK_TOP - C(i) /\ A(j) = ELF_STACK_TOP - C(j)
    BY <1>4
  <2> QED BY <1>1, <2>1, <2>2
<1> QED BY <1>5, <1>6, <1>7 DEF A, n

\* The bytes of a word.
LEMMA WordIs ==
  ASSUME NEW a \in Int, NEW of, NEW v
  PROVE  /\ DOMAIN Word(a, of, v) = a .. a + PTR_SIZE - 1
         /\ \A k \in 0 .. PTR_SIZE - 1 :
              /\ a + k \in DOMAIN Word(a, of, v)
              /\ Word(a, of, v)[a + k] = WordByte(of, v, k)
<1>1. DOMAIN Word(a, of, v) = a .. a + PTR_SIZE - 1
  BY DEF Word
<1>2. ASSUME NEW k \in 0 .. PTR_SIZE - 1
      PROVE  a + k \in a .. a + PTR_SIZE - 1 /\ (a + k) - a = k
  BY PageSizes
<1>3. ASSUME NEW k \in 0 .. PTR_SIZE - 1
      PROVE  Word(a, of, v)[a + k] = WordByte(of, v, (a + k) - a)
  BY <1>2 DEF Word
<1> QED BY <1>1, <1>2, <1>3

\* The word i of the argv array points to string i.
LEMMA PointersAre ==
  ASSUME NEW args \in ArgLists \cup {AutorunArgs},
         NEW i \in 1 .. Len(args), NEW k \in 0 .. PTR_SIZE - 1
  PROVE  LET a == ArgvArray(args) + (i - 1) * PTR_SIZE + k
         IN  /\ a \in DOMAIN Pointers(args)
             /\ Pointers(args)[a] = WordByte("ptr", ArgString(args, i), k)
<1> DEFINE R == PTR_SIZE
           n == Len(args)
           AA == ArgvArray(args)
           o == (i - 1) * R + k
           a == AA + (i - 1) * R + k
<1>1. R \in Nat \ {0} /\ n \in Nat /\ AA \in Nat /\ i \in 1 .. n
      /\ k \in 0 .. R - 1
  BY PageSizes, StackLayout
<1>2. o \div R = i - 1 /\ o % R = k
  <2>1. i - 1 \in Int
    BY <1>1
  <2> HIDE DEF R
  <2> QED BY <1>1, <2>1, Remainder
<1>3. n * R \in Nat /\ o \in Nat /\ o < n * R
  <2>1. i * R = (i - 1) * R + R /\ (i - 1) * R \in Nat /\ n * R \in Nat
    BY <1>1
  <2>2. i * R <= n * R
    BY <1>1
  <2> QED BY <1>1, <2>1, <2>2
<1>4. a - AA = o /\ a = AA + o
  <2>1. (i - 1) * R \in Int
    BY <1>1
  <2> HIDE DEF AA, R
  <2> QED BY <1>1, <2>1
<1>5. a \in AA .. AA + n * R - 1
  <2> HIDE DEF a, o, AA, R, n
  <2> QED BY <1>1, <1>3, <1>4
<1>6. Pointers(args) =
        [b \in AA .. AA + n * R - 1 |->
           WordByte("ptr", ArgString(args, (b - AA) \div R + 1), (b - AA) % R)]
  BY DEF Pointers
<1>7. (i - 1) + 1 = i
  BY <1>1
<1> HIDE DEF a, o, AA, R, n
<1>8. Pointers(args)[a] = WordByte("ptr", ArgString(args, i), k)
  BY <1>2, <1>4, <1>5, <1>6, <1>7
<1>9. a \in DOMAIN Pointers(args)
  BY <1>5, <1>6
<1> QED BY <1>8, <1>9 DEF a, AA, R

\* The characters of string i, with its NUL, are where its pointer says.
LEMMA StringsAre ==
  ASSUME NEW args \in ArgLists \cup {AutorunArgs},
         NEW i \in 1 .. Len(args), NEW k \in 0 .. Len(args[i])
  PROVE  LET a == ArgString(args, i) + k
         IN  /\ a \in ArgString(args, 1) .. ELF_STACK_TOP - 1
             /\ a \in DOMAIN Strings(args)
             /\ Strings(args)[a] = IF k < Len(args[i])
                                     THEN Byte("char", args[i][k + 1], 0)
                                     ELSE Zero
<1> DEFINE n == Len(args)
           A(j) == ArgString(args, j)
           a == A(i) + k
           Is(j) == a \in A(j) .. A(j + 1) - 1
           c == CHOOSE j \in 1 .. n : Is(j)
<1>1. n \in Nat /\ ELF_STACK_TOP \in Nat /\ Len(args[i]) \in Nat
      /\ i \in 1 .. n /\ A(1) \in Nat
  BY ArgsAre, LayoutAssumption, StackLayout
<1>2. \A j \in 1 .. n : j \in 1 .. n + 1 /\ j + 1 \in 1 .. n + 1
  BY <1>1
<1>3. /\ \A j \in 1 .. n + 1 : A(j) \in A(1) .. ELF_STACK_TOP
      /\ A(i + 1) = A(i) + Len(args[i]) + 1
      /\ \A m, j \in 1 .. n + 1 : m <= j => A(m) <= A(j)
  BY ArgStrings
<1> HIDE DEF A, n
<1>4. \A j \in 1 .. n + 1 : A(j) \in Int
  BY <1>1, <1>3
<1>5. Is(i) /\ a \in A(1) .. ELF_STACK_TOP - 1 /\ a \in Int /\ a - A(i) = k
  <2>1. A(i) \in A(1) .. ELF_STACK_TOP /\ A(i + 1) \in A(1) .. ELF_STACK_TOP
        /\ A(i) \in Int
    BY <1>1, <1>2, <1>3, <1>4
  <2> QED BY <1>1, <1>3, <2>1
<1>6. ASSUME NEW j \in 1 .. n, Is(j) PROVE j = i
  <2>1. /\ A(i) \in Int /\ A(j) \in Int /\ A(i + 1) \in Int
        /\ A(j + 1) \in Int
    BY <1>1, <1>2, <1>4
  <2>2. CASE j < i
    <3>1. j + 1 <= i
      BY <1>1, <2>2
    <3>2. A(j + 1) <= A(i)
      BY <1>1, <1>2, <1>3, <3>1
    <3> QED BY <1>5, <1>6, <2>1, <3>2
  <2>3. CASE j > i
    <3>1. i + 1 <= j
      BY <1>1, <2>3
    <3>2. A(i + 1) <= A(j)
      BY <1>1, <1>2, <1>3, <3>1
    <3> QED BY <1>5, <1>6, <2>1, <3>2
  <2> QED BY <1>1, <2>2, <2>3
<1>7. Strings(args) =
        [b \in A(1) .. ELF_STACK_TOP - 1 |->
           LET m == CHOOSE j \in 1 .. n : b \in A(j) .. A(j + 1) - 1
               h == b - A(m)
           IN  IF h < Len(args[m]) THEN Byte("char", args[m][h + 1], 0)
               ELSE Zero]
  BY DEF Strings, A, n
<1>8. Strings(args)[a] =
        IF a - A(c) < Len(args[c]) THEN Byte("char", args[c][a - A(c) + 1], 0)
        ELSE Zero
  <2>1. a \in A(1) .. ELF_STACK_TOP - 1
    BY <1>5
  <2> QED BY <1>7, <2>1
<1>9. c = i
  <2> HIDE DEF Is
  <2> QED BY <1>1, <1>5, <1>6
<1> HIDE DEF c, a, Is
<1>10. a \in DOMAIN Strings(args)
  BY <1>5, <1>7
<1>11. Strings(args)[a] = IF k < Len(args[i])
                            THEN Byte("char", args[i][k + 1], 0) ELSE Zero
  BY <1>5, <1>8, <1>9
<1> QED BY <1>5, <1>10, <1>11 DEF a, A

\* What exec_elf stores lies in the stack, and nothing is stored over what the
\* program is to find there.
LEMMA StackBytesAre ==
  ASSUME NEW args \in ArgLists \cup {AutorunArgs}
  PROVE  LET n == Len(args)
             AA == ArgvArray(args)
             SP == StackPointer(args)
             R == PTR_SIZE
             all == ELF_STACK_TOP - TotalMappedStack(args) .. ELF_STACK_TOP - 1
         IN  /\ DOMAIN StackBytes(args) = all
             /\ \A k \in 0 .. R - 1 :
                  /\ SP + k \in all
                  /\ StackBytes(args)[SP + k] = WordByte("int", n, k)
                  /\ SP + R + k \in all
                  /\ StackBytes(args)[SP + R + k] = WordByte("ptr", AA, k)
                  /\ AA + n * R + k \in all
                  /\ StackBytes(args)[AA + n * R + k] = Zero
             /\ \A i \in 1 .. n : \A k \in 0 .. R - 1 :
                  /\ AA + (i - 1) * R + k \in all
                  /\ StackBytes(args)[AA + (i - 1) * R + k] =
                       WordByte("ptr", ArgString(args, i), k)
             /\ \A i \in 1 .. n : \A k \in 0 .. Len(args[i]) :
                  /\ ArgString(args, i) + k \in all
                  /\ StackBytes(args)[ArgString(args, i) + k] =
                       IF k < Len(args[i]) THEN Byte("char", args[i][k + 1], 0)
                       ELSE Zero
<1> DEFINE n == Len(args)
           AA == ArgvArray(args)
           SP == StackPointer(args)
           R == PTR_SIZE
           TOP == ELF_STACK_TOP
           low == TOP - TotalMappedStack(args)
           nR == n * R
           S1 == ArgString(args, 1)
           canary == Word(SP - R, "canary", 1)
           argc == Word(SP, "int", n)
           argv == Word(SP + R, "ptr", AA)
           null == Word(AA + nR, "ptr", 0)
           pointers == Pointers(args)
           strings == Strings(args)
           zeros == Zeros(low, TOP - 1)
           b2 == canary ++ argc
           b3 == b2 ++ argv
           b4 == b3 ++ null
           b5 == b4 ++ pointers
           b6 == b5 ++ strings
           b7 == b6 ++ zeros
<1>1. StackBytes(args) = b7
  BY DEF StackBytes
<1>2. /\ n \in Nat /\ AA \in Nat /\ SP \in Int /\ R \in Nat \ {0}
      /\ TOP \in Nat
      /\ low \in Int /\ low <= SP - R /\ SP + 2 * R <= AA
      /\ AA + nR + R = S1 /\ S1 <= TOP /\ S1 \in Nat /\ nR \in Nat
  <2>1. /\ n \in Nat /\ AA \in Nat /\ SP \in Int /\ R \in Nat \ {0}
        /\ TOP \in Nat /\ TotalMappedStack(args) \in Nat
        /\ low <= SP - R /\ SP + 2 * R <= AA
        /\ AA + (n + 1) * R = S1 /\ S1 <= TOP /\ S1 \in Nat
    BY StackLayout, PageSizes, LayoutAssumption
  <2>2. (n + 1) * R = nR + R /\ nR \in Nat
    BY <2>1
  <2>3. low \in Int
    BY <2>1
  <2> HIDE DEF nR, low, SP, AA, S1, n, R, TOP
  <2> QED BY <2>1, <2>2, <2>3
<1>3. /\ DOMAIN canary = SP - R .. SP - 1 /\ DOMAIN argc = SP .. SP + R - 1
      /\ DOMAIN argv = SP + R .. SP + R + R - 1
      /\ DOMAIN null = AA + nR .. AA + nR + R - 1
  <2> HIDE DEF nR, SP, AA, n
  <2>1. SP - R \in Int /\ SP + R \in Int /\ AA + nR \in Int
        /\ SP - R + R - 1 = SP - 1
    BY <1>2
  <2> QED BY <1>2, <2>1, WordIs
<1>4. /\ DOMAIN pointers = AA .. AA + nR - 1
      /\ DOMAIN strings = S1 .. TOP - 1 /\ DOMAIN zeros = low .. TOP - 1
  BY DEF Pointers, Strings, Zeros
<1>5. ASSUME NEW k \in 0 .. R - 1
      PROVE  /\ argc[SP + k] = WordByte("int", n, k)
             /\ argv[SP + R + k] = WordByte("ptr", AA, k)
             /\ null[AA + nR + k] = Zero
  <2> HIDE DEF nR, SP, AA, n
  <2>1. SP \in Int /\ SP + R \in Int /\ AA + nR \in Int
    BY <1>2
  <2>2. null[AA + nR + k] = WordByte("ptr", 0, k)
    BY <2>1, WordIs
  <2> QED BY <2>1, <2>2, WordIs DEF WordByte
<1> HIDE DEF n, AA, SP, R, TOP, low, nR, S1, canary, argc, argv, null,
             pointers,
             strings, zeros
<1>6. /\ DOMAIN b2 = DOMAIN canary \cup DOMAIN argc
      /\ DOMAIN b3 = DOMAIN b2 \cup DOMAIN argv
      /\ DOMAIN b4 = DOMAIN b3 \cup DOMAIN null
      /\ DOMAIN b5 = DOMAIN b4 \cup DOMAIN pointers
      /\ DOMAIN b6 = DOMAIN b5 \cup DOMAIN strings
      /\ DOMAIN b7 = DOMAIN b6 \cup DOMAIN zeros
  <2> HIDE DEF b2, b3, b4, b5, b6
  <2> QED BY Overlay DEF b2, b3, b4, b5, b6
<1>7. /\ \A a \in DOMAIN b6 : b7[a] = b6[a]
      /\ \A a \in DOMAIN b5 : b6[a] = b5[a]
      /\ \A a \in DOMAIN b4 : b5[a] = b4[a]
      /\ \A a \in DOMAIN b3 : b4[a] = b3[a]
      /\ \A a \in DOMAIN b2 : b3[a] = b2[a]
  <2> HIDE DEF b2, b3, b4, b5, b6
  <2>1. ASSUME NEW a \in DOMAIN b6 PROVE b7[a] = b6[a]
    BY Overlay DEF b7
  <2>2. ASSUME NEW a \in DOMAIN b5 PROVE b6[a] = b5[a]
    BY Overlay DEF b6
  <2>3. ASSUME NEW a \in DOMAIN b4 PROVE b5[a] = b4[a]
    BY Overlay DEF b5
  <2>4. ASSUME NEW a \in DOMAIN b3 PROVE b4[a] = b3[a]
    BY Overlay DEF b4
  <2>5. ASSUME NEW a \in DOMAIN b2 PROVE b3[a] = b2[a]
    BY Overlay DEF b3
  <2> HIDE DEF b7
  <2> QED BY <2>1, <2>2, <2>3, <2>4, <2>5
<1>8. /\ \A a \in DOMAIN argc \ DOMAIN canary : b2[a] = argc[a]
      /\ \A a \in DOMAIN argv \ DOMAIN b2 : b3[a] = argv[a]
      /\ \A a \in DOMAIN null \ DOMAIN b3 : b4[a] = null[a]
      /\ \A a \in DOMAIN pointers \ DOMAIN b4 : b5[a] = pointers[a]
      /\ \A a \in DOMAIN strings \ DOMAIN b5 : b6[a] = strings[a]
  <2> HIDE DEF b2, b3, b4, b5, b6
  <2>1. ASSUME NEW a \in DOMAIN argc \ DOMAIN canary PROVE b2[a] = argc[a]
    BY DEF b2, ++
  <2>2. ASSUME NEW a \in DOMAIN argv \ DOMAIN b2 PROVE b3[a] = argv[a]
    BY DEF b3, ++
  <2>3. ASSUME NEW a \in DOMAIN null \ DOMAIN b3 PROVE b4[a] = null[a]
    BY DEF b4, ++
  <2>4. ASSUME NEW a \in DOMAIN pointers \ DOMAIN b4 PROVE b5[a] = pointers[a]
    BY DEF b5, ++
  <2>5. ASSUME NEW a \in DOMAIN strings \ DOMAIN b5 PROVE b6[a] = strings[a]
    BY DEF b6, ++
  <2> QED BY <2>1, <2>2, <2>3, <2>4, <2>5
<1> HIDE DEF b2, b3, b4, b5, b6, b7
<1>9. /\ DOMAIN b2 = SP - R .. SP + R - 1
      /\ DOMAIN b3 = SP - R .. SP + R + R - 1
  BY <1>2, <1>3, <1>6
<1>10. \A a : a \in DOMAIN b4 <=> a \in DOMAIN b3 \/ a \in DOMAIN null
  BY <1>6
<1>11. \A a : a \in DOMAIN b5 <=> a \in DOMAIN b4 \/ a \in DOMAIN pointers
  BY <1>6
<1>12. \A a : a \in DOMAIN b5 => a \in low .. S1 - 1
  BY <1>2, <1>3, <1>4, <1>9, <1>10, <1>11
<1>13. DOMAIN b7 = low .. TOP - 1
  BY <1>2, <1>4, <1>6, <1>12
<1>14. ASSUME NEW k \in 0 .. R - 1
       PROVE  /\ SP + k \in low .. TOP - 1
              /\ b7[SP + k] = WordByte("int", n, k)
              /\ SP + R + k \in low .. TOP - 1
              /\ b7[SP + R + k] = WordByte("ptr", AA, k)
              /\ AA + nR + k \in low .. TOP - 1
              /\ b7[AA + nR + k] = Zero
  <2>1. SP + k \in DOMAIN argc \ DOMAIN canary /\ SP + k \in DOMAIN b2
    BY <1>2, <1>3, <1>9
  <2>2. SP + R + k \in DOMAIN argv \ DOMAIN b2 /\ SP + R + k \in DOMAIN b3
    BY <1>2, <1>3, <1>9
  <2>3. AA + nR + k \in DOMAIN null \ DOMAIN b3 /\ AA + nR + k \in DOMAIN b4
    <3>1. AA + nR + k \in DOMAIN null
      BY <1>2, <1>3
    <3>2. AA + nR + k \notin DOMAIN b3
      BY <1>2, <1>9
    <3> QED BY <1>10, <3>1, <3>2
  <2>4. /\ b7[SP + k] = argc[SP + k]
        /\ b7[SP + R + k] = argv[SP + R + k]
        /\ b7[AA + nR + k] = null[AA + nR + k]
    BY <1>6, <1>7, <1>8, <2>1, <2>2, <2>3
  <2>5. /\ SP + k \in low .. TOP - 1 /\ SP + R + k \in low .. TOP - 1
        /\ AA + nR + k \in low .. TOP - 1
    BY <1>2
  <2> QED BY <1>5, <2>4, <2>5
<1>15. ASSUME NEW i \in 1 .. n, NEW k \in 0 .. R - 1
       PROVE  /\ AA + (i - 1) * R + k \in low .. TOP - 1
              /\ b7[AA + (i - 1) * R + k] =
                    WordByte("ptr", ArgString(args, i), k)
  <2> DEFINE a == AA + (i - 1) * R + k
  <2>1. /\ a \in DOMAIN pointers
        /\ pointers[a] = WordByte("ptr", ArgString(args, i), k)
    BY PointersAre DEF n, R, pointers, AA
  <2> HIDE DEF a
  <2>2. a \in AA .. AA + nR - 1
    BY <1>4, <2>1
  <2>3. a \notin DOMAIN b4 /\ a \in DOMAIN b5
    BY <1>2, <1>3, <1>9, <1>10, <1>11, <2>1, <2>2
  <2>4. b7[a] = pointers[a]
    BY <1>6, <1>7, <1>8, <2>1, <2>3
  <2>5. a \in low .. TOP - 1
    BY <1>2, <2>2
  <2> QED BY <2>1, <2>4, <2>5 DEF a
<1>16. ASSUME NEW i \in 1 .. n, NEW k \in 0 .. Len(args[i])
       PROVE  /\ ArgString(args, i) + k \in low .. TOP - 1
              /\ b7[ArgString(args, i) + k] =
                   IF k < Len(args[i]) THEN Byte("char", args[i][k + 1], 0)
                   ELSE Zero
  <2> DEFINE a == ArgString(args, i) + k
  <2>1. /\ a \in S1 .. TOP - 1 /\ a \in DOMAIN strings
        /\ strings[a] = IF k < Len(args[i])
                          THEN Byte("char", args[i][k + 1], 0) ELSE Zero
    BY StringsAre DEF n, S1, TOP, strings
  <2> HIDE DEF a
  <2>2. a \notin DOMAIN b5 /\ a \in DOMAIN b6
    BY <1>2, <1>6, <1>12, <2>1
  <2>3. b7[a] = strings[a]
    BY <1>7, <1>8, <2>1, <2>2
  <2>4. a \in low .. TOP - 1
    BY <1>2, <2>1
  <2> QED BY <2>1, <2>3, <2>4 DEF a
<1> QED BY <1>1, <1>13, <1>14, <1>15, <1>16 DEF n, AA, SP, R, TOP, low, nR

-----------------------------------------------------------------------------
(***************************************************************************)
(* Bitmaps.                                                                *)
(***************************************************************************)
\* A set of numbers with 0 and the successor of each of its members has all.
LEMMA Induction ==
  ASSUME NEW S \in SUBSET Nat, 0 \in S, \A n \in S : n + 1 \in S
  PROVE  S = Nat
<1>1. SUFFICES ASSUME Nat \ S # {} PROVE FALSE
  OBVIOUS
<1>2. PICK x \in Nat \ S : \A y \in Nat \ S : <<y, x>> \notin OpToRel(<, Nat)
  <2>1. Nat \ S \in SUBSET Nat
    OBVIOUS
  <2> QED BY <1>1, <2>1, NatLessThanWellFounded, WFMin, Zenon
<1>3. x - 1 \in Nat /\ x - 1 < x
  OBVIOUS
<1>4. x - 1 \in S
  BY <1>2, <1>3 DEF OpToRel
<1> QED BY <1>3, <1>4

\* The recursion of FlattenSeq as far as the n-th of the sequences.
IsFlat(f, seqs, n) ==
  f = [i \in 1 .. n |-> IF i = 1 THEN seqs[i] ELSE f[i - 1] \o seqs[i]]

\* It defines a function.
LEMMA FlatExists ==
  ASSUME NEW seqs, NEW n \in Nat
  PROVE  \E f : IsFlat(f, seqs, n)
<1> DEFINE S == {i \in Nat : \E f : IsFlat(f, seqs, i)}
<1>1. 0 \in S
  <2>1. IsFlat([i \in 1 .. 0 |-> seqs[i]], seqs, 0)
    BY DEF IsFlat
  <2> QED BY <2>1
<1>2. ASSUME NEW i \in S PROVE i + 1 \in S
  <2>1. PICK f : IsFlat(f, seqs, i)
    OBVIOUS
  <2> DEFINE last == IF i = 0 THEN seqs[1] ELSE f[i] \o seqs[i + 1]
             g == [j \in 1 .. i + 1 |-> IF j = i + 1 THEN last ELSE f[j]]
  <2>2. ASSUME NEW j \in 1 .. i + 1
        PROVE  g[j] = IF j = 1 THEN seqs[j] ELSE g[j - 1] \o seqs[j]
    <3>1. CASE j \in 1 .. i
      <4>1. f[j] = IF j = 1 THEN seqs[j] ELSE f[j - 1] \o seqs[j]
        BY <2>1, <3>1 DEF IsFlat
      <4>2. g[j] = f[j] /\ (j # 1 => g[j - 1] = f[j - 1])
        BY <3>1
      <4> QED BY <4>1, <4>2
    <3>2. CASE j = i + 1
      <4>1. g[j] = last
        BY <3>2
      <4>2. j # 1 => g[j - 1] = f[i] /\ i # 0
        BY <3>2
      <4>3. j = 1 => i = 0
        BY <3>2
      <4> QED BY <3>2, <4>1, <4>2, <4>3
    <3> QED BY <3>1, <3>2
  <2>3. g = [j \in 1 .. i + 1 |->
               IF j = 1 THEN seqs[j] ELSE g[j - 1] \o seqs[j]]
    <3>1. g = [j \in 1 .. i + 1 |-> g[j]]
      OBVIOUS
    <3> HIDE DEF g
    <3> QED BY <2>2, <3>1
  <2>4. IsFlat(g, seqs, i + 1)
    BY <2>3 DEF IsFlat
  <2> HIDE DEF g
  <2> QED BY <2>4
<1> HIDE DEF S
<1>3. S = Nat
  <2>1. S \in SUBSET Nat
    BY DEF S
  <2> QED BY <1>1, <1>2, <2>1, Induction
<1> QED BY <1>3 DEF S

\* One sequence behind another.
LEMMA Joined ==
  ASSUME NEW X, NEW s \in Seq(X), NEW t \in Seq(X)
  PROVE  /\ s \o t \in Seq(X) /\ Len(s \o t) = Len(s) + Len(t)
         /\ Len(s) \in Nat /\ Len(t) \in Nat
         /\ \A n \in 1 .. Len(s) : (s \o t)[n] = s[n]
         /\ \A n \in 1 .. Len(t) : (s \o t)[Len(s) + n] = t[n]
OBVIOUS

\* Sequences of m elements each, one after the other: element n is element j of
\* the i-th of them.
Blocks(t, s, m) ==
  /\ Len(t) = Len(s) * m
  /\ \A n \in 1 .. Len(t) : \E i \in DOMAIN s, j \in 1 .. m :
       n = (i - 1) * m + j /\ t[n] = s[i][j]

LEMMA FlattenBlocks ==
  ASSUME NEW X, NEW m \in Nat, NEW s \in Seq(Seq(X)),
         \A i \in DOMAIN s : Len(s[i]) = m
  PROVE  FlattenSeq(s) \in Seq(X) /\ Blocks(FlattenSeq(s), s, m)
<1> DEFINE N == Len(s)
<1>1. N \in Nat /\ DOMAIN s = 1 .. N /\ \A i \in 1 .. N : s[i] \in Seq(X)
  OBVIOUS
<1>2. PICK f : IsFlat(f, s, N)
  BY <1>1, FlatExists
<1>3. CASE N = 0
  <2>1. FlattenSeq(s) = s /\ s = <<>>
    BY <1>3 DEF FlattenSeq
  <2>2. Len(s) * m = 0
    BY <1>3
  <2> QED BY <1>3, <2>1, <2>2 DEF Blocks
<1>4. CASE N # 0
  <2>1. \E g : IsFlat(g, s, N) /\ FlattenSeq(s) = g[N]
    <3>1. FlattenSeq(s) = (CHOOSE g : g = [i \in 1 .. N |->
                 IF i = 1 THEN s[i] ELSE g[i - 1] \o s[i]])[N]
      BY <1>4 DEF FlattenSeq
    <3> HIDE DEF N
    <3> QED BY <1>2, <3>1 DEF IsFlat
  <2>2. PICK g : IsFlat(g, s, N) /\ FlattenSeq(s) = g[N]
    BY <2>1
  <2>9. \A i \in 1 .. N : g[i] = IF i = 1 THEN s[i] ELSE g[i - 1] \o s[i]
    <3> HIDE DEF N
    <3> QED BY <2>2 DEF IsFlat
  <2> DEFINE P(i) == /\ g[i] \in Seq(X) /\ Len(g[i]) = i * m
                     /\ \A n \in 1 .. i * m : \E q \in 1 .. N, j \in 1 .. m :
                          n = (q - 1) * m + j /\ g[i][n] = s[q][j]
             S == {i \in Nat : i + 1 <= N => P(i + 1)}
  <2>3. 0 \in S
    <3>1. g[1] = s[1] /\ 1 \in 1 .. N
      BY <1>1, <1>4, <2>2 DEF IsFlat
    <3>2. 1 * m = m /\ (1 - 1) * m = 0
      OBVIOUS
    <3>3. P(1)
      <4>1. g[1] \in Seq(X) /\ Len(g[1]) = 1 * m
        BY <1>1, <3>1, <3>2
      <4>2. ASSUME NEW n \in 1 .. 1 * m
            PROVE  \E q \in 1 .. N, j \in 1 .. m :
                          n = (q - 1) * m + j /\ g[1][n] = s[q][j]
        <5>1. n \in 1 .. m /\ n = (1 - 1) * m + n /\ g[1][n] = s[1][n]
          BY <3>1, <3>2
        <5> QED BY <3>1, <5>1
      <4> QED BY <4>1, <4>2
    <3> QED BY <3>3
  <2>4. ASSUME NEW i \in S PROVE i + 1 \in S
    <3> HIDE DEF P, N
    <3>1. SUFFICES ASSUME i + 1 + 1 <= N PROVE P(i + 1 + 1)
      OBVIOUS
    <3> DEFINE a == i + 1
    <3>10. N \in Nat
      BY <1>1 DEF N
    <3>2. a \in Nat /\ a # 0 /\ a + 1 <= N /\ P(a) /\ a + 1 \in 1 .. N
      BY <3>1, <3>10
    <3>3. g[a + 1] = g[a] \o s[a + 1]
      <4>1. a + 1 # 1 /\ a + 1 - 1 = a
        BY <3>2
      <4>2. g[a + 1] = IF a + 1 = 1 THEN s[a + 1]
                       ELSE g[a + 1 - 1] \o s[a + 1]
        BY <2>9, <3>2
      <4> QED BY <4>1, <4>2
    <3>4. s[a + 1] \in Seq(X) /\ Len(s[a + 1]) = m
      BY <1>1, <3>2 DEF N
    <3>5. a \in Nat /\ a + 1 \in 1 .. N
      BY <3>2
    <3> HIDE DEF a
    <3>6. a * m \in Nat /\ (a + 1) * m = a * m + m /\ (a + 1 - 1) * m = a * m
      BY <3>5
    <3>7. g[a] \in Seq(X) /\ Len(g[a]) = a * m
          /\ \A n \in 1 .. a * m : \E q \in 1 .. N, j \in 1 .. m :
               n = (q - 1) * m + j /\ g[a][n] = s[q][j]
      BY <3>2 DEF P
    <3>8. /\ g[a + 1] \in Seq(X) /\ Len(g[a + 1]) = (a + 1) * m
          /\ \A n \in 1 .. a * m : g[a + 1][n] = g[a][n]
          /\ \A n \in 1 .. m : g[a + 1][a * m + n] = s[a + 1][n]
      <4> DEFINE u == g[a]
                 v == s[a + 1]
      <4>0. u \in Seq(X) /\ v \in Seq(X)
        BY <3>4, <3>7
      <4>1. Len(u) = a * m /\ Len(v) = m
        BY <3>4, <3>7
      <4>2. g[a + 1] = u \o v
        BY <3>3
      <4> HIDE DEF u, v
      <4>3. /\ u \o v \in Seq(X) /\ Len(u \o v) = Len(u) + Len(v)
            /\ \A n \in 1 .. Len(u) : (u \o v)[n] = u[n]
            /\ \A n \in 1 .. Len(v) : (u \o v)[Len(u) + n] = v[n]
        BY <4>0, Joined
      <4> QED BY <3>6, <4>0, <4>1, <4>2, <4>3 DEF u, v
    <3>9. ASSUME NEW n \in 1 .. (a + 1) * m
          PROVE  \E q \in 1 .. N, j \in 1 .. m :
                   n = (q - 1) * m + j /\ g[a + 1][n] = s[q][j]
      <4>1. CASE n <= a * m
        <5>1. n \in 1 .. a * m
          BY <3>6, <4>1
        <5> QED BY <3>7, <3>8, <5>1
      <4>2. CASE n > a * m
        <5>1. PICK j \in 1 .. m : n = a * m + j
          <6>1. n - a * m \in 1 .. m /\ n = a * m + (n - a * m)
            BY <3>6, <4>2
          <6> QED BY <6>1
        <5>2. g[a + 1][n] = s[a + 1][j]
          BY <3>8, <5>1
        <5>3. n = (a + 1 - 1) * m + j
          BY <3>6, <5>1
        <5> QED BY <3>5, <5>2, <5>3
      <4> QED BY <3>6, <4>1, <4>2
    <3> QED BY <3>8, <3>9 DEF a, P
  <2> HIDE DEF S, P
  <2>5. S = Nat
    <3>1. S \in SUBSET Nat
      BY DEF S
    <3> QED BY <2>3, <2>4, <3>1, Induction
  <2>6. P(N)
    <3>1. N - 1 \in Nat /\ N - 1 + 1 = N /\ N - 1 + 1 <= N
      BY <1>1, <1>4
    <3>2. N - 1 \in S
      BY <2>5, <3>1
    <3> HIDE DEF N
    <3> QED BY <3>1, <3>2 DEF S
  <2>7. FlattenSeq(s) = g[N]
    BY <2>2
  <2>8. /\ g[N] \in Seq(X) /\ Len(g[N]) = N * m
        /\ \A n \in 1 .. N * m : \E q \in 1 .. N, j \in 1 .. m :
             n = (q - 1) * m + j /\ g[N][n] = s[q][j]
    BY <2>6 DEF P
  <2> HIDE DEF N
  <2>10. DOMAIN s = 1 .. N
    BY <1>1
  <2>11. Len(s) = N
    BY DEF N
  <2>12. \A n \in 1 .. N * m : \E i \in DOMAIN s, j \in 1 .. m :
              n = (i - 1) * m + j /\ FlattenSeq(s)[n] = s[i][j]
    <3>1. TAKE n \in 1 .. N * m
    <3>2. PICK q \in 1 .. N, j \in 1 .. m :
             n = (q - 1) * m + j /\ g[N][n] = s[q][j]
      BY <2>8
    <3>3. q \in DOMAIN s /\ FlattenSeq(s)[n] = s[q][j]
      BY <2>7, <2>10, <3>2
    <3> QED BY <3>2, <3>3
  <2> QED BY <2>7, <2>8, <2>11, <2>12 DEF Blocks
<1> QED BY <1>3, <1>4
\* The row of the file that is row y of the picture.
Row(bmp, y) == IF TopDown(bmp) THEN y ELSE Height(bmp) - 1 - y

\* Filling a row up makes its size a multiple of four.
LEMMA Padding ==
  ASSUME NEW n \in Nat
  PROVE  (4 - (n % 4)) % 4 \in Nat
         /\ n + ((4 - (n % 4)) % 4) = ((n + 3) \div 4) * 4
<1> DEFINE q == n \div 4
           r == n % 4
<1>1. q \in Nat /\ r \in 0 .. 3 /\ n = 4 * q + r
  OBVIOUS
<1> HIDE DEF q, r
<1>2. (4 - r) % 4 = IF r = 0 THEN 0 ELSE 4 - r
  BY <1>1
<1>3. (n + 3) \div 4 = IF r = 0 THEN q ELSE q + 1
  BY <1>1
<1> DEFINE u == (4 - r) % 4
           v == (n + 3) \div 4
<1>4. u = IF r = 0 THEN 0 ELSE 4 - r
  BY <1>2
<1>5. v = IF r = 0 THEN q ELSE q + 1
  BY <1>3
<1> HIDE DEF u, v
<1>6. u \in Nat /\ n + u = v * 4
  BY <1>1, <1>4, <1>5
<1> QED BY <1>6 DEF r, u, v

\* A row as it is stored: bytes of its pixels, and padding.
LineOf(t, y, w, b) ==
  \A j \in 1 .. Len(t) :
    \/ t[j] = <<>>
    \/ \E x \in 0 .. w - 1, k \in 1 .. b : j = x * b + k /\ t[j] = <<x, y, k>>

\* Byte n of a bitmap is byte k of pixel (x, y).
PixelAt(bmp, n, x, y, k) ==
  /\ Stored(bmp)[n] = <<x, y, k>>
  /\ n \in 1 .. Height(bmp) * RowSize(bmp)
  /\ n - 1 = Row(bmp, y) * RowSize(bmp) + x * BytesPerPixel(bmp) + (k - 1)

OfPixel(bmp, n) ==
  \E x \in 0 .. bmp.width - 1, y \in 0 .. Height(bmp) - 1,
     k \in 1 .. BytesPerPixel(bmp) : PixelAt(bmp, n, x, y, k)

\* Every byte of a bitmap is padding or that of a pixel whose place it is.
LEMMA BitmapIs ==
  ASSUME NEW bmp, bmp.bpp \in {24, 32}, bmp.width \in Nat, bmp.height \in Int,
         NEW n \in DOMAIN Stored(bmp)
  PROVE  Stored(bmp)[n] = <<>> \/ OfPixel(bmp, n)
<1> DEFINE w == bmp.width
           h == Height(bmp)
           b == BytesPerPixel(bmp)
           R == RowSize(bmp)
           Pixel(x, y) == [k \in 1 .. b |-> <<x, y, k>>]
           Line(y) == [x \in 1 .. w |-> Pixel(x - 1, y)]
           Pixels(y) == FlattenSeq(Line(y))
           Filled(row) ==
             row \o [k \in 1 .. (4 - (Len(row) % 4)) % 4 |-> <<>>]
           rows == [y \in 1 .. h |-> Filled(Pixels(y - 1))]
           all == IF bmp.height < 0 THEN rows ELSE Reverse(rows)
           X == {<<>>} \cup ((0 .. w - 1) \X (0 .. h - 1) \X (1 .. b))
<1>1. w \in Nat /\ h \in Nat /\ b \in {3, 4}
  BY DEF Height, TopDown, BytesPerPixel
<1>2. w * b \in Nat /\ R = ((w * b + 3) \div 4) * 4
  BY <1>1 DEF RowSize
<1>3. h = IF bmp.height < 0 THEN -bmp.height ELSE bmp.height
  BY DEF Height, TopDown
<1>4. Stored(bmp) = FlattenSeq(all)
  BY <1>3 DEF Stored, BytesPerPixel
<1> HIDE DEF w, h, b, R
<1>5. ASSUME NEW y \in 0 .. h - 1
      PROVE  /\ Pixels(y) \in Seq(X) /\ Len(Pixels(y)) = w * b
             /\ \A j \in 1 .. w * b :
                  \E x \in 0 .. w - 1, k \in 1 .. b :
                    j = x * b + k /\ Pixels(y)[j] = <<x, y, k>>
  <2>1. ASSUME NEW x \in 1 .. w
        PROVE  Pixel(x - 1, y) \in Seq(X) /\ Len(Pixel(x - 1, y)) = b
    <3>1. x - 1 \in 0 .. w - 1
      BY <1>1
    <3>2. \A k \in 1 .. b : <<x - 1, y, k>> \in X
      BY <3>1
    <3> HIDE DEF X
    <3> QED BY <1>1, <3>2
  <2>2. Line(y) \in Seq(Seq(X)) /\ Len(Line(y)) = w /\ DOMAIN Line(y) = 1 .. w
    <3> HIDE DEF X, Pixel
    <3> QED BY <1>1, <2>1
  <2>3. \A i \in DOMAIN Line(y) : Len(Line(y)[i]) = b
    <3> HIDE DEF X, Pixel
    <3> QED BY <2>1, <2>2
  <2> DEFINE L == Line(y)
  <2>4. \A i \in 1 .. w : L[i] = Pixel(i - 1, y)
    OBVIOUS
  <2> HIDE DEF X, Pixel, L
  <2>5. FlattenSeq(L) \in Seq(X) /\ Blocks(FlattenSeq(L), L, b)
    <3>1. b \in Nat
      BY <1>1
    <3>2. L \in Seq(Seq(X)) /\ \A i \in DOMAIN L : Len(L[i]) = b
      BY <2>2, <2>3 DEF L
    <3> QED BY <3>1, <3>2, FlattenBlocks
  <2>6. ASSUME NEW j \in 1 .. w * b
        PROVE  \E x \in 0 .. w - 1, k \in 1 .. b :
                 j = x * b + k /\ FlattenSeq(L)[j] = <<x, y, k>>
    <3>1. PICK i \in 1 .. w, k \in 1 .. b :
             j = (i - 1) * b + k /\ FlattenSeq(L)[j] = L[i][k]
      BY <2>2, <2>5 DEF Blocks, L
    <3>2. i - 1 \in 0 .. w - 1
      BY <1>1
    <3>3. L[i] = Pixel(i - 1, y)
      BY <2>4
    <3>4. Pixel(i - 1, y)[k] = <<i - 1, y, k>>
      BY DEF Pixel
    <3> QED BY <3>1, <3>2, <3>3, <3>4
  <2>7. Len(FlattenSeq(L)) = w * b
    BY <2>2, <2>5 DEF Blocks, L
  <2> QED BY <2>5, <2>6, <2>7 DEF L
<1> HIDE DEF Pixels, X
<1> DEFINE z == w * b
<1>6. ASSUME NEW y \in 0 .. h - 1
      PROVE  /\ Filled(Pixels(y)) \in Seq(X) /\ Len(Filled(Pixels(y))) = R
             /\ LineOf(Filled(Pixels(y)), y, w, b)
  <2> DEFINE p == Pixels(y)
             d == (4 - (z % 4)) % 4
             fill == [k \in 1 .. d |-> <<>>]
             t == Filled(p)
  <2>1. p \in Seq(X) /\ Len(p) = z
    BY <1>5
  <2>2. z \in Nat /\ R = ((z + 3) \div 4) * 4
    BY <1>2
  <2>3. \A j \in 1 .. z : \E x \in 0 .. w - 1, k \in 1 .. b :
                    j = x * b + k /\ p[j] = <<x, y, k>>
    BY <1>5
  <2>4. t = p \o [k \in 1 .. (4 - (Len(p) % 4)) % 4 |-> <<>>]
    OBVIOUS
  <2> HIDE DEF p, z, t
  <2>5. d \in Nat /\ z + d = R
    BY <2>2, Padding
  <2>6. t = p \o fill
    BY <2>1, <2>4
  <2>7. <<>> \in X
    BY DEF X
  <2> HIDE DEF d
  <2>8. fill \in Seq(X) /\ Len(fill) = d /\ \A k \in 1 .. d : fill[k] = <<>>
    BY <2>5, <2>7
  <2> HIDE DEF fill, Filled
  <2>9. /\ t \in Seq(X) /\ Len(t) = Len(p) + Len(fill)
        /\ \A j \in 1 .. Len(p) : t[j] = p[j]
        /\ \A j \in 1 .. Len(fill) : t[Len(p) + j] = fill[j]
    <3>1. /\ p \o fill \in Seq(X) /\ Len(p \o fill) = Len(p) + Len(fill)
          /\ \A j \in 1 .. Len(p) : (p \o fill)[j] = p[j]
          /\ \A j \in 1 .. Len(fill) : (p \o fill)[Len(p) + j] = fill[j]
      BY <2>1, <2>8, Joined
    <3> QED BY <2>6, <3>1
  <2>10. Len(t) = R
    BY <2>1, <2>5, <2>8, <2>9
  <2>11. ASSUME NEW j \in 1 .. Len(t)
         PROVE  \/ t[j] = <<>>
                \/ \E x \in 0 .. w - 1, k \in 1 .. b :
                     j = x * b + k /\ t[j] = <<x, y, k>>
    <3>1. CASE j <= z
      <4>1. j \in 1 .. z /\ t[j] = p[j]
        BY <2>1, <2>2, <2>9, <3>1
      <4>2. PICK x \in 0 .. w - 1, k \in 1 .. b :
               j = x * b + k /\ p[j] = <<x, y, k>>
        BY <2>3, <4>1
      <4> QED BY <4>1, <4>2
    <3>2. CASE j > z
      <4>1. j - z \in 1 .. d /\ z + (j - z) = j
        BY <2>2, <2>5, <2>10, <3>2
      <4>2. t[z + (j - z)] = fill[j - z]
        BY <2>1, <2>8, <2>9, <4>1
      <4> QED BY <2>8, <4>1, <4>2
    <3>3. j <= z \/ j > z
      BY <2>2
    <3> QED BY <3>1, <3>2, <3>3, Zenon
  <2>12. LineOf(t, y, w, b)
    BY <2>11 DEF LineOf
  <2> QED BY <2>9, <2>10, <2>12 DEF t, p
<1> HIDE DEF Filled
<1>7. /\ all \in Seq(Seq(X)) /\ Len(all) = h /\ DOMAIN all = 1 .. h
      /\ \A i \in 1 .. h :
           all[i] = Filled(Pixels(IF bmp.height < 0 THEN i - 1 ELSE h - i))
  <2>1. \A i \in 1 .. h : /\ i - 1 \in 0 .. h - 1
                          /\ Filled(Pixels(i - 1)) \in Seq(X)
    BY <1>1, <1>6
  <2>2. rows \in Seq(Seq(X)) /\ Len(rows) = h
        /\ \A i \in 1 .. h : rows[i] = Filled(Pixels(i - 1))
    BY <1>1, <2>1
  <2> HIDE DEF rows
  <2>3. Reverse(rows) = [i \in 1 .. h |-> rows[h - i + 1]]
    BY <2>2 DEF Reverse
  <2>4. ASSUME NEW i \in 1 .. h
        PROVE  h - i + 1 \in 1 .. h /\ h - i + 1 - 1 = h - i
    BY <1>1
  <2>5. \A i \in 1 .. h : rows[h - i + 1] = Filled(Pixels(h - i))
    BY <2>2, <2>4
  <2>6. Reverse(rows) \in Seq(Seq(X)) /\ Len(Reverse(rows)) = h
    <3>1. \A i \in 1 .. h : rows[h - i + 1] \in Seq(X)
      BY <2>1, <2>2, <2>4
    <3> QED BY <1>1, <2>3, <3>1
  <2>7. CASE bmp.height < 0
    BY <1>1, <2>2, <2>7
  <2>8. CASE ~(bmp.height < 0)
    <3>1. all = Reverse(rows)
      BY <2>8
    <3>2. \A i \in 1 .. h : Reverse(rows)[i] = Filled(Pixels(h - i))
      BY <2>3, <2>5
    <3> HIDE DEF all
    <3> QED BY <1>1, <2>6, <2>8, <3>1, <3>2
  <2> QED BY <2>7, <2>8
<1> HIDE DEF rows, all
<1>8. R \in Nat
  BY <1>2
<1>9. ASSUME NEW i \in 1 .. h
      PROVE  (IF bmp.height < 0 THEN i - 1 ELSE h - i) \in 0 .. h - 1
  BY <1>1
<1>10. ASSUME NEW i \in DOMAIN all
       PROVE  Len(all[i]) = R
  <2> DEFINE y == IF bmp.height < 0 THEN i - 1 ELSE h - i
  <2>1. y \in 0 .. h - 1 /\ all[i] = Filled(Pixels(y))
    BY <1>7, <1>9
  <2> HIDE DEF y
  <2> QED BY <1>6, <2>1
<1>11. FlattenSeq(all) \in Seq(X) /\ Blocks(FlattenSeq(all), all, R)
  BY <1>7, <1>8, <1>10, FlattenBlocks
<1>12. DOMAIN FlattenSeq(all) = 1 .. Len(FlattenSeq(all))
  BY <1>11, LenProperties
<1>13. PICK i \in 1 .. h, j \in 1 .. R :
          n = (i - 1) * R + j /\ Stored(bmp)[n] = all[i][j]
  <2>1. n \in 1 .. Len(FlattenSeq(all))
    BY <1>4, <1>12
  <2>2. \E i \in 1 .. h, j \in 1 .. R :
          n = (i - 1) * R + j /\ FlattenSeq(all)[n] = all[i][j]
    <3> DEFINE F == FlattenSeq(all)
    <3>1. \A m \in 1 .. Len(F) : \E i \in DOMAIN all, j \in 1 .. R :
            m = (i - 1) * R + j /\ F[m] = all[i][j]
      BY <1>11 DEF Blocks
    <3> HIDE DEF F
    <3>2. PICK i \in DOMAIN all, j \in 1 .. R :
            n = (i - 1) * R + j /\ F[n] = all[i][j]
      BY <2>1, <3>1 DEF F
    <3> QED BY <1>7, <3>2 DEF F
  <2> QED BY <1>4, <2>2
<1> DEFINE y == IF bmp.height < 0 THEN i - 1 ELSE h - i
<1>14. y \in 0 .. h - 1 /\ all[i] = Filled(Pixels(y))
  BY <1>7, <1>9
<1>15. i - 1 = Row(bmp, y)
  BY <1>1 DEF Row, TopDown, h
<1> HIDE DEF y
<1>16. \/ all[i][j] = <<>>
       \/ \E x \in 0 .. w - 1, k \in 1 .. b :
            j = x * b + k /\ all[i][j] = <<x, y, k>>
  BY <1>6, <1>14 DEF LineOf
<1>17. CASE all[i][j] = <<>>
  BY <1>13, <1>17
<1>18. CASE all[i][j] # <<>>
  <2>1. PICK x \in 0 .. w - 1, k \in 1 .. b :
            j = x * b + k /\ all[i][j] = <<x, y, k>>
    BY <1>16, <1>18
  <2>2. Row(bmp, y) * R \in Nat /\ x * b \in Nat
        /\ n = Row(bmp, y) * R + j
    <3>1. i - 1 \in Nat /\ x \in Nat
      BY <1>1
    <3> QED BY <1>1, <1>8, <1>13, <1>15, <3>1
  <2>3. n - 1 = Row(bmp, y) * R + x * b + (k - 1)
    BY <1>1, <2>1, <2>2
  <2>4. n \in 1 .. h * R
    BY <1>4, <1>7, <1>11, <1>12 DEF Blocks
  <2>5. PixelAt(bmp, n, x, y, k)
    BY <1>13, <2>1, <2>3, <2>4 DEF PixelAt, w, h, b, R
  <2> QED BY <1>14, <2>5 DEF OfPixel, w, h, b
<1> QED BY <1>17, <1>18

\* Pixels of a picture that is not too wide have places of their own.
LEMMA PictureIs ==
  ASSUME Bmp.width \in Nat, Height(Bmp) \in Int,
         Bmp.width <= fb_width, Height(Bmp) <= fb_height,
         NEW x \in 0 .. Bmp.width - 1, NEW y \in 0 .. Height(Bmp) - 1
  PROVE  /\ y * fb_width + x \in DOMAIN Picture
         /\ Picture[y * fb_width + x] = Color(x, y)
<1> DEFINE W == fb_width
           w == Bmp.width
           h == Height(Bmp)
           i == y * W + x
           at == {p \in (0 .. w - 1) \X (0 .. h - 1) : p[2] * W + p[1] = i}
           places == {b * W + a : a \in 0 .. w - 1, b \in 0 .. h - 1}
           last == CHOOSE p \in at : \A q \in at : q[2] <= p[2]
<1>1. W \in Nat \ {0} /\ fb_height \in Nat /\ w \in Nat /\ h \in Int
  BY SizesAssumption
<1>2. Put(i) = Color(last[1], last[2])
  BY DEF Put
<1>3. Picture = [j \in places \cap 0 .. W * fb_height - 1 |-> Put(j)]
  BY DEF Picture
<1> HIDE DEF W, w, h
<1>4. ASSUME NEW a \in 0 .. w - 1, NEW b \in 0 .. h - 1, b * W + a = i
      PROVE  a = x /\ b = y
  <2>1. W * b \in Int /\ W * y \in Int /\ W * b = b * W /\ W * y = y * W
    BY <1>1
  <2>2. i \in Int /\ W * b <= i /\ i < W * b + W
        /\ W * y <= i /\ i < W * y + W
    BY <1>1, <1>4, <2>1 DEF w, W
  <2> HIDE DEF i
  <2>6. W \in Nat \ {0} /\ b \in Int /\ y \in Int
    BY <1>1 DEF h
  <2>3. i \div W = b
    BY <2>2, <2>6, Quotient, Zenon
  <2>4. i \div W = y
    BY <2>2, <2>6, Quotient, Zenon
  <2>5. b = y
    BY <2>3, <2>4
  <2> QED BY <1>1, <1>4, <2>1, <2>5 DEF i
<1>5. at = {<<x, y>>}
  <2>1. <<x, y>> \in at
    BY DEF w, h
  <2>2. ASSUME NEW p \in at
        PROVE  p = <<x, y>>
    BY <1>4
  <2> QED BY <2>1, <2>2
<1>6. Put(i) = Color(x, y)
  <2>1. last = <<x, y>>
    <3>1. y <= y
      BY <1>1 DEF h
    <3>2. <<x, y>> \in at /\ \A q \in at : q[2] <= <<x, y>>[2]
      BY <1>5, <3>1
    <3> HIDE DEF at
    <3>3. (CHOOSE p \in at : \A q \in at : q[2] <= p[2]) \in at
      BY <3>2
    <3> QED BY <1>5, <3>3
  <2> HIDE DEF at, last, i
  <2> QED BY <1>2, <2>1
<1>7. i \in places
  BY DEF w, h
<1>8. i \in 0 .. W * fb_height - 1
  <2>1. y * W \in Nat /\ y * W <= (fb_height - 1) * W
    BY <1>1 DEF h
  <2>2. (fb_height - 1) * W = W * fb_height - W /\ W * fb_height \in Nat
    BY <1>1
  <2>3. x < W /\ x \in Nat
    BY <1>1 DEF w, W
  <2> QED BY <1>1, <2>1, <2>2, <2>3
<1> HIDE DEF i, places
<1> QED BY <1>3, <1>6, <1>7, <1>8 DEF i, W

-----------------------------------------------------------------------------
(***************************************************************************)
(* The steps.                                                              *)
(***************************************************************************)
\* The pages for the file are mapped: they hold it, and none of it is there.
LEMMA BeginLoadPlace ==
  ASSUME LoadInv, BeginLoad PROVE PlaceInv'
<1> DEFINE f == job'.file
           z == f.size
           pages == PagesFor(LoadAddress, z)
<1>1. /\ pc = "open" /\ pc' = "copy" /\ job'.how = job.how /\ stray' = stray
      /\ mem' = Fresh(mem, pages) /\ Map(pages, job.how = "bin", TRUE)
      /\ copy' = [sector |-> f.start, remaining |-> z, dest |-> LoadAddress]
  <2>1. DOMAIN job = {"how", "n", "file", "args"}
    BY DEF LoadInv, JobInv, BeginLoad
  <2> QED BY <2>1 DEF BeginLoad, LoadAddress
<1>2. z \in Nat /\ f.start \in Nat
  <2>1. pc = "open" /\ Known /\ JobInv
    BY <1>1 DEF LoadInv
  <2>2. /\ f = LookedUp(ReadDirectory)
    <3>1. DOMAIN job = {"how", "n", "file", "args"}
      BY <2>1 DEF JobInv
    <3> QED BY <3>1 DEF BeginLoad, LookedUp, Find
  <2>3. f \in Files
    BY <2>1, <2>2, LookedUpIs, DiskIs DEF Known
  <2> QED BY <2>3, DisksAssumption
<1>3. LoadAddress \in Nat /\ LoadAddress' = LoadAddress
  BY <1>1, LoadAddressIs DEF LoadAddress
<1>4. pages \in SUBSET Int
  BY <1>2, <1>3, PagesForInt
<1>5. MemoryInv' /\ own' = own \cup pages
  <2>1. MemoryInv
    BY DEF LoadInv
  <2> HIDE DEF pages
  <2> QED BY <1>1, <1>4, <2>1, MapFresh, Mapped
<1>6. CopyInv'
  <2>1. PagesFor(LoadAddress, job.file.size)' = pages
    BY <1>1, <1>3 DEF PagesFor, Page
  <2>2. copy'.remaining = z /\ copy'.sector = f.start
        /\ copy'.dest = LoadAddress
    BY <1>1
  <2>3. z - z = 0 /\ LoadAddress + (z - z) = LoadAddress
        /\ z \in 0 .. z
        /\ SECTOR_SIZE * (f.start - f.start) = z - z
    BY <1>2, <1>3, DirSizes
  <2>4. InPlace(0)'
    BY DEF InPlace
  <2>5. f.start \in Int /\ pages \subseteq own'
    BY <1>2, <1>5
  <2> QED BY <1>1, <1>3, <2>1, <2>2, <2>3, <2>4, <2>5 DEF CopyInv
<1> QED BY <1>1, <1>5, <1>6 DEF PlaceInv, FileInv, SegmentsInv, StackInv

\* One turn of the loop copies a sector or the rest of the file behind what is
\* there, into pages that were mapped for it.
LEMMA CopySectorPlace ==
  ASSUME LoadInv, CopySector PROVE PlaceInv'
<1> DEFINE f == job.file
           z == f.size
           S == SECTOR_SIZE
           A == LoadAddress
           done == z - copy.remaining
           m == BytesToCopy
           bytes == [a \in copy.dest .. copy.dest + m - 1 |->
                       DiskByte(copy.sector, a - copy.dest)]
<1>1. /\ pc = "copy" /\ pc' = pc /\ job' = job /\ flags' = flags
      /\ own' = own /\ disk' = disk /\ copy.remaining # 0
      /\ Store(mem, bytes)
      /\ copy' = [sector |-> copy.sector + 1, dest |-> copy.dest + m,
                  remaining |-> copy.remaining - m]
  BY DEF CopySector
<1>2. /\ z \in Nat /\ f.start \in Nat /\ f \in ToSet(disk) /\ disk \in Disks
      /\ S \in Nat \ {0}
  BY <1>1, JobFile, DirSizes DEF LoadInv, Known
<1>3. A \in Nat /\ A' = A /\ A % PAGE_SIZE = 0
  BY <1>1, LoadAddressIs DEF LoadAddress
<1>4. /\ PagesFor(A, z) \subseteq own /\ copy.remaining \in 0 .. z
      /\ copy.sector \in Int /\ copy.dest = A + done
      /\ S * (copy.sector - f.start) = done /\ InPlace(done)
  BY <1>1 DEF LoadInv, CopyInv
<1>5. /\ m \in 1 .. copy.remaining /\ m <= S /\ done \in Nat
      /\ m # S => m = copy.remaining
  BY <1>1, <1>2, <1>4 DEF BytesToCopy
<1>6. DOMAIN bytes = A + done .. A + done + m - 1
  BY <1>4
<1>7. ASSUME NEW k \in 0 .. done + m - 1
      PROVE  k \in 0 .. z - 1 /\ A + k \in Int /\ Page(A + k) \in own
             /\ A + k \in DOMAIN mem
  <2>1. k \in 0 .. z - 1 /\ A + k \in Int
    BY <1>2, <1>3, <1>4, <1>5
  <2>2. Page(A + k) \in PagesFor(A, z)
    <3> HIDE DEF A, z
    <3> QED BY <1>2, <1>3, <2>1, PagesForHold
  <2>3. Page(A + k) \in DOMAIN flags /\ DOMAIN flags \in SUBSET Int
        /\ DOMAIN mem = UNION {PageBytes(p) : p \in DOMAIN flags}
    BY <1>4, <2>2 DEF LoadInv, MemoryInv
  <2> QED BY <1>4, <2>1, <2>2, <2>3, InPages
<1>8. ASSUME NEW a \in DOMAIN bytes
      PROVE  a - A \in done .. done + m - 1 /\ a = A + (a - A)
             /\ bytes[a] = FileByte(f, a - A)
  <2> DEFINE k == a - copy.dest
             o == a - A
  <2>1. /\ a \in Int /\ k \in 0 .. S - 1 /\ o = done + k
        /\ o \in done .. done + m - 1 /\ a = A + o
    BY <1>2, <1>3, <1>4, <1>5
  <2>2. o \in 0 .. z - 1
    BY <1>5, <1>7, <2>1
  <2>3. S * (copy.sector - f.start) + k = o
    BY <1>4, <2>1
  <2>4. bytes[a] = DiskByte(copy.sector, k)
    OBVIOUS
  <2> HIDE DEF k, o, f, S, z
  <2>5. DiskByte(copy.sector, k) = FileByte(f, o)
    BY <1>2, <1>4, <2>1, <2>2, <2>3, DiskByteIs DEF S, z
  <2> QED BY <2>1, <2>4, <2>5 DEF o
<1>9. \A a \in DOMAIN bytes : Page(a) \in own'
  <2> SUFFICES ASSUME NEW a \in DOMAIN bytes PROVE Page(a) \in own'
    OBVIOUS
  <2>1. a - A \in 0 .. done + m - 1 /\ a = A + (a - A)
    <3>1. a - A \in done .. done + m - 1 /\ a = A + (a - A)
      BY <1>8
    <3> HIDE DEF done, m, A, bytes
    <3> QED BY <1>5, <3>1
  <2>2. Page(A + (a - A)) \in own
    BY <1>7, <2>1
  <2> QED BY <1>1, <2>1, <2>2
<1> HIDE DEF bytes
<1>10. /\ DOMAIN mem' = DOMAIN mem /\ stray' = FALSE
       /\ \A a \in DOMAIN mem : a \in DOMAIN bytes => mem'[a] = bytes[a]
       /\ \A a \in DOMAIN mem : a \notin DOMAIN bytes => mem'[a] = mem[a]
  <2>1. stray = FALSE
    BY DEF LoadInv, MemoryInv
  <2> QED BY <1>1, <1>9, <2>1, StoredIs
<1>11. MemoryInv'
  BY <1>1, <1>10 DEF LoadInv, MemoryInv, PageBytes
<1>12. ASSUME NEW k \in 0 .. done + m - 1
       PROVE  A + k \in DOMAIN mem' /\ mem'[A + k] = FileByte(f, k)
  <2>1. A + k \in DOMAIN mem
    BY <1>7
  <2>2. CASE A + k \in DOMAIN bytes
    <3>1. (A + k) - A = k
      BY <1>3, <1>5
    <3>2. bytes[A + k] = FileByte(f, (A + k) - A)
      BY <1>8, <2>2
    <3> QED BY <1>10, <2>1, <2>2, <3>1, <3>2
  <2>3. CASE A + k \notin DOMAIN bytes
    <3>1. k \in 0 .. done - 1
      BY <1>3, <1>5, <1>6, <2>3
    <3>2. mem[A + k] = FileByte(f, k)
      BY <1>4, <3>1 DEF InPlace
    <3> QED BY <1>10, <2>1, <2>3, <3>2
  <2> QED BY <2>2, <2>3
<1>13. /\ copy'.sector = copy.sector + 1 /\ copy'.dest = copy.dest + m
       /\ copy'.remaining = copy.remaining - m
       /\ z - copy'.remaining = done + m
  <2>1. z - (copy.remaining - m) = done + m
    BY <1>2, <1>4, <1>5
  <2> QED BY <1>1, <2>1
<1>14. InPlace(job.file.size - copy.remaining)'
  <2> DEFINE d == done + m
  <2>1. job'.file.size - copy'.remaining = d
    BY <1>1, <1>13
  <2>2. ASSUME NEW k \in 0 .. d - 1
        PROVE  A + k \in DOMAIN mem' /\ mem'[A + k] = FileByte(f, k)
    <3>1. k \in 0 .. done + m - 1
      BY <1>2, <1>4, <1>5
    <3> HIDE DEF done, m, A, f, bytes
    <3> QED BY <1>12, <3>1, Zenon
  <2>3. LoadAddress' = A /\ \A k : FileByte(job.file, k)' = FileByte(f, k)
    BY <1>1, <1>3 DEF FileByte, Byte
  <2> HIDE DEF d, A
  <2> QED BY <1>1, <2>1, <2>2, <2>3 DEF InPlace, FileByte, Byte
<1>15. CopyInv'
  <2>1. copy.remaining - m \in 0 .. z /\ copy.sector + 1 \in Int
        /\ copy.dest + m = A + (done + m)
    BY <1>2, <1>3, <1>4, <1>5
  <2>2. ASSUME copy.remaining - m # 0
        PROVE  S * ((copy.sector + 1) - f.start) = done + m
    <3> DEFINE x == copy.sector - f.start
    <3>1. m = S
      BY <1>4, <1>5, <2>2
    <3>2. x \in Int /\ (copy.sector + 1) - f.start = x + 1
      BY <1>2, <1>4
    <3> HIDE DEF x, S, done
    <3>3. S * (x + 1) = S * x + S
      BY <1>2, <3>2
    <3> QED BY <1>4, <3>1, <3>2, <3>3 DEF x
  <2>3. PagesFor(LoadAddress, job.file.size)' = PagesFor(A, z)
    BY <1>1, <1>3 DEF PagesFor, Page
  <2>4. /\ PagesFor(A, z) \subseteq own' /\ copy'.remaining \in 0 .. z
        /\ copy'.sector \in Int /\ copy'.dest = A + (z - copy'.remaining)
        /\ copy'.remaining # 0 =>
             S * (copy'.sector - f.start) = z - copy'.remaining
    <3> DEFINE l == copy'.remaining
    <3>1. PagesFor(A, z) \subseteq own'
      BY <1>1, <1>4
    <3>2. l \in 0 .. z /\ copy'.sector \in Int
      BY <1>13, <2>1
    <3>3. copy'.dest = A + (z - l)
      BY <1>13, <2>1
    <3>4. l # 0 => S * (copy'.sector - f.start) = z - l
      <4> HIDE DEF done, m, S, f
      <4>1. l # 0 => S * ((copy.sector + 1) - f.start) = done + m
        BY <1>13, <2>2
      <4> HIDE DEF l
      <4> QED BY <1>13, <4>1, Zenon DEF l
    <3> QED BY <3>1, <3>2, <3>3, <3>4
  <2> QED BY <1>1, <1>3, <1>14, <2>3, <2>4 DEF CopyInv
<1> QED BY <1>1, <1>11, <1>15 DEF PlaceInv, FileInv, SegmentsInv, StackInv

LEMMA EndLoadPlace ==
  ASSUME LoadInv, EndLoad PROVE PlaceInv'
<1>1. /\ pc = "copy" /\ copy.remaining = 0 /\ seg' = 1 /\ job' = job
      /\ UNCHANGED <<mem, flags, own, stray>>
  BY DEF EndLoad
<1>2. pc' # "copy" /\ pc' # "user" /\ (job.how = "elf" => pc' # "stack")
  BY DEF EndLoad, LoadInv, JobInv
<1>3. MemoryInv'
  BY <1>1 DEF LoadInv, MemoryInv, PageBytes
<1>4. InPlace(job.file.size)'
  <2>1. InPlace(job.file.size - 0) /\ job.file.size \in Nat
    BY <1>1, JobFile DEF LoadInv, CopyInv
  <2>2. InPlace(job.file.size)
    BY <2>1
  <2> QED BY <1>1, <2>2 DEF InPlace, LoadAddress, FileByte, Byte
<1>5. \A n \in LoadSegments(job.file) : ~(n < 1)
  BY <1>1, JobFile DEF LoadInv, LoadSegments
<1>6. SegmentsInv'
  <2>1. LoadSegments(job.file)' = LoadSegments(job.file)
    BY <1>1 DEF LoadSegments
  <2> QED BY <1>1, <1>2, <1>5, <2>1 DEF SegmentsInv
<1> QED BY <1>1, <1>2, <1>3, <1>4, <1>6
        DEF PlaceInv, CopyInv, FileInv, StackInv

\* What a linker makes, for the segments of the program being loaded.
LEMMA SegmentIs ==
  ASSUME Known, JobInv, pc \in {"elf", "stack", "user"}, job.how = "elf",
         NEW n \in LoadSegments(job.file)
  PROVE  LET ph == job.file.phdrs[n]
         IN  /\ n \in Nat
             /\ ph.vaddr \in Nat /\ ph.offset \in Nat /\ ph.filesz \in Nat
             /\ ph.memsz \in Nat
             /\ ph.filesz <= ph.memsz /\ ph.offset + ph.filesz <= job.file.size
             /\ SegmentPages(ph) \in SUBSET Int
             /\ SegmentPages(ph) \cap PagesFor(LoadAddress, job.file.size) = {}
             /\ SegmentPages(ph) \cap StackPages(job.args) = {}
<1> DEFINE ph == job.file.phdrs[n]
<1>1. pc # "shell" /\ job.file.magic
      /\ job.args \in ArgLists \cup {AutorunArgs}
  BY DEF JobInv
<1>2. job.file \in Files
  BY <1>1, JobFile
<1>3. /\ {ph.vaddr, ph.offset, ph.filesz, ph.memsz} \subseteq Nat
      /\ ph.filesz <= ph.memsz /\ ph.offset + ph.filesz <= job.file.size
      /\ SegmentPages(ph) \cap PagesFor(ELF_TEMP_LOAD, job.file.size) = {}
      /\ \A args \in ArgLists \cup {AutorunArgs} :
           SegmentPages(ph) \cap StackPages(args) = {}
  BY <1>1, <1>2, ProgramsAssumption
<1>4. LoadAddress = ELF_TEMP_LOAD
  BY DEF LoadAddress
<1>5. SegmentPages(ph) \in SUBSET Int
  BY <1>3, SegmentPagesInt
<1>6. n \in Nat
  BY DEF LoadSegments
<1> HIDE DEF ph
<1> QED BY <1>1, <1>3, <1>4, <1>5, <1>6 DEF ph

\* What is mapped elsewhere leaves a segment as it is.
LEMMA SegmentKept ==
  ASSUME Known, JobInv, pc \in {"elf", "stack", "user"}, job.how = "elf",
         NEW n \in LoadSegments(job.file), Intact(n), job' = job, NEW pages,
         pages \cap SegmentPages(job.file.phdrs[n]) = {},
         \A p \in DOMAIN flags \ pages :
           p \in DOMAIN flags' /\ flags'[p] = flags[p],
         \A a \in DOMAIN mem : Page(a) \notin pages =>
           a \in DOMAIN mem' /\ mem'[a] = mem[a]
  PROVE  Intact(n)'
<1> DEFINE ph == job.file.phdrs[n]
<1>1. ph.vaddr \in Nat /\ ph.memsz \in Nat
  BY SegmentIs
<1>2. /\ \A p \in SegmentPages(ph) :
           p \in DOMAIN flags /\ flags[p] = [user |-> TRUE, rw |-> ph.write]
      /\ \A k \in 0 .. ph.memsz - 1 :
           /\ ph.vaddr + k \in DOMAIN mem
           /\ mem[ph.vaddr + k] = IF k < ph.filesz
                                    THEN FileByte(job.file, ph.offset + k)
                                    ELSE Zero
  BY DEF Intact
<1>3. ASSUME NEW p \in SegmentPages(ph)
      PROVE  /\ p \in DOMAIN flags'
             /\ flags'[p] = [user |-> TRUE, rw |-> ph.write]
  BY <1>2
<1>4. ASSUME NEW k \in 0 .. ph.memsz - 1
      PROVE  /\ ph.vaddr + k \in DOMAIN mem'
             /\ mem'[ph.vaddr + k] = IF k < ph.filesz
                                       THEN FileByte(job.file, ph.offset + k)
                                       ELSE Zero
  <2>1. ph.vaddr + k \in ph.vaddr .. ph.vaddr + ph.memsz - 1
    BY <1>1
  <2>2. Page(ph.vaddr + k) \notin pages
    BY <1>1, <2>1, SegmentPagesHold
  <2> QED BY <1>2, <2>2
<1>5. SegmentPages(ph)' = SegmentPages(ph)
  BY DEF SegmentPages, Page
<1> HIDE DEF ph
<1>6. ph' = ph
  BY DEF ph
<1> QED BY <1>3, <1>4, <1>5, <1>6 DEF Intact, ph, FileByte, Byte, Zero,
        SegmentPages, Page

\* A segment is put on pages of its own, away from the file's; segments that
\* were there stay, if no two share a page.
LEMMA LoadSegmentPlace ==
  ASSUME LoadInv, LoadSegment PROVE PlaceInv'
<1> DEFINE f == job.file
           ph == f.phdrs[seg]
           pages == SegmentPages(ph)
           bytes == SegmentBytes(ph)
<1>1. /\ pc = "elf" /\ pc' = pc /\ job' = job /\ seg' = seg + 1
      /\ seg <= Len(f.phdrs)
      /\ IF ph.load THEN /\ Map(pages, TRUE, ph.write)
                         /\ Store(Fresh(mem, pages), bytes)
         ELSE UNCHANGED <<mem, flags, own, stray>>
  BY DEF LoadSegment, Segment
<1>2. /\ Known /\ JobInv /\ MemoryInv /\ job.how = "elf"
      /\ seg \in 1 .. Len(f.phdrs) + 1 /\ InPlace(f.size)
      /\ PagesApart(f) => \A n \in LoadSegments(f) : n < seg => Intact(n)
  BY <1>1 DEF LoadInv, JobInv, FileInv, SegmentsInv
<1>3. f.size \in Nat /\ Len(f.phdrs) \in Nat
  BY <1>1, <1>2, JobFile
<1>4. seg \in 1 .. Len(f.phdrs)
  BY <1>1, <1>2, <1>3
<1>5. CASE ~ph.load
  <2>1. UNCHANGED <<mem, flags, own, stray>>
    BY <1>1, <1>5
  <2>2. MemoryInv' /\ InPlace(f.size)'
    BY <1>1, <1>2, <2>1 DEF MemoryInv, PageBytes, InPlace, LoadAddress,
       FileByte, Byte
  <2>3. ASSUME PagesApart(f), NEW n \in LoadSegments(f), n < seg + 1
        PROVE  Intact(n)'
    <3>1. n # seg /\ n \in Nat
      BY <1>5 DEF LoadSegments
    <3>2. Intact(n)
      BY <1>2, <1>4, <2>3, <3>1
    <3> QED BY <1>1, <2>1, <3>2 DEF Intact, SegmentPages, Page, FileByte, Byte,
            Zero
  <2>4. SegmentsInv'
    BY <1>1, <2>3 DEF SegmentsInv, PagesApart, LoadSegments, SegmentPages, Page
  <2> QED BY <1>1, <2>2, <2>4 DEF PlaceInv, CopyInv, FileInv, StackInv
<1>6. CASE ph.load
  <2> DEFINE v == ph.vaddr
             o == ph.offset
             fs == ph.filesz
             ms == ph.memsz
             w == ph.write
             z == f.size
             Want(k) == IF k < fs THEN FileByte(f, o + k) ELSE Zero
  <2>1. seg \in LoadSegments(f)
    BY <1>4, <1>6 DEF LoadSegments
  <2>2. /\ v \in Nat /\ o \in Nat /\ fs \in Nat /\ ms \in Nat /\ z \in Nat
        /\ fs <= ms /\ o + fs <= z
        /\ pages \in SUBSET Int
        /\ pages \cap PagesFor(LoadAddress, z) = {}
    BY <1>1, <1>2, <1>3, <2>1, SegmentIs
  <2>3. Map(pages, TRUE, w) /\ Store(Fresh(mem, pages), bytes)
    BY <1>1, <1>6
  <2>4. LoadAddress = ELF_TEMP_LOAD /\ ELF_TEMP_LOAD \in Nat
    BY <1>2, LayoutAssumption DEF LoadAddress
  <2>5. bytes = [a \in v .. v + fs - 1 |-> mem[ELF_TEMP_LOAD + o + a - v]]
                  ++ Zeros(v + fs, v + ms - 1)
    BY DEF SegmentBytes
  <2>6. \A a \in v .. v + ms - 1 : Page(a) \in pages
    BY <2>2, SegmentPagesHold
  <2>7. \A k \in 0 .. z - 1 : mem[ELF_TEMP_LOAD + k] = FileByte(f, k)
    BY <1>2, <2>4 DEF InPlace
  <2> HIDE DEF bytes, pages, v, o, fs, ms, w, z
  <2>8. /\ DOMAIN bytes = v .. v + ms - 1
        /\ \A k \in 0 .. ms - 1 : bytes[v + k] = Want(k)
    <3> DEFINE c == [a \in v .. v + fs - 1 |-> mem[ELF_TEMP_LOAD + o + a - v]]
               y == Zeros(v + fs, v + ms - 1)
    <3>1. bytes = c ++ y
      BY <2>5
    <3>2. DOMAIN c = v .. v + fs - 1 /\ DOMAIN y = v + fs .. v + ms - 1
          /\ \A a \in DOMAIN y : y[a] = Zero
      BY DEF Zeros
    <3>3. ASSUME NEW k \in 0 .. fs - 1
          PROVE  v + k \in DOMAIN c /\ c[v + k] = FileByte(f, o + k)
      <4>1. v + k \in v .. v + fs - 1
        BY <2>2
      <4>2. ELF_TEMP_LOAD + o + (v + k) - v = ELF_TEMP_LOAD + (o + k)
        BY <2>2, <2>4
      <4>3. o + k \in 0 .. z - 1
        BY <2>2
      <4>4. mem[ELF_TEMP_LOAD + (o + k)] = FileByte(f, o + k)
        BY <2>7, <4>3
      <4>5. c[v + k] = mem[ELF_TEMP_LOAD + o + (v + k) - v]
        BY <4>1
      <4> HIDE DEF c, f
      <4> QED BY <3>2, <4>1, <4>2, <4>4, <4>5
    <3> HIDE DEF c, y
    <3>4. DOMAIN bytes = DOMAIN c \cup DOMAIN y
      BY <3>1, Overlay
    <3>5. ASSUME NEW k \in 0 .. ms - 1 PROVE bytes[v + k] = Want(k)
      <4>1. CASE k < fs
        <5>1. k \in 0 .. fs - 1
          BY <2>2, <4>1
        <5>2. v + k \in DOMAIN c /\ c[v + k] = FileByte(f, o + k)
          BY <3>3, <5>1
        <5>3. bytes[v + k] = c[v + k]
          BY <3>1, <5>2 DEF ++
        <5> QED BY <4>1, <5>2, <5>3
      <4>2. CASE ~(k < fs)
        <5>1. v + k \in DOMAIN y /\ v + k \notin DOMAIN c
          BY <2>2, <3>2, <4>2
        <5>2. bytes[v + k] = y[v + k]
          BY <3>1, <5>1 DEF ++
        <5> QED BY <3>2, <4>2, <5>1, <5>2
      <4> QED BY <4>1, <4>2
    <3>6. DOMAIN bytes = v .. v + ms - 1
      BY <2>2, <3>2, <3>4
    <3> QED BY <3>5, <3>6
  <2>9. /\ MemoryInv'
        /\ \A a \in DOMAIN mem : Page(a) \notin pages =>
             a \in DOMAIN mem' /\ mem'[a] = mem[a]
        /\ \A a \in DOMAIN bytes : a \in DOMAIN mem' /\ mem'[a] = bytes[a]
    <3>1. ASSUME NEW a \in DOMAIN bytes PROVE a \in Int /\ Page(a) \in pages
      BY <2>2, <2>6, <2>8
    <3> QED BY <1>2, <2>2, <2>3, <3>1, MapStore
  <2>10. /\ DOMAIN flags' = pages \cup DOMAIN flags
         /\ \A p \in pages : flags'[p] = [user |-> TRUE, rw |-> w]
         /\ \A p \in DOMAIN flags \ pages : flags'[p] = flags[p]
    <3>1. MemoryInv /\ pages \in SUBSET Int /\ Map(pages, TRUE, w)
      BY <1>2, <2>2, <2>3
    <3>2. DOMAIN flags' = pages \cup DOMAIN flags
      BY <3>1, Mapped
    <3>3. \A p \in pages : flags'[p] = [user |-> TRUE, rw |-> w]
      BY <3>1 DEF Map, ++
    <3>4. \A p \in DOMAIN flags \ pages : flags'[p] = flags[p]
      BY <3>1, Mapped
    <3> QED BY <3>2, <3>3, <3>4
  <2>11. InPlace(f.size)'
    <3>1. InPlace(f.size) /\ f.size \in Nat /\ job' = job
          /\ pages \cap PagesFor(LoadAddress, f.size) = {}
      BY <1>1, <1>2, <1>3, <2>2 DEF z
    <3> QED BY <2>9, <3>1, FileKept
  <2>12. ASSUME NEW n, n = seg PROVE Intact(n)'
    <3>1. ASSUME NEW k \in 0 .. ms - 1
          PROVE  v + k \in DOMAIN mem' /\ mem'[v + k] = Want(k)
      <4>1. v + k \in DOMAIN bytes
        BY <2>2, <2>8
      <4> HIDE DEF Want
      <4> QED BY <2>8, <2>9, <4>1
    <3>2. ASSUME NEW p \in pages
          PROVE  p \in DOMAIN flags' /\ flags'[p] = [user |-> TRUE, rw |-> w]
      BY <2>10
    <3>3. job'.file.phdrs[n] = ph /\ SegmentPages(job.file.phdrs[n])' = pages
      BY <1>1, <2>12 DEF SegmentPages, Page, pages
    <3>4. /\ job'.file.phdrs[n].write = w /\ job'.file.phdrs[n].vaddr = v
          /\ job'.file.phdrs[n].memsz = ms
      BY <3>3 DEF w, v, ms
    <3>5. \A k : (IF k < job.file.phdrs[n].filesz
                    THEN FileByte(job.file, job.file.phdrs[n].offset + k)
                    ELSE Zero)' = Want(k)
      BY <1>1, <3>3 DEF FileByte, Byte, Zero, fs, o
    <3> HIDE DEF Want, f, ph
    <3> QED BY <3>1, <3>2, <3>3, <3>4, <3>5 DEF Intact
  <2>13. ASSUME PagesApart(f), NEW n \in LoadSegments(f), n < seg + 1
         PROVE  Intact(n)'
    <3>1. CASE n = seg
      BY <2>12, <3>1
    <3>2. CASE n # seg
      <4>1. n \in Nat /\ n < seg
        BY <1>4, <2>13, <3>2 DEF LoadSegments
      <4>2. Intact(n)
        BY <1>2, <2>13, <4>1
      <4>3. pages \cap SegmentPages(job.file.phdrs[n]) = {}
        BY <2>1, <2>13, <3>2 DEF PagesApart, pages
      <4>4. \A p \in DOMAIN flags \ pages :
              p \in DOMAIN flags' /\ flags'[p] = flags[p]
        BY <2>10
      <4> QED BY <1>1, <1>2, <2>9, <4>2, <4>3, <4>4, SegmentKept
    <3> QED BY <3>1, <3>2
  <2>14. SegmentsInv'
    BY <1>1, <2>13
       DEF SegmentsInv, PagesApart, LoadSegments, SegmentPages, Page
  <2> QED BY <1>1, <2>9, <2>11, <2>14 DEF PlaceInv, CopyInv, FileInv, StackInv
<1> QED BY <1>5, <1>6

\* The stacks lie below what their programs are loaded at.
LEMMA StacksBelow ==
  ASSUME NEW size \in Nat
  PROVE  /\ \A args \in ArgLists \cup {AutorunArgs} :
              StackPages(args) \cap PagesFor(ELF_TEMP_LOAD, size) = {}
         /\ \A p \in PagesFor(USER_BIN_BASE, size) : p > Page(BIN_STACK)
<1> DEFINE P == PAGE_SIZE
<1>1. /\ BIN_STACK \in Int /\ USER_BIN_BASE \in Int
      /\ ELF_STACK_TOP \in Int /\ ELF_TEMP_LOAD \in Int
      /\ BIN_STACK % P = 0 /\ USER_BIN_BASE % P = 0
      /\ BIN_STACK < USER_BIN_BASE /\ ELF_STACK_TOP <= ELF_TEMP_LOAD
      /\ P \in Nat \ {0}
  <2>1. \A b \in {BIN_STACK, USER_BIN_BASE, ELF_STACK_TOP, ELF_TEMP_LOAD} :
          b \in Nat /\ b % P = 0
    BY LayoutAssumption, Zenon
  <2>2. BIN_STACK < USER_BIN_BASE /\ ELF_STACK_TOP <= ELF_TEMP_LOAD
    BY LayoutAssumption
  <2>3. P \in Nat \ {0}
    BY PageSizes
  <2> HIDE DEF P
  <2> QED BY <2>1, <2>2, <2>3
<1>2. Page(ELF_STACK_TOP) <= Page(ELF_TEMP_LOAD)
  BY <1>1, PageMonotone
<1>3. Page(BIN_STACK) < Page(USER_BIN_BASE)
  <2> DEFINE x == Page(BIN_STACK)
             y == Page(USER_BIN_BASE)
  <2>1. x \in Int /\ y \in Int /\ BIN_STACK = P * x /\ USER_BIN_BASE = P * y
    BY <1>1, PageIs, PageStart
  <2> HIDE DEF x, y, P
  <2>2. y <= x => P * y <= P * x
    BY <1>1, <2>1
  <2>3. P * x \in Int /\ P * y \in Int
    BY <1>1, <2>1
  <2>4. x < y
    BY <1>1, <2>1, <2>2, <2>3
  <2> QED BY <2>4 DEF x, y
<1>4. /\ Page(ELF_TEMP_LOAD) \in Int /\ Page(USER_BIN_BASE) \in Int
      /\ Page(BIN_STACK) \in Int /\ Page(ELF_STACK_TOP) \in Int
  BY <1>1, PageIs
<1>5. ASSUME NEW b \in Int, NEW p \in PagesFor(b, size)
      PROVE  p \in Int /\ Page(b) <= p
  BY <1>5, PageIs DEF PagesFor
<1>6. ASSUME NEW args \in ArgLists \cup {AutorunArgs},
             NEW p \in StackPages(args),
             p \in PagesFor(ELF_TEMP_LOAD, size)
      PROVE  FALSE
  <2>1. p \in Int /\ p < Page(ELF_STACK_TOP)
    BY StackPagesAre
  <2>2. Page(ELF_TEMP_LOAD) <= p
    BY <1>1, <1>5, <1>6
  <2> QED BY <1>2, <1>4, <2>1, <2>2
<1>7. ASSUME NEW p \in PagesFor(USER_BIN_BASE, size) PROVE p > Page(BIN_STACK)
  <2>1. p \in Int /\ Page(USER_BIN_BASE) <= p
    BY <1>1, <1>5
  <2> QED BY <1>3, <1>4, <2>1
<1> QED BY <1>6, <1>7

LEMMA LoadedPlace ==
  ASSUME LoadInv, Loaded PROVE PlaceInv'
<1>1. /\ pc = "elf" /\ pc' \in {"stack", "shell"} /\ seg > Len(job.file.phdrs)
      /\ UNCHANGED <<mem, flags, job, own, stray>>
  BY DEF Loaded
<1>2. Len(job.file.phdrs) \in Nat /\ seg \in 1 .. Len(job.file.phdrs) + 1
      /\ MemoryInv /\ InPlace(job.file.size)
  BY <1>1, JobFile DEF LoadInv, JobInv, FileInv
<1>3. MemoryInv' /\ InPlace(job.file.size)'
  BY <1>1, <1>2 DEF MemoryInv, PageBytes, InPlace, LoadAddress, FileByte, Byte
<1>4. ASSUME job.how = "elf", PagesApart(job.file),
             NEW n \in LoadSegments(job.file)
      PROVE  Intact(n)'
  <2>1. n < seg
    BY <1>1, <1>2 DEF LoadSegments
  <2>2. Intact(n)
    BY <1>1, <1>4, <2>1 DEF LoadInv, SegmentsInv
  <2> QED BY <1>1, <2>2 DEF Intact, SegmentPages, Page, FileByte, Byte, Zero
<1>5. SegmentsInv'
  BY <1>1, <1>4 DEF SegmentsInv, PagesApart, LoadSegments, SegmentPages, Page
<1> QED BY <1>1, <1>3, <1>5 DEF PlaceInv, CopyInv, FileInv, StackInv

\* The stack is mapped below the segments and the file, and holds what
\* exec_elf stores.
LEMMA StartElfPlace ==
  ASSUME LoadInv, StartElf PROVE PlaceInv'
<1> DEFINE args == job.args
           pages == StackPages(args)
           bytes == StackBytes(args)
<1>1. /\ pc = "stack" /\ pc' = "user" /\ job.how = "elf" /\ job' = job
      /\ Map(pages, TRUE, TRUE) /\ Store(Fresh(mem, pages), bytes)
      /\ esp' = StackPointer(args)
  BY DEF StartElf
<1>2. /\ Known /\ JobInv /\ MemoryInv /\ InPlace(job.file.size)
      /\ args \in ArgLists \cup {AutorunArgs}
      /\ PagesApart(job.file) => \A n \in LoadSegments(job.file) : Intact(n)
  BY <1>1 DEF LoadInv, JobInv, FileInv, SegmentsInv
<1>3. job.file.size \in Nat
  BY <1>1, <1>2, JobFile
<1>4. /\ pages \in SUBSET Int
      /\ \A a \in ELF_STACK_TOP - TotalMappedStack(args) .. ELF_STACK_TOP - 1 :
           Page(a) \in pages
      /\ pages \cap PagesFor(LoadAddress, job.file.size) = {}
  <2>1. LoadAddress = ELF_TEMP_LOAD
    BY <1>1 DEF LoadAddress
  <2> HIDE DEF args
  <2> QED BY <1>2, <1>3, <2>1, StackPagesAre, StacksBelow
<1>5. DOMAIN bytes
        = ELF_STACK_TOP - TotalMappedStack(args) .. ELF_STACK_TOP - 1
  <2> HIDE DEF args
  <2> QED BY <1>2, StackBytesAre
<1> HIDE DEF pages, bytes
<1>6. ASSUME NEW a \in DOMAIN bytes PROVE a \in Int /\ Page(a) \in pages
  <2>1. a \in ELF_STACK_TOP - TotalMappedStack(args) .. ELF_STACK_TOP - 1
    BY <1>5
  <2>2. TotalMappedStack(args) \in Nat /\ ELF_STACK_TOP \in Nat
    <3> HIDE DEF args
    <3> QED BY <1>2, StackLayout, LayoutAssumption
  <2> HIDE DEF args
  <2> QED BY <1>4, <2>1, <2>2
<1>7. /\ MemoryInv'
      /\ \A a \in DOMAIN mem : Page(a) \notin pages =>
           a \in DOMAIN mem' /\ mem'[a] = mem[a]
      /\ \A a \in DOMAIN bytes : a \in DOMAIN mem' /\ mem'[a] = bytes[a]
  BY <1>1, <1>2, <1>4, <1>6, MapStore
<1>8. /\ DOMAIN flags' = pages \cup DOMAIN flags
      /\ \A p \in pages : flags'[p] = [user |-> TRUE, rw |-> TRUE]
      /\ \A p \in DOMAIN flags \ pages : flags'[p] = flags[p]
  BY <1>1 DEF Map, ++
<1>9. InPlace(job.file.size)'
  BY <1>1, <1>2, <1>3, <1>4, <1>7, FileKept
<1>10. ASSUME PagesApart(job.file), NEW n \in LoadSegments(job.file)
       PROVE  Intact(n)'
  <2>1. Intact(n)
    BY <1>2, <1>10
  <2>2. pages \cap SegmentPages(job.file.phdrs[n]) = {}
    <3>1. SegmentPages(job.file.phdrs[n]) \cap StackPages(job.args) = {}
      BY <1>1, <1>2, SegmentIs
    <3> QED BY <3>1 DEF pages
  <2>3. \A p \in DOMAIN flags \ pages :
          p \in DOMAIN flags' /\ flags'[p] = flags[p]
    BY <1>8
  <2> QED BY <1>1, <1>2, <1>7, <2>1, <2>2, <2>3, SegmentKept
<1>11. SegmentsInv'
  BY <1>1, <1>10 DEF SegmentsInv, PagesApart, LoadSegments, SegmentPages, Page
<1>12. StackInv'
  <2>1. job'.args = args
    BY <1>1
  <2>2. StackPages(job.args)' = pages /\ StackBytes(job.args)' = bytes
        /\ StackPointer(job.args)' = StackPointer(args)
    BY <2>1 DEF pages, bytes
  <2> QED BY <1>1, <1>7, <1>8, <2>2 DEF StackInv
<1> QED BY <1>1, <1>7, <1>9, <1>11, <1>12 DEF PlaceInv, CopyInv, FileInv

\* The stack of a flat program lies below the program's pages.
LEMMA StartBinPlace ==
  ASSUME LoadInv, StartBin PROVE PlaceInv'
<1> DEFINE pages == Page(BIN_STACK) - (USER_BIN_PAGES - 1) .. Page(BIN_STACK)
<1>1. /\ pc = "stack" /\ pc' = "user" /\ job.how = "bin" /\ job' = job
      /\ Map(pages, TRUE, TRUE) /\ mem' = Fresh(mem, pages) /\ stray' = stray
  BY DEF StartBin
<1>2. /\ Known /\ JobInv /\ MemoryInv /\ InPlace(job.file.size)
  BY <1>1 DEF LoadInv, FileInv
<1>3. job.file.size \in Nat
  BY <1>1, <1>2, JobFile
<1>4. /\ pages \in SUBSET Int
      /\ pages \cap PagesFor(LoadAddress, job.file.size) = {}
  <2>1. LoadAddress = USER_BIN_BASE
    BY <1>1 DEF LoadAddress
  <2>2. Page(BIN_STACK) \in Int /\ USER_BIN_PAGES \in Nat
    BY LayoutAssumption, PageIs, PageSizes
  <2>3. \A p \in PagesFor(USER_BIN_BASE, job.file.size) : p > Page(BIN_STACK)
    BY <1>3, StacksBelow
  <2>4. \A p \in pages : p \in Int /\ ~(p > Page(BIN_STACK))
    BY <2>2
  <2> QED BY <2>1, <2>3, <2>4
<1> HIDE DEF pages
<1>5. /\ MemoryInv'
      /\ \A a \in DOMAIN mem : Page(a) \notin pages =>
           a \in DOMAIN mem' /\ mem'[a] = mem[a]
  BY <1>1, <1>2, <1>4, MapFresh
<1>6. InPlace(job.file.size)'
  BY <1>1, <1>2, <1>3, <1>4, <1>5, FileKept
<1> QED BY <1>1, <1>5, <1>6
        DEF PlaceInv, CopyInv, FileInv, SegmentsInv, StackInv

LEMMA OpenPlace ==
  ASSUME LoadInv, NEW how, NEW n, NEW args, Open(how, n, args)
  PROVE  PlaceInv'
<1>1. /\ pc' = "open" /\ own' = {} /\ stray' = FALSE
      /\ UNCHANGED <<mem, flags>>
  BY DEF Open
<1>2. MemoryInv'
  BY <1>1 DEF LoadInv, MemoryInv, PageBytes
<1> QED BY <1>1, <1>2 DEF PlaceInv, CopyInv, FileInv, SegmentsInv, StackInv

\* What neither maps nor stores, and comes from the prompt or goes back to it.
LEMMA QuietPlace ==
  ASSUME LoadInv, UNCHANGED <<mem, flags, job, copy, seg, esp, own, stray>>,
         \/ pc' = "shell"
         \/ pc = "confirm" /\ pc' = "view"
         \/ pc' = pc
  PROVE  PlaceInv'
<1>1. MemoryInv'
  BY DEF LoadInv, MemoryInv, PageBytes
<1>2. CASE pc' = "shell"
  BY <1>1, <1>2 DEF PlaceInv, CopyInv, FileInv, SegmentsInv, StackInv
<1>3. CASE pc = "confirm" /\ pc' = "view"
  BY <1>1, <1>3 DEF LoadInv, PlaceInv, CopyInv, FileInv, SegmentsInv, StackInv,
     InPlace, LoadAddress, FileByte, Byte
<1>4. CASE pc' = pc
  <2>1. CopyInv'
    BY <1>4 DEF LoadInv, CopyInv, PagesFor, Page, InPlace, LoadAddress,
       FileByte, Byte
  <2>2. FileInv'
    BY <1>4 DEF LoadInv, FileInv, InPlace, LoadAddress, FileByte, Byte
  <2>3. SegmentsInv'
    <3>1. SegmentsInv
      BY DEF LoadInv
    <3>2. ASSUME NEW n, Intact(n) PROVE Intact(n)'
      BY <3>2 DEF Intact, SegmentPages, Page, FileByte, Byte, Zero
    <3> QED BY <1>4, <3>1, <3>2 DEF SegmentsInv, PagesApart, LoadSegments,
            SegmentPages, Page
  <2>4. StackInv'
    BY <1>4 DEF LoadInv, StackInv
  <2> QED BY <1>1, <2>1, <2>2, <2>3, <2>4 DEF PlaceInv
<1> QED BY <1>2, <1>3, <1>4

\* The picture is put when the user has said y, and nothing is drawn, loaded or
\* opened while it is shown.
LEMMA ImageStep ==
  ASSUME LoadInv, [Next]_vars PROVE ImageInv'
<1>1. CASE RenderBmpImage
  <2>1. /\ screen' = [i \in StatusBar |-> "bar"]
                       ++ IF Bmp.bpp \in {24, 32} THEN Picture ELSE <<>>
        /\ UNCHANGED <<job, mem>> /\ pc = "confirm"
    BY <1>1 DEF RenderBmpImage
  <2> SUFFICES ASSUME Bmp.bpp \in {24, 32}, Bmp.width <= fb_width,
                      Height(Bmp) <= fb_height,
                      NEW x \in 0 .. Bmp.width - 1,
                      NEW y \in 0 .. Height(Bmp) - 1,
                      y * fb_width + x \notin StatusBar
               PROVE  screen'[y * fb_width + x] = Color(x, y)'
    BY <2>1 DEF ImageInv, Bmp, Height, TopDown
  <2> DEFINE i == y * fb_width + x
  <2>2. Bmp.width \in Nat /\ Height(Bmp) \in Int
    <3>1. Bmp.width \in Nat /\ Bmp.height \in Int
      BY <2>1, JobFile, BitmapsAssumption DEF Bmp, LoadInv
    <3> QED BY <3>1 DEF Height, TopDown
  <2>3. i \in DOMAIN Picture /\ Picture[i] = Color(x, y)
    BY <2>2, PictureIs
  <2>4. screen' = [j \in StatusBar |-> "bar"] ++ Picture
    BY <2>1
  <2> HIDE DEF i
  <2>5. screen'[i] = Picture[i]
    <3> DEFINE bar == [j \in StatusBar |-> "bar"]
    <3>1. i \in DOMAIN Picture \ DOMAIN bar
      BY <2>3 DEF i
    <3> HIDE DEF bar
    <3>2. (bar ++ Picture)[i] = Picture[i]
      BY <3>1 DEF ++
    <3> QED BY <2>4, <3>2 DEF bar
  <2>6. Color(x, y)' = Color(x, y)
    BY <2>1 DEF Color, ByteAt, LoadAddress, Bmp, TopDown, Height, RowSize,
       BytesPerPixel
  <2> QED BY <2>3, <2>5, <2>6 DEF i
<1>2. CASE EndLoad
  <2>1. job' = job /\ pc = "copy"
    BY <1>2 DEF EndLoad
  <2>2. job.how = "squint" => pc' # "view"
    BY <1>2 DEF EndLoad
  <2> QED BY <2>1, <2>2 DEF ImageInv
<1>3. CASE UNCHANGED vars
  BY <1>3 DEF vars, LoadInv, ImageInv, Color, ByteAt, LoadAddress, Bmp,
     TopDown, Height, RowSize, BytesPerPixel
<1>4. CASE Next /\ ~RenderBmpImage /\ ~EndLoad
  <2>1. pc' # "view"
    BY <1>4 DEF Next, NamedCommand, Autorun, Open, BeginLoad, CopySector,
       LoadSegment, Loaded, StartElf, StartBin, Cancel, Leave
  <2> QED BY <2>1 DEF ImageInv
<1> QED BY <1>1, <1>2, <1>3, <1>4

LEMMA LoadInit ==
  ASSUME Init PROVE LoadInv
<1>1. MemoryInv
  BY DEF Init, MemoryInv
<1> QED BY <1>1, DirectoryInit, JobInit DEF Init, LoadInv, CopyInv, FileInv,
        SegmentsInv, StackInv, ImageInv

\* One step for each action: Known, JobInv and ImageInv, then PlaceInv.
LEMMA LoadStep ==
  ASSUME LoadInv, [Next]_vars PROVE LoadInv'
<1>1. Known' /\ JobInv' /\ ImageInv'
  BY DirectoryStep, JobStep, ImageStep DEF LoadInv
<1> SUFFICES PlaceInv'
  BY <1>1 DEF LoadInv, PlaceInv
<1>2. ASSUME NEW n \in 1 .. Len(glfs_files),
             LET name == glfs_files[n].name
             IN  \/ NamedCommand("bin", name, <<>>)
                 \/ NamedCommand("mess", name, <<>>)
                 \/ NamedCommand("squint", name, <<>>)
                 \/ \E args \in ArgLists : NamedCommand("elf", name, args)
                 \/ Autorun(n)
      PROVE  PlaceInv'
  BY <1>2, OpenPlace DEF NamedCommand, Autorun
<1>3. CASE BeginLoad
  BY <1>3, BeginLoadPlace
<1>4. CASE CopySector
  BY <1>4, CopySectorPlace
<1>5. CASE EndLoad
  BY <1>5, EndLoadPlace
<1>6. CASE LoadSegment
  BY <1>6, LoadSegmentPlace
<1>7. CASE Loaded
  BY <1>7, LoadedPlace
<1>8. CASE StartElf
  BY <1>8, StartElfPlace
<1>9. CASE StartBin
  BY <1>9, StartBinPlace
<1>10. CASE Cancel \/ RenderBmpImage \/ Leave \/ UNCHANGED vars
  BY <1>10, QuietPlace DEF Cancel, RenderBmpImage, Leave, vars
<1> QED BY <1>2, <1>3, <1>4, <1>5, <1>6, <1>7, <1>8, <1>9, <1>10 DEF Next

LEMMA LoadInductive == Spec => []LoadInv
<1>1. Init => LoadInv
  BY LoadInit
<1>2. LoadInv /\ [Next]_vars => LoadInv'
  BY LoadStep
<1> QED BY <1>1, <1>2, PTL DEF Spec

-----------------------------------------------------------------------------
(***************************************************************************)
(* The theorems.                                                           *)
(***************************************************************************)
\* From the invariant to the properties: the bytes of the file,
LEMMA ChosenHeld ==
  ASSUME LoadInv PROVE ChosenFileInPlace
<1> SUFFICES ASSUME pc \in {"elf", "stack", "user", "confirm", "view"},
                    Distinct(disk)
             PROVE  Holds(LoadAddress, FileText(chosen))
  BY DEF ChosenFileInPlace
<1>1. job.file = chosen /\ InPlace(job.file.size) /\ job.file.size \in Nat
  BY JobFile DEF LoadInv, JobInv, FileInv
<1>2. LoadAddress \in Nat
  BY LoadAddressIs
<1> DEFINE z == chosen.size
           A == LoadAddress
           text == FileText(chosen)
<1>3. Len(text) = z /\ \A k \in 1 .. z : text[k] = FileByte(chosen, k - 1)
  BY <1>1 DEF FileText
<1>4. ASSUME NEW k \in 1 .. z
      PROVE  A + k - 1 \in DOMAIN mem /\ mem[A + k - 1] = text[k]
  <2>1. k - 1 \in 0 .. z - 1 /\ A + k - 1 = A + (k - 1)
    BY <1>1, <1>2
  <2> HIDE DEF A, text
  <2>2. A + (k - 1) \in DOMAIN mem
        /\ mem[A + (k - 1)] = FileByte(chosen, k - 1)
    BY <1>1, <2>1 DEF InPlace, A
  <2> QED BY <1>3, <2>1, <2>2
<1> HIDE DEF A, text
<1> QED BY <1>3, <1>4 DEF Holds, A, text

\* those of its segments,
LEMMA SegmentsHeld ==
  ASSUME LoadInv PROVE SegmentsIntact
<1> SUFFICES ASSUME pc = "user", job.how = "elf", PagesApart(job.file),
                    NEW n \in LoadSegments(job.file)
             PROVE  LET ph == job.file.phdrs[n]
                    IN  /\ Holds(ph.vaddr,
                                 [k \in 1 .. ph.memsz |->
                                   IF k <= ph.filesz
                                     THEN FileByte(job.file, ph.offset + k - 1)
                                     ELSE Zero])
                        /\ \A p \in SegmentPages(ph) :
                             flags[p] = [user |-> TRUE, rw |-> ph.write]
  BY DEF SegmentsIntact
<1> DEFINE ph == job.file.phdrs[n]
           v == ph.vaddr
           ms == ph.memsz
           fs == ph.filesz
           o == ph.offset
           bytes == [k \in 1 .. ms |->
                       IF k <= fs THEN FileByte(job.file, o + k - 1) ELSE Zero]
<1>1. Intact(n)
  BY DEF LoadInv, SegmentsInv
<1>2. v \in Nat /\ ms \in Nat /\ fs \in Nat /\ o \in Nat
  BY SegmentIs DEF LoadInv
<1>3. /\ \A p \in SegmentPages(ph) :
           flags[p] = [user |-> TRUE, rw |-> ph.write]
      /\ \A k \in 0 .. ms - 1 :
           /\ v + k \in DOMAIN mem
           /\ mem[v + k] = IF k < fs THEN FileByte(job.file, o + k) ELSE Zero
  BY <1>1 DEF Intact
<1> HIDE DEF v, ms, fs, o
<1>4. Len(bytes) = ms
  BY <1>2
<1>5. ASSUME NEW k \in 1 .. ms
      PROVE  v + k - 1 \in DOMAIN mem /\ mem[v + k - 1] = bytes[k]
  <2>1. k - 1 \in 0 .. ms - 1 /\ v + k - 1 = v + (k - 1)
        /\ o + k - 1 = o + (k - 1) /\ (k <= fs <=> k - 1 < fs)
    BY <1>2
  <2>2. v + (k - 1) \in DOMAIN mem
        /\ mem[v + (k - 1)] =
             IF k - 1 < fs THEN FileByte(job.file, o + (k - 1))
                              ELSE Zero
    BY <1>3, <2>1
  <2>3. bytes[k] = IF k <= fs THEN FileByte(job.file, o + k - 1) ELSE Zero
    OBVIOUS
  <2> HIDE DEF bytes
  <2> QED BY <2>1, <2>2, <2>3
<1>6. Holds(v, bytes)
  <2> HIDE DEF bytes
  <2> QED BY <1>4, <1>5 DEF Holds
<1> QED BY <1>3, <1>6 DEF v, ms, fs, o

\* and what main finds from the stack pointer on.
LEMMA ArgsHeld ==
  ASSUME LoadInv PROVE ArgsIntact
<1> SUFFICES ASSUME pc = "user", job.how = "elf" PROVE ArgsIntact
  BY DEF ArgsIntact
<1> DEFINE args == job.args
           n == Len(args)
           AA == ArgvArray(args)
           SP == StackPointer(args)
           R == PTR_SIZE
           TOP == ELF_STACK_TOP
           low == TOP - TotalMappedStack(args)
           argv == mem[esp + PTR_SIZE][2]
           arg(i) == mem[argv + (i - 1) * PTR_SIZE][2]
<1>1. args \in ArgLists \cup {AutorunArgs}
  BY DEF LoadInv, JobInv
<1>2. /\ esp = SP
      /\ \A p \in StackPages(args) :
           p \in DOMAIN flags /\ flags[p] = [user |-> TRUE, rw |-> TRUE]
      /\ \A a \in low .. TOP - 1 :
           a \in DOMAIN mem /\ mem[a] = StackBytes(args)[a]
  <2>1. DOMAIN StackBytes(args) = low .. TOP - 1
    <3> HIDE DEF args
    <3> QED BY <1>1, StackBytesAre
  <2> QED BY <2>1 DEF LoadInv, StackInv
<1> HIDE DEF args
<1>3. /\ n \in Nat /\ AA \in Nat /\ SP \in Int /\ AA > 0 /\ R \in Nat \ {0}
      /\ low \in Int /\ TOP \in Nat /\ low <= SP - R /\ SP + 2 * R <= AA
      /\ \A i \in 1 .. n : Len(args[i]) \in Nat
  <2>1. /\ n \in Nat /\ AA \in Nat /\ SP \in Int /\ AA > 0
        /\ TotalMappedStack(args) \in Nat /\ low <= SP - R /\ SP + 2 * R <= AA
    BY <1>1, StackLayout
  <2>2. R \in Nat \ {0} /\ TOP \in Nat
    BY PageSizes, LayoutAssumption
  <2>3. \A i \in 1 .. n : Len(args[i]) \in Nat
    BY <1>1, ArgsAre
  <2>4. low \in Int
    BY <2>1, <2>2
  <2> HIDE DEF n, AA, SP, R, TOP, low
  <2> QED BY <2>1, <2>2, <2>3, <2>4
<1>4. \A i \in 1 .. n : ArgString(args, i) \in Nat \ {0}
  <2>1. \A i \in 1 .. n : i \in 1 .. n + 1
    BY <1>3
  <2>2. \A i \in 1 .. n + 1 : ArgString(args, i) \in ArgString(args, 1) .. TOP
    BY <1>1, ArgStrings
  <2>3. ArgString(args, 1) \in Nat /\ AA + (n + 1) * R = ArgString(args, 1)
    BY <1>1, StackLayout
  <2>4. (n + 1) * R \in Nat
    BY <1>3
  <2>5. ArgString(args, 1) > 0
    <3> HIDE DEF AA, R, n
    <3> QED BY <1>3, <2>3, <2>4
  <2> QED BY <1>3, <2>1, <2>2, <2>3, <2>5
<1>5. /\ \A k \in 0 .. R - 1 :
           /\ mem[SP + k] = WordByte("int", n, k)
           /\ mem[SP + R + k] = WordByte("ptr", AA, k)
           /\ mem[AA + n * R + k] = Zero
      /\ \A i \in 1 .. n : \A k \in 0 .. R - 1 :
           mem[AA + (i - 1) * R + k] = WordByte("ptr", ArgString(args, i), k)
      /\ \A i \in 1 .. n : \A k \in 0 .. Len(args[i]) :
           /\ ArgString(args, i) + k \in DOMAIN mem
           /\ mem[ArgString(args, i) + k] =
                IF k < Len(args[i]) THEN Byte("char", args[i][k + 1], 0)
                ELSE Zero
  <2>1. /\ \A k \in 0 .. R - 1 :
             /\ SP + k \in low .. TOP - 1
             /\ StackBytes(args)[SP + k] = WordByte("int", n, k)
             /\ SP + R + k \in low .. TOP - 1
             /\ StackBytes(args)[SP + R + k] = WordByte("ptr", AA, k)
             /\ AA + n * R + k \in low .. TOP - 1
             /\ StackBytes(args)[AA + n * R + k] = Zero
        /\ \A i \in 1 .. n : \A k \in 0 .. R - 1 :
             /\ AA + (i - 1) * R + k \in low .. TOP - 1
             /\ StackBytes(args)[AA + (i - 1) * R + k] =
                  WordByte("ptr", ArgString(args, i), k)
        /\ \A i \in 1 .. n : \A k \in 0 .. Len(args[i]) :
             /\ ArgString(args, i) + k \in low .. TOP - 1
             /\ StackBytes(args)[ArgString(args, i) + k] =
                  IF k < Len(args[i]) THEN Byte("char", args[i][k + 1], 0)
                  ELSE Zero
    BY <1>1, StackBytesAre
  <2> HIDE DEF AA, SP, R, n, low, TOP
  <2> QED BY <1>2, <2>1
<1>6. argv = AA
  <2>1. mem[SP + R + 0] = WordByte("ptr", AA, 0) /\ SP + R + 0 = SP + R
    BY <1>3, <1>5
  <2>2. WordByte("ptr", AA, 0)[2] = AA
    BY <1>3 DEF WordByte, Byte
  <2> HIDE DEF AA, SP
  <2> QED BY <1>2, <2>1, <2>2
<1>7. ASSUME NEW i \in 1 .. n PROVE arg(i) = ArgString(args, i)
  <2>1. mem[AA + (i - 1) * R + 0] = WordByte("ptr", ArgString(args, i), 0)
        /\ AA + (i - 1) * R + 0 = AA + (i - 1) * R
    BY <1>3, <1>5
  <2>2. WordByte("ptr", ArgString(args, i), 0)[2] = ArgString(args, i)
    BY <1>4 DEF WordByte, Byte
  <2> HIDE DEF AA, argv
  <2> QED BY <1>6, <2>1, <2>2
<1>8. ASSUME NEW p \in Page(esp - PTR_SIZE) .. Page(ELF_STACK_TOP - 1)
      PROVE  p \in DOMAIN flags /\ flags[p] = [user |-> TRUE, rw |-> TRUE]
  <2>1. Page(low) <= Page(SP - R) /\ Page(low) \in Int /\ Page(SP - R) \in Int
    BY <1>3, PageMonotone, PageIs
  <2>2. p \in Page(low) .. Page(TOP - 1)
    <3>1. p \in Page(SP - R) .. Page(TOP - 1)
      BY <1>2
    <3> HIDE DEF low, SP, R, TOP
    <3> QED BY <2>1, <3>1
  <2>3. p \in StackPages(args)
    BY <1>1, <2>2, StackPagesAre
  <2> QED BY <1>2, <2>3
<1>9. [k \in 0 .. PTR_SIZE - 1 |-> mem[esp + k]] =
        IF n = 0 THEN [k \in 0 .. PTR_SIZE - 1 |-> Zero]
        ELSE [k \in 0 .. PTR_SIZE - 1 |-> Byte("int", n, k)]
  <2>1. \A k \in 0 .. PTR_SIZE - 1 : mem[esp + k] = WordByte("int", n, k)
    BY <1>2, <1>5
  <2> HIDE DEF n
  <2> QED BY <2>1 DEF WordByte
<1>10. \A k \in 0 .. PTR_SIZE - 1 :
         mem[esp + PTR_SIZE + k] = Byte("ptr", argv, k)
  <2>1. \A k \in 0 .. PTR_SIZE - 1 :
          mem[esp + PTR_SIZE + k] = WordByte("ptr", AA, k)
    BY <1>2, <1>5
  <2> HIDE DEF argv, AA
  <2> QED BY <1>3, <1>6, <2>1 DEF WordByte
<1>11. \A k \in 0 .. PTR_SIZE - 1 : mem[argv + n * PTR_SIZE + k] = Zero
  <2> HIDE DEF argv, AA, n
  <2> QED BY <1>5, <1>6
<1>12. ASSUME NEW i \in 1 .. n
       PROVE  \A k \in 0 .. PTR_SIZE - 1 :
                mem[argv + (i - 1) * PTR_SIZE + k] = Byte("ptr", arg(i), k)
  <2>1. \A k \in 0 .. PTR_SIZE - 1 :
          mem[AA + (i - 1) * R + k] = WordByte("ptr", ArgString(args, i), k)
    BY <1>5
  <2>2. ArgString(args, i) # 0
    BY <1>4
  <2>3. arg(i) = ArgString(args, i)
    BY <1>7
  <2> HIDE DEF argv, AA, n, arg
  <2> QED BY <1>6, <2>1, <2>2, <2>3 DEF WordByte
<1>13. ASSUME NEW i \in 1 .. n
       PROVE  Holds(arg(i), [k \in 1 .. Len(args[i]) |->
                               Byte("char", args[i][k], 0)] \o <<Zero>>)
  <2> DEFINE L == Len(args[i])
             S == ArgString(args, i)
             text == [k \in 1 .. L |-> Byte("char", args[i][k], 0)]
             bytes == text \o <<Zero>>
  <2>1. L \in Nat /\ S \in Nat
    BY <1>3, <1>4
  <2>2. /\ Len(bytes) = L + 1
        /\ \A k \in 1 .. L : bytes[k] = Byte("char", args[i][k], 0)
        /\ bytes[L + 1] = Zero
    <3> HIDE DEF L
    <3> DEFINE T == {text[k] : k \in 1 .. L} \cup {Zero}
    <3>1. text \in Seq(T) /\ Len(text) = L /\ <<Zero>> \in Seq(T)
      BY <2>1
    <3>2. \A k \in 1 .. L : text[k] = Byte("char", args[i][k], 0)
      OBVIOUS
    <3> HIDE DEF text, T
    <3>3. /\ Len(bytes) = Len(text) + Len(<<Zero>>)
          /\ \A k \in 1 .. Len(text) + Len(<<Zero>>) :
               bytes[k] = IF k <= Len(text) THEN text[k]
                          ELSE <<Zero>>[k - Len(text)]
      BY <3>1, ConcatProperties
    <3>4. Len(<<Zero>>) = 1 /\ <<Zero>>[1] = Zero
      OBVIOUS
    <3>5. L + 1 \in 1 .. L + 1 /\ ~(L + 1 <= L) /\ (L + 1) - L = 1
          /\ \A k \in 1 .. L : k \in 1 .. L + 1 /\ k <= L
      BY <2>1
    <3> HIDE DEF bytes
    <3> QED BY <3>1, <3>2, <3>3, <3>4, <3>5
  <2>3. ASSUME NEW k \in 1 .. L + 1
        PROVE  S + k - 1 \in DOMAIN mem /\ mem[S + k - 1] = bytes[k]
    <3>1. k - 1 \in 0 .. L /\ S + k - 1 = S + (k - 1) /\ (k - 1) + 1 = k
      BY <2>1
    <3>2. S + (k - 1) \in DOMAIN mem
          /\ mem[S + (k - 1)] = IF k - 1 < L
                                  THEN Byte("char", args[i][(k - 1) + 1], 0)
                                  ELSE Zero
      BY <1>5, <3>1
    <3> HIDE DEF L, S, bytes
    <3>3. k - 1 < L <=> k \in 1 .. L
      BY <2>1
    <3>4. k \notin 1 .. L => k = L + 1
      BY <2>1
    <3>5. CASE k \in 1 .. L
      BY <2>2, <3>1, <3>2, <3>3, <3>5
    <3>6. CASE k = L + 1
      <4>1. ~(k - 1 < L)
        BY <2>1, <3>6
      <4>2. bytes[k] = Zero
        BY <2>2, <3>6
      <4> QED BY <3>1, <3>2, <4>1, <4>2
    <3> QED BY <3>4, <3>5, <3>6
  <2>4. arg(i) = S
    BY <1>7
  <2> HIDE DEF L, S, bytes, arg
  <2>5. Holds(S, bytes)
    BY <2>2, <2>3 DEF Holds
  <2> QED BY <2>4, <2>5 DEF bytes, L
<1> HIDE DEF argv, arg, n
<1> QED BY <1>8, <1>9, <1>10, <1>11, <1>12, <1>13
        DEF ArgsIntact, args, n, argv, arg

\* and the pixels of the picture.
LEMMA ImageHeld ==
  ASSUME LoadInv PROVE ImageShown
<1> DEFINE stored == Stored(Bmp)
<1> SUFFICES ASSUME pc = "view", job.how = "squint", Bmp.bpp \in {24, 32},
                    Bmp.width <= fb_width, Height(Bmp) <= fb_height,
                    NEW n \in DOMAIN stored
             PROVE  LET x == stored[n][1]
                        y == stored[n][2]
                        k == stored[n][3]
                    IN  stored[n] = <<>> \/ k = 4 \/
                        y * fb_width + x \in StatusBar \/
                        screen[y * fb_width + x][k] =
                          FileByte(chosen, Bmp.offset + n - 1)
  BY DEF ImageShown
<1>1. /\ job.file = chosen /\ InPlace(job.file.size)
      /\ job.file.size \in Nat /\ job.file \in Files
  BY JobFile DEF LoadInv, JobInv, FileInv
<1>2. /\ Bmp.offset \in Nat /\ Bmp.width \in Nat /\ Bmp.height \in Int
      /\ Bmp.offset + Height(Bmp) * RowSize(Bmp) <= job.file.size
  BY <1>1, BitmapsAssumption DEF Bmp
<1>3. CASE stored[n] = <<>>
  BY <1>3
<1>4. CASE stored[n] # <<>>
  <2>1. PICK x \in 0 .. Bmp.width - 1, y \in 0 .. Height(Bmp) - 1,
             k \in 1 .. BytesPerPixel(Bmp) :
           PixelAt(Bmp, n, x, y, k)
    <3> DEFINE bmp == Bmp
    <3>1. /\ bmp.bpp \in {24, 32} /\ bmp.width \in Nat /\ bmp.height \in Int
          /\ n \in DOMAIN Stored(bmp) /\ Stored(bmp)[n] # <<>>
      BY <1>2, <1>4
    <3> HIDE DEF bmp
    <3>2. OfPixel(bmp, n)
      BY <3>1, BitmapIs
    <3> QED BY <3>2 DEF OfPixel, bmp
  <2> SUFFICES ASSUME k # 4, y * fb_width + x \notin StatusBar
               PROVE  screen[y * fb_width + x][k] =
                        FileByte(chosen, Bmp.offset + n - 1)
    BY <2>1 DEF PixelAt
  <2>2. k \in 1 .. 3 /\ BytesPerPixel(Bmp) \in Nat
    BY <2>1 DEF BytesPerPixel
  <2>3. screen[y * fb_width + x] = Color(x, y)
    BY <2>1 DEF LoadInv, ImageInv
  <2> DEFINE z == Height(Bmp) * RowSize(Bmp)
             r == Row(Bmp, y) * RowSize(Bmp)
             c == x * BytesPerPixel(Bmp)
             px == LoadAddress + Bmp.offset + r + c
             m == Bmp.offset + n - 1
  <2>4. z \in Int /\ r \in Int /\ c \in Int /\ Height(Bmp) \in Int
    <3>1. Height(Bmp) \in Int /\ BytesPerPixel(Bmp) \in Nat
      BY <1>2, <2>2 DEF Height, TopDown
    <3>2. Bmp.width * BytesPerPixel(Bmp) \in Nat
      BY <1>2, <3>1
    <3>3. RowSize(Bmp) \in Int
      BY <3>2 DEF RowSize
    <3>4. Row(Bmp, y) \in Int
      BY <3>1 DEF Row
    <3> QED BY <3>1, <3>3, <3>4
  <2>5. Color(x, y) = <<ByteAt(px), ByteAt(px + 1), ByteAt(px + 2)>>
    BY DEF Color, Row
  <2>6. Bmp.offset + z <= job.file.size /\ n \in 1 .. z
        /\ n - 1 = r + c + (k - 1)
    BY <1>2, <2>1 DEF PixelAt
  <2>7. LoadAddress \in Nat
    BY LoadAddressIs
  <2> HIDE DEF z, r, c
  <2>8. px + (k - 1) = LoadAddress + m /\ px \in Int
        /\ m \in 0 .. job.file.size - 1
    <3>1. px + (k - 1) = LoadAddress + m /\ px \in Int
      BY <1>2, <2>2, <2>4, <2>6, <2>7
    <3>2. m <= job.file.size - 1 /\ m \in Nat
      BY <1>1, <1>2, <2>4, <2>6
    <3> QED BY <1>1, <3>1, <3>2
  <2>9. LoadAddress + m \in DOMAIN mem
        /\ mem[LoadAddress + m] = FileByte(job.file, m)
    BY <1>1, <2>8 DEF InPlace
  <2> HIDE DEF px
  <2>10. Color(x, y)[k] = ByteAt(px + (k - 1))
    BY <2>2, <2>5, <2>8
  <2> QED BY <1>1, <2>3, <2>8, <2>9, <2>10 DEF ByteAt
<1> QED BY <1>3, <1>4

\* The state is well-formed: the files known and being loaded are files of the
\* disk, and memory is just what the mapped pages hold.
THEOREM TypeCorrect == Spec => []TypeOK
<1>1. LoadInv => TypeOK
  <2> SUFFICES ASSUME LoadInv PROVE TypeOK
    OBVIOUS
  <2>1. ToSet(glfs_files) \subseteq ToSet(disk) \cup {NoFile}
    <3>1. glfs_files \in Seq(Files)
      BY KnownFiles DEF LoadInv
    <3>2. DOMAIN glfs_files = 1 .. Len(glfs_files)
      BY <3>1, LenProperties
    <3> QED BY <3>2, KnownOnDisk DEF LoadInv, ToSet
  <2> QED BY <2>1 DEF LoadInv, TypeOK, MemoryInv, JobInv, CopyInv
<1> QED BY <1>1, LoadInductive, PTL

\* glfs_read_directory ends with the entries on the disk, in order, as many of
\* them as MAX_FILES and the 4 KB of the buffer take, wherever the end marker
\* lies, across two sectors too, and nothing behind it becomes an entry.
THEOREM DirectoryIsRead == Spec => []DirectoryRead
<1>1. LoadInv => DirectoryRead
  BY KnownFiles DEF LoadInv
<1> QED BY <1>1, LoadInductive, PTL

\* glfs_load_file, elf_load, exec_bin and exec_elf store only into pages they
\* mapped for this file, whatever its size is.
THEOREM StaysInside == Spec => []LoadsStayInside
<1>1. LoadInv => LoadsStayInside
  BY DEF LoadInv, MemoryInv, LoadsStayInside
<1> QED BY <1>1, LoadInductive, PTL

\* The file the user chose by number or by name is in memory whole once it is
\* loaded, and stays there while its program or viewer is started.
THEOREM ChosenFile == Spec => []ChosenFileInPlace
<1>1. LoadInv => ChosenFileInPlace
  BY ChosenHeld
<1> QED BY <1>1, LoadInductive, PTL

\* A program starts with every segment in memory: its bytes of the file, zeros
\* behind them, and the rights its header asks for.
THEOREM Segments == Spec => []SegmentsIntact
<1>1. LoadInv => SegmentsIntact
  BY SegmentsHeld
<1> QED BY <1>1, LoadInductive, PTL

\* main finds argc, argv and the strings it points to, NUL-ended and followed
\* by a null pointer, in pages the program may write.
THEOREM Arguments == Spec => []ArgsIntact
<1>1. LoadInv => ArgsIntact
  BY ArgsHeld
<1> QED BY <1>1, LoadInductive, PTL

\* squint puts each pixel of a bitmap of 24 or 32 bits where and as its format
\* says, whatever the padding and the order of its rows, if it fits the screen.
THEOREM Image == Spec => []ImageShown
<1>1. LoadInv => ImageShown
  BY ImageHeld
<1> QED BY <1>1, LoadInductive, PTL
=============================================================================

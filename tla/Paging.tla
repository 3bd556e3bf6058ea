------------------------------- MODULE Paging -------------------------------
(***************************************************************************)
(* kernel/mem/paging.c: the identity map paging_init builds, get_page and  *)
(* map_page with the invlpg every caller adds, and the page-fault handler. *)
(*                                                                         *)
(* The page tables lie one after the other from PAGE_TABLES_ADDR on, so    *)
(* with a framebuffer high in the address space they reach beyond          *)
(* 0x400000, into the range the kernel gives to programs.  get_page edits  *)
(* a table through the virtual address that equals the table's physical    *)
(* address: that reaches the table only as long as nobody has remapped the *)
(* page.  Where the framebuffer is lower than a window of the kernel, like *)
(* kscratch's, the directory has no table for the window: get_page makes   *)
(* one in a frame of its own, and reaches it in the same way.  The         *)
(* processor (external) walks the tables by physical address and keeps     *)
(* translations in its TLB until they are flushed.                         *)
(*                                                                         *)
(* Pages and frames are numbered; virtual page p is mapped to frame p by   *)
(* the identity map.                                                       *)
(***************************************************************************)
EXTENDS Integers, FiniteSets, FiniteSetsExt

CONSTANTS
  ENTRIES,       \* entries of a page table (1024)
  DIR_ENTRIES,   \* entries of the directory (1024)
  NUM_TABLES,    \* tables that paging_init fills (1014 under QEMU)
  PAGE_TABLES,   \* the frame of the first table (0x201)
  USER_FLOOR,    \* the first page of the user range (0x400)
  KernelPages,   \* pages the kernel maps for itself: sector, file buffers,
                 \* kscratch
  UserPages,     \* pages the kernel maps for programs: segments, stacks
  Pool           \* the frames alloc_frame can return

Tables == 0 .. DIR_ENTRIES - 1
Filled == 0 .. NUM_TABLES - 1
Pages == 0 .. DIR_ENTRIES * ENTRIES - 1
Table(p) == p \div ENTRIES
TableFrame(t) == PAGE_TABLES + t

ASSUME GeometryAssumption ==
  /\ ENTRIES \in Nat \ {0} /\ DIR_ENTRIES \in Nat /\ PAGE_TABLES \in Nat
  /\ NUM_TABLES \in 1 .. DIR_ENTRIES
  /\ KernelPages \cup UserPages \cup Pool \cup {USER_FLOOR} \subseteq Pages
  /\ Pool \cap {TableFrame(t) : t \in Filled} = {}
  /\ Table(USER_FLOOR) \in Filled /\ \A f \in Pool : Table(f) \in Filled

\* The pages whose translations matter here: those that get mapped, and those
\* through which get_page edits their tables.
Mappable == KernelPages \cup UserPages \cup {USER_FLOOR}
EditedThrough == {TableFrame(Table(p)) : p \in {q \in Mappable :
                                                Table(q) \in Filled}}
Watched == Mappable \cup EditedThrough

\* The windows are placed so that none of them covers a page through which its
\* tables are edited, nor, if some of them have no table yet, the frames that
\* their tables may get.  Programs keep to this as long as none of them is
\* linked over a table of the windows: pages 0x505, 0x509, 0x50D and 0x541 of
\* the user range are tables of kernel windows.
ASSUME LayoutAssumption ==
  /\ \A t \in Filled :
       TableFrame(t) \in Pages /\ Table(TableFrame(t)) \in Filled
  /\ EditedThrough \cap Mappable = {}
  /\ (\E p \in Mappable : Table(p) \notin Filled) => Pool \cap Mappable = {}

VARIABLES
  dir,       \* page_directory: the table's frame and the USER flag
  mem,       \* the frames read as tables: for each entry, frame and USER flag
  tlb,       \* the translations the processor holds, by page
  used,      \* the frames alloc_frame has given out
  asked,     \* history: for each page, the entry map_page was last asked for
  fault,     \* the access that faulted: its page and mode, or NoFault
  pc         \* "run"; "retry" after a fault was resolved; "panic"; "oom"

vars == <<dir, mem, tlb, used, asked, fault, pc>>

Entry(frame, user) == [frame |-> frame, user |-> user]
NoEntry == [frame |-> -1, user |-> FALSE]
Garbage == Entry(0, TRUE)   \* what a word of a fresh frame may look like
NoFault == [page |-> -1, user |-> FALSE]

-----------------------------------------------------------------------------
(***************************************************************************)
(* The processor.                                                          *)
(***************************************************************************)
\* A user access needs the USER flag in the directory and in the table.
Walk(p) ==
  LET d == dir[Table(p)]
      e == mem[d.frame][p % ENTRIES]
  IN  IF d = NoEntry THEN NoEntry ELSE Entry(e.frame, d.user /\ e.user)

\* Of a page that is never mapped anew the TLB holds what the tables say.
Translation(p) ==
  IF p \in Watched /\ tlb[p] # NoEntry THEN tlb[p] ELSE Walk(p)

\* What is not present is not kept.
TlbFill(p) ==
  /\ tlb[p] = NoEntry /\ Walk(p).frame # -1
  /\ tlb' = [tlb EXCEPT ![p] = Walk(p)]
  /\ UNCHANGED <<dir, mem, used, asked, fault, pc>>

TlbEvict(p) ==
  /\ tlb[p] # NoEntry
  /\ tlb' = [tlb EXCEPT ![p] = NoEntry]
  /\ UNCHANGED <<dir, mem, used, asked, fault, pc>>

-----------------------------------------------------------------------------
(***************************************************************************)
(* The kernel.                                                             *)
(***************************************************************************)
\* paging_init: every present entry is PRESENT | RW; the directory entries of
\* the user range are also USER.
Init ==
  /\ dir = [t \in Tables |->
              IF t \in Filled
                THEN Entry(TableFrame(t), t * ENTRIES >= USER_FLOOR)
                ELSE NoEntry]
  /\ mem = [f \in Pages |->
              [i \in 0 .. ENTRIES - 1 |->
                 IF f - PAGE_TABLES \in Filled
                   THEN Entry((f - PAGE_TABLES) * ENTRIES + i, FALSE)
                   ELSE IF f \in Pool THEN Garbage ELSE NoEntry]]
  /\ tlb = [p \in Watched |-> NoEntry]
  /\ used = {}
  /\ asked = [p \in Mappable |->
                IF Table(p) \in Filled THEN Entry(p, FALSE) ELSE NoEntry]
  /\ fault = NoFault
  /\ pc = "run"

NextFrame(from) == Min(Pool \ from)
Short(p) == Cardinality(Pool \ used) < IF dir[Table(p)] = NoEntry THEN 2 ELSE 1

\* Mutant of Flushed: the caller forgets invlpg.
NotFlushed(p) == tlb

\* flush_tlb, or the invlpg a caller of map_page writes out.
Flushed(p) == [tlb EXCEPT ![p] = NoEntry]

\* Mutant of NewTable: the old contents of the frame are entries.
NewTableOld(frame) == mem

\* The table is zeroed through the page that has the frame's number.
NewTable(frame) ==
  [mem EXCEPT ![Translation(frame).frame] =
     [i \in 0 .. ENTRIES - 1 |-> NoEntry]]

\* map_page and the invlpg that follows it, with a frame from alloc_frame: one
\* step, since the kernel does not use the page between the two.
\* get_page makes the table if there is none, sets USER in the directory,
\* whatever the flags of the page are, and the entry goes where the table's own
\* address leads.
MapPage(p, user) ==
  LET t == Table(p)
      e == Entry(NextFrame(used), user)
      new == dir[t] = NoEntry
      table == IF new THEN NextFrame(used \cup {e.frame}) ELSE dir[t].frame
      before == IF new THEN NewTable(table) ELSE mem
  IN  /\ ~Short(p)
      /\ used' = used \cup {e.frame} \cup IF new THEN {table} ELSE {}
      /\ dir' = [dir EXCEPT ![t] = Entry(table, TRUE)]
      /\ mem' = [before EXCEPT ![Translation(table).frame][p % ENTRIES] = e]
      /\ tlb' = Flushed(p)
      /\ asked' = [asked EXCEPT ![p] = e]

MapKernelPage(p) ==
  /\ pc = "run"
  /\ MapPage(p, FALSE)
  /\ UNCHANGED <<fault, pc>>

MapUserPage(p) ==
  /\ pc = "run"
  /\ MapPage(p, TRUE)
  /\ UNCHANGED <<fault, pc>>

\* The kernel touches only what is present, so a program's access faults.
CanAccess(p, user) == user => Translation(p).user

PageFault(p) ==
  /\ pc = "run"
  /\ ~CanAccess(p, TRUE)
  /\ fault' = [page |-> p, user |-> TRUE]
  /\ pc' = "fault"
  /\ UNCHANGED <<dir, mem, tlb, used, asked>>

\* page_fault_handler: in the page at 0x400000 it maps a fresh frame, PRESENT
\* and RW, and returns 1: the program executes the access again.
ResolveFault ==
  /\ pc = "fault"
  /\ fault.page = USER_FLOOR
  /\ MapPage(fault.page, FALSE)
  /\ pc' = "retry"
  /\ UNCHANGED fault

\* Elsewhere it returns 0 and the kernel panics.
FailFault ==
  /\ pc = "fault"
  /\ fault.page # USER_FLOOR
  /\ pc' = "panic"
  /\ UNCHANGED <<dir, mem, tlb, used, asked, fault>>

Retry ==
  /\ pc = "retry"
  /\ pc' = IF CanAccess(fault.page, fault.user) THEN "run" ELSE "fault"
  /\ fault' = IF CanAccess(fault.page, fault.user) THEN NoFault ELSE fault
  /\ UNCHANGED <<dir, mem, tlb, used, asked>>

\* alloc_frame halts the machine.
OutOfMemory ==
  /\ \/ pc = "run" /\ \E p \in KernelPages \cup UserPages : Short(p)
     \/ pc = "fault" /\ fault.page = USER_FLOOR /\ Short(fault.page)
  /\ pc' = "oom"
  /\ UNCHANGED <<dir, mem, tlb, used, asked, fault>>

Next ==
  \/ \E p \in Watched : TlbFill(p) \/ TlbEvict(p)
  \/ \E p \in KernelPages : MapKernelPage(p)
  \/ \E p \in UserPages : MapUserPage(p)
  \/ \E p \in UserPages \cup {USER_FLOOR} : PageFault(p)
  \/ ResolveFault \/ FailFault \/ Retry \/ OutOfMemory

Spec == Init /\ [][Next]_vars

-----------------------------------------------------------------------------
TypeOK ==
  LET entries == [frame : Pages \cup {-1}, user : BOOLEAN]
  IN  /\ dir \in [Tables -> entries]
      /\ mem \in [Pages -> [0 .. ENTRIES - 1 -> entries]]
      /\ tlb \in [Watched -> entries]
      /\ used \subseteq Pool
      /\ asked \in [Mappable -> entries]
      /\ fault \in [page : Pages \cup {-1}, user : BOOLEAN]
      /\ pc \in {"run", "fault", "retry", "panic", "oom"}

\* What the kernel mapped is what an access reaches, through the tables and
\* through the TLB, for each page it ever mapped and those it never touched:
\* no map_page goes astray and no later one undoes it.
MappingsHold ==
  \A p \in Mappable : Translation(p).frame = asked[p].frame

\* A program reaches only frames that alloc_frame gave out for pages of its
\* own, and reaches them through these pages: never a page table, one made
\* later included, never the kernel, although the directory lets it into every
\* table get_page touched.
UserReachesOwnFrames ==
  \A p \in Watched : Translation(p).user =>
    /\ p \in UserPages
    /\ Translation(p).frame \in used \ {dir[t].frame : t \in Tables}
=============================================================================

----------------------------- MODULE FrameAlloc -----------------------------
(***************************************************************************)
(* kernel/mem/frame_alloc.c: the bitmap of physical frames, the regions    *)
(* kmain's call of frame_allocator_init reserves in it, and alloc_frame    *)
(* and free_frame.                                                         *)
(*                                                                         *)
(* The bitmap covers the whole address space, not the memory the machine   *)
(* has.  A frame is named by its index; its address is index * FRAME_SIZE. *)
(***************************************************************************)
EXTENDS Integers, FiniteSets, FiniteSetsExt

CONSTANTS
  BITMAP_SIZE,   \* bytes of the bitmap, 8 frames each (2^17 in the code)
  FRAME_SIZE,    \* bytes of a frame (4096)
  LOW,           \* bytes reserved from address 0 on (16 MB)
  Framebuffers   \* the regions <<address, length>> the framebuffer may be in

TOTAL_FRAMES == 8 * BITMAP_SIZE
Space == TOTAL_FRAMES * FRAME_SIZE   \* addresses wrap here (2^32)
Frames == 0 .. TOTAL_FRAMES - 1

ASSUME SizesAssumption == /\ BITMAP_SIZE \in Nat \ {0}
                          /\ FRAME_SIZE \in Nat \ {0}
                          /\ LOW \in Nat

\* No framebuffer, and not the low region, reaches the last page of the
\* address space, where reserve_region's rounded-up end would wrap to 0.
ASSUME RegionsAssumption ==
  /\ LOW + FRAME_SIZE <= Space
  /\ \A r \in Framebuffers : /\ r \in Nat \X Nat
                             /\ r[1] + r[2] + FRAME_SIZE <= Space

VARIABLES
  bitmap,   \* frame_bitmap: for each byte, the bits that are set
  fb,       \* the framebuffer, as the boot loader left it
  stage,    \* where frame_allocator_init is; "oom" when alloc_frame halted
  held      \* history: for each frame, how many callers have been given it

frameVars == <<bitmap, fb, stage, held>>

Byte(f) == f \div 8
Bit(f) == f % 8
Marked == {f \in Frames : Bit(f) \in bitmap[Byte(f)]}

\* set_frame for every frame of a set.
MarkAll(fs) ==
  [i \in 0 .. BITMAP_SIZE - 1 |->
     bitmap[i] \cup {b \in 0 .. 7 : 8 * i + b \in fs}]

\* The frames reserve_region sets, with uint32_t arithmetic: from the start,
\* aligned down, to the end, aligned up.
AlignDown(a) == a - (a % FRAME_SIZE)
\* Mutant of ReserveRegion: the end is not rounded up.
ReserveRegionShort(addr, length) ==
  {f \in Frames : /\ AlignDown(addr) <= f * FRAME_SIZE
                  /\ f * FRAME_SIZE < AlignDown(addr + length)}

ReserveRegion(addr, length) ==
  LET start == AlignDown(addr)
      end == AlignDown((addr + length + FRAME_SIZE - 1) % Space)
  IN  {f \in Frames : start <= f * FRAME_SIZE /\ f * FRAME_SIZE < end}

FrameInit ==
  /\ bitmap = [i \in 0 .. BITMAP_SIZE - 1 |-> {}]
  /\ fb \in Framebuffers
  /\ stage = "low"
  /\ held = [f \in Frames |-> 0]

ReserveLow ==
  /\ stage = "low"
  /\ bitmap' = MarkAll(ReserveRegion(0, LOW))
  /\ stage' = "framebuffer"
  /\ UNCHANGED <<fb, held>>

ReserveFramebuffer ==
  /\ stage = "framebuffer"
  /\ bitmap' = MarkAll(ReserveRegion(fb[1], fb[2]))
  /\ stage' = "ready"
  /\ UNCHANGED <<fb, held>>

\* Mutant of Open: only bytes without any bit set are looked at.
OpenEmpty == {i \in 0 .. BITMAP_SIZE - 1 : bitmap[i] = {}}

\* alloc_frame: the first byte that is not full, and in it the first clear bit.
Open == {i \in 0 .. BITMAP_SIZE - 1 : bitmap[i] # 0 .. 7}

\* Mutant of AllocFrame: the bit is not set.
AllocFrameUnset ==
  /\ stage = "ready"
  /\ Open # {}
  /\ LET f == 8 * Min(Open) + Min(0 .. 7 \ bitmap[Min(Open)])
     IN  held' = [held EXCEPT ![f] = @ + 1]
  /\ UNCHANGED <<bitmap, fb, stage>>

AllocFrame ==
  /\ stage = "ready"
  /\ Open # {}
  /\ LET i == Min(Open)
         bit == Min(0 .. 7 \ bitmap[i])
     IN  /\ bitmap' = [bitmap EXCEPT ![i] = @ \cup {bit}]
         /\ held' = [held EXCEPT ![8 * i + bit] = @ + 1]
  /\ UNCHANGED <<fb, stage>>

\* "System is out of memory.": alloc_frame halts the processor for good.
HaltOutOfMemory ==
  /\ stage = "ready"
  /\ Open = {}
  /\ stage' = "oom"
  /\ UNCHANGED <<bitmap, fb, held>>

\* free_frame tests nothing.  Its one caller, test_paging, gives back the
\* frame it was given.
FreeFrame(f) ==
  /\ stage = "ready"
  /\ held[f] > 0
  /\ bitmap' = [bitmap EXCEPT ![Byte(f)] = @ \ {Bit(f)}]
  /\ held' = [held EXCEPT ![f] = @ - 1]
  /\ UNCHANGED <<fb, stage>>

FrameNext ==
  \/ ReserveLow \/ ReserveFramebuffer \/ AllocFrame \/ HaltOutOfMemory
  \/ \E f \in Frames : FreeFrame(f)

FrameSpec == FrameInit /\ [][FrameNext]_frameVars

-----------------------------------------------------------------------------
FrameTypeOK ==
  /\ bitmap \in [0 .. BITMAP_SIZE - 1 -> SUBSET (0 .. 7)]
  /\ fb \in Framebuffers
  /\ stage \in {"low", "framebuffer", "ready", "oom"}
  /\ held \in [Frames -> Nat]

Held == {f \in Frames : held[f] > 0}

\* The frames that overlap a region of the address space.
Overlap(addr, length) ==
  {f \in Frames : /\ f * FRAME_SIZE < addr + length
                  /\ addr < (f + 1) * FRAME_SIZE}

\* alloc_frame never gives a frame to a second caller while the first has it.
OneHolder == \A f \in Frames : held[f] <= 1

\* No frame handed out holds a byte of the low 16 MB, where the kernel and its
\* page tables are, or of the framebuffer, which need not be page-aligned.
RegionsSpared ==
  Held \cap (Overlap(0, LOW) \cup Overlap(fb[1], fb[2])) = {}

\* The kernel halts for want of memory only when every frame is handed out or
\* belongs to a reserved region: none has been forgotten.
NoFrameForgotten ==
  stage = "oom" =>
    Frames = Held \cup ReserveRegion(0, LOW) \cup ReserveRegion(fb[1], fb[2])
=============================================================================

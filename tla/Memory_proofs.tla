--------------------------- MODULE Memory_proofs ----------------------------
(***************************************************************************)
(* Proofs about the two modules of memory, FrameAlloc and Paging.          *)
(***************************************************************************)
EXTENDS FrameAlloc, Paging, FiniteSetTheorems, WellFoundedInduction, TLAPS

\* The least element of a set of numbers is one of them.
LEMMA MinElement ==
  ASSUME NEW S \in SUBSET Nat, S # {}
  PROVE  Min(S) \in S
<1>1. \E x \in S : \A y \in S : <<y, x>> \notin OpToRel(<, Nat)
  BY NatLessThanWellFounded, WFMin, Zenon
<1>2. \E x \in S : \A y \in S : x <= y
  <2>1. PICK x \in S : \A y \in S : <<y, x>> \notin OpToRel(<, Nat)
    BY <1>1
  <2>2. ASSUME NEW y \in S
        PROVE  x <= y
    <3>1. ~(y < x)
      BY <2>1 DEF OpToRel
    <3> QED
      BY <3>1
  <2> QED
    BY <2>2
<1> QED
  BY <1>2 DEF Min

-----------------------------------------------------------------------------
(***************************************************************************)
(* The frame allocator, for every size of bitmap and frame and every place *)
(* of the framebuffer: no frame is handed out twice, none of the reserved  *)
(* regions, and all others before the machine halts.                       *)
(*                                                                         *)
(* Held frames and marked frames are related both ways.  What is held is   *)
(* marked, so that alloc_frame cannot find it again; what is marked is     *)
(* held or reserved, so that a full bitmap means that all is in use.  That *)
(* a frame is not held twice is inductive only together with the first,    *)
(* and the first survives free_frame only because none is held twice.      *)
(***************************************************************************)
Low == ReserveRegion(0, LOW)
Buffer == ReserveRegion(fb[1], fb[2])

Booting == stage \in {"low", "framebuffer"} => Held = {}
HeldMarked == Held \subseteq Marked
Reserved ==
  /\ stage # "low" => Low \subseteq Marked
  /\ stage \in {"ready", "oom"} => Buffer \subseteq Marked
HeldFree == Held \cap (Low \cup Buffer) = {}
MarkedKnown == Marked \subseteq Held \cup Low \cup Buffer
FullWhenHalted == stage = "oom" => Open = {}

FrameInv ==
  /\ FrameTypeOK
  /\ OneHolder
  /\ Booting /\ HeldMarked /\ Reserved /\ HeldFree /\ MarkedKnown
  /\ FullWhenHalted

-----------------------------------------------------------------------------
(***************************************************************************)
(* Frames, bytes and bits.                                                 *)
(***************************************************************************)
\* A frame is one bit of one byte of the bitmap.
LEMMA FrameBit ==
  ASSUME NEW f \in Frames
  PROVE  /\ Byte(f) \in 0 .. BITMAP_SIZE - 1
         /\ Bit(f) \in 0 .. 7
         /\ f = 8 * Byte(f) + Bit(f)
BY SizesAssumption DEF Frames, TOTAL_FRAMES, Byte, Bit

\* And a bit of a byte is one frame.
LEMMA BitFrame ==
  ASSUME NEW i \in 0 .. BITMAP_SIZE - 1, NEW b \in 0 .. 7
  PROVE  /\ 8 * i + b \in Frames
         /\ Byte(8 * i + b) = i
         /\ Bit(8 * i + b) = b
BY SizesAssumption DEF Frames, TOTAL_FRAMES, Byte, Bit

-----------------------------------------------------------------------------
(***************************************************************************)
(* Regions.                                                                *)
(***************************************************************************)
\* Where an address is aligned to, and that frames lie on the boundaries.
LEMMA AlignFrame ==
  ASSUME NEW a \in Nat, NEW f \in Nat
  PROVE  /\ AlignDown(a) \in Nat
         /\ a < (f + 1) * FRAME_SIZE => AlignDown(a) <= f * FRAME_SIZE
         /\ (f + 1) * FRAME_SIZE <= a => f * FRAME_SIZE < AlignDown(a)
<1> DEFINE q == a \div FRAME_SIZE
           r == a % FRAME_SIZE
<1>1. /\ q \in Nat /\ r \in Nat
      /\ a = q * FRAME_SIZE + r /\ r < FRAME_SIZE
  BY SizesAssumption
<1>2. AlignDown(a) = q * FRAME_SIZE
  BY <1>1, SizesAssumption DEF AlignDown
<1> HIDE DEF q, r
<1>3. q * FRAME_SIZE \in Nat
  BY <1>1, SizesAssumption
<1>4. ASSUME a < (f + 1) * FRAME_SIZE
      PROVE  q * FRAME_SIZE <= f * FRAME_SIZE
  <2>1. ~(q >= f + 1)
    <3>1. ASSUME q >= f + 1
          PROVE  q * FRAME_SIZE >= (f + 1) * FRAME_SIZE
      BY <3>1, <1>1, SizesAssumption
    <3> QED
      BY <3>1, <1>1, <1>3, <1>4, SizesAssumption
  <2> QED
    BY <2>1, <1>1, SizesAssumption
<1>5. ASSUME (f + 1) * FRAME_SIZE <= a
      PROVE  f * FRAME_SIZE < q * FRAME_SIZE
  <2>1. q >= f + 1
    <3>1. ASSUME q < f + 1
          PROVE  (q + 1) * FRAME_SIZE <= (f + 1) * FRAME_SIZE
      BY <3>1, <1>1, SizesAssumption
    <3> QED
      BY <3>1, <1>1, <1>3, <1>5, SizesAssumption
  <2>2. q * FRAME_SIZE >= (f + 1) * FRAME_SIZE
    BY <2>1, <1>1, SizesAssumption
  <2> QED
    BY <2>2, <1>1, <1>3, SizesAssumption
<1> QED
  BY <1>2, <1>3, <1>4, <1>5

\* A reservation covers the region it was asked for: every frame that holds a
\* byte of it.
LEMMA RegionCovered ==
  ASSUME NEW a \in Nat, NEW n \in Nat, a + n + FRAME_SIZE <= Space
  PROVE  Overlap(a, n) \subseteq ReserveRegion(a, n)
<1> DEFINE e == a + n + FRAME_SIZE - 1
<1>1. e \in Nat /\ e < Space /\ Space \in Nat
  BY SizesAssumption DEF Space, TOTAL_FRAMES
<1>2. e % Space = e
  BY <1>1
<1>3. ASSUME NEW f \in Overlap(a, n)
      PROVE  f \in ReserveRegion(a, n)
  <2>1. /\ f \in Frames /\ f \in Nat
        /\ f * FRAME_SIZE < a + n
        /\ a < (f + 1) * FRAME_SIZE
    BY <1>3 DEF Overlap, Frames
  <2>2. AlignDown(a) <= f * FRAME_SIZE
    BY <2>1, AlignFrame
  <2>3. (f + 1) * FRAME_SIZE <= e
    BY <2>1, SizesAssumption
  <2>4. f * FRAME_SIZE < AlignDown(e)
    BY <1>1, <2>1, <2>3, AlignFrame
  <2> QED
    BY <1>2, <2>1, <2>2, <2>4 DEF ReserveRegion
<1> QED
  BY <1>3

\* set_frame for a set of frames marks these and leaves the others.
LEMMA MarkAllMarks ==
  ASSUME NEW fs \in SUBSET Frames, FrameTypeOK, bitmap' = MarkAll(fs)
  PROVE  /\ bitmap' \in [0 .. BITMAP_SIZE - 1 -> SUBSET (0 .. 7)]
         /\ Marked' = Marked \cup fs
<1>1. bitmap' \in [0 .. BITMAP_SIZE - 1 -> SUBSET (0 .. 7)]
  BY DEF FrameTypeOK, MarkAll
<1>2. ASSUME NEW f \in Frames
      PROVE  Bit(f) \in bitmap'[Byte(f)]
               <=> Bit(f) \in bitmap[Byte(f)] \/ f \in fs
  BY <1>2, FrameBit DEF MarkAll
<1> QED
  BY <1>1, <1>2 DEF Marked

\* alloc_frame's choice is a frame whose bit was clear, and sets that bit.
LEMMA AllocTakesClear ==
  ASSUME FrameTypeOK, AllocFrame
  PROVE  \E f \in Frames \ Marked :
           /\ bitmap' \in [0 .. BITMAP_SIZE - 1 -> SUBSET (0 .. 7)]
           /\ Marked' = Marked \cup {f}
           /\ held' = [held EXCEPT ![f] = @ + 1]
<1> DEFINE i == Min(Open)
           b == Min(0 .. 7 \ bitmap[i])
           f == 8 * i + b
<1>1. i \in Open /\ i \in 0 .. BITMAP_SIZE - 1
  <2>1. Open \in SUBSET Nat /\ Open # {}
    BY SizesAssumption DEF Open, AllocFrame
  <2> QED
    BY <2>1, MinElement DEF Open
<1>2. b \in 0 .. 7 /\ b \notin bitmap[i]
  <2>1. bitmap[i] \in SUBSET (0 .. 7) /\ bitmap[i] # 0 .. 7
    BY <1>1 DEF Open, FrameTypeOK
  <2> HIDE DEF i
  <2>2. 0 .. 7 \ bitmap[i] \in SUBSET Nat
    OBVIOUS
  <2>3. 0 .. 7 \ bitmap[i] # {}
    BY <2>1, Zenon
  <2> QED
    BY <2>2, <2>3, MinElement
<1>3. /\ bitmap' = [bitmap EXCEPT ![i] = @ \cup {b}]
      /\ held' = [held EXCEPT ![f] = @ + 1]
  BY DEF AllocFrame
<1> HIDE DEF i, b
<1>4. f \in Frames /\ Byte(f) = i /\ Bit(f) = b
  BY <1>1, <1>2, BitFrame
<1>5. bitmap' \in [0 .. BITMAP_SIZE - 1 -> SUBSET (0 .. 7)]
  BY <1>1, <1>2, <1>3 DEF FrameTypeOK
<1>6. ASSUME NEW g \in Frames
      PROVE  Bit(g) \in bitmap'[Byte(g)]
               <=> Bit(g) \in bitmap[Byte(g)] \/ g = f
  <2>1. /\ Byte(g) \in 0 .. BITMAP_SIZE - 1
        /\ g = f <=> Byte(g) = i /\ Bit(g) = b
    BY <1>4, <1>6, FrameBit
  <2> HIDE DEF f
  <2>2. CASE Byte(g) = i
    BY <1>3, <2>1, <2>2 DEF FrameTypeOK
  <2>3. CASE Byte(g) # i
    BY <1>3, <2>1, <2>3 DEF FrameTypeOK
  <2> QED
    BY <2>2, <2>3
<1>7. f \notin Marked
  BY <1>2, <1>4 DEF Marked
<1>8. Marked' = Marked \cup {f}
  BY <1>4, <1>6 DEF Marked
<1> QED
  BY <1>3, <1>4, <1>5, <1>7, <1>8

\* free_frame clears the frame's bit and no other.
LEMMA FreeClears ==
  ASSUME FrameTypeOK, NEW f \in Frames, FreeFrame(f)
  PROVE  /\ bitmap' \in [0 .. BITMAP_SIZE - 1 -> SUBSET (0 .. 7)]
         /\ Marked' = Marked \ {f}
<1>1. bitmap' = [bitmap EXCEPT ![Byte(f)] = @ \ {Bit(f)}]
  BY DEF FreeFrame
<1>2. bitmap' \in [0 .. BITMAP_SIZE - 1 -> SUBSET (0 .. 7)]
  BY <1>1, FrameBit DEF FrameTypeOK
<1>3. ASSUME NEW g \in Frames
      PROVE  Bit(g) \in bitmap'[Byte(g)]
               <=> Bit(g) \in bitmap[Byte(g)] /\ g # f
  <2>1. CASE Byte(g) = Byte(f)
    BY <1>1, <2>1, FrameBit DEF FrameTypeOK
  <2>2. CASE Byte(g) # Byte(f)
    BY <1>1, <2>2, FrameBit DEF FrameTypeOK
  <2> QED
    BY <2>1, <2>2
<1> QED
  BY <1>2, <1>3 DEF Marked

-----------------------------------------------------------------------------
(***************************************************************************)
(* The invariant.                                                          *)
(***************************************************************************)
LEMMA FrameInvInit == FrameInit => FrameInv
<1> SUFFICES ASSUME FrameInit
             PROVE  FrameInv
  OBVIOUS
<1>1. FrameTypeOK
  BY DEF FrameInit, FrameTypeOK
<1>2. Held = {} /\ Marked = {}
  BY FrameBit DEF FrameInit, Held, Marked
<1> QED
  BY <1>1, <1>2 DEF FrameInit, FrameInv, OneHolder, Booting, HeldMarked,
                    Reserved, HeldFree, MarkedKnown, FullWhenHalted

\* The regions do not change.
LEMMA RegionsFixed ==
  ASSUME fb' = fb
  PROVE  Low' = Low /\ Buffer' = Buffer
BY DEF Low, Buffer, ReserveRegion, AlignDown

LEMMA FrameInvStep == FrameInv /\ [FrameNext]_frameVars => FrameInv'
<1> SUFFICES ASSUME FrameInv, [FrameNext]_frameVars
             PROVE  FrameInv'
  OBVIOUS
<1> USE DEF FrameInv
<1> DEFINE Parts == /\ OneHolder /\ Booting /\ HeldMarked /\ Reserved
                    /\ HeldFree /\ MarkedKnown
<1>1. ASSUME NEW fs \in SUBSET Frames, bitmap' = MarkAll(fs), held' = held
      PROVE  /\ bitmap' \in [0 .. BITMAP_SIZE - 1 -> SUBSET (0 .. 7)]
             /\ Marked' = Marked \cup fs
             /\ Held' = Held
  BY <1>1, MarkAllMarks DEF Held
<1>2. CASE ReserveLow
  <2>1. Low \in SUBSET Frames /\ Low' = Low /\ Buffer' = Buffer
    BY <1>2, RegionsFixed DEF ReserveLow, Low, ReserveRegion
  <2>2. /\ bitmap' \in [0 .. BITMAP_SIZE - 1 -> SUBSET (0 .. 7)]
        /\ Marked' = Marked \cup Low /\ Held' = Held /\ Held = {}
    BY <1>1, <1>2, <2>1 DEF ReserveLow, Low, Booting
  <2>3. FrameTypeOK'
    BY <1>2, <2>2 DEF ReserveLow, FrameTypeOK
  <2> QED
    BY <1>2, <2>1, <2>2, <2>3 DEF ReserveLow, OneHolder, Booting, HeldMarked,
         Reserved, HeldFree, MarkedKnown, FullWhenHalted
<1>3. CASE ReserveFramebuffer
  <2>1. Buffer \in SUBSET Frames /\ Low' = Low /\ Buffer' = Buffer
    BY <1>3, RegionsFixed DEF ReserveFramebuffer, Buffer, ReserveRegion
  <2>2. /\ bitmap' \in [0 .. BITMAP_SIZE - 1 -> SUBSET (0 .. 7)]
        /\ Marked' = Marked \cup Buffer /\ Held' = Held /\ Held = {}
    BY <1>1, <1>3, <2>1 DEF ReserveFramebuffer, Buffer, Booting
  <2>3. FrameTypeOK'
    BY <1>3, <2>2 DEF ReserveFramebuffer, FrameTypeOK
  <2> QED
    BY <1>3, <2>1, <2>2, <2>3 DEF ReserveFramebuffer, OneHolder, Booting,
         HeldMarked, Reserved, HeldFree, MarkedKnown, FullWhenHalted
<1>4. CASE AllocFrame
  <2>1. PICK f \in Frames \ Marked :
          /\ bitmap' \in [0 .. BITMAP_SIZE - 1 -> SUBSET (0 .. 7)]
          /\ Marked' = Marked \cup {f}
          /\ held' = [held EXCEPT ![f] = @ + 1]
    BY <1>4, AllocTakesClear
  <2>2. stage = "ready" /\ stage' = stage /\ fb' = fb
    BY <1>4 DEF AllocFrame
  <2>3. held[f] = 0 /\ held'[f] = 1
    BY <2>1 DEF HeldMarked, Held, FrameTypeOK
  <2>4. Held' = Held \cup {f}
    BY <2>1, <2>3 DEF Held, FrameTypeOK
  <2>5. FrameTypeOK'
    BY <2>1, <2>2 DEF FrameTypeOK
  <2>6. OneHolder'
    BY <2>1, <2>3 DEF OneHolder, FrameTypeOK
  <2>7. f \notin Low \cup Buffer
    BY <2>1, <2>2 DEF Reserved
  <2> QED
    BY <2>1, <2>2, <2>4, <2>5, <2>6, <2>7, RegionsFixed
       DEF Booting, HeldMarked, Reserved, HeldFree, MarkedKnown,
           FullWhenHalted
<1>5. CASE HaltOutOfMemory
  <2>1. Open' = Open /\ Marked' = Marked /\ Held' = Held
    BY <1>5 DEF HaltOutOfMemory, Open, Marked, Held
  <2> QED
    BY <1>5, <2>1, RegionsFixed
       DEF HaltOutOfMemory, FrameTypeOK, OneHolder, Booting, HeldMarked,
           Reserved, HeldFree, MarkedKnown, FullWhenHalted
<1>6. ASSUME NEW f \in Frames, FreeFrame(f)
      PROVE  FrameInv'
  <2>1. /\ bitmap' \in [0 .. BITMAP_SIZE - 1 -> SUBSET (0 .. 7)]
        /\ Marked' = Marked \ {f}
    BY <1>6, FreeClears
  <2>2. /\ stage = "ready" /\ stage' = stage /\ fb' = fb
        /\ held' = [held EXCEPT ![f] = @ - 1]
        /\ f \in Held
    BY <1>6 DEF FreeFrame, Held
  <2>3. held[f] = 1 /\ held'[f] = 0
    BY <1>6, <2>2 DEF FreeFrame, OneHolder, FrameTypeOK
  <2>4. Held' = Held \ {f}
    BY <2>2, <2>3 DEF Held, FrameTypeOK
  <2>5. FrameTypeOK'
    BY <2>1, <2>2, <2>3 DEF FrameTypeOK
  <2>6. OneHolder'
    BY <2>2, <2>3 DEF OneHolder, FrameTypeOK
  <2> QED
    BY <2>1, <2>2, <2>4, <2>5, <2>6, RegionsFixed
       DEF Booting, HeldMarked, Reserved, HeldFree, MarkedKnown,
           FullWhenHalted
<1>7. CASE UNCHANGED frameVars
  <2>1. Open' = Open /\ Marked' = Marked /\ Held' = Held
    BY <1>7 DEF frameVars, Open, Marked, Held
  <2> QED
    BY <1>7, <2>1, RegionsFixed
       DEF frameVars, FrameTypeOK, OneHolder, Booting, HeldMarked, Reserved,
           HeldFree, MarkedKnown, FullWhenHalted
<1> QED
  BY <1>2, <1>3, <1>4, <1>5, <1>6, <1>7 DEF FrameNext

LEMMA FrameInvariant == FrameSpec => []FrameInv
BY FrameInvInit, FrameInvStep, PTL DEF FrameSpec

-----------------------------------------------------------------------------
(***************************************************************************)
(* What the allocator promises.                                            *)
(***************************************************************************)
\* The bitmap, the steps of boot and the counts of holders stay well-formed.
THEOREM FramesTypeCorrect == FrameSpec => []FrameTypeOK
<1>1. FrameInv => FrameTypeOK
  BY DEF FrameInv
<1> QED
  BY <1>1, FrameInvariant, PTL

\* alloc_frame never gives a frame to two callers at a time.
THEOREM FrameHeldOnce == FrameSpec => []OneHolder
<1>1. FrameInv => OneHolder
  BY DEF FrameInv
<1> QED
  BY <1>1, FrameInvariant, PTL

\* No frame handed out holds a byte of the low memory or the framebuffer.
THEOREM RegionsNeverHandedOut == FrameSpec => []RegionsSpared
<1>1. FrameInv => RegionsSpared
  <2> SUFFICES ASSUME FrameInv
               PROVE  RegionsSpared
    OBVIOUS
  <2>1. Overlap(0, LOW) \subseteq Low
    BY RegionCovered, SizesAssumption, RegionsAssumption DEF Low
  <2>2. Overlap(fb[1], fb[2]) \subseteq Buffer
    <3>1. /\ fb[1] \in Nat /\ fb[2] \in Nat
          /\ fb[1] + fb[2] + FRAME_SIZE <= Space
      BY RegionsAssumption DEF FrameInv, FrameTypeOK
    <3> QED
      BY <3>1, RegionCovered DEF Buffer
  <2> QED
    BY <2>1, <2>2 DEF FrameInv, HeldFree, RegionsSpared
<1> QED
  BY <1>1, FrameInvariant, PTL

\* The machine halts for want of memory only when all frames are in use.
THEOREM HaltsOnlyWhenFull == FrameSpec => []NoFrameForgotten
<1>1. FrameInv => NoFrameForgotten
  <2> SUFFICES ASSUME FrameInv, stage = "oom"
               PROVE  Frames = Held \cup Low \cup Buffer
    BY DEF NoFrameForgotten, Low, Buffer
  <2>1. Frames \subseteq Marked
    <3>1. ASSUME NEW f \in Frames
          PROVE  Bit(f) \in bitmap[Byte(f)]
      BY <3>1, FrameBit DEF FrameInv, FullWhenHalted, Open
    <3> QED
      BY <3>1 DEF Marked
  <2>2. Held \cup Low \cup Buffer \subseteq Frames
    BY DEF Held, Low, Buffer, ReserveRegion
  <2> QED
    BY <2>1, <2>2 DEF FrameInv, MarkedKnown
<1> QED
  BY <1>1, FrameInvariant, PTL

-----------------------------------------------------------------------------
(***************************************************************************)
(* Paging, for every geometry of pages and tables and every set of windows *)
(* that keeps to LayoutAssumption: what map_page was asked for is what an  *)
(* access reaches, and programs reach only frames of their own.            *)
(*                                                                         *)
(* Both speak of translations.  What makes them inductive is what lies in  *)
(* the tables.  The pages that are never mapped anew keep their identity   *)
(* entries (IdentityInv), the pages through which get_page edits a table   *)
(* among them: so each edit reaches the table that it is meant for.  No    *)
(* two directory entries lead to one table, and none to a frame a page was *)
(* mapped to (DirInv, UserInv): so no edit changes what another page was   *)
(* asked for (AskedInv).  And the TLB is right about frames, while it may  *)
(* be late in letting a program in (TlbInv).                               *)
(***************************************************************************)
Index(p) == p % ENTRIES
Present(t) == dir[t] # NoEntry

DirInv ==
  /\ \A t \in Filled : dir[t].frame = TableFrame(t)
  /\ \A t \in Tables \ Filled : Present(t) => dir[t].frame \in used
  /\ \A s, t \in Tables :
       Present(s) /\ Present(t) /\ s # t => dir[s].frame # dir[t].frame

IdentityInv ==
  \A p \in Pages \ Mappable :
    Table(p) \in Filled =>
      mem[TableFrame(Table(p))][Index(p)] = Entry(p, FALSE)

AskedInv ==
  \A p \in Mappable :
    asked[p] = IF Present(Table(p)) THEN mem[dir[Table(p)].frame][Index(p)]
               ELSE NoEntry

UserInv ==
  \A p \in Mappable :
    asked[p].user => /\ p \in UserPages /\ asked[p].frame \in used
                     /\ \A t \in Tables : dir[t].frame # asked[p].frame

TlbInv ==
  \A p \in Watched :
    tlb[p] # NoEntry => /\ tlb[p].frame = Walk(p).frame /\ Walk(p).frame # -1
                        /\ tlb[p].user => Walk(p).user

PagingInv ==
  TypeOK /\ DirInv /\ IdentityInv /\ AskedInv /\ UserInv /\ TlbInv

-----------------------------------------------------------------------------
(***************************************************************************)
(* Pages and frames.                                                       *)
(***************************************************************************)
\* A page is one entry of one table.
LEMMA PageParts ==
  ASSUME NEW p \in Pages
  PROVE  /\ Table(p) \in Tables
         /\ Index(p) \in 0 .. ENTRIES - 1
         /\ p = Table(p) * ENTRIES + Index(p)
<1> DEFINE t == Table(p)
<1>1. /\ p \in Nat /\ DIR_ENTRIES * ENTRIES \in Nat
      /\ p < DIR_ENTRIES * ENTRIES
  BY GeometryAssumption DEF Pages
<1>2. /\ t \in Nat /\ Index(p) \in 0 .. ENTRIES - 1
      /\ p = t * ENTRIES + Index(p)
  BY <1>1, GeometryAssumption DEF Table, Index
<1> HIDE DEF t
<1>3. t < DIR_ENTRIES
  <2>1. ASSUME t >= DIR_ENTRIES
        PROVE  t * ENTRIES >= DIR_ENTRIES * ENTRIES
    BY <2>1, <1>2, GeometryAssumption
  <2> QED
    BY <2>1, <1>1, <1>2, GeometryAssumption
<1> QED
  BY <1>2, <1>3, GeometryAssumption DEF t, Tables

\* Two pages do not share an entry.
LEMMA OnePage ==
  ASSUME NEW p \in Pages, NEW q \in Pages,
         Table(p) = Table(q), Index(p) = Index(q)
  PROVE  p = q
BY PageParts

\* The windows, and the pages through which their tables are edited, are pages.
LEMMA WatchedPages ==
  /\ Mappable \subseteq Watched /\ Watched \subseteq Pages
  /\ Pool \subseteq Pages
BY GeometryAssumption, LayoutAssumption
   DEF Mappable, Watched, EditedThrough

\* alloc_frame returns a frame that is free, as long as there is one.
LEMMA NextFrameIs ==
  ASSUME NEW from \in SUBSET Pool, Pool \ from # {}
  PROVE  NextFrame(from) \in Pool \ from
<1>1. Pool \ from \in SUBSET Nat
  BY GeometryAssumption DEF Pages
<1> QED
  BY <1>1, MinElement, Zenon DEF NextFrame

\* Where map_page finds enough frames there is one for the page and, where one
\* is needed, another for the table.
LEMMA EnoughFrames ==
  ASSUME NEW p, used \subseteq Pool, ~Short(p)
  PROVE  /\ Pool \ used # {}
         /\ dir[Table(p)] = NoEntry =>
              \A f \in Pool : Pool \ (used \cup {f}) # {}
<1> DEFINE S == Pool \ used
<1>1. IsFiniteSet(S) /\ Cardinality(S) \in Nat
  <2>1. DIR_ENTRIES * ENTRIES - 1 \in Int
    BY GeometryAssumption
  <2>2. IsFiniteSet(Pages)
    BY <2>1, FS_Interval DEF Pages
  <2>3. S \subseteq Pages
    BY GeometryAssumption
  <2> QED
    BY <2>2, <2>3, FS_Subset, FS_CardinalityType
<1>2. S # {}
  <2>1. Cardinality({}) = 0
    BY FS_EmptySet
  <2> QED
    BY <2>1 DEF Short
<1>3. ASSUME dir[Table(p)] = NoEntry, NEW f \in Pool
      PROVE  Pool \ (used \cup {f}) # {}
  <2>1. Cardinality(S) >= 2
    BY <1>1, <1>3 DEF Short
  <2>2. S # {f}
    <3>1. Cardinality({f}) = 1
      BY FS_Singleton
    <3> QED
      BY <2>1, <3>1
  <2> QED
    BY <1>2, <2>2
<1> QED
  BY <1>2, <1>3

-----------------------------------------------------------------------------
(***************************************************************************)
(* What the tables say.                                                    *)
(***************************************************************************)
\* The directory leads to tables, one for each entry that is present, and
\* those are the entries with a frame.
LEMMA TablesReached ==
  ASSUME PagingInv, NEW t \in Tables
  PROVE  /\ dir[t] \in [frame : Pages \cup {-1}, user : BOOLEAN]
         /\ Present(t) => dir[t].frame \in Pages
         /\ t \in Filled => Present(t)
<1>1. dir[t] \in [frame : Pages \cup {-1}, user : BOOLEAN]
  BY DEF PagingInv, TypeOK
<1>2. used \subseteq Pages
  BY WatchedPages DEF PagingInv, TypeOK
<1>3. CASE t \in Filled
  <2>1. dir[t].frame = TableFrame(t) /\ TableFrame(t) \in Pages
    BY <1>3, LayoutAssumption DEF PagingInv, DirInv
  <2>2. TableFrame(t) # -1
    BY <2>1, GeometryAssumption DEF Pages
  <2> QED
    BY <1>1, <2>1, <2>2 DEF Present, NoEntry
<1>4. CASE t \notin Filled
  BY <1>1, <1>2, <1>4 DEF Present, PagingInv, DirInv
<1> QED
  BY <1>3, <1>4

\* Tables and frames have no number -1.
LEMMA PagesAreNat == Pages \subseteq Nat /\ -1 \notin Pages
BY GeometryAssumption DEF Pages

\* The processor's walk, where the directory has a table and where it has none.
LEMMA WalkEntry ==
  ASSUME PagingInv, NEW p \in Pages
  PROVE  /\ Present(Table(p)) =>
              /\ Walk(p).frame = mem[dir[Table(p)].frame][Index(p)].frame
              /\ Walk(p).user = (dir[Table(p)].user
                                   /\ mem[dir[Table(p)].frame][Index(p)].user)
         /\ ~Present(Table(p)) => Walk(p) = NoEntry
BY DEF Walk, Present, Entry, Index

\* A walk that finds a page finds what the kernel asked for, and lets a program
\* in only if that was asked for.
LEMMA WalkAsked ==
  ASSUME PagingInv, NEW p \in Mappable
  PROVE  /\ Walk(p).frame = asked[p].frame
         /\ Walk(p).user => asked[p].user
<1>1. p \in Pages /\ asked[p] = IF Present(Table(p))
                                 THEN mem[dir[Table(p)].frame][Index(p)]
                                 ELSE NoEntry
  BY WatchedPages DEF PagingInv, AskedInv
<1>2. CASE Present(Table(p))
  BY <1>1, <1>2, WalkEntry
<1>3. CASE ~Present(Table(p))
  BY <1>1, <1>3, WalkEntry
<1> QED
  BY <1>2, <1>3

\* A page that is never mapped anew leads to the frame of its number, and no
\* program uses it.
LEMMA WalkIdentity ==
  ASSUME PagingInv, NEW p \in Pages \ Mappable, Table(p) \in Filled
  PROVE  Walk(p).frame = p /\ ~Walk(p).user
<1>1. Table(p) \in Tables
  BY PageParts
<1>2. Present(Table(p)) /\ dir[Table(p)].frame = TableFrame(Table(p))
  BY <1>1, TablesReached DEF PagingInv, DirInv
<1>3. mem[dir[Table(p)].frame][Index(p)] = Entry(p, FALSE)
  BY <1>2 DEF PagingInv, IdentityInv
<1>4. Entry(p, FALSE).frame = p /\ Entry(p, FALSE).user = FALSE
  BY DEF Entry
<1>5. /\ Walk(p).frame = mem[dir[Table(p)].frame][Index(p)].frame
      /\ Walk(p).user = (dir[Table(p)].user
                           /\ mem[dir[Table(p)].frame][Index(p)].user)
  BY <1>2, WalkEntry
<1> QED
  BY <1>3, <1>4, <1>5

\* The same with the TLB.
LEMMA TranslationRight ==
  ASSUME PagingInv, NEW p
  PROVE  /\ Translation(p).frame = Walk(p).frame
         /\ Translation(p).user => Walk(p).user
BY DEF Translation, PagingInv, TlbInv

\* The pages through which tables are edited are not mapped anew, whichever
\* table it is.
LEMMA EditedPages ==
  ASSUME NEW f \in EditedThrough
  PROVE  f \in Pages \ Mappable /\ Table(f) \in Filled
BY LayoutAssumption DEF EditedThrough

\* get_page reaches a table through the page that has its frame's number: one
\* that paging_init filled, or one in a frame of the pool.
LEMMA TableEdited ==
  ASSUME PagingInv, NEW p \in Mappable,
         NEW f, \/ Table(p) \in Filled /\ f = TableFrame(Table(p))
                \/ Table(p) \notin Filled /\ f \in Pool
  PROVE  Translation(f).frame = f
<1>1. CASE Table(p) \in Filled /\ f = TableFrame(Table(p))
  <2>1. f \in EditedThrough
    BY <1>1 DEF EditedThrough
  <2> QED
    BY <2>1, EditedPages, WalkIdentity, TranslationRight
<1>2. CASE Table(p) \notin Filled /\ f \in Pool
  <2>1. f \in Pages \ Mappable /\ Table(f) \in Filled
    BY <1>2, WatchedPages, LayoutAssumption, GeometryAssumption
  <2> QED
    BY <2>1, WalkIdentity, TranslationRight
<1> QED
  BY <1>1, <1>2

-----------------------------------------------------------------------------
(***************************************************************************)
(* What map_page does.                                                     *)
(***************************************************************************)
NewFrame == NextFrame(used)
Makes(p) == dir[Table(p)] = NoEntry
TableFor(p) ==
  IF Makes(p) THEN NextFrame(used \cup {NewFrame}) ELSE dir[Table(p)].frame
Edited(p, e) ==
  [i \in 0 .. ENTRIES - 1 |->
     IF i = Index(p) THEN e
       ELSE IF Makes(p) THEN NoEntry ELSE mem[TableFor(p)][i]]

\* The frame is free; so is the table's, where one is needed, and otherwise the
\* table is the one the directory has.  Either way get_page reaches it.
LEMMA MapPageFrames ==
  ASSUME PagingInv, NEW p \in Mappable, ~Short(p)
  PROVE  /\ NewFrame \in Pool \ used
         /\ Makes(p) => TableFor(p) \in Pool \ (used \cup {NewFrame})
         /\ ~Makes(p) => TableFor(p) = dir[Table(p)].frame
         /\ TableFor(p) \in Pages
         /\ Translation(TableFor(p)).frame = TableFor(p)
         /\ \A t \in Tables \ {Table(p)} :
              Present(t) => dir[t].frame # TableFor(p)
         /\ \A t \in Tables : dir[t].frame # NewFrame
         /\ NewFrame # TableFor(p)
<1> DEFINE t == Table(p)
<1>1. p \in Pages /\ t \in Tables
  BY WatchedPages, PageParts
<1>2. used \subseteq Pool
  BY DEF PagingInv, TypeOK
<1>3. NewFrame \in Pool \ used
  BY <1>2, EnoughFrames, NextFrameIs DEF NewFrame
<1>4. \A s \in Tables : dir[s].frame \notin Pool \ used
  <2>1. \A s \in Filled : dir[s].frame \notin Pool
    BY GeometryAssumption DEF PagingInv, DirInv
  <2>2. ASSUME NEW s \in Tables, ~Present(s)
        PROVE  dir[s].frame \notin Pool
    BY <2>2, PagesAreNat, WatchedPages DEF Present, NoEntry
  <2> QED
    BY <2>1, <2>2 DEF PagingInv, DirInv
<1>5. CASE Makes(p)
  <2>1. TableFor(p) \in Pool \ (used \cup {NewFrame})
    <3>1. used \cup {NewFrame} \in SUBSET Pool
      BY <1>2, <1>3
    <3>2. Pool \ (used \cup {NewFrame}) # {}
      BY <1>2, <1>3, <1>5, EnoughFrames DEF Makes
    <3> QED
      BY <3>1, <3>2, <1>5, NextFrameIs DEF TableFor
  <2>2. t \notin Filled
    BY <1>1, <1>5, TablesReached DEF Makes, Present
  <2> QED
    BY <1>3, <1>4, <1>5, <2>1, <2>2, TableEdited, WatchedPages
<1>6. CASE ~Makes(p)
  <2>1. TableFor(p) = dir[t].frame /\ Present(t) /\ dir[t].frame \in Pages
    BY <1>1, <1>6, TablesReached DEF TableFor, Makes, Present
  <2>2. \/ t \in Filled /\ dir[t].frame = TableFrame(t)
        \/ t \notin Filled /\ dir[t].frame \in Pool
    BY <1>1, <1>2, <2>1 DEF PagingInv, DirInv
  <2>3. Translation(dir[t].frame).frame = dir[t].frame
    BY <2>2, TableEdited
  <2>4. \A s \in Tables \ {t} : Present(s) => dir[s].frame # dir[t].frame
    BY <1>1, <2>1 DEF PagingInv, DirInv
  <2> QED
    BY <1>1, <1>3, <1>4, <1>6, <2>1, <2>3, <2>4
<1> QED
  BY <1>5, <1>6

\* The entry is the only change to the tables, apart from the empty table that
\* may have been made.
LEMMA MapPageMem ==
  ASSUME PagingInv, NEW p \in Mappable, NEW user \in BOOLEAN,
         MapPage(p, user)
  PROVE  /\ used' = used \cup {NewFrame} \cup IF Makes(p) THEN {TableFor(p)}
                                                ELSE {}
         /\ dir' = [dir EXCEPT ![Table(p)] = Entry(TableFor(p), TRUE)]
         /\ mem' = [mem EXCEPT ![TableFor(p)] =
                      Edited(p, Entry(NewFrame, user))]
         /\ tlb' = [tlb EXCEPT ![p] = NoEntry]
         /\ asked' = [asked EXCEPT ![p] = Entry(NewFrame, user)]
<1> DEFINE f == TableFor(p)
           e == Entry(NewFrame, user)
           before == IF Makes(p) THEN NewTable(f) ELSE mem
<1>1. /\ used' = used \cup {NewFrame} \cup IF Makes(p) THEN {f} ELSE {}
      /\ dir' = [dir EXCEPT ![Table(p)] = Entry(f, TRUE)]
      /\ mem' = [before EXCEPT ![Translation(f).frame][p % ENTRIES] = e]
      /\ tlb' = [tlb EXCEPT ![p] = NoEntry]
      /\ asked' = [asked EXCEPT ![p] = e]
      /\ ~Short(p)
  BY DEF MapPage, NewFrame, Makes, TableFor, Flushed, Entry
<1>2. Translation(f).frame = f /\ f \in Pages
  BY <1>1, MapPageFrames
<1>3. mem \in [Pages -> [0 .. ENTRIES - 1 -> 
                          [frame : Pages \cup {-1}, user : BOOLEAN]]]
  BY DEF PagingInv, TypeOK
<1>4. Index(p) \in 0 .. ENTRIES - 1
  BY WatchedPages, PageParts
<1> HIDE DEF f, e
<1>5. CASE Makes(p)
  <2>1. mem' = [[mem EXCEPT ![f] = [i \in 0 .. ENTRIES - 1 |-> NoEntry]]
                 EXCEPT ![f][Index(p)] = e]
    BY <1>1, <1>2, <1>5 DEF NewTable, Index
  <2> QED
    BY <2>1, <1>1, <1>2, <1>3, <1>4, <1>5 DEF f, e, Edited
<1>6. CASE ~Makes(p)
  <2>1. mem' = [mem EXCEPT ![f][Index(p)] = e]
    BY <1>1, <1>2, <1>6 DEF Index
  <2> QED
    BY <2>1, <1>1, <1>2, <1>3, <1>4, <1>6 DEF f, e, Edited
<1> QED
  BY <1>5, <1>6

\* What the tables say of the page itself.
LEMMA MappedEntry ==
  ASSUME PagingInv, NEW p \in Mappable, NEW user \in BOOLEAN,
         MapPage(p, user)
  PROVE  /\ dir'[Table(p)] = Entry(TableFor(p), TRUE)
         /\ Present(Table(p))'
         /\ mem'[TableFor(p)][Index(p)] = Entry(NewFrame, user)
<1>1. dir \in [Tables -> [frame : Pages \cup {-1}, user : BOOLEAN]]
      /\ mem \in [Pages -> [0 .. ENTRIES - 1 ->
                              [frame : Pages \cup {-1}, user : BOOLEAN]]]
  BY DEF PagingInv, TypeOK
<1>2. Table(p) \in Tables /\ Index(p) \in 0 .. ENTRIES - 1
  BY WatchedPages, PageParts
<1>3. TableFor(p) \in Pages /\ TableFor(p) # -1
  BY MapPageFrames, PagesAreNat DEF MapPage
<1>4. Entry(TableFor(p), TRUE) # NoEntry
  BY <1>3 DEF Entry, NoEntry
<1>5. dir'[Table(p)] = Entry(TableFor(p), TRUE)
  BY <1>1, <1>2, MapPageMem
<1>6. mem' = [mem EXCEPT ![TableFor(p)] = Edited(p, Entry(NewFrame, user))]
  BY MapPageMem, Zenon
<1>7. mem'[TableFor(p)][Index(p)] = Entry(NewFrame, user)
  BY <1>1, <1>2, <1>3, <1>6 DEF Edited
<1> QED
  BY <1>4, <1>5, <1>7 DEF Present

\* Of any other page they say what they said; only a table that is made tells
\* the processor that its other pages are not there.
LEMMA OtherEntries ==
  ASSUME PagingInv, NEW p \in Mappable, NEW user \in BOOLEAN,
         MapPage(p, user),
         NEW q \in Pages, q # p
  PROVE  /\ Present(Table(q)) =>
              /\ Present(Table(q))'
              /\ dir'[Table(q)].frame = dir[Table(q)].frame
              /\ dir[Table(q)].user => dir'[Table(q)].user
              /\ mem'[dir[Table(q)].frame][Index(q)]
                   = mem[dir[Table(q)].frame][Index(q)]
         /\ ~Present(Table(q)) =>
              IF Table(q) = Table(p)
                THEN mem'[dir'[Table(q)].frame][Index(q)] = NoEntry
                ELSE ~Present(Table(q))'
<1>1. dir \in [Tables -> [frame : Pages \cup {-1}, user : BOOLEAN]]
      /\ mem \in [Pages -> [0 .. ENTRIES - 1 ->
                              [frame : Pages \cup {-1}, user : BOOLEAN]]]
  BY DEF PagingInv, TypeOK
<1>2. /\ Table(p) \in Tables /\ Index(p) \in 0 .. ENTRIES - 1
      /\ Table(q) \in Tables /\ Index(q) \in 0 .. ENTRIES - 1
      /\ p \in Pages
  BY WatchedPages, PageParts
<1>3. TableFor(p) \in Pages /\ (~Makes(p) => TableFor(p) = dir[Table(p)].frame)
      /\ \A t \in Tables \ {Table(p)} :
           Present(t) => dir[t].frame # TableFor(p)
  BY MapPageFrames DEF MapPage
<1>4. /\ dir' = [dir EXCEPT ![Table(p)] = Entry(TableFor(p), TRUE)]
      /\ mem' = [mem EXCEPT ![TableFor(p)] =
                   Edited(p, Entry(NewFrame, user))]
  BY MapPageMem, Zenon
<1>5. /\ dir'[Table(p)] = Entry(TableFor(p), TRUE)
      /\ Present(Table(p))'
      /\ Entry(TableFor(p), TRUE).frame = TableFor(p)
      /\ Entry(TableFor(p), TRUE).user = TRUE
  BY MappedEntry DEF Entry
<1>6. \A t \in Tables \ {Table(p)} : dir'[t] = dir[t]
  BY <1>1, <1>4
<1>7. \A f \in Pages \ {TableFor(p)} : mem'[f] = mem[f]
  BY <1>1, <1>4
<1>8. CASE Table(q) = Table(p)
  <2>1. Index(q) # Index(p)
    BY <1>2, <1>8, OnePage
  <2>2. mem'[TableFor(p)][Index(q)]
          = IF Makes(p) THEN NoEntry ELSE mem[TableFor(p)][Index(q)]
    BY <1>1, <1>2, <1>3, <1>4, <2>1 DEF Edited
  <2> QED
    BY <1>3, <1>5, <1>8, <2>2 DEF Makes, Present
<1>9. CASE Table(q) # Table(p)
  <2>1. dir'[Table(q)] = dir[Table(q)]
    BY <1>2, <1>6, <1>9
  <2>2. Present(Table(q)) => dir[Table(q)].frame \in Pages \ {TableFor(p)}
    BY <1>2, <1>3, <1>9, TablesReached
  <2> QED
    BY <1>7, <1>9, <2>1, <2>2 DEF Present
<1> QED
  BY <1>8, <1>9

\* Nor do the translations of other pages change, except that a table that one
\* of them was mapped through may become accessible to programs.
LEMMA OtherWalks ==
  ASSUME PagingInv, NEW p \in Mappable, NEW user \in BOOLEAN,
         MapPage(p, user),
         NEW q \in Pages, q # p
  PROVE  /\ Walk(q).frame # -1 => Walk(q)'.frame = Walk(q).frame
         /\ Walk(q).user => Walk(q)'.user
<1>1. CASE Present(Table(q))
  <2>1. /\ Walk(q).frame = mem[dir[Table(q)].frame][Index(q)].frame
        /\ Walk(q).user = (dir[Table(q)].user
                             /\ mem[dir[Table(q)].frame][Index(q)].user)
    BY <1>1, WalkEntry
  <2>2. /\ Present(Table(q))'
        /\ dir'[Table(q)].frame = dir[Table(q)].frame
        /\ dir[Table(q)].user => dir'[Table(q)].user
        /\ mem'[dir[Table(q)].frame][Index(q)]
             = mem[dir[Table(q)].frame][Index(q)]
    BY <1>1, OtherEntries
  <2>3. Walk(q)' = Entry(mem'[dir'[Table(q)].frame][Index(q)].frame,
                         dir'[Table(q)].user
                           /\ mem'[dir'[Table(q)].frame][Index(q)].user)
    BY <2>2 DEF Walk, Present, Index
  <2>4. /\ Walk(q)'.frame = mem'[dir'[Table(q)].frame][Index(q)].frame
        /\ Walk(q)'.user = (dir'[Table(q)].user
                              /\ mem'[dir'[Table(q)].frame][Index(q)].user)
    BY <2>3 DEF Entry
  <2> QED
    BY <2>1, <2>2, <2>4
<1>2. CASE ~Present(Table(q))
  <2>1. Walk(q) = NoEntry
    BY <1>2, WalkEntry
  <2> QED
    BY <2>1 DEF NoEntry
<1> QED
  BY <1>1, <1>2

-----------------------------------------------------------------------------
(***************************************************************************)
(* map_page preserves the invariant, part by part.                         *)
(***************************************************************************)
LEMMA MapPageTypes ==
  ASSUME PagingInv, NEW p \in Mappable, NEW user \in BOOLEAN,
         MapPage(p, user)
  PROVE  /\ dir' \in [Tables -> [frame : Pages \cup {-1}, user : BOOLEAN]]
         /\ mem' \in [Pages -> [0 .. ENTRIES - 1 ->
                                [frame : Pages \cup {-1}, user : BOOLEAN]]]
         /\ tlb' \in [Watched -> [frame : Pages \cup {-1}, user : BOOLEAN]]
         /\ used' \subseteq Pool /\ used \subseteq used'
         /\ asked' \in [Mappable -> [frame : Pages \cup {-1}, user : BOOLEAN]]
<1> DEFINE entries == [frame : Pages \cup {-1}, user : BOOLEAN]
<1>1. /\ dir \in [Tables -> entries]
      /\ mem \in [Pages -> [0 .. ENTRIES - 1 -> entries]]
      /\ tlb \in [Watched -> entries]
      /\ used \subseteq Pool
      /\ asked \in [Mappable -> entries]
  BY DEF PagingInv, TypeOK
<1>2. /\ NewFrame \in Pool /\ TableFor(p) \in Pages
      /\ Makes(p) => TableFor(p) \in Pool
  BY MapPageFrames DEF MapPage
<1>3. /\ Entry(NewFrame, user) \in entries
      /\ Entry(TableFor(p), TRUE) \in entries
      /\ NoEntry \in entries
  BY <1>2, WatchedPages DEF Entry, NoEntry
<1> HIDE DEF entries
<1>4. Edited(p, Entry(NewFrame, user)) \in [0 .. ENTRIES - 1 -> entries]
  BY <1>1, <1>2, <1>3 DEF Edited
<1>5. /\ used' = used \cup {NewFrame} \cup IF Makes(p) THEN {TableFor(p)}
                                             ELSE {}
      /\ dir' = [dir EXCEPT ![Table(p)] = Entry(TableFor(p), TRUE)]
      /\ mem' = [mem EXCEPT ![TableFor(p)] = Edited(p, Entry(NewFrame, user))]
      /\ tlb' = [tlb EXCEPT ![p] = NoEntry]
      /\ asked' = [asked EXCEPT ![p] = Entry(NewFrame, user)]
  BY MapPageMem, Zenon
<1>6. dir' \in [Tables -> entries]
  BY <1>1, <1>3, <1>5
<1>7. mem' \in [Pages -> [0 .. ENTRIES - 1 -> entries]]
  BY <1>1, <1>4, <1>5
<1>8. tlb' \in [Watched -> entries] /\ asked' \in [Mappable -> entries]
  BY <1>1, <1>3, <1>5
<1>9. used' \subseteq Pool /\ used \subseteq used'
  BY <1>1, <1>2, <1>5
<1> QED
  BY <1>6, <1>7, <1>8, <1>9 DEF entries

\* The directory still leads to a table of its own for each entry.
LEMMA MapPageDir ==
  ASSUME PagingInv, NEW p \in Mappable, NEW user \in BOOLEAN,
         MapPage(p, user)
  PROVE  DirInv'
<1> DEFINE t == Table(p)
           f == TableFor(p)
<1>1. dir \in [Tables -> [frame : Pages \cup {-1}, user : BOOLEAN]]
  BY DEF PagingInv, TypeOK
<1>2. t \in Tables
  BY WatchedPages, PageParts
<1>3. /\ Makes(p) => f \in used'
      /\ ~Makes(p) => f = dir[t].frame
      /\ \A s \in Tables \ {t} : Present(s) => dir[s].frame # f
  BY MapPageFrames, MapPageMem DEF MapPage
<1>4. /\ dir'[t].frame = f /\ Present(t)'
      /\ \A s \in Tables \ {t} :
           dir'[s] = dir[s] /\ (Present(s)' <=> Present(s))
  <2>1. dir' = [dir EXCEPT ![t] = Entry(f, TRUE)]
    BY MapPageMem, Zenon
  <2>2. dir'[t] = Entry(f, TRUE) /\ \A s \in Tables \ {t} : dir'[s] = dir[s]
    BY <1>1, <1>2, <2>1
  <2>3. Present(t)'
    BY MappedEntry
  <2> QED
    BY <2>2, <2>3 DEF Entry, Present
<1>5. used \subseteq used'
  BY MapPageTypes
<1>6. t \in Filled => ~Makes(p)
  BY <1>2, TablesReached DEF Makes, Present
<1>7. Makes(p) = ~Present(t)
  BY DEF Makes, Present
<1> HIDE DEF t, f
<1>8. \A s \in Filled : dir'[s].frame = TableFrame(s)
  BY <1>3, <1>4, <1>6, GeometryAssumption DEF PagingInv, DirInv, Filled, Tables
<1>9. \A s \in Tables \ Filled : Present(s)' => dir'[s].frame \in used'
  BY <1>3, <1>4, <1>5, <1>7 DEF PagingInv, DirInv
<1>10. \A r, s \in Tables :
         Present(r)' /\ Present(s)' /\ r # s => dir'[r].frame # dir'[s].frame
  BY <1>3, <1>4 DEF PagingInv, DirInv
<1> QED
  BY <1>8, <1>9, <1>10 DEF DirInv, Present

\* An edit does not reach the entries of pages that are never mapped anew.
LEMMA MapPageIdentity ==
  ASSUME PagingInv, NEW p \in Mappable, NEW user \in BOOLEAN,
         MapPage(p, user)
  PROVE  IdentityInv'
<1>1. SUFFICES ASSUME NEW q \in Pages \ Mappable, Table(q) \in Filled
               PROVE  mem'[TableFrame(Table(q))][Index(q)] = Entry(q, FALSE)
  BY <1>1 DEF IdentityInv
<1>2. Table(q) \in Tables /\ Present(Table(q))
      /\ dir[Table(q)].frame = TableFrame(Table(q))
  BY <1>1, PageParts, TablesReached DEF PagingInv, DirInv
<1> QED
  BY <1>1, <1>2, OtherEntries DEF PagingInv, IdentityInv

\* Nor what another page was asked for.
LEMMA MapPageAsked ==
  ASSUME PagingInv, NEW p \in Mappable, NEW user \in BOOLEAN,
         MapPage(p, user)
  PROVE  AskedInv'
<1>1. asked \in [Mappable -> [frame : Pages \cup {-1}, user : BOOLEAN]]
  BY DEF PagingInv, TypeOK
<1>2. asked' = [asked EXCEPT ![p] = Entry(NewFrame, user)]
  BY MapPageMem
<1>3. SUFFICES ASSUME NEW q \in Mappable
               PROVE  asked'[q] = IF Present(Table(q))'
                                    THEN mem'[dir'[Table(q)].frame][Index(q)]
                                    ELSE NoEntry
  BY <1>3 DEF AskedInv, Present
<1>4. CASE q = p
  <2>1. Entry(TableFor(p), TRUE).frame = TableFor(p)
    BY DEF Entry
  <2> QED
    BY <1>1, <1>2, <1>4, <2>1, MappedEntry
<1>5. CASE q # p
  <2>1. asked'[q] = asked[q] /\ q \in Pages
    BY <1>1, <1>2, <1>5, WatchedPages
  <2>2. asked[q] = IF Present(Table(q)) THEN mem[dir[Table(q)].frame][Index(q)]
                   ELSE NoEntry
    BY DEF PagingInv, AskedInv
  <2>3. CASE Present(Table(q))
    BY <1>5, <2>1, <2>2, <2>3, OtherEntries
  <2>4. CASE ~Present(Table(q))
    BY <1>5, <2>1, <2>2, <2>4, OtherEntries
  <2> QED
    BY <2>3, <2>4
<1> QED
  BY <1>4, <1>5

\* What programs may use is theirs: the frame is new, and no table is made in a
\* frame that is used.
LEMMA MapPageUser ==
  ASSUME PagingInv, NEW p \in Mappable, NEW user \in BOOLEAN,
         MapPage(p, user), user => p \in UserPages
  PROVE  UserInv'
<1>1. /\ asked \in [Mappable -> [frame : Pages \cup {-1}, user : BOOLEAN]]
      /\ dir \in [Tables -> [frame : Pages \cup {-1}, user : BOOLEAN]]
  BY DEF PagingInv, TypeOK
<1>2. /\ asked' = [asked EXCEPT ![p] = Entry(NewFrame, user)]
      /\ Entry(NewFrame, user).frame = NewFrame
      /\ Entry(NewFrame, user).user = user
      /\ NewFrame \in used' /\ used \subseteq used'
  BY MapPageMem DEF Entry
<1>3. /\ NewFrame # TableFor(p)
      /\ \A t \in Tables : dir[t].frame # NewFrame
      /\ Makes(p) => TableFor(p) \notin used
      /\ ~Makes(p) => TableFor(p) = dir[Table(p)].frame
      /\ Table(p) \in Tables
  BY MapPageFrames, WatchedPages, PageParts DEF MapPage
<1>4. \A t \in Tables : dir'[t].frame = IF t = Table(p) THEN TableFor(p)
                                        ELSE dir[t].frame
  <2>1. dir' = [dir EXCEPT ![Table(p)] = Entry(TableFor(p), TRUE)]
    BY MapPageMem, Zenon
  <2> QED
    BY <1>1, <2>1 DEF Entry
<1>5. SUFFICES ASSUME NEW q \in Mappable, asked'[q].user
               PROVE  /\ q \in UserPages /\ asked'[q].frame \in used'
                      /\ \A t \in Tables : dir'[t].frame # asked'[q].frame
  BY <1>5 DEF UserInv
<1>6. CASE q = p
  <2>1. asked'[q] = Entry(NewFrame, user)
    BY <1>1, <1>2, <1>6
  <2> QED
    BY <1>2, <1>3, <1>4, <1>5, <1>6, <2>1
<1>7. CASE q # p
  <2>1. asked'[q] = asked[q]
    BY <1>1, <1>2, <1>7
  <2>2. /\ q \in UserPages /\ asked[q].frame \in used
        /\ \A t \in Tables : dir[t].frame # asked[q].frame
    BY <1>5, <2>1 DEF PagingInv, UserInv
  <2> QED
    BY <1>2, <1>3, <1>4, <2>1, <2>2
<1> QED
  BY <1>6, <1>7

\* The one translation that becomes wrong is flushed.
LEMMA MapPageTlb ==
  ASSUME PagingInv, NEW p \in Mappable, NEW user \in BOOLEAN,
         MapPage(p, user)
  PROVE  TlbInv'
<1>1. tlb \in [Watched -> [frame : Pages \cup {-1}, user : BOOLEAN]]
      /\ tlb' = [tlb EXCEPT ![p] = NoEntry]
  BY MapPageMem DEF PagingInv, TypeOK
<1>2. SUFFICES ASSUME NEW q \in Watched, tlb'[q] # NoEntry
               PROVE  /\ tlb'[q].frame = Walk(q)'.frame
                      /\ Walk(q)'.frame # -1
                      /\ tlb'[q].user => Walk(q)'.user
  BY <1>2 DEF TlbInv
<1>3. q # p /\ tlb'[q] = tlb[q] /\ q \in Pages
  BY <1>1, <1>2, WatchedPages
<1>4. /\ tlb[q].frame = Walk(q).frame /\ Walk(q).frame # -1
      /\ tlb[q].user => Walk(q).user
  BY <1>2, <1>3 DEF PagingInv, TlbInv
<1> QED
  BY <1>3, <1>4, OtherWalks

LEMMA MapPageStep ==
  ASSUME PagingInv, NEW p \in Mappable, NEW user \in BOOLEAN,
         MapPage(p, user), user => p \in UserPages,
         fault' \in [page : Pages \cup {-1}, user : BOOLEAN],
         pc' \in {"run", "fault", "retry", "panic", "oom"}
  PROVE  PagingInv'
<1>1. TypeOK'
  BY MapPageTypes DEF TypeOK
<1> QED
  BY <1>1, MapPageDir, MapPageIdentity, MapPageAsked, MapPageUser, MapPageTlb
     DEF PagingInv

-----------------------------------------------------------------------------
(***************************************************************************)
(* The machine.                                                            *)
(***************************************************************************)
\* paging_init: the identity map, and an empty TLB.
LEMMA InitInv == Init => PagingInv
<1> SUFFICES ASSUME Init
             PROVE  PagingInv
  OBVIOUS
<1> DEFINE entries == [frame : Pages \cup {-1}, user : BOOLEAN]
<1>1. \A t \in Tables :
        dir[t] = IF t \in Filled
                   THEN Entry(TableFrame(t), t * ENTRIES >= USER_FLOOR)
                   ELSE NoEntry
  BY DEF Init
<1>2. \A t \in Filled :
        /\ t \in Tables /\ TableFrame(t) \in Pages
        /\ TableFrame(t) - PAGE_TABLES = t
  BY GeometryAssumption, LayoutAssumption DEF Filled, Tables, TableFrame
<1>3. \A t \in Tables : t \in Filled <=> Present(t)
  <2>1. \A t \in Filled :
          Entry(TableFrame(t), t * ENTRIES >= USER_FLOOR) # NoEntry
    BY <1>2, PagesAreNat DEF Entry, NoEntry
  <2> QED
    BY <1>1, <1>2, <2>1 DEF Present
<1>4. \A p \in Pages : Table(p) \in Filled =>
        mem[TableFrame(Table(p))][Index(p)] = Entry(p, FALSE)
  <2>1. SUFFICES ASSUME NEW p \in Pages, Table(p) \in Filled
                 PROVE  mem[TableFrame(Table(p))][Index(p)] = Entry(p, FALSE)
    OBVIOUS
  <2>2. mem[TableFrame(Table(p))]
          = [i \in 0 .. ENTRIES - 1 |-> Entry(Table(p) * ENTRIES + i, FALSE)]
    BY <1>2, <2>1 DEF Init
  <2> QED
    BY <2>2, PageParts
<1>5. TypeOK
  <2>1. \A n \in Pages, u \in BOOLEAN : Entry(n, u) \in entries
    BY DEF Entry
  <2>2. NoEntry \in entries /\ Garbage \in entries
    <3>1. 0 \in Pages
      BY GeometryAssumption DEF Pages
    <3> QED
      BY <3>1 DEF NoEntry, Garbage, Entry
  <2> HIDE DEF entries
  <2>3. \A f \in Pages, i \in 0 .. ENTRIES - 1 :
          f - PAGE_TABLES \in Filled =>
            (f - PAGE_TABLES) * ENTRIES + i \in Pages
    <3>1. SUFFICES ASSUME NEW t \in Filled, NEW i \in 0 .. ENTRIES - 1
                   PROVE  t * ENTRIES + i \in Pages
      OBVIOUS
    <3>2. t \in Nat /\ t <= DIR_ENTRIES - 1
      BY GeometryAssumption DEF Filled
    <3>3. /\ t * ENTRIES \in Nat
          /\ t * ENTRIES <= (DIR_ENTRIES - 1) * ENTRIES
          /\ (DIR_ENTRIES - 1) * ENTRIES = DIR_ENTRIES * ENTRIES - ENTRIES
      BY <3>2, GeometryAssumption
    <3> QED
      BY <3>3, GeometryAssumption DEF Pages
  <2>4. dir \in [Tables -> entries]
    <3>1. \A t \in Filled : (t * ENTRIES >= USER_FLOOR) \in BOOLEAN
      OBVIOUS
    <3>2. \A t \in Filled :
            Entry(TableFrame(t), t * ENTRIES >= USER_FLOOR) \in entries
      BY <1>2, <2>1, <3>1, Zenon
    <3> QED
      BY <2>2, <3>2 DEF Init
  <2>5. mem \in [Pages -> [0 .. ENTRIES - 1 -> entries]]
    BY <2>1, <2>2, <2>3 DEF Init
  <2>6. tlb \in [Watched -> entries] /\ used = {} /\ pc = "run"
    BY <2>2 DEF Init
  <2>7. asked \in [Mappable -> entries]
    BY <2>1, <2>2, WatchedPages DEF Init
  <2>8. fault \in [page : Pages \cup {-1}, user : BOOLEAN]
    BY DEF Init, NoFault
  <2> QED
    BY <2>4, <2>5, <2>6, <2>7, <2>8 DEF TypeOK, entries
<1>6. \A t \in Filled : dir[t].frame = TableFrame(t)
  <2>1. \A n, u : Entry(n, u).frame = n
    BY DEF Entry
  <2>2. \A t \in Filled :
          dir[t] = Entry(TableFrame(t), t * ENTRIES >= USER_FLOOR)
    BY <1>1, <1>2
  <2> QED
    BY <2>1, <2>2
<1>7. DirInv
  BY <1>2, <1>3, <1>6, GeometryAssumption DEF DirInv, TableFrame, Filled
<1>8. IdentityInv
  BY <1>4 DEF IdentityInv
<1>9. AskedInv
  BY <1>3, <1>4, <1>6, WatchedPages, PageParts DEF AskedInv, Init
<1>10. UserInv
  BY DEF UserInv, Init, Entry, NoEntry
<1>11. TlbInv
  BY DEF TlbInv, Init
<1> QED
  BY <1>5, <1>7, <1>8, <1>9, <1>10, <1>11 DEF PagingInv

\* Every page that is mapped is one that may be.
LEMMA MappablePages ==
  KernelPages \subseteq Mappable /\ UserPages \subseteq Mappable
    /\ USER_FLOOR \in Mappable
BY DEF Mappable

LEMMA StepInv == PagingInv /\ [Next]_vars => PagingInv'
<1> SUFFICES ASSUME PagingInv, [Next]_vars
             PROVE  PagingInv'
  OBVIOUS
<1> DEFINE memory == <<dir, mem, tlb, used, asked>>
<1>1. /\ fault \in [page : Pages \cup {-1}, user : BOOLEAN]
      /\ pc \in {"run", "fault", "retry", "panic", "oom"}
  BY DEF PagingInv, TypeOK
<1>2. ASSUME UNCHANGED memory,
             fault' \in [page : Pages \cup {-1}, user : BOOLEAN],
             pc' \in {"run", "fault", "retry", "panic", "oom"}
      PROVE  PagingInv'
  <2>1. TypeOK'
    BY <1>2 DEF PagingInv, TypeOK
  <2> QED
    BY <1>2, <2>1
       DEF PagingInv, DirInv, IdentityInv, AskedInv, UserInv, TlbInv, Present,
           Walk
<1>3. ASSUME NEW p \in Watched, TlbFill(p) \/ TlbEvict(p)
      PROVE  PagingInv'
  <2>1. UNCHANGED <<dir, mem, used, asked, fault, pc>>
    BY <1>3 DEF TlbFill, TlbEvict
  <2>2. \A q : Walk(q)' = Walk(q)
    BY <2>1 DEF Walk
  <2>3. /\ Walk(p) \in [frame : Pages \cup {-1}, user : BOOLEAN]
        /\ NoEntry \in [frame : Pages \cup {-1}, user : BOOLEAN]
    <3>1. /\ p \in Pages /\ Table(p) \in Tables
          /\ Index(p) \in 0 .. ENTRIES - 1
      BY WatchedPages, PageParts
    <3>2. NoEntry \in [frame : Pages \cup {-1}, user : BOOLEAN]
      BY DEF NoEntry
    <3>3. CASE ~Present(Table(p))
      BY <3>1, <3>2, <3>3, WalkEntry
    <3>4. CASE Present(Table(p))
      <4>1. /\ dir[Table(p)].frame \in Pages
            /\ dir[Table(p)] \in [frame : Pages \cup {-1}, user : BOOLEAN]
        BY <3>1, <3>4, TablesReached
      <4>2. mem[dir[Table(p)].frame][Index(p)]
              \in [frame : Pages \cup {-1}, user : BOOLEAN]
        <5>1. mem \in [Pages -> [0 .. ENTRIES - 1 ->
                                  [frame : Pages \cup {-1}, user : BOOLEAN]]]
          BY DEF PagingInv, TypeOK
        <5> QED
          BY <3>1, <4>1, <5>1
      <4>3. Walk(p) = Entry(mem[dir[Table(p)].frame][Index(p)].frame,
                            dir[Table(p)].user
                              /\ mem[dir[Table(p)].frame][Index(p)].user)
        BY <3>4 DEF Walk, Present, Index
      <4>4. ASSUME NEW u \in BOOLEAN
            PROVE  Entry(mem[dir[Table(p)].frame][Index(p)].frame, u)
                     \in [frame : Pages \cup {-1}, user : BOOLEAN]
        BY <4>2 DEF Entry
      <4>5. (dir[Table(p)].user /\ mem[dir[Table(p)].frame][Index(p)].user)
              \in BOOLEAN
        OBVIOUS
      <4> QED
        BY <3>2, <4>3, <4>4, <4>5, Zenon
    <3> QED
      BY <3>2, <3>3, <3>4
  <2>4. tlb' \in [Watched -> [frame : Pages \cup {-1}, user : BOOLEAN]]
    BY <1>3, <2>3 DEF PagingInv, TypeOK, TlbFill, TlbEvict
  <2>5. TypeOK' /\ DirInv' /\ IdentityInv' /\ AskedInv' /\ UserInv'
    BY <2>1, <2>4
       DEF PagingInv, TypeOK, DirInv, IdentityInv, AskedInv, UserInv, Present
  <2>6. TlbInv'
    <3>1. SUFFICES ASSUME NEW q \in Watched, tlb'[q] # NoEntry
                   PROVE  /\ tlb'[q].frame = Walk(q).frame
                          /\ Walk(q).frame # -1
                          /\ tlb'[q].user => Walk(q).user
      BY <2>2, <3>1 DEF TlbInv
    <3>2. \/ tlb'[q] = tlb[q]
          \/ q = p /\ tlb'[q] = Walk(p) /\ Walk(p).frame # -1
      <4>1. tlb \in [Watched -> [frame : Pages \cup {-1}, user : BOOLEAN]]
        BY DEF PagingInv, TypeOK
      <4>2. CASE q = p
        BY <1>3, <3>1, <4>1, <4>2 DEF TlbFill, TlbEvict
      <4>3. CASE q # p
        BY <1>3, <3>1, <4>1, <4>3 DEF TlbFill, TlbEvict
      <4> QED
        BY <4>2, <4>3
    <3> QED
      BY <3>1, <3>2 DEF PagingInv, TlbInv
  <2> QED
    BY <2>5, <2>6 DEF PagingInv
<1>4. ASSUME NEW p \in KernelPages, MapKernelPage(p)
      PROVE  PagingInv'
  BY <1>1, <1>4, MapPageStep, MappablePages DEF MapKernelPage
<1>5. ASSUME NEW p \in UserPages, MapUserPage(p)
      PROVE  PagingInv'
  BY <1>1, <1>5, MapPageStep, MappablePages DEF MapUserPage
<1>6. ASSUME NEW p \in UserPages \cup {USER_FLOOR}, PageFault(p)
      PROVE  PagingInv'
  BY <1>2, <1>6, MappablePages, WatchedPages DEF PageFault
<1>7. CASE ResolveFault
  <2>1. MapPage(USER_FLOOR, FALSE) /\ fault' = fault /\ pc' = "retry"
    BY <1>7 DEF ResolveFault
  <2> QED
    BY <1>1, <2>1, MapPageStep, MappablePages
<1>8. CASE FailFault
  BY <1>1, <1>2, <1>8 DEF FailFault
<1>9. CASE Retry
  BY <1>1, <1>2, <1>9 DEF Retry, NoFault
<1>10. CASE OutOfMemory
  BY <1>1, <1>2, <1>10 DEF OutOfMemory
<1>11. CASE UNCHANGED vars
  BY <1>1, <1>2, <1>11 DEF vars
<1> QED
  BY <1>3, <1>4, <1>5, <1>6, <1>7, <1>8, <1>9, <1>10, <1>11 DEF Next

LEMMA Invariant == Spec => []PagingInv
<1> QED
  BY InitInv, StepInv, PTL DEF Spec

-----------------------------------------------------------------------------
(***************************************************************************)
(* The properties.                                                         *)
(***************************************************************************)
\* Tables, TLB and history stay what they are declared to be.
THEOREM TypeCorrect == Spec => []TypeOK
<1>1. PagingInv => TypeOK
  BY DEF PagingInv
<1> QED
  BY <1>1, Invariant, PTL

\* What the kernel mapped is what an access reaches, whatever was mapped before
\* and since and whatever the TLB holds: no map_page goes astray or undoes
\* another.
THEOREM MappingsKept == Spec => []MappingsHold
<1>1. PagingInv => MappingsHold
  BY WalkAsked, TranslationRight DEF MappingsHold
<1> QED
  BY <1>1, Invariant, PTL

\* A program reaches frames that alloc_frame gave out for pages of its own and
\* no page table, although get_page lets programs into every table it touches.
THEOREM OwnFramesOnly == Spec => []UserReachesOwnFrames
<1>1. ASSUME PagingInv, NEW p \in Watched, Translation(p).user
      PROVE  /\ p \in UserPages
             /\ Translation(p).frame \in used \ {dir[t].frame : t \in Tables}
  <2>1. Walk(p).user /\ Translation(p).frame = Walk(p).frame
    BY <1>1, TranslationRight
  <2>2. CASE p \in Mappable
    <3>1. asked[p].user /\ Walk(p).frame = asked[p].frame
      BY <1>1, <2>1, <2>2, WalkAsked
    <3> QED
      BY <1>1, <2>1, <2>2, <3>1 DEF PagingInv, UserInv
  <2>3. CASE p \in EditedThrough
    BY <1>1, <2>1, <2>3, EditedPages, WalkIdentity
  <2> QED
    BY <2>2, <2>3 DEF Watched
<1>2. PagingInv => UserReachesOwnFrames
  BY <1>1 DEF UserReachesOwnFrames
<1> QED
  BY <1>2, Invariant, PTL
=============================================================================

------------------------- MODULE Keyboard_proofs ----------------------------
(***************************************************************************)
(* Proofs about KeyRing and Keyboard.  The ring of buffer.c is a queue,    *)
(* for every size of it.  What is read is what was typed, and no modifier  *)
(* sticks, for every size of the controller's and of the keyboard buffer   *)
(* and every set of keys in use.                                           *)
(*                                                                         *)
(* Both properties of the driver speak of codes the handler has not seen.  *)
(* WireInv says what will become of them: there is a way of the handler    *)
(* through the codes in the controller, from the modifiers it has now to   *)
(* those the keys have (but for the stale ones), and the characters it     *)
(* makes on the way are, one by one, those that are wanted behind the ones *)
(* in the buffer.  A key extends the way at its end, with all of its codes *)
(* or, if they do not fit, with what leaves the handler as it is; the      *)
(* handler takes the first step of it; a reader moves the characters up.   *)
(***************************************************************************)
EXTENDS Keyboard, KeyRing, Integers, SequenceTheorems, TLAPS

(***************************************************************************)
(* The ring.                                                               *)
(***************************************************************************)
\* Every slot between tail and head holds a character, and the reader is
\* where the state of the ring lets it be.
SlotsStored == \A i \in Slots : Occupied(i) => buffer[i] \in Chars

ReaderInv ==
  /\ pc \in {"get", "loaded"} => head # tail
  /\ pc = "loaded" => c \in Chars /\ c = buffer[tail]
  /\ pc = "advanced" => Succ(slot) = tail /\ buffer[slot] \in Chars
  /\ pc = "return" => c \in Chars

RingInv == RingTypeOK /\ SlotsStored /\ ReaderInv

-----------------------------------------------------------------------------
\* The successor of a slot without the remainder, for the provers.
LEMMA SuccValue ==
  ASSUME NEW i \in Slots
  PROVE  Succ(i) = IF i + 1 = KB_BUF_SIZE THEN 0 ELSE i + 1
BY SizeAssumption DEF Succ, Slots

LEMMA SuccSlot ==
  ASSUME NEW i \in Slots
  PROVE  Succ(i) \in Slots
BY SuccValue, SizeAssumption DEF Slots

\* Filling the head slot of a ring that is not full occupies that slot only.
LEMMA PutOccupies ==
  ASSUME NEW h \in Slots, NEW t \in Slots, NEW i \in Slots, Succ(h) # t
  PROVE  LET Occ(a) == IF t <= a THEN t <= i /\ i < a ELSE t <= i \/ i < a
         IN  Occ(Succ(h)) <=> (Occ(h) \/ i = h)
BY SuccValue, SizeAssumption DEF Slots

\* Moving tail frees the tail slot and no other.
LEMMA AdvanceFrees ==
  ASSUME NEW h \in Slots, NEW t \in Slots, NEW i \in Slots, h # t
  PROVE  LET Occ(a) == IF a <= h THEN a <= i /\ i < h ELSE a <= i \/ i < h
         IN  Occ(Succ(t)) => Occ(t)
BY SuccValue, SizeAssumption DEF Slots

LEMMA TypeStep == RingTypeOK /\ [RingNext]_ringVars => RingTypeOK'
<1> SUFFICES ASSUME RingTypeOK, [RingNext]_ringVars
             PROVE  RingTypeOK'
  OBVIOUS
<1> USE DEF RingTypeOK
<1>1. ASSUME NEW k \in Chars, Put(k)
      PROVE  RingTypeOK'
  <2>1. head' \in Slots
    BY <1>1, SuccSlot DEF Put
  <2>2. buffer' \in [Slots -> Chars \cup {NUL}]
    BY <1>1 DEF Put
  <2>3. QED
    BY <1>1, <2>1, <2>2 DEF Put
<1>2. CASE HasChar
  BY <1>2 DEF HasChar
<1>3. CASE Load
  BY <1>3 DEF Load
<1>4. CASE Advance
  BY <1>4, SuccSlot DEF Advance
<1>5. CASE AdvanceEarly
  BY <1>5, SuccSlot DEF AdvanceEarly
<1>6. CASE LoadLate
  BY <1>6 DEF LoadLate
<1>7. CASE Return
  BY <1>7 DEF Return
<1>8. CASE UNCHANGED ringVars
  BY <1>8 DEF ringVars
<1>9. QED
  BY <1>1, <1>2, <1>3, <1>4, <1>5, <1>6, <1>7, <1>8 DEF RingNext, Reader

LEMMA RingInvInit == RingInit => RingInv
<1> SUFFICES ASSUME RingInit
             PROVE  RingInv
  OBVIOUS
<1>1. RingTypeOK
  BY SizeAssumption DEF RingInit, RingTypeOK, Slots
<1>2. SlotsStored
  BY SizeAssumption DEF RingInit, SlotsStored, Occupied, Slots
<1>3. ReaderInv
  BY DEF RingInit, ReaderInv
<1>4. QED
  BY <1>1, <1>2, <1>3 DEF RingInv

\* A put leaves alone every slot the reader still needs.
LEMMA PutSparesReader ==
  ASSUME RingTypeOK, ReaderInv, NEW k \in Chars, Put(k), NEW i \in Slots,
         \/ pc \in {"get", "loaded"} /\ i = tail
         \/ pc = "advanced" /\ i = slot
  PROVE  buffer'[i] = buffer[i]
<1>1. CASE Full
  BY <1>1 DEF Put
<1>2. CASE ~Full
  <2>1. i # head
    BY <1>2 DEF ReaderInv, Full
  <2>2. QED
    BY <1>2, <2>1 DEF Put, RingTypeOK
<1>3. QED
  BY <1>1, <1>2

LEMMA RingInvStep == RingInv /\ [RingNext]_ringVars => RingInv'
<1> SUFFICES ASSUME RingInv, [RingNext]_ringVars
             PROVE  RingInv'
  OBVIOUS
<1> USE DEF RingInv
<1>0. RingTypeOK'
  BY TypeStep
<1>1. ASSUME NEW k \in Chars, Put(k)
      PROVE  RingInv'
  <2>1. SlotsStored'
    <3> SUFFICES ASSUME NEW i \in Slots, Occupied(i)'
                 PROVE  buffer'[i] \in Chars
      BY DEF SlotsStored
    <3>1. CASE Full
      BY <1>1, <3>1 DEF Put, SlotsStored, Occupied
    <3>2. CASE ~Full
      <4>1. Occupied(i) \/ i = head
        BY <1>1, <3>2, PutOccupies DEF Put, Full, Occupied, RingTypeOK
      <4>2. QED
        BY <1>1, <3>2, <4>1 DEF Put, SlotsStored, RingTypeOK
    <3>3. QED
      BY <3>1, <3>2
  <2>2. (pc \in {"get", "loaded"} => head # tail)'
    <3>1. Succ(head) = tail => head' = head
      BY <1>1 DEF Put, Full
    <3>2. QED
      BY <1>1, <3>1 DEF Put, Full, ReaderInv
  <2>3. (pc = "loaded" => c \in Chars /\ c = buffer[tail])'
    BY <1>1, PutSparesReader DEF Put, ReaderInv, RingTypeOK
  <2>4. (pc = "advanced" => Succ(slot) = tail /\ buffer[slot] \in Chars)'
    <3> SUFFICES ASSUME pc = "advanced"
                 PROVE  Succ(slot) = tail /\ buffer'[slot] \in Chars
      BY <1>1 DEF Put, Succ
    <3>1. buffer'[slot] = buffer[slot]
      BY <1>1, PutSparesReader DEF RingTypeOK
    <3>2. QED
      BY <3>1 DEF ReaderInv
  <2>5. (pc = "return" => c \in Chars)'
    BY <1>1 DEF Put, ReaderInv
  <2>6. QED
    BY <1>0, <2>1, <2>2, <2>3, <2>4, <2>5 DEF ReaderInv
<1>2. CASE HasChar
  BY <1>0, <1>2 DEF HasChar, SlotsStored, Occupied, ReaderInv
<1>3. CASE Load
  <2>1. Occupied(tail)
    BY <1>3 DEF Load, ReaderInv, Occupied, RingTypeOK, Slots
  <2>2. QED
    BY <1>0, <1>3, <2>1 DEF Load, SlotsStored, Occupied, ReaderInv, RingTypeOK
<1>4. CASE Advance
  <2>1. SlotsStored'
    BY <1>4, AdvanceFrees
    DEF Advance, SlotsStored, Occupied, ReaderInv, RingTypeOK
  <2>2. QED
    BY <1>0, <1>4, <2>1 DEF Advance, ReaderInv
<1>5. CASE AdvanceEarly
  <2>1. SlotsStored'
    BY <1>5, AdvanceFrees DEF AdvanceEarly, SlotsStored, Occupied, RingTypeOK
  <2>2. Occupied(tail)
    BY <1>5 DEF AdvanceEarly, Occupied, RingTypeOK, Slots
  <2>3. (pc = "advanced" => Succ(slot) = tail /\ buffer[slot] \in Chars)'
    BY <1>5, <2>2 DEF AdvanceEarly, SlotsStored, RingTypeOK, Succ
  <2>4. QED
    BY <1>0, <1>5, <2>1, <2>3 DEF AdvanceEarly, ReaderInv
<1>6. CASE LoadLate
  BY <1>0, <1>6 DEF LoadLate, SlotsStored, Occupied, ReaderInv
<1>7. CASE Return
  BY <1>0, <1>7 DEF Return, SlotsStored, Occupied, ReaderInv
<1>8. CASE UNCHANGED ringVars
  BY <1>0, <1>8 DEF ringVars, SlotsStored, Occupied, ReaderInv, Succ
<1>9. QED
  BY <1>1, <1>2, <1>3, <1>4, <1>5, <1>6, <1>7, <1>8 DEF RingNext, Reader

LEMMA RingInvariant == RingSpec => []RingInv
BY RingInvInit, RingInvStep, PTL DEF RingSpec

\* The types of the ring and of its reader are kept.
THEOREM RingTypeCorrect == RingSpec => []RingTypeOK
BY RingInvariant, PTL DEF RingInv

\* kb_buffer_get returns a stored character whenever the test for one before
\* it said yes, for every ring size and either order of its two accesses.
THEOREM ReaderGetsKey == RingSpec => []GetReturnsKey
<1>1. RingInv => GetReturnsKey
  BY DEF RingInv, ReaderInv, GetReturnsKey
<1>2. QED
  BY <1>1, RingInvariant, PTL

\* The handler never overwrites the slot the reader is about to load.
THEOREM ReaderSlotSpared == RingSpec => SlotInFlight
<1>1. RingInv /\ [RingNext]_ringVars =>
        [\A i \in Slots : Loading(i) => buffer'[i] = buffer[i]]_ringVars
  <2> SUFFICES ASSUME RingInv, [RingNext]_ringVars, NEW i \in Slots, Loading(i)
               PROVE  buffer'[i] = buffer[i]
    OBVIOUS
  <2>1. ASSUME NEW k \in Chars, Put(k)
        PROVE  buffer'[i] = buffer[i]
    BY <2>1, PutSparesReader DEF Loading, RingInv
  <2>2. CASE Reader
    BY <2>2 DEF Reader, HasChar, Load, Advance, AdvanceEarly, LoadLate, Return
  <2>3. CASE UNCHANGED ringVars
    BY <2>3 DEF ringVars
  <2>4. QED
    BY <2>1, <2>2, <2>3 DEF RingNext
<1>2. QED
  BY <1>1, RingInvariant, PTL DEF RingSpec, SlotInFlight

-----------------------------------------------------------------------------
(***************************************************************************)
(* The ring implements the queue.                                          *)
(***************************************************************************)
ContentsFacts ==
  /\ Count \in 0 .. KB_BUF_SIZE - 1
  /\ \A j \in 1 .. Count : At(j) \in Slots
  /\ Contents \in Seq(Chars \cup {NUL})
  /\ Len(Contents) = Count
  /\ \A j \in 1 .. Count : Contents[j] = buffer[At(j)]

LEMMA ContentsSeq == RingTypeOK => ContentsFacts
<1> SUFFICES ASSUME RingTypeOK
             PROVE  ContentsFacts
  OBVIOUS
<1>1. Count \in 0 .. KB_BUF_SIZE - 1
  BY SizeAssumption DEF RingTypeOK, Count, Slots
<1>2. ASSUME NEW j \in 1 .. Count
      PROVE  At(j) \in Slots
  BY <1>2, SizeAssumption DEF RingTypeOK, Count, At, Slots
<1>3. Contents \in Seq(Chars \cup {NUL}) /\ Len(Contents) = Count
  <2>1. \A j \in 1 .. Count : buffer[At(j)] \in Chars \cup {NUL}
    BY <1>2 DEF RingTypeOK
  <2>2. Count \in Nat
    BY <1>1, SizeAssumption
  <2>3. QED
    BY <2>1, <2>2 DEF Contents
<1>4. QED
  BY <1>1, <1>2, <1>3 DEF Contents, ContentsFacts

LEMMA ContentsSeqNext == RingTypeOK' => ContentsFacts'
BY ContentsSeq, PTL

\* The ring is full, for the handler, exactly when the queue is at capacity.
LEMMA FullIsCapacity ==
  ASSUME RingTypeOK
  PROVE  Full <=> Count = KB_BUF_SIZE - 1
BY SuccValue, SizeAssumption DEF RingTypeOK, Full, Count, Slots

LEMMA PutStores ==
  ASSUME RingInv, NEW k \in Chars, Put(k), ~Full
  PROVE  Contents' = Append(Contents, k)
<1> USE DEF RingInv
<1>0. RingTypeOK'
  BY TypeStep DEF RingNext
<1>1. Count' = Count + 1 /\ At(Count + 1) = head
  BY SuccValue, SizeAssumption DEF Put, Full, Count, At, RingTypeOK, Slots
<1>2. \A j \in 1 .. Count : At(j)' = At(j) /\ At(j) # head /\ At(j) \in Slots
  BY SizeAssumption DEF Put, Count, At, RingTypeOK, Slots
<1>3. ASSUME NEW j \in 1 .. Count'
      PROVE  Contents'[j] = IF j = Count + 1 THEN k ELSE Contents[j]
  <2>1. Contents'[j] = buffer'[At(j)']
    BY <1>0, <1>3, ContentsSeq DEF Contents, ContentsFacts
  <2>2. At(j)' = At(j)
    BY DEF Put, At
  <2>3. CASE j = Count + 1
    BY <1>1, <2>1, <2>2, <2>3 DEF Put, RingTypeOK
  <2>4. CASE j \in 1 .. Count
    BY <1>2, <2>1, <2>2, <2>4, ContentsSeq DEF Put, RingTypeOK, ContentsFacts
  <2>5. QED
    BY <1>1, <2>3, <2>4, ContentsSeq DEF ContentsFacts
<1>4. /\ Contents' \in Seq(Chars \cup {NUL})
      /\ Len(Contents') = Count'
  BY <1>0, ContentsSeqNext DEF ContentsFacts
<1>5. /\ Append(Contents, k) \in Seq(Chars \cup {NUL})
      /\ Len(Append(Contents, k)) = Count + 1
      /\ \A j \in 1 .. Count + 1 :
           Append(Contents, k)[j] = IF j = Count + 1 THEN k ELSE Contents[j]
  BY ContentsSeq DEF ContentsFacts
<1>6. QED
  BY <1>1, <1>3, <1>4, <1>5, SeqEqual

LEMMA AdvanceTakes ==
  ASSUME RingInv, head # tail, tail' = Succ(tail), RingTypeOK',
         UNCHANGED <<buffer, head>>
  PROVE  /\ Contents # << >>
         /\ Head(Contents) = buffer[tail]
         /\ Contents' = Tail(Contents)
<1> USE DEF RingInv
<1>1. Count # 0 /\ Count' = Count - 1 /\ At(1) = tail
  BY SuccValue, SizeAssumption DEF Count, At, RingTypeOK, Slots
<1>2. ASSUME NEW j \in 1 .. Count - 1
      PROVE  At(j)' = At(j + 1)
  <2>1. tail' = IF tail + 1 = KB_BUF_SIZE THEN 0 ELSE tail + 1
    BY SuccValue DEF RingTypeOK
  <2>2. Count - 1 < KB_BUF_SIZE /\ Count \in Int
    BY ContentsSeq, SizeAssumption DEF ContentsFacts
  <2>3. QED
    BY <2>1, <2>2, SizeAssumption DEF At, RingTypeOK, Slots
<1>3. /\ Contents \in Seq(Chars \cup {NUL})
      /\ Len(Contents) = Count
      /\ Contents # << >>
  BY <1>1, ContentsSeq DEF ContentsFacts
<1>4. Head(Contents) = buffer[tail]
  BY <1>1, <1>3, ContentsSeq DEF ContentsFacts
<1>5. /\ Tail(Contents) \in Seq(Chars \cup {NUL})
      /\ Len(Tail(Contents)) = Count - 1
      /\ \A j \in 1 .. Count - 1 : Tail(Contents)[j] = Contents[j + 1]
  BY <1>3, HeadTailProperties
<1>6. /\ Contents' \in Seq(Chars \cup {NUL})
      /\ Len(Contents') = Count'
      /\ \A j \in 1 .. Count' : Contents'[j] = buffer'[At(j)']
  BY ContentsSeqNext DEF ContentsFacts
<1>7. \A j \in 1 .. Count - 1 : Contents[j + 1] = buffer[At(j + 1)]
  BY <1>1, ContentsSeq DEF ContentsFacts
<1>8. \A j \in 1 .. Count - 1 : Contents'[j] = Tail(Contents)[j]
  BY <1>1, <1>2, <1>5, <1>6, <1>7
<1>9. QED
  BY <1>1, <1>3, <1>4, <1>5, <1>6, <1>8, SeqEqual

LEMMA QueueInit == RingInit => Queue!Init
<1> SUFFICES ASSUME RingInit
             PROVE  Queue!Init
  OBVIOUS
<1>1. RingTypeOK
  BY RingInvInit DEF RingInv
<1>2. Contents = << >>
  <2>1. Count = 0
    BY DEF RingInit, Count
  <2>2. QED
    BY <1>1, <2>1, ContentsSeq, EmptySeq DEF ContentsFacts
<1>3. QED
  BY <1>2, NULAssumption DEF RingInit, Delivered, Queue!Init

LEMMA QueueStep == RingInv /\ [RingNext]_ringVars => [Queue!Next]_(Queue!vars)
<1> SUFFICES ASSUME RingInv, [RingNext]_ringVars
             PROVE  [Queue!Next]_(Queue!vars)
  OBVIOUS
<1> USE DEF RingInv
<1>0. RingTypeOK'
  BY TypeStep
<1>1. ASSUME UNCHANGED <<buffer, head, tail>>
      PROVE  Contents' = Contents
  BY <1>1 DEF Contents, Count, At
<1>2. ASSUME NEW k \in Chars, Put(k)
      PROVE  Queue!Store(k) \/ Queue!Drop(k)
  <2>1. Delivered' = Delivered
    BY <1>2, PutSparesReader DEF Put, Delivered, RingTypeOK
  <2>2. CASE Full
    BY <1>1, <1>2, <2>1, <2>2, ContentsSeq, FullIsCapacity
    DEF Put, Queue!Drop, ContentsFacts
  <2>3. CASE ~Full
    <3>1. Len(Contents) < KB_BUF_SIZE - 1
      BY <2>3, ContentsSeq, FullIsCapacity, SizeAssumption DEF ContentsFacts
    <3>2. QED
      BY <1>2, <2>1, <2>3, <3>1, PutStores DEF Put, Queue!Store
  <2>4. QED
    BY <2>2, <2>3
<1>3. CASE HasChar
  BY <1>1, <1>3 DEF HasChar, Delivered, Queue!vars
<1>4. CASE Load
  BY <1>1, <1>4 DEF Load, Delivered, ReaderInv, Queue!vars
<1>5. CASE Advance
  <2>1. Delivered' = buffer[tail]
    BY <1>5 DEF Advance, Delivered, ReaderInv
  <2>2. QED
    BY <1>0, <1>5, <2>1, AdvanceTakes
    DEF Advance, ReaderInv, Queue!Take, Queue!Next
<1>6. CASE AdvanceEarly
  <2>1. Delivered' = buffer[tail]
    BY <1>6 DEF AdvanceEarly, Delivered
  <2>2. QED
    BY <1>0, <1>6, <2>1, AdvanceTakes DEF AdvanceEarly, Queue!Take, Queue!Next
<1>7. CASE LoadLate
  BY <1>1, <1>7 DEF LoadLate, Delivered, Queue!vars
<1>8. CASE Return
  BY <1>1, <1>8, NULAssumption DEF Return, Delivered, ReaderInv, Queue!vars
<1>9. CASE UNCHANGED ringVars
  BY <1>1, <1>9 DEF ringVars, Delivered, Queue!vars
<1>10. QED
  BY <1>2, <1>3, <1>4, <1>5, <1>6, <1>7, <1>8, <1>9
  DEF RingNext, Reader, Queue!Next

\* The code of buffer.c is a FIFO queue that holds KB_BUF_SIZE - 1 characters:
\* each comes out once, in the order of the puts, and one is dropped only when
\* the queue is full, for every ring size and every set of characters.
THEOREM RingIsQueue == RingSpec => ImplementsQueue
<1>1. Queue!Init /\ [][Queue!Next]_(Queue!vars) => Queue!Spec
  BY PTL DEF Queue!Spec
<1>2. QED
  BY QueueInit, QueueStep, RingInvariant, PTL
  DEF RingSpec, ImplementsQueue, Queue!Spec

-----------------------------------------------------------------------------
(***************************************************************************)
(* The driver.                                                             *)
(***************************************************************************)

\* Scancodes, and what the handler makes of one in modifier state s.
Code == [key : AllKeys \cup {"0x60"}, up : BOOLEAN]
ModState == [shift : BOOLEAN, ctrl : BOOLEAN, alt : BOOLEAN, caps : BOOLEAN]
Now == [shift |-> shift, ctrl |-> ctrl, alt |-> alt, caps |-> caps]

After(s, code) ==
  [shift |-> IF code.key \in ShiftKeys THEN ~code.up ELSE s.shift,
   ctrl  |-> IF code.key = "ctrl" THEN ~code.up ELSE s.ctrl,
   alt   |-> IF code.key = "alt" THEN ~code.up ELSE s.alt,
   caps  |-> IF code = Make("caps") THEN ~s.caps ELSE s.caps]

Char(s, code) ==
  IF code.up THEN NoChar
  ELSE CASE code.key = "backspace" -> "backspace"
         [] code.key = "enter" -> "newline"
         [] code.key = "a" -> IF s.shift \/ s.caps THEN "A" ELSE "a"
         [] code.key = "1" -> IF s.shift THEN "!" ELSE "1"
         [] OTHER -> NoChar

\* The handler's way through the codes w: the state s[i] it will be in after i
\* of them, the p[i] characters it will have made by then, and for each of
\* these its place in v, behind the n characters already made.
Run(s, p, w, n, v) ==
  /\ s \in [0 .. Len(w) -> ModState] /\ p \in [0 .. Len(w) -> Nat]
  /\ p[0] = 0 /\ Len(v) = n + p[Len(w)]
  /\ \A i, j \in 0 .. Len(w) : i <= j => p[i] <= p[j]
  /\ \A i \in 1 .. Len(w) :
       LET made == Char(s[i - 1], w[i])
       IN  /\ s[i] = After(s[i - 1], w[i])
           /\ p[i] = IF made = NoChar THEN p[i - 1] ELSE p[i - 1] + 1
           /\ made # NoChar => v[n + p[i]] \in {made, Doubtful}

\* There is one, from state a to state e.
Leads(a, e, w, n, v) ==
  \E s \in [0 .. Len(w) -> ModState], p \in [0 .. Len(w) -> Nat] :
    Run(s, p, w, n, v) /\ s[0] = a /\ s[Len(w)] = e

\* Character ch, if it is one, has come to v, which is u now.
Placed(ch, v, u) ==
  IF ch = NoChar THEN u = v ELSE u \in {Append(v, ch), Append(v, Doubtful)}

\* A modifier state is that of the keys, but for the modifiers in stale.
Settled(s) ==
  /\ s.shift = (held \cap ShiftKeys # {}) \/ "shift" \in stale
  /\ s.ctrl = ("ctrl" \in held) \/ "ctrl" \in stale
  /\ s.alt = ("alt" \in held) \/ "alt" \in stale
  /\ s.caps = (capsOn # ("caps" \in stale))

WireInv ==
  \E e \in ModState : Settled(e) /\ Leads(Now, e, wire, Len(queue), want)

KbTypes ==
  /\ TypeOK
  /\ wire \in Seq(Code)
  /\ \A k, l \in held \cap ShiftKeys : k = l

QueueInv == \A i \in DOMAIN queue : want[i] \in {queue[i], Doubtful}

KbInv == KbTypes /\ WireInv /\ QueueInv

-----------------------------------------------------------------------------
\* What the handler makes of a code.
LEMMA CharTypes ==
  ASSUME NEW s \in ModState, NEW x \in Code
  PROVE  Char(s, x) \in Characters \cup {NoChar}
BY DEF Char, Characters, NoChar

LEMMA DecodeIsChar ==
  ASSUME KbTypes, NEW x \in Code
  PROVE  Decode(x) = Char(Now, x)
<1> USE DEF KbTypes, TypeOK, Code, AllKeys, ShiftKeys
<1>1. shift \in BOOLEAN /\ caps \in BOOLEAN
  BY DEF KbTypes, TypeOK
<1>2. CASE x.up
  BY <1>2 DEF Decode, Char
<1>3. CASE ~x.up /\ x.key = "a"
  BY <1>1, <1>3 DEF Decode, Char, Now, CapsLocked, KeymapNormal, KeymapShift
<1>4. CASE ~x.up /\ x.key = "1"
  BY <1>1, <1>4 DEF Decode, Char, Now, CapsLocked, KeymapNormal, KeymapShift
<1>5. CASE ~x.up /\ x.key \notin {"a", "1"}
  BY <1>1, <1>5
     DEF Decode, Char, Now, CapsLocked, KeymapNormal, KeymapShift, NoChar
<1> QED BY <1>2, <1>3, <1>4, <1>5 DEF Code

LEMMA AfterTypes ==
  ASSUME NEW s \in ModState, NEW x \in Code
  PROVE  After(s, x) \in ModState
BY DEF After, ModState, Code

LEMMA NowTypes == TypeOK => Now \in ModState
BY DEF TypeOK, Now, ModState

LEMMA AfterIsAfter ==
  ASSUME NEW x \in Code
  PROVE  After(Now, x) = [shift |-> ShiftAfter(x), ctrl |-> CtrlAfter(x),
                          alt |-> AltAfter(x), caps |-> CapsAfter(x)]
BY DEF After, Now, ShiftAfter, CtrlAfter, AltAfter, CapsAfter

\* One more code in the controller.
LEMMA Extended ==
  ASSUME NEW w \in Seq(Code), NEW n \in Nat,
         NEW v \in Seq(Characters \cup {Doubtful}),
         NEW a, NEW e, Leads(a, e, w, n, v),
         NEW x \in Code, NEW u, Placed(Char(e, x), v, u)
  PROVE  Leads(a, After(e, x), Append(w, x), n, u)
<1> PICK s \in [0 .. Len(w) -> ModState], p \in [0 .. Len(w) -> Nat] :
      Run(s, p, w, n, v) /\ s[0] = a /\ s[Len(w)] = e
  BY DEF Leads
<1> DEFINE L == Len(w)
           made == Char(s[L], x)
           s2 == [i \in 0 .. L + 1 |-> IF i <= L THEN s[i] ELSE After(s[L], x)]
           p2 == [i \in 0 .. L + 1 |->
                    IF i <= L THEN p[i]
                    ELSE IF made = NoChar THEN p[L] ELSE p[L] + 1]
           w2 == Append(w, x)
<1>1. /\ L \in Nat /\ Len(w2) = L + 1 /\ w2[L + 1] = x
      /\ \A i \in 1 .. L : w2[i] = w[i]
  BY AppendProperties
<1>2. s[L] \in ModState /\ p[L] \in Nat /\ After(s[L], x) \in ModState
  BY <1>1, AfterTypes DEF Run
<1>3. s2 \in [0 .. L + 1 -> ModState] /\ p2 \in [0 .. L + 1 -> Nat]
  BY <1>1, <1>2 DEF Run
<1>4. p2[0] = 0 /\ p2[L + 1] = IF made = NoChar THEN p[L] ELSE p[L] + 1
  BY <1>1 DEF Run
<1>5. /\ Len(u) = n + p2[L + 1]
      /\ \A k \in 1 .. Len(v) : u[k] = v[k]
      /\ made # NoChar => u[n + p2[L + 1]] \in {made, Doubtful}
  <2>1. Len(v) = n + p[L]
    BY DEF Run
  <2>2. CASE made = NoChar
    BY <2>1, <2>2, <1>4 DEF Placed
  <2>3. CASE made # NoChar
    <3>1. PICK m \in {made, Doubtful} : u = Append(v, m)
      BY <2>3 DEF Placed
    <3>2. Len(u) = Len(v) + 1 /\ u[Len(v) + 1] = m
          /\ \A k \in 1 .. Len(v) : u[k] = v[k]
      BY <3>1, AppendProperties DEF Characters, Doubtful
    <3>3. p2[L + 1] = p[L] + 1 /\ n + p2[L + 1] = Len(v) + 1
      BY <2>1, <2>3, <1>2, <1>4
    <3> QED BY <2>3, <3>1, <3>2, <3>3
  <2> QED BY <2>2, <2>3
<1>6. \A i, j \in 0 .. L + 1 : i <= j => p2[i] <= p2[j]
  <2> SUFFICES ASSUME NEW i \in 0 .. L + 1, NEW j \in 0 .. L + 1, i <= j
               PROVE  p2[i] <= p2[j]
    OBVIOUS
  <2>1. CASE j <= L
    BY <2>1, <1>1 DEF Run
  <2>2. CASE j = L + 1 /\ i = L + 1
    BY <2>2, <1>1, <1>3
  <2>3. CASE j = L + 1 /\ i <= L
    <3>1. i \in 0 .. L /\ L \in 0 .. L
      BY <2>3, <1>1
    <3>2. p[i] <= p[L] /\ p[i] \in Nat /\ p[L] \in Nat /\ p2[i] = p[i]
      BY <2>3, <3>1 DEF Run
    <3> QED BY <2>3, <3>2, <1>4, <1>1
  <2> QED BY <2>1, <2>2, <2>3, <1>1
<1>7. ASSUME NEW i \in 1 .. L + 1
      PROVE  LET ch == Char(s2[i - 1], w2[i])
             IN  /\ s2[i] = After(s2[i - 1], w2[i])
                 /\ p2[i] = IF ch = NoChar THEN p2[i - 1] ELSE p2[i - 1] + 1
                 /\ ch # NoChar => u[n + p2[i]] \in {ch, Doubtful}
  <2>1. CASE i <= L
    <3>1. i \in 1 .. L /\ i - 1 \in 0 .. L /\ i \in 0 .. L + 1
          /\ i - 1 \in 0 .. L + 1 /\ i - 1 <= L
      BY <2>1, <1>1
    <3>2. s2[i] = s[i] /\ s2[i - 1] = s[i - 1] /\ p2[i] = p[i]
          /\ p2[i - 1] = p[i - 1] /\ w2[i] = w[i]
      BY <3>1, <2>1, <1>1
    <3>3. Char(s[i - 1], w[i]) # NoChar =>
            p[i] \in Nat /\ p[i] >= 1 /\ p[i] <= p[L] /\ Len(v) = n + p[L]
      <4>1. i \in 0 .. L /\ L \in 0 .. L /\ i <= L
        BY <3>1, <1>1
      <4>2. p[i] \in Nat /\ p[i - 1] \in Nat /\ p[i] <= p[L]
        BY <3>1, <4>1 DEF Run
      <4>3. Char(s[i - 1], w[i]) # NoChar => p[i] = p[i - 1] + 1
        BY <3>1 DEF Run
      <4>4. Len(v) = n + p[L]
        BY DEF Run
      <4> QED BY <4>2, <4>3, <4>4
    <3>4. Char(s[i - 1], w[i]) # NoChar => u[n + p[i]] = v[n + p[i]]
      <4>1. Char(s[i - 1], w[i]) # NoChar => n + p[i] \in 1 .. Len(v)
        BY <3>3, <1>2
      <4>2. \A k \in 1 .. Len(v) : u[k] = v[k]
        <5> HIDE DEF s2, p2, w2, made
        <5> QED BY <1>5
      <4> QED BY <4>1, <4>2
    <3>5. /\ s[i] = After(s[i - 1], w[i])
          /\ p[i] = IF Char(s[i - 1], w[i]) = NoChar THEN p[i - 1]
                    ELSE p[i - 1] + 1
          /\ Char(s[i - 1], w[i]) # NoChar =>
               v[n + p[i]] \in {Char(s[i - 1], w[i]), Doubtful}
      BY <3>1 DEF Run
    <3> QED BY <3>2, <3>4, <3>5
  <2>2. CASE i = L + 1
    <3>1. s2[i - 1] = s[L] /\ p2[i - 1] = p[L] /\ w2[i] = x
          /\ s2[i] = After(s[L], x)
      BY <2>2, <1>1
    <3>2. Char(s2[i - 1], w2[i]) = made
      BY <3>1
    <3> HIDE DEF s2, p2, w2, made
    <3> QED BY <2>2, <3>1, <3>2, <1>4, <1>5
  <2>3. i <= L \/ i = L + 1
    BY <1>1
  <2> QED BY <2>1, <2>2, <2>3
<1>8. Run(s2, p2, w2, n, u)
  BY <1>1, <1>3, <1>4, <1>5, <1>6, <1>7 DEF Run
<1>9. s2[0] = a /\ s2[L + 1] = After(e, x)
  BY <1>1
<1> QED BY <1>1, <1>3, <1>8, <1>9 DEF Leads

\* The handler takes the first code; a character it makes of it is the next
\* after those already made.
LEMMA Taken ==
  ASSUME NEW w \in Seq(Code), w # << >>, NEW n \in Nat, NEW v,
         NEW a, NEW e, Leads(a, e, w, n, v), NEW new \in 0 .. 1,
         new = IF Char(a, Head(w)) = NoChar THEN 0 ELSE 1
  PROVE  Leads(After(a, Head(w)), e, Tail(w), n + new, v)
<1> PICK s \in [0 .. Len(w) -> ModState], p \in [0 .. Len(w) -> Nat] :
      Run(s, p, w, n, v) /\ s[0] = a /\ s[Len(w)] = e
  BY DEF Leads
<1> DEFINE L == Len(w)
           w2 == Tail(w)
           s2 == [i \in 0 .. L - 1 |-> s[i + 1]]
           p2 == [i \in 0 .. L - 1 |-> p[i + 1] - new]
<1>1. /\ L \in Nat \ {0} /\ Len(w2) = L - 1 /\ Head(w) = w[1]
      /\ \A i \in 1 .. L - 1 : w2[i] = w[i + 1]
  BY HeadTailProperties, EmptySeq
<1>2. /\ s \in [0 .. L -> ModState] /\ p \in [0 .. L -> Nat]
      /\ p[0] = 0 /\ Len(v) = n + p[L]
      /\ \A i, j \in 0 .. L : i <= j => p[i] <= p[j]
  BY DEF Run
<1>3. \A i \in 1 .. L :
        /\ s[i] = After(s[i - 1], w[i])
        /\ p[i] = IF Char(s[i - 1], w[i]) = NoChar
                    THEN p[i - 1] ELSE p[i - 1] + 1
        /\ Char(s[i - 1], w[i]) # NoChar =>
             v[n + p[i]] \in {Char(s[i - 1], w[i]), Doubtful}
  BY DEF Run
<1>4. s[1] = After(s[0], w[1]) /\ p[1] = new
  <2>1. 1 \in 1 .. L /\ 1 - 1 = 0
    BY <1>1
  <2>2. /\ s[1] = After(s[1 - 1], w[1])
        /\ p[1] = IF Char(s[1 - 1], w[1]) = NoChar THEN p[1 - 1]
                  ELSE p[1 - 1] + 1
    BY <2>1, <1>3
  <2> QED BY <2>1, <2>2, <1>1, <1>2
<1>5. \A i \in 0 .. L - 1 : /\ i + 1 \in 0 .. L /\ p[i + 1] \in Nat
                           /\ p[i + 1] >= new /\ s[i + 1] \in ModState
  BY <1>1, <1>2, <1>4
<1>6. s2 \in [0 .. L - 1 -> ModState] /\ p2 \in [0 .. L - 1 -> Nat]
  BY <1>5
<1>7. p2[0] = 0 /\ Len(v) = n + new + p2[L - 1]
  <2>1. 0 \in 0 .. L - 1 /\ L - 1 \in 0 .. L - 1 /\ (L - 1) + 1 = L
    BY <1>1
  <2>2. p2[L - 1] = p[L] - new
    BY <2>1
  <2>3. p[L] \in Nat /\ p[0 + 1] = new
    BY <1>2, <1>1, <1>4
  <2> QED BY <2>1, <2>2, <2>3, <1>2
<1>8. \A i, j \in 0 .. L - 1 : i <= j => p2[i] <= p2[j]
  <2> SUFFICES ASSUME NEW i \in 0 .. L - 1, NEW j \in 0 .. L - 1, i <= j
               PROVE  p[i + 1] - new <= p[j + 1] - new
    OBVIOUS
  <2>1. i + 1 \in 0 .. L /\ j + 1 \in 0 .. L /\ i + 1 <= j + 1
    BY <1>1
  <2>2. p[i + 1] <= p[j + 1]
    BY <2>1, <1>2
  <2> QED BY <2>2, <1>5
<1>9. ASSUME NEW i \in 1 .. L - 1
      PROVE  LET m == Char(s2[i - 1], w2[i])
             IN  /\ s2[i] = After(s2[i - 1], w2[i])
                 /\ p2[i] = IF m = NoChar THEN p2[i - 1] ELSE p2[i - 1] + 1
                 /\ m # NoChar => v[(n + new) + p2[i]] \in {m, Doubtful}
  <2>1. /\ i + 1 \in 1 .. L /\ (i + 1) - 1 = i /\ (i - 1) + 1 = i
        /\ i \in 0 .. L - 1 /\ i - 1 \in 0 .. L - 1
    BY <1>1
  <2>2. /\ s2[i] = s[i + 1] /\ s2[i - 1] = s[i] /\ w2[i] = w[i + 1]
        /\ p2[i] = p[i + 1] - new /\ p2[i - 1] = p[i] - new
    BY <2>1, <1>1
  <2>3. p[i + 1] \in Nat /\ p[i] \in Nat
    BY <2>1, <1>5, <1>2
  <2>4. /\ s[i + 1] = After(s[i], w[i + 1])
        /\ p[i + 1] = IF Char(s[i], w[i + 1]) = NoChar THEN p[i] ELSE p[i] + 1
        /\ Char(s[i], w[i + 1]) # NoChar =>
             v[n + p[i + 1]] \in {Char(s[i], w[i + 1]), Doubtful}
    BY <2>1, <1>3
  <2>5. (n + new) + p2[i] = n + p[i + 1]
    BY <2>2, <2>3
  <2>6. (p[i] + 1) - new = (p[i] - new) + 1
    BY <2>3
  <2> QED BY <2>2, <2>4, <2>5, <2>6
<1>10. Run(s2, p2, w2, n + new, v)
  BY <1>1, <1>6, <1>7, <1>8, <1>9 DEF Run
<1>11. s2[0] = After(a, Head(w)) /\ s2[L - 1] = e
  <2>1. 0 \in 0 .. L - 1 /\ L - 1 \in 0 .. L - 1 /\ (L - 1) + 1 = L
        /\ 0 + 1 = 1
    BY <1>1
  <2> QED BY <2>1, <1>1, <1>4
<1> QED BY <1>1, <1>6, <1>10, <1>11 DEF Leads

\* The same characters at other places, behind other ones.
LEMMA Moved ==
  ASSUME NEW w, Len(w) \in Nat, NEW n \in Nat, NEW v, NEW a, NEW e,
         Leads(a, e, w, n, v), NEW n2 \in Nat, NEW v2,
         Len(v2) = n2 + (Len(v) - n),
         \A k \in 1 .. Len(v) - n : v2[n2 + k] = v[n + k]
  PROVE  Leads(a, e, w, n2, v2)
<1> PICK s \in [0 .. Len(w) -> ModState], p \in [0 .. Len(w) -> Nat] :
      Run(s, p, w, n, v) /\ s[0] = a /\ s[Len(w)] = e
  BY DEF Leads
<1>1. Len(v) - n = p[Len(w)] /\ Len(v2) = n2 + p[Len(w)]
  <2>1. Len(v) = n + p[Len(w)] /\ p[Len(w)] \in Nat
    BY DEF Run
  <2> QED BY <2>1
<1>2. ASSUME NEW i \in 1 .. Len(w), Char(s[i - 1], w[i]) # NoChar
      PROVE  v2[n2 + p[i]] \in {Char(s[i - 1], w[i]), Doubtful}
  <2>1. /\ i \in 0 .. Len(w) /\ Len(w) \in 0 .. Len(w) /\ i <= Len(w)
        /\ i - 1 \in 0 .. Len(w)
    BY <1>2
  <2>2. p[i] \in Nat /\ p[i - 1] \in Nat /\ p[i] <= p[Len(w)]
        /\ p[Len(w)] \in Nat
    BY <2>1 DEF Run
  <2>3. p[i] = p[i - 1] + 1
        /\ v[n + p[i]] \in {Char(s[i - 1], w[i]), Doubtful}
    BY <1>2 DEF Run
  <2>4. p[i] \in 1 .. p[Len(w)]
    BY <2>2, <2>3
  <2> QED BY <1>1, <2>3, <2>4
<1>3. Run(s, p, w, n2, v2)
  BY <1>1, <1>2 DEF Run
<1> QED BY <1>3 DEF Leads

\* What the way through the codes says of its ends.
LEMMA Reach ==
  ASSUME NEW w, Len(w) \in Nat, NEW n \in Nat, NEW v, NEW a, NEW e,
         Leads(a, e, w, n, v)
  PROVE  /\ Len(v) \in Nat
         /\ n <= Len(v)
         /\ w = << >> => Len(v) = n /\ e = a
<1> PICK s \in [0 .. Len(w) -> ModState], p \in [0 .. Len(w) -> Nat] :
      Run(s, p, w, n, v) /\ s[0] = a /\ s[Len(w)] = e
  BY DEF Leads
<1>1. p[0] = 0 /\ Len(v) = n + p[Len(w)] /\ p[Len(w)] \in Nat
  BY DEF Run
<1> QED BY <1>1

\* The first code's character, if it makes one, comes next.
LEMMA FirstComes ==
  ASSUME NEW w \in Seq(Code), w # << >>, NEW n \in Nat, NEW v, NEW a, NEW e,
         Leads(a, e, w, n, v), Char(a, Head(w)) # NoChar
  PROVE  v[n + 1] \in {Char(a, Head(w)), Doubtful}
<1> PICK s \in [0 .. Len(w) -> ModState], p \in [0 .. Len(w) -> Nat] :
      Run(s, p, w, n, v) /\ s[0] = a /\ s[Len(w)] = e
  BY DEF Leads
<1>1. 1 \in 1 .. Len(w) /\ 1 - 1 = 0 /\ Head(w) = w[1]
  BY HeadTailProperties, EmptySeq, LenProperties
<1>2. p[0] = 0
  BY DEF Run
<1>3. /\ p[1] =
           IF Char(s[1 - 1], w[1]) = NoChar THEN p[1 - 1] ELSE p[1 - 1] + 1
      /\ Char(s[1 - 1], w[1]) # NoChar =>
           v[n + p[1]] \in {Char(s[1 - 1], w[1]), Doubtful}
  BY <1>1 DEF Run
<1> QED BY <1>1, <1>2, <1>3

\* What RemoveAt leaves.
LEMMA Removed ==
  ASSUME NEW T, NEW v \in Seq(T), NEW m \in 1 .. Len(v)
  PROVE  /\ RemoveAt(v, m) \in Seq(T) /\ Len(RemoveAt(v, m)) = Len(v) - 1
         /\ \A i \in 1 .. m - 1 : RemoveAt(v, m)[i] = v[i]
         /\ \A i \in m .. Len(v) - 1 : RemoveAt(v, m)[i] = v[i + 1]
<1> DEFINE L == Len(v)
           f == SubSeq(v, 1, m - 1)
           g == SubSeq(v, m + 1, L)
<1>1. L \in Nat /\ m \in Nat /\ 1 <= m /\ m <= L
  BY LenProperties
<1>2. /\ f \in Seq(T) /\ Len(f) = m - 1
      /\ \A i \in 1 .. m - 1 : f[i] = v[i]
  <2>1. m - 1 \in 1 - 1 .. L /\ 1 \in 1 .. L + 1 /\ (m - 1) - 1 + 1 = m - 1
    BY <1>1
  <2>2. \A i \in 1 .. m - 1 : i \in 1 .. L /\ 1 + i - 1 = i
    BY <1>1
  <2>3. /\ f \in Seq(T)
        /\ Len(f) = IF 1 <= m - 1 THEN (m - 1) - 1 + 1 ELSE 0
        /\ \A i \in 1 .. (m - 1) - 1 + 1 : f[i] = v[1 + i - 1]
    BY <1>1, <2>2, SubSeqProperties
  <2>4. m - 1 = 0 \/ 1 <= m - 1
    BY <1>1
  <2>5. Len(f) = m - 1
    BY <2>1, <2>3, <2>4
  <2> HIDE DEF f
  <2>6. ASSUME NEW i \in 1 .. m - 1 PROVE f[i] = v[i]
    BY <2>1, <2>2, <2>3
  <2> QED BY <2>3, <2>5, <2>6
<1>3. /\ g \in Seq(T) /\ Len(g) = L - m
      /\ \A i \in 1 .. L - m : g[i] = v[m + i]
  <2>1. \A i \in 1 .. L - m : i \in 1 .. L /\ (m + 1) + i - 1 = m + i
    BY <1>1
  <2>2. /\ g \in Seq(T)
        /\ Len(g) = IF m + 1 <= L THEN L - (m + 1) + 1 ELSE 0
        /\ \A i \in 1 .. L - (m + 1) + 1 : g[i] = v[(m + 1) + i - 1]
    BY <1>1, SubSeqProperties
  <2>3. L - (m + 1) + 1 = L - m /\ (m = L \/ m + 1 <= L)
    BY <1>1
  <2> HIDE DEF g, L
  <2>4. Len(g) = L - m
    <3>1. CASE m = L
      BY <1>1, <2>2, <3>1
    <3>2. CASE m + 1 <= L
      BY <2>2, <2>3, <3>2
    <3> QED BY <2>3, <3>1, <3>2
  <2>5. ASSUME NEW i \in 1 .. L - m PROVE g[i] = v[m + i]
    BY <2>1, <2>2, <2>3
  <2> QED BY <2>2, <2>4, <2>5
<1>4. RemoveAt(v, m) = f \o g
  BY DEF RemoveAt
<1> HIDE DEF f, g
<1>5. /\ f \o g \in Seq(T) /\ Len(f \o g) = Len(f) + Len(g)
      /\ \A i \in 1 .. Len(f) : (f \o g)[i] = f[i]
      /\ \A i \in Len(f) + 1 .. Len(f) + Len(g) :
           (f \o g)[i] = g[i - Len(f)]
  <2>1. Len(f) \in Nat /\ Len(g) \in Nat
    BY <1>2, <1>3, LenProperties
  <2>2. /\ f \o g \in Seq(T) /\ Len(f \o g) = Len(f) + Len(g)
        /\ \A i \in 1 .. Len(f) + Len(g) : (f \o g)[i] =
              IF i <= Len(f) THEN f[i] ELSE g[i - Len(f)]
    BY <1>2, <1>3, ConcatProperties
  <2>3. ASSUME NEW i \in 1 .. Len(f) PROVE (f \o g)[i] = f[i]
    <3>1. i \in 1 .. Len(f) + Len(g) /\ i <= Len(f)
      BY <2>1
    <3> QED BY <2>2, <3>1
  <2>4. ASSUME NEW i \in Len(f) + 1 .. Len(f) + Len(g)
        PROVE  (f \o g)[i] = g[i - Len(f)]
    <3>1. i \in 1 .. Len(f) + Len(g) /\ ~(i <= Len(f))
      BY <2>1
    <3> QED BY <2>2, <3>1
  <2> QED BY <2>2, <2>3, <2>4
<1>6. Len(f \o g) = L - 1
  BY <1>1, <1>2, <1>3, <1>5
<1>7. \A i \in m .. L - 1 : (f \o g)[i] = v[i + 1]
  <2> SUFFICES ASSUME NEW i \in m .. L - 1 PROVE (f \o g)[i] = v[i + 1]
    OBVIOUS
  <2>1. i - Len(f) \in 1 .. L - m /\ m + (i - Len(f)) = i + 1
        /\ i \in Len(f) + 1 .. Len(f) + Len(g)
    BY <1>1, <1>2, <1>3
  <2> QED BY <1>3, <1>5, <2>1
<1> QED BY <1>2, <1>4, <1>5, <1>6, <1>7

\* A pair, joined and cut.
LEMMA Pair ==
  ASSUME NEW S, NEW a \in S, NEW b \in S
  PROVE  <<a, b>> = <<a>> \o <<b>> /\ SubSeq(<<a, b>>, 1, 1) = <<a>>
<1>1. <<a>> \in Seq(S) /\ <<b>> \in Seq(S) /\ <<a, b>> \in Seq(S)
      /\ Len(<<a>>) = 1 /\ Len(<<b>>) = 1 /\ Len(<<a, b>>) = 2
  OBVIOUS
<1>2. /\ <<a>> \o <<b>> \in Seq(S) /\ Len(<<a>> \o <<b>>) = 2
      /\ (<<a>> \o <<b>>)[1] = a /\ (<<a>> \o <<b>>)[2] = b
  BY <1>1, ConcatProperties
<1>3. <<a, b>> = <<a>> \o <<b>>
  <2>1. \A i \in 1 .. 2 : <<a, b>>[i] = (<<a>> \o <<b>>)[i]
    BY <1>2
  <2> QED BY <1>1, <1>2, <2>1, SeqEqual
<1>4. SubSeq(<<a, b>>, 1, 1) = <<a>>
  <2>1. /\ SubSeq(<<a, b>>, 1, 1) \in Seq(S)
        /\ Len(SubSeq(<<a, b>>, 1, 1)) = 1
        /\ SubSeq(<<a, b>>, 1, 1)[1] = a
    BY SubSeqProperties
  <2>2. \A i \in 1 .. 1 : SubSeq(<<a, b>>, 1, 1)[i] = <<a>>[i]
    BY <2>1
  <2> QED BY <1>1, <2>1, <2>2, SeqEqual
<1> QED BY <1>3, <1>4

\* What the controller keeps of a code that comes: all, the prefix or nothing.
LEMMA Kept ==
  ASSUME NEW w \in Seq(Code), NEW code \in Code, NEW room \in Nat
  PROVE  LET codes == Codes(code)
             enter == [code EXCEPT !.key = "enter"]
             w2 == w \o IF Len(codes) <= room THEN codes
                        ELSE SubSeq(codes, 1, room)
         IN  IF code.key # "keypad"
               THEN /\ Len(codes) = 1
                    /\ w2 = IF room >= 1 THEN Append(w, code) ELSE w
               ELSE /\ Len(codes) = 2
                    /\ w2 = IF room >= 2
                              THEN Append(Append(w, Prefix), enter)
                            ELSE IF room = 1 THEN Append(w, Prefix) ELSE w
<1> DEFINE enter == [code EXCEPT !.key = "enter"]
<1>1. Prefix \in Code /\ enter \in Code
  BY DEF Prefix, Break, Code, AllKeys
<1>2. w \o << >> = w
  BY ConcatEmptySeq
<1>3. ASSUME NEW x \in Code PROVE w \o <<x>> = Append(w, x)
  BY <1>3, AppendIsConcat
<1>4. CASE code.key # "keypad"
  <2>1. Codes(code) = <<code>> /\ Len(Codes(code)) = 1
    BY <1>4 DEF Codes
  <2>2. CASE room >= 1
    BY <1>3, <1>4, <2>1, <2>2
  <2>3. CASE room = 0
    <3>1. SubSeq(<<code>>, 1, room) = << >>
      BY <2>3, SubSeqEmpty
    <3> QED BY <1>2, <1>4, <2>1, <2>3, <3>1
  <2>4. room >= 1 \/ room = 0
    OBVIOUS
  <2> QED BY <2>2, <2>3, <2>4
<1>5. CASE code.key = "keypad"
  <2>1. Codes(code) = <<Prefix, enter>> /\ Len(Codes(code)) = 2
    BY <1>5 DEF Codes
  <2>2. CASE room >= 2
    <3>1. <<Prefix, enter>> = <<Prefix>> \o <<enter>>
      BY <1>1, Pair
    <3>2. w \o (<<Prefix>> \o <<enter>>) = (w \o <<Prefix>>) \o <<enter>>
      BY <1>1, ConcatAssociative
    <3>3. (w \o <<Prefix>>) \o <<enter>> = Append(Append(w, Prefix), enter)
      <4>1. Append(w, Prefix) \in Seq(Code)
        BY <1>1, AppendProperties
      <4> QED BY <1>1, <1>3, <4>1, AppendIsConcat
    <3> QED BY <1>5, <2>1, <2>2, <3>1, <3>2, <3>3
  <2>3. CASE room = 1
    <3>1. SubSeq(<<Prefix, enter>>, 1, 1) = <<Prefix>>
      BY <1>1, Pair
    <3> QED BY <1>1, <1>3, <1>5, <2>1, <2>3, <3>1
  <2>4. CASE room = 0
    <3>1. SubSeq(<<Prefix, enter>>, 1, room) = << >>
      BY <2>4, SubSeqEmpty
    <3> QED BY <1>2, <1>5, <2>1, <2>4, <3>1
  <2>5. room >= 2 \/ room = 1 \/ room = 0
    OBVIOUS
  <2> QED BY <2>2, <2>3, <2>4, <2>5
<1> QED BY <1>4, <1>5

\* A handler whose modifiers are right makes of a key what it means.
LEMMA MeantIsMade ==
  ASSUME NEW e \in ModState, Settled(e), capsOn \in BOOLEAN,
         NEW k \in AllKeys \ {"keypad"}
  PROVE  /\ Meant(k) \in Characters \cup {NoChar}
         /\ Meant(k) = NoChar <=> Char(e, Make(k)) = NoChar
         /\ stale = {} => Meant(k) = Char(e, Make(k))
<1>1. stale = {} =>
        e.shift = (held \cap ShiftKeys # {}) /\ e.caps = capsOn
  BY DEF Settled, ModState
<1>2. e.shift \in BOOLEAN /\ e.caps \in BOOLEAN
  BY DEF ModState
<1>3. CASE k = "a"
  BY <1>1, <1>2, <1>3 DEF Meant, Char, Make, NoChar, Characters
<1>4. CASE k = "1"
  BY <1>1, <1>2, <1>4 DEF Meant, Char, Make, NoChar, Characters
<1>5. CASE k \notin {"a", "1"}
  BY <1>5 DEF Meant, Char, Make, NoChar, AllKeys, ShiftKeys, Characters
<1> QED BY <1>3, <1>4, <1>5

\* A key is pressed, released or repeats: whatever the controller keeps of it,
\* the handler has a way through what it holds then.
LEMMA Sent ==
  ASSUME KbTypes, WireInv, NEW k \in AllKeys, NEW code \in {Make(k), Break(k)},
         NEW changes \in BOOLEAN, Send(code, changes),
         UNCHANGED <<modifiers, queue>>
  PROVE  /\ wire' \in Seq(Code) /\ Len(wire') <= WireSize
         /\ want' \in Seq(Characters \cup {Doubtful})
         /\ Len(want) <= Len(want')
         /\ \A i \in 1 .. Len(want) : want'[i] = want[i]
         /\ \E e \in ModState :
              LET e2 == IF Len(Codes(code)) <= WireSize - Len(wire)
                          THEN After(e, code) ELSE e
              IN  Settled(e) /\ Leads(Now', e2, wire', Len(queue'), want')
<1> DEFINE room == WireSize - Len(wire)
           enter == [code EXCEPT !.key = "enter"]
           fits == Len(Codes(code)) <= room
           T == Characters \cup {Doubtful}
<1>1. PICK e \in ModState :
        Settled(e) /\ Leads(Now, e, wire, Len(queue), want)
  BY DEF WireInv
<1>2. /\ Len(wire) \in Nat /\ room \in Nat /\ Len(queue) \in Nat
      /\ want \in Seq(T) /\ wire \in Seq(Code)
      /\ capsOn \in BOOLEAN
  <2>1. /\ wire \in Seq(Code) /\ queue \in Seq(Characters) /\ want \in Seq(T)
        /\ capsOn \in BOOLEAN /\ Len(wire) <= WireSize /\ WireSize \in Nat
    BY KeyboardAssumption DEF KbTypes, TypeOK
  <2>2. Len(wire) \in Nat /\ Len(queue) \in Nat
    BY <2>1, LenProperties
  <2>3. room \in Nat
    BY <2>1, <2>2
  <2> QED BY <2>1, <2>2, <2>3
<1>3. code \in Code /\ Prefix \in Code /\ enter \in Code
  <2>1. \A j \in AllKeys \cup {"0x60"} : Make(j) \in Code /\ Break(j) \in Code
    BY DEF Code, Make, Break
  <2>3. code \in Code /\ Prefix \in Code
    BY <2>1 DEF Prefix
  <2>2. "enter" \in AllKeys
    BY DEF AllKeys
  <2> QED BY <2>2, <2>3 DEF Code
<1>4. Now' = Now /\ queue' = queue
  BY DEF Now, modifiers
<1>5. wire' = wire \o IF fits THEN Codes(code)
                     ELSE SubSeq(Codes(code), 1, room)
  BY DEF Send
<1>6. IF code.key # "keypad"
        THEN /\ Len(Codes(code)) = 1
             /\ wire' = IF fits THEN Append(wire, code) ELSE wire
        ELSE /\ Len(Codes(code)) = 2
             /\ wire' = IF fits THEN Append(Append(wire, Prefix), enter)
                        ELSE IF room = 1 THEN Append(wire, Prefix) ELSE wire
  <2>1. CASE code.key # "keypad"
    BY <1>2, <1>3, <1>5, <2>1, Kept
  <2>2. CASE code.key = "keypad"
    BY <1>2, <1>3, <1>5, <2>2, Kept
  <2> QED BY <2>1, <2>2
<1>7. Len(wire') <= WireSize /\ wire' \in Seq(Code)
  <2>1. \A x \in Code : /\ Append(wire, x) \in Seq(Code)
                         /\ Len(Append(wire, x)) = Len(wire) + 1
    BY <1>2, AppendProperties
  <2>2. /\ Append(Append(wire, Prefix), enter) \in Seq(Code)
        /\ Len(Append(Append(wire, Prefix), enter)) = Len(wire) + 2
    BY <1>2, <1>3, <2>1, AppendProperties
  <2>3. Len(wire) + room = WireSize /\ WireSize \in Nat
    BY <1>2, KeyboardAssumption
  <2>4. /\ fits /\ code.key # "keypad" => Len(wire) + 1 <= WireSize
        /\ fits /\ code.key = "keypad" => Len(wire) + 2 <= WireSize
        /\ room = 1 => Len(wire) + 1 <= WireSize
        /\ Len(wire) <= WireSize
    <3>1. fits /\ code.key # "keypad" => 1 <= room
      BY <1>6
    <3>2. fits /\ code.key = "keypad" => 2 <= room
      BY <1>6
    <3> HIDE DEF fits
    <3> QED BY <1>2, <2>3, <3>1, <3>2
  <2>5. CASE code.key # "keypad"
    BY <1>2, <1>3, <1>6, <2>1, <2>4, <2>5
  <2>6. CASE code.key = "keypad"
    BY <1>2, <1>3, <1>6, <2>1, <2>2, <2>4, <2>6
  <2> QED BY <2>5, <2>6
\* The character, if one is made, is the one that was meant.
<1> DEFINE last == IF code.key = "keypad" THEN enter ELSE code
           char == IF code.up THEN NoChar ELSE Meant(code.key)
<1>8. want' = IF ~fits \/ char = NoChar THEN want
              ELSE Append(want, IF stale = {} THEN char ELSE Doubtful)
  BY DEF Send
<1>9. /\ char \in Characters \cup {NoChar}
      /\ char = NoChar <=> Char(e, last) = NoChar
      /\ stale = {} => char = Char(e, last)
  <2>1. CASE code.up
    BY <2>1 DEF Char
  <2>2. CASE ~code.up /\ code.key = "keypad"
    BY <2>2 DEF Char, Meant, NoChar, ShiftKeys, Characters, Make, Break
  <2>3. CASE ~code.up /\ code.key # "keypad"
    <3>1. code = Make(k) /\ code.key = k
      BY <2>3 DEF Make, Break
    <3> QED BY <1>1, <1>2, <2>3, <3>1, MeantIsMade
  <2> QED BY <2>1, <2>2, <2>3
<1>10. /\ want' \in Seq(T) /\ Len(want) <= Len(want')
       /\ \A i \in 1 .. Len(want) : want'[i] = want[i]
  <2>1. CASE ~fits \/ char = NoChar
    BY <2>1, <1>2, <1>8
  <2>2. CASE fits /\ char # NoChar
    BY <2>2, <1>2, <1>8, <1>9, AppendProperties
  <2> QED BY <2>1, <2>2
<1>11. IF fits THEN Placed(Char(e, last), want, want') ELSE want' = want
  BY <1>8, <1>9 DEF Placed
<1>12. After(e, Prefix) = e /\ Char(e, Prefix) = NoChar
  BY <1>2 DEF After, Char, Prefix, Break, Make, ModState, ShiftKeys
<1>13. After(e, last) = After(e, code)
  <2>1. CASE code.key = "keypad"
    <3>1. code.key \notin ShiftKeys \cup {"ctrl", "alt"} /\ code # Make("caps")
      BY <2>1 DEF Make, ShiftKeys
    <3>2. /\ enter.key = "enter"
          /\ enter.key \notin ShiftKeys \cup {"ctrl", "alt"}
          /\ enter # Make("caps")
      BY <1>3 DEF Make, ShiftKeys, Code
    <3> QED BY <2>1, <3>1, <3>2 DEF After
  <2> QED BY <2>1
<1>14. Leads(Now, IF fits THEN After(e, code) ELSE e, wire', Len(queue), want')
  <2>1. CASE wire' = wire /\ ~fits
    BY <1>1, <1>11, <2>1
  <2>2. CASE fits /\ code.key # "keypad"
    <3>1. wire' = Append(wire, code) /\ last = code
      BY <1>6, <2>2
    <3>2. Placed(Char(e, code), want, want')
      BY <1>11, <2>2, <3>1
    <3>3. Leads(Now, After(e, code), Append(wire, code), Len(queue), want')
      BY <1>1, <1>2, <1>3, <3>2, Extended
    <3> QED BY <2>2, <3>1, <3>3
  <2>3. CASE code.key = "keypad" /\ (fits \/ room = 1)
    <3> DEFINE w1 == Append(wire, Prefix)
    <3>1. w1 \in Seq(Code)
      BY <1>2, <1>3, AppendProperties
    <3>2. Leads(Now, e, w1, Len(queue), want)
      <4>1. Placed(Char(e, Prefix), want, want)
        BY <1>12 DEF Placed
      <4>2. Leads(Now, After(e, Prefix), w1, Len(queue), want)
        BY <1>1, <1>2, <1>3, <4>1, Extended
      <4> QED BY <1>12, <4>2
    <3>3. CASE ~fits
      BY <1>6, <1>11, <2>3, <3>2, <3>3
    <3>4. CASE fits
      <4>1. wire' = Append(w1, enter) /\ last = enter
        BY <1>6, <2>3, <3>4
      <4>2. Placed(Char(e, enter), want, want')
        BY <1>11, <3>4, <4>1
      <4> HIDE DEF w1, enter
      <4>3. Leads(Now, After(e, enter), Append(w1, enter), Len(queue), want')
        BY <1>2, <1>3, <3>1, <3>2, <4>2, Extended
      <4> QED BY <1>13, <3>4, <4>1, <4>3
    <3> QED BY <3>3, <3>4
  <2> QED BY <1>2, <1>6, <2>1, <2>2, <2>3
<1> QED BY <1>1, <1>2, <1>4, <1>7, <1>10, <1>14

-----------------------------------------------------------------------------
LEMMA KbInit == Init => KbInv
<1> SUFFICES ASSUME Init PROVE KbInv
  OBVIOUS
<1>1. KbTypes
  <2>1. << >> \in Seq(Code) /\ << >> \in Seq(Characters)
        /\ << >> \in Seq(Characters \cup {Doubtful}) /\ Len(<< >>) = 0
    OBVIOUS
  <2>2. TypeOK
    <3>1. held \subseteq Keys /\ capsOn \in BOOLEAN
      BY DEF Init
    <3>2. Len(wire) <= WireSize /\ Len(queue) <= Capacity
      BY <2>1, KeyboardAssumption DEF Init
    <3>3. stale = {} /\ {shift, ctrl, alt, caps} \subseteq BOOLEAN
      BY DEF Init
    <3>4. queue \in Seq(Characters) /\ want \in Seq(Characters \cup {Doubtful})
      BY <2>1 DEF Init
    <3> QED BY <3>1, <3>2, <3>3, <3>4 DEF TypeOK
  <2>3. wire \in Seq(Code) /\ held = {}
    BY <2>1 DEF Init
  <2> QED BY <2>2, <2>3 DEF KbTypes
<1>2. Now \in ModState /\ Settled(Now)
  <2>1. Now = [shift |-> FALSE, ctrl |-> FALSE, alt |-> FALSE, caps |-> FALSE]
    BY DEF Init, Now
  <2>2. held = {} /\ capsOn = FALSE /\ stale = {}
    BY DEF Init
  <2>3. Now \in ModState
    BY <2>1 DEF ModState
  <2>4. /\ Now.shift = FALSE
        /\ Now.ctrl = FALSE
        /\ Now.alt = FALSE
        /\ Now.caps = FALSE
    BY <2>1
  <2>6. /\ held \cap ShiftKeys = {}
        /\ "ctrl" \notin held
        /\ "alt" \notin held
        /\ "caps" \notin stale
    BY <2>2
  <2>5. Settled(Now)
    <3>1. Now.shift = (held \cap ShiftKeys # {}) \/ "shift" \in stale
      <4>1. (held \cap ShiftKeys # {}) = FALSE
        BY <2>6
      <4> QED BY <2>4, <4>1, Zenon
    <3>2. Now.ctrl = ("ctrl" \in held) \/ "ctrl" \in stale
      <4>1. ("ctrl" \in held) = FALSE
        BY <2>6
      <4> QED BY <2>4, <4>1, Zenon
    <3>3. Now.alt = ("alt" \in held) \/ "alt" \in stale
      <4>1. ("alt" \in held) = FALSE
        BY <2>6
      <4> QED BY <2>4, <4>1, Zenon
    <3>4. Now.caps = (capsOn # ("caps" \in stale))
      <4>1. (capsOn # ("caps" \in stale)) = FALSE
        <5>1. ("caps" \in stale) = FALSE
          BY <2>6
        <5> QED BY <2>2, <5>1, Zenon
      <4> QED BY <2>4, <4>1, Zenon
    <3> HIDE DEF Now
    <3> QED BY <3>1, <3>2, <3>3, <3>4 DEF Settled
  <2> QED BY <2>3, <2>5
<1>3. Leads(Now, Now, wire, Len(queue), want)
  <2> DEFINE s == [i \in 0 .. Len(wire) |-> Now]
             p == [i \in 0 .. Len(wire) |-> 0]
  <2>1. Len(wire) = 0 /\ Len(queue) = 0 /\ Len(want) = 0
    BY DEF Init
  <2>2. Run(s, p, wire, Len(queue), want)
    BY <1>2, <2>1 DEF Run
  <2>3. /\ s \in [0 .. Len(wire) -> ModState]
        /\ p \in [0 .. Len(wire) -> Nat]
        /\ s[0] = Now /\ s[Len(wire)] = Now
    BY <1>2, <2>1
  <2> QED BY <2>2, <2>3 DEF Leads
<1>4. QueueInv
  BY DEF Init, QueueInv
<1> QED BY <1>1, <1>2, <1>3, <1>4 DEF KbInv, WireInv

\* What the keyboard's actions have in common: an action keeps the invariant if
\* modifiers that were the keys' are so again, with the code if it is kept.
LEMMA SentInv ==
  ASSUME KbInv, NEW k \in AllKeys, NEW code \in {Make(k), Break(k)},
         NEW changes \in BOOLEAN, Send(code, changes),
         UNCHANGED <<modifiers, queue>>,
         held' \subseteq Keys, capsOn' \in BOOLEAN,
         \A j, l \in held' \cap ShiftKeys : j = l,
         \A e, e2 \in ModState :
           /\ Settled(e)
           /\ e2 = IF Len(Codes(code)) <= WireSize - Len(wire)
                    THEN After(e, code) ELSE e
           => Settled(e2)'
  PROVE  KbInv'
<1>1. KbTypes /\ WireInv /\ QueueInv
  BY DEF KbInv
<1> DEFINE fits == Len(Codes(code)) <= WireSize - Len(wire)
<1>2. /\ wire' \in Seq(Code) /\ Len(wire') <= WireSize
      /\ want' \in Seq(Characters \cup {Doubtful})
      /\ Len(want) <= Len(want')
      /\ \A i \in 1 .. Len(want) : want'[i] = want[i]
  BY <1>1, Sent
<1>3. PICK e \in ModState :
        /\ Settled(e)
        /\ Leads(Now', IF fits THEN After(e, code) ELSE e, wire',
                 Len(queue'), want')
  BY <1>1, Sent
<1>4. code \in Code
  <2>1. \A j \in AllKeys : Make(j) \in Code /\ Break(j) \in Code
    BY DEF Code, Make, Break
  <2> QED BY <2>1
<1>5. PICK e2 \in ModState : e2 = IF fits THEN After(e, code) ELSE e
  BY <1>4, AfterTypes
<1>6. WireInv'
  <2>1. Settled(e2)' /\ Leads(Now', e2, wire', Len(queue'), want')
    BY <1>3, <1>5
  <2> QED BY <2>1 DEF WireInv
<1>7. KbTypes'
  <2>1. stale' \subseteq {"shift", "ctrl", "alt", "caps"}
    BY <1>1 DEF Send, KbTypes, TypeOK
  <2> QED BY <1>1, <1>2, <2>1 DEF KbTypes, TypeOK, modifiers
<1>8. QueueInv'
  <2>1. Len(queue) <= Len(want) /\ Len(queue) \in Nat /\ Len(want) \in Nat
        /\ DOMAIN queue = 1 .. Len(queue) /\ queue' = queue
    <3>1. queue \in Seq(Characters) /\ want \in Seq(Characters \cup {Doubtful})
          /\ wire \in Seq(Code)
      BY <1>1 DEF KbTypes, TypeOK
    <3>2. PICK s \in [0 .. Len(wire) -> ModState],
               p \in [0 .. Len(wire) -> Nat] :
            Run(s, p, wire, Len(queue), want)
      BY <1>1 DEF WireInv, Leads
    <3>3. Len(want) = Len(queue) + p[Len(wire)] /\ p[Len(wire)] \in Nat
      BY <3>1, <3>2, LenProperties DEF Run
    <3> QED BY <3>1, <3>3, LenProperties
  <2> QED BY <1>1, <1>2, <2>1 DEF QueueInv
<1> QED BY <1>6, <1>7, <1>8 DEF KbInv

\* After a code the handler knows of the modifier it belongs to, and of the
\* others what it knew.
LEMMA PressInv == KbInv /\ (\E k \in Keys : Press(k)) => KbInv'
<1> SUFFICES ASSUME KbInv, NEW k \in Keys, Press(k) PROVE KbInv'
  OBVIOUS
<1>1. k \in AllKeys
  BY KeyboardAssumption
<1>2. /\ k \notin held /\ held' = held \cup {k}
      /\ k \in ShiftKeys => held \cap ShiftKeys = {}
      /\ capsOn' = (capsOn # (k = "caps"))
      /\ Send(Make(k), TRUE) /\ UNCHANGED <<modifiers, queue>>
  BY DEF Press
<1>3. /\ held \subseteq Keys /\ capsOn \in BOOLEAN
      /\ \A j, l \in held \cap ShiftKeys : j = l
  BY DEF KbInv, KbTypes, TypeOK
<1>4. held' \subseteq Keys /\ capsOn' \in BOOLEAN
      /\ \A j, l \in held' \cap ShiftKeys : j = l
  BY <1>2, <1>3
<1>5. ASSUME NEW e \in ModState, NEW e2 \in ModState, Settled(e),
             e2 = IF Len(Codes(Make(k))) <= WireSize - Len(wire)
                    THEN After(e, Make(k)) ELSE e
      PROVE  Settled(e2)'
  <2> DEFINE fits == Len(Codes(Make(k))) <= WireSize - Len(wire)
             mod == {Modifier(k)} \cap {"shift", "ctrl", "alt", "caps"}
  <2>1. stale' = IF mod = {"caps"}
                   THEN IF fits THEN stale
                        ELSE (stale \cup mod) \ (stale \cap mod)
                 ELSE IF fits THEN stale \ mod ELSE stale \cup mod
    BY <1>2 DEF Send, Make
  <2>2. CASE k \in ShiftKeys
    <3>1. mod = {"shift"}
      BY <2>2 DEF Modifier
    <3>2. held' \cap ShiftKeys # {} /\ capsOn' = capsOn
          /\ ("ctrl" \in held' <=> "ctrl" \in held)
          /\ ("alt" \in held' <=> "alt" \in held)
      BY <1>2, <1>3, <2>2 DEF ShiftKeys
    <3>3. CASE fits
      <4>1. /\ e2.shift = TRUE
            /\ e2.ctrl = e.ctrl
            /\ e2.alt = e.alt
            /\ e2.caps = e.caps
        <5>1. /\ Make(k).key = k /\ Make(k).up = FALSE
              /\ k # "ctrl" /\ k # "alt" /\ Make(k) # Make("caps")
          BY <2>2 DEF Make, ShiftKeys
        <5>2. e2 = After(e, Make(k))
          BY <1>5, <3>3
        <5> QED BY <5>1, <5>2, <2>2 DEF After
      <4>2. stale' = stale \ {"shift"}
        BY <2>1, <3>1, <3>3
      <4> QED BY <1>5, <3>2, <4>1, <4>2 DEF Settled, ModState
    <3>4. CASE ~fits
      <4>1. e2 = e /\ stale' = stale \cup {"shift"}
        BY <1>5, <2>1, <3>1, <3>4
      <4> QED BY <1>5, <3>2, <4>1 DEF Settled, ModState
    <3> QED BY <3>3, <3>4
  <2>3. CASE k \in {"ctrl", "alt"}
    <3>1. mod = {k}
      BY <2>3 DEF Modifier, ShiftKeys
    <3>2. held' \cap ShiftKeys = held \cap ShiftKeys /\ capsOn' = capsOn
      BY <1>2, <1>3, <2>3 DEF ShiftKeys
    <3>3. CASE fits
      <4>1. /\ e2.shift = e.shift
            /\ e2.ctrl = IF k = "ctrl" THEN TRUE ELSE e.ctrl
            /\ e2.alt = IF k = "alt" THEN TRUE ELSE e.alt
            /\ e2.caps = e.caps
        <5>1. /\ Make(k).key = k /\ Make(k).up = FALSE
              /\ k \notin ShiftKeys /\ Make(k) # Make("caps")
          BY <2>3 DEF Make, ShiftKeys
        <5>2. e2 = After(e, Make(k))
          BY <1>5, <3>3
        <5> QED BY <5>1, <5>2, <2>3 DEF After
      <4>2. stale' = stale \ {k}
        BY <2>1, <2>3, <3>1, <3>3
      <4>3. held' \cap ShiftKeys = held \cap ShiftKeys /\ capsOn' = capsOn
        BY <1>2, <3>2
      <4>4. e2.shift = (held' \cap ShiftKeys # {}) \/ "shift" \in stale'
        BY <1>5, <2>3, <4>1, <4>2, <4>3 DEF Settled
      <4>5. e2.ctrl = ("ctrl" \in held') \/ "ctrl" \in stale'
        <5>1. CASE k = "ctrl"
          <6>1. ("ctrl" \in held') = TRUE
            BY <1>2, <5>1
          <6> QED BY <4>1, <5>1, <6>1, Zenon
        <5>2. CASE k = "alt"
          <6>1. ("ctrl" \in held') = ("ctrl" \in held)
            BY <1>2, <5>2
          <6> QED BY <1>5, <4>1, <4>2, <5>2, <6>1 DEF Settled
        <5> QED BY <2>3, <5>1, <5>2
      <4>6. e2.alt = ("alt" \in held') \/ "alt" \in stale'
        <5>1. CASE k = "alt"
          <6>1. ("alt" \in held') = TRUE
            BY <1>2, <5>1
          <6> QED BY <4>1, <5>1, <6>1, Zenon
        <5>2. CASE k = "ctrl"
          <6>1. ("alt" \in held') = ("alt" \in held)
            BY <1>2, <5>2
          <6> QED BY <1>5, <4>1, <4>2, <5>2, <6>1 DEF Settled
        <5> QED BY <2>3, <5>1, <5>2
      <4>7. e2.caps = (capsOn' # ("caps" \in stale'))
        BY <1>5, <2>3, <4>1, <4>2, <4>3 DEF Settled
      <4> QED BY <4>4, <4>5, <4>6, <4>7, Zenon DEF Settled
    <3>4. CASE ~fits
      <4>1. e2 = e /\ stale' = stale \cup {k}
        BY <1>5, <2>1, <2>3, <3>1, <3>4
      <4> QED BY <1>2, <1>5, <2>3, <3>2, <4>1 DEF Settled, ModState
    <3> QED BY <3>3, <3>4
  <2>4. CASE k = "caps"
    <3>1. mod = {"caps"}
      BY <2>4 DEF Modifier, ShiftKeys
    <3>2. held' \cap ShiftKeys = held \cap ShiftKeys /\ capsOn' = ~capsOn
          /\ ("ctrl" \in held' <=> "ctrl" \in held)
          /\ ("alt" \in held' <=> "alt" \in held)
      BY <1>2, <1>3, <2>4 DEF ShiftKeys
    <3>3. CASE fits
      <4>1. /\ e2.shift = e.shift
            /\ e2.ctrl = e.ctrl
            /\ e2.alt = e.alt
            /\ e2.caps = ~e.caps
        <5>1. Make(k).key = k /\ k \notin ShiftKeys /\ Make(k) = Make("caps")
          BY <2>4 DEF Make, ShiftKeys
        <5>2. e2 = After(e, Make(k))
          BY <1>5, <3>3
        <5> QED BY <5>1, <5>2, <2>4 DEF After
      <4>2. stale' = stale
        BY <2>1, <3>1, <3>3
      <4> QED BY <1>3, <1>5, <3>2, <4>1, <4>2 DEF Settled, ModState
    <3>4. CASE ~fits
      <4>1. e2 = e
        BY <1>5, <3>4
      <4>2. stale' = (stale \cup {"caps"}) \ (stale \cap {"caps"})
        BY <2>1, <3>1, <3>4
      <4> QED BY <1>3, <1>5, <3>2, <4>1, <4>2 DEF Settled, ModState
    <3> QED BY <3>3, <3>4
  <2>5. CASE k \notin ShiftKeys \cup {"ctrl", "alt", "caps"}
    <3>1. mod = {}
      BY <1>1, <2>5 DEF Modifier, ShiftKeys, AllKeys
    <3>2. held' \cap ShiftKeys = held \cap ShiftKeys /\ capsOn' = capsOn
          /\ ("ctrl" \in held' <=> "ctrl" \in held)
          /\ ("alt" \in held' <=> "alt" \in held)
      BY <1>2, <1>3, <2>5
    <3>3. e2 = e
      BY <1>5, <2>5 DEF After, Make, ModState
    <3>4. stale' = stale
      BY <2>1, <3>1
    <3> QED BY <1>5, <3>2, <3>3, <3>4 DEF Settled
  <2> QED BY <2>2, <2>3, <2>4, <2>5
<1> QED BY <1>1, <1>2, <1>4, <1>5, SentInv

\* A release turns its modifier off, whether the shift key is the left or the
\* right one; that of caps lock means nothing.
LEMMA ReleaseInv == KbInv /\ (\E k \in Keys : Release(k)) => KbInv'
<1> SUFFICES ASSUME KbInv, NEW k \in Keys, Release(k) PROVE KbInv'
  OBVIOUS
<1>1. k \in AllKeys
  BY KeyboardAssumption
<1>2. /\ k \in held /\ held' = held \ {k} /\ capsOn' = capsOn
      /\ Send(Break(k), k # "caps") /\ UNCHANGED <<modifiers, queue>>
  BY DEF Release
<1>3. /\ held \subseteq Keys /\ capsOn \in BOOLEAN
      /\ \A j, l \in held \cap ShiftKeys : j = l
  BY DEF KbInv, KbTypes, TypeOK
<1>4. held' \subseteq Keys /\ capsOn' \in BOOLEAN
      /\ \A j, l \in held' \cap ShiftKeys : j = l
  BY <1>2, <1>3
<1>5. ASSUME NEW e \in ModState, NEW e2 \in ModState, Settled(e),
             e2 = IF Len(Codes(Break(k))) <= WireSize - Len(wire)
                    THEN After(e, Break(k)) ELSE e
      PROVE  Settled(e2)'
  <2> DEFINE fits == Len(Codes(Break(k))) <= WireSize - Len(wire)
             mod == {Modifier(k)} \cap {"shift", "ctrl", "alt", "caps"}
  <2>1. k # "caps" =>
          stale' = IF mod = {"caps"}
                     THEN IF fits THEN stale
                          ELSE (stale \cup mod) \ (stale \cap mod)
                   ELSE IF fits THEN stale \ mod ELSE stale \cup mod
    BY <1>2 DEF Send, Break
  <2>2. Break(k).key = k /\ Break(k).up = TRUE /\ Break(k) # Make("caps")
    BY DEF Break, Make
  <2>3. CASE k \in ShiftKeys
    <3>1. mod = {"shift"} /\ k \notin {"ctrl", "alt", "caps"}
      BY <2>3 DEF Modifier, ShiftKeys
    <3>2. held' \cap ShiftKeys = {}
          /\ ("ctrl" \in held' <=> "ctrl" \in held)
          /\ ("alt" \in held' <=> "alt" \in held)
      BY <1>2, <1>3, <2>3, <3>1
    <3>3. CASE fits
      <4>1. /\ e2.shift = FALSE
            /\ e2.ctrl = e.ctrl
            /\ e2.alt = e.alt
            /\ e2.caps = e.caps
        <5>1. e2 = After(e, Break(k))
          BY <1>5, <3>3
        <5> QED BY <5>1, <2>2, <2>3, <3>1 DEF After
      <4>2. stale' = stale \ {"shift"}
        BY <2>1, <3>1, <3>3
      <4> QED BY <1>2, <1>5, <3>2, <4>1, <4>2 DEF Settled, ModState
    <3>4. CASE ~fits
      <4>1. e2 = e /\ stale' = stale \cup {"shift"}
        BY <1>5, <2>1, <3>1, <3>4
      <4> QED BY <1>2, <1>5, <3>2, <4>1 DEF Settled, ModState
    <3> QED BY <3>3, <3>4
  <2>4. CASE k \in {"ctrl", "alt"}
    <3>1. mod = {k} /\ k \notin ShiftKeys /\ k # "caps"
      BY <2>4 DEF Modifier, ShiftKeys
    <3>2. held' \cap ShiftKeys = held \cap ShiftKeys
      BY <1>2, <3>1
    <3>3. CASE fits
      <4>1. /\ e2.shift = e.shift
            /\ e2.ctrl = IF k = "ctrl" THEN FALSE ELSE e.ctrl
            /\ e2.alt = IF k = "alt" THEN FALSE ELSE e.alt
            /\ e2.caps = e.caps
        <5>1. e2 = After(e, Break(k))
          BY <1>5, <3>3
        <5> QED BY <5>1, <2>2, <2>4, <3>1 DEF After
      <4>2. stale' = stale \ {k}
        BY <2>1, <2>4, <3>1, <3>3
      <4>3. held' \cap ShiftKeys = held \cap ShiftKeys /\ capsOn' = capsOn
        BY <1>2, <3>2
      <4>4. e2.shift = (held' \cap ShiftKeys # {}) \/ "shift" \in stale'
        BY <1>5, <2>4, <4>1, <4>2, <4>3 DEF Settled
      <4>5. e2.ctrl = ("ctrl" \in held') \/ "ctrl" \in stale'
        <5>1. CASE k = "ctrl"
          <6>1. ("ctrl" \in held') = FALSE
            BY <1>2, <5>1
          <6> QED BY <4>1, <5>1, <6>1, Zenon
        <5>2. CASE k = "alt"
          <6>1. ("ctrl" \in held') = ("ctrl" \in held)
            BY <1>2, <5>2
          <6> QED BY <1>5, <4>1, <4>2, <5>2, <6>1 DEF Settled
        <5> QED BY <2>4, <5>1, <5>2
      <4>6. e2.alt = ("alt" \in held') \/ "alt" \in stale'
        <5>1. CASE k = "alt"
          <6>1. ("alt" \in held') = FALSE
            BY <1>2, <5>1
          <6> QED BY <4>1, <5>1, <6>1, Zenon
        <5>2. CASE k = "ctrl"
          <6>1. ("alt" \in held') = ("alt" \in held)
            BY <1>2, <5>2
          <6> QED BY <1>5, <4>1, <4>2, <5>2, <6>1 DEF Settled
        <5> QED BY <2>4, <5>1, <5>2
      <4>7. e2.caps = (capsOn' # ("caps" \in stale'))
        BY <1>5, <2>4, <4>1, <4>2, <4>3 DEF Settled
      <4> QED BY <4>4, <4>5, <4>6, <4>7, Zenon DEF Settled
    <3>4. CASE ~fits
      <4>1. e2 = e /\ stale' = stale \cup {k}
        BY <1>5, <2>1, <2>4, <3>1, <3>4
      <4> QED BY <1>2, <1>5, <2>4, <3>2, <4>1 DEF Settled, ModState
    <3> QED BY <3>3, <3>4
  <2>5. CASE k \notin ShiftKeys \cup {"ctrl", "alt"}
    <3>1. held' \cap ShiftKeys = held \cap ShiftKeys
          /\ ("ctrl" \in held' <=> "ctrl" \in held)
          /\ ("alt" \in held' <=> "alt" \in held)
      BY <1>2, <1>3, <2>5
    <3>2. e2 = e
      BY <1>5, <2>2, <2>5 DEF After, ModState
    <3>3. stale' = stale
      <4>1. k # "caps" => mod = {}
        BY <1>1, <2>5 DEF Modifier, ShiftKeys, AllKeys
      <4>2. k = "caps" => stale' = stale
        BY <1>2 DEF Send
      <4> HIDE DEF mod
      <4>3. k # "caps" => stale' = stale
        BY <2>1, <4>1
      <4> QED BY <4>2, <4>3
    <3> QED BY <1>2, <1>5, <3>1, <3>2, <3>3 DEF Settled
  <2> QED BY <2>3, <2>4, <2>5
<1> QED BY <1>1, <1>2, <1>4, <1>5, SentInv

\* A repeat tells of a key that is down, and changes nothing.
LEMMA RepeatInv == KbInv /\ (\E k \in Keys : Repeat(k)) => KbInv'
<1> SUFFICES ASSUME KbInv, NEW k \in Keys, Repeat(k) PROVE KbInv'
  OBVIOUS
<1>1. k \in AllKeys
  BY KeyboardAssumption
<1>2. /\ k \in held /\ k # "caps" /\ held' = held /\ capsOn' = capsOn
      /\ Send(Make(k), FALSE) /\ UNCHANGED <<modifiers, queue>>
  BY DEF Repeat, hand
<1>3. held' \subseteq Keys /\ capsOn' \in BOOLEAN
      /\ \A j, l \in held' \cap ShiftKeys : j = l
  BY <1>2 DEF KbInv, KbTypes, TypeOK
<1>4. ASSUME NEW e \in ModState, NEW e2 \in ModState, Settled(e),
             e2 = IF Len(Codes(Make(k))) <= WireSize - Len(wire)
                    THEN After(e, Make(k)) ELSE e
      PROVE  Settled(e2)'
  <2>1. stale' = stale
    BY <1>2 DEF Send
  <2>2. Make(k).key = k /\ Make(k).up = FALSE /\ Make(k) # Make("caps")
    BY <1>2 DEF Make
  <2>3. /\ e2.shift = e.shift \/ (k \in ShiftKeys /\ e2.shift = TRUE)
        /\ e2.ctrl = e.ctrl \/ (k = "ctrl" /\ e2.ctrl = TRUE)
        /\ e2.alt = e.alt \/ (k = "alt" /\ e2.alt = TRUE)
        /\ e2.caps = e.caps
    <3>1. e2 = After(e, Make(k)) \/ e2 = e
      BY <1>4
    <3>2. ASSUME e2 = After(e, Make(k))
          PROVE  /\ IF k \in ShiftKeys THEN e2.shift = TRUE
                    ELSE e2.shift = e.shift
                 /\ IF k = "ctrl" THEN e2.ctrl = TRUE ELSE e2.ctrl = e.ctrl
                 /\ IF k = "alt" THEN e2.alt = TRUE ELSE e2.alt = e.alt
                 /\ e2.caps = e.caps
      BY <2>2, <3>2 DEF After
    <3>3. CASE e2 = e
      BY <3>3
    <3>4. CASE e2 = After(e, Make(k))
      BY <3>2, <3>4
    <3> QED BY <3>1, <3>3, <3>4
  <2>4. k \in ShiftKeys => held \cap ShiftKeys # {}
    BY <1>2
  <2> QED BY <1>2, <1>4, <2>1, <2>3, <2>4 DEF Settled
<1> QED BY <1>1, <1>2, <1>3, <1>4, SentInv

\* The handler makes of the first code what the way through the codes says.
LEMMA HandlerInv == KbInv /\ KeyboardHandler => KbInv'
<1> SUFFICES ASSUME KbInv, KeyboardHandler PROVE KbInv'
  OBVIOUS
<1> DEFINE code == Head(wire)
           ch == Char(Now, code)
           n == Len(queue)
           new == IF ch = NoChar THEN 0 ELSE 1
           T == Characters \cup {Doubtful}
<1>1. /\ KbTypes /\ TypeOK /\ QueueInv /\ WireInv
      /\ wire \in Seq(Code) /\ queue \in Seq(Characters) /\ want \in Seq(T)
      /\ Len(queue) <= Capacity
  BY DEF KbInv, KbTypes, TypeOK
<1>2. /\ wire # << >> /\ code \in Code /\ wire' = Tail(wire)
      /\ Tail(wire) \in Seq(Code) /\ Len(Tail(wire)) = Len(wire) - 1
      /\ Len(wire) \in Nat /\ n \in Nat /\ Len(want) \in Nat
  BY <1>1, HeadTailProperties, LenProperties DEF KeyboardHandler
<1>3. Decode(code) = ch /\ ch \in Characters \cup {NoChar} /\ Now \in ModState
  BY <1>1, <1>2, DecodeIsChar, NowTypes, CharTypes
<1>4. /\ Now' = After(Now, code)
      /\ queue' = IF ch = NoChar THEN queue ELSE Stored(ch)
      /\ want' = IF ch # NoChar /\ n = Capacity
                   THEN RemoveAt(want, Capacity + 1) ELSE want
      /\ UNCHANGED <<held, capsOn, stale>>
  <2>1. After(Now, code) =
          [shift |-> ShiftAfter(code), ctrl |-> CtrlAfter(code),
           alt |-> AltAfter(code), caps |-> CapsAfter(code)]
    BY <1>2, AfterIsAfter
  <2>2. Now' = After(Now, code)
    <3> HIDE DEF code
    <3> QED BY <2>1 DEF Now, KeyboardHandler, code
  <2> QED BY <1>3, <2>2 DEF KeyboardHandler, hand
<1>5. PICK e \in ModState : Settled(e) /\ Leads(Now, e, wire, n, want)
  BY <1>1 DEF WireInv
<1>6. Leads(Now', e, wire', n + new, want) /\ new \in 0 .. 1 /\ new \in Nat
  <2>1. new \in 0 .. 1
    OBVIOUS
  <2> HIDE DEF ch, new
  <2>2. new = IF Char(Now, Head(wire)) = NoChar THEN 0 ELSE 1
    BY DEF ch, new
  <2>3. Leads(After(Now, code), e, Tail(wire), n + new, want)
    BY <1>1, <1>2, <1>5, <2>1, <2>2, Taken
  <2> QED BY <1>2, <1>4, <2>1, <2>3
<1>7. n + new <= Len(want)
  <2> HIDE DEF new, n
  <2>1. Len(wire') \in Nat /\ n + new \in Nat
    BY <1>2, <1>6, LenProperties
  <2> QED BY <1>6, <2>1, Reach
<1>8. ASSUME Leads(Now', e, wire', Len(queue'), want')
      PROVE  WireInv'
  <2>1. Settled(e)'
    BY <1>4, <1>5 DEF Settled
  <2> QED BY <1>8, <2>1 DEF WireInv
<1>9. /\ queue' \in Seq(Characters) /\ Len(queue') <= Capacity
      /\ want' \in Seq(T)
      /\ Leads(Now', e, wire', Len(queue'), want')
      /\ QueueInv'
  <2>1. CASE ch = NoChar
    BY <1>1, <1>4, <1>6, <2>1 DEF QueueInv
  <2>2. CASE ch # NoChar /\ n < Capacity
    <3>1. /\ queue' = Append(queue, ch) /\ want' = want
          /\ ch \in Characters /\ new = 1
      BY <1>2, <1>3, <1>4, <2>2, KeyboardAssumption DEF Stored
    <3>2. /\ queue' \in Seq(Characters) /\ Len(queue') = n + 1
          /\ \A i \in 1 .. n : queue'[i] = queue[i]
          /\ queue'[n + 1] = ch
      BY <1>1, <3>1, AppendProperties
    <3>3. want[n + 1] \in {ch, Doubtful}
      BY <1>1, <1>2, <1>5, <2>2, FirstComes
    <3>4. QueueInv'
      BY <1>1, <1>2, <3>1, <3>2, <3>3, LenProperties DEF QueueInv
    <3> HIDE DEF n, new, ch
    <3> QED BY <1>1, <1>2, <1>6, <2>2, <3>1, <3>2, <3>4, KeyboardAssumption
            DEF n
  <2>3. CASE ch # NoChar /\ n = Capacity
    <3>1. queue' = queue /\ want' = RemoveAt(want, n + 1) /\ new = 1
      BY <1>2, <1>4, <2>3, KeyboardAssumption DEF Stored
    <3>2. n + 1 \in 1 .. Len(want)
      BY <1>2, <1>7, <3>1
    <3>3. /\ want' \in Seq(T) /\ Len(want') = Len(want) - 1
          /\ \A i \in 1 .. n : want'[i] = want[i]
          /\ \A i \in n + 1 .. Len(want) - 1 : want'[i] = want[i + 1]
      <4>1. (n + 1) - 1 = n
        BY <1>2
      <4> HIDE DEF n
      <4>2. /\ want' \in Seq(T) /\ Len(want') = Len(want) - 1
            /\ \A i \in 1 .. (n + 1) - 1 : want'[i] = want[i]
            /\ \A i \in n + 1 .. Len(want) - 1 : want'[i] = want[i + 1]
        BY <1>1, <3>1, <3>2, Removed
      <4> QED BY <4>1, <4>2
    <3>4. Leads(Now', e, wire', n, want')
      <4>1. Len(want') = n + (Len(want) - (n + 1))
        BY <1>2, <3>3
      <4>2. \A k \in 1 .. Len(want) - (n + 1) :
              want'[n + k] = want[(n + 1) + k]
        <5> SUFFICES ASSUME NEW k \in 1 .. Len(want) - (n + 1)
                     PROVE  want'[n + k] = want[(n + 1) + k]
          OBVIOUS
        <5>1. n + k \in n + 1 .. Len(want) - 1 /\ (n + k) + 1 = (n + 1) + k
          BY <1>2
        <5> QED BY <3>3, <5>1
      <4>3. Len(wire') \in Nat /\ n + 1 \in Nat
        BY <1>2, LenProperties
      <4>4. Leads(Now', e, wire', n + 1, want)
        BY <1>6, <3>1
      <4> QED BY <1>2, <4>1, <4>2, <4>3, <4>4, Moved
    <3>5. QueueInv'
      BY <1>1, <3>1, <3>3, LenProperties DEF QueueInv
    <3> QED BY <1>1, <3>1, <3>3, <3>4, <3>5
  <2> QED BY <1>1, <1>2, <2>1, <2>2, <2>3, KeyboardAssumption
<1>10. KbTypes'
  <2>1. Len(wire') <= WireSize /\ wire' \in Seq(Code)
    BY <1>1, <1>2, KeyboardAssumption DEF TypeOK
  <2>2. {shift', ctrl', alt', caps'} \subseteq BOOLEAN
    BY <1>2, <1>3, <1>4, AfterTypes DEF Now, ModState
  <2> QED BY <1>1, <1>4, <1>9, <2>1, <2>2 DEF KbTypes, TypeOK
<1> QED BY <1>8, <1>9, <1>10 DEF KbInv

\* A reader takes what was wanted first.
LEMMA ReadInv == KbInv /\ KbdReadChar => KbInv'
<1> SUFFICES ASSUME KbInv, KbdReadChar PROVE KbInv'
  OBVIOUS
<1> DEFINE n == Len(queue)
           T == Characters \cup {Doubtful}
<1>1. /\ KbTypes /\ TypeOK /\ QueueInv /\ WireInv
      /\ wire \in Seq(Code) /\ queue \in Seq(Characters) /\ want \in Seq(T)
      /\ Len(queue) <= Capacity
  BY DEF KbInv, KbTypes, TypeOK
<1>2. /\ queue # << >> /\ queue' = Tail(queue) /\ want' = Tail(want)
      /\ UNCHANGED <<held, capsOn, wire, stale, shift, ctrl, alt, caps>>
  BY DEF KbdReadChar, hand, line, modifiers
<1>3. n \in Nat \ {0} /\ Len(want) \in Nat /\ Len(wire) \in Nat
  BY <1>1, <1>2, LenProperties, EmptySeq
<1>4. PICK e \in ModState : Settled(e) /\ Leads(Now, e, wire, n, want)
  BY <1>1 DEF WireInv
<1>5. n <= Len(want) /\ want # << >>
  BY <1>1, <1>3, <1>4, Reach
<1>6. /\ queue' \in Seq(Characters) /\ Len(queue') = n - 1
      /\ \A i \in 1 .. n - 1 : queue'[i] = queue[i + 1]
  BY <1>1, <1>2, HeadTailProperties
<1>7. /\ want' \in Seq(T) /\ Len(want') = Len(want) - 1
      /\ \A i \in 1 .. Len(want) - 1 : want'[i] = want[i + 1]
  BY <1>1, <1>2, <1>5, HeadTailProperties
<1>8. Leads(Now, e, wire, n - 1, want')
  <2>1. Len(want') = (n - 1) + (Len(want) - n) /\ n - 1 \in Nat
    BY <1>3, <1>7
  <2>2. \A k \in 1 .. Len(want) - n : want'[(n - 1) + k] = want[n + k]
    <3> SUFFICES ASSUME NEW k \in 1 .. Len(want) - n
                 PROVE  want'[(n - 1) + k] = want[n + k]
      OBVIOUS
    <3>1. (n - 1) + k \in 1 .. Len(want) - 1 /\ ((n - 1) + k) + 1 = n + k
      BY <1>3
    <3> QED BY <1>7, <3>1
  <2> QED BY <1>3, <1>4, <2>1, <2>2, Moved
<1>9. WireInv'
  <2>1. Settled(e)' /\ Now' = Now
    BY <1>2, <1>4 DEF Settled, Now
  <2>2. Leads(Now', e, wire', Len(queue'), want')
    BY <1>2, <1>6, <1>8, <2>1
  <2> QED BY <2>1, <2>2 DEF WireInv
<1>10. QueueInv'
  <2> SUFFICES ASSUME NEW i \in 1 .. n - 1
               PROVE  want'[i] \in {queue'[i], Doubtful}
    BY <1>6, LenProperties DEF QueueInv
  <2>1. i + 1 \in 1 .. n /\ i \in 1 .. Len(want) - 1
    BY <1>3, <1>5
  <2>2. want[i + 1] \in {queue[i + 1], Doubtful}
    BY <1>1, <2>1, LenProperties DEF QueueInv
  <2> QED BY <1>6, <1>7, <2>1, <2>2
<1>11. KbTypes'
  <2>1. Len(queue') <= Capacity
    BY <1>1, <1>3, <1>6, KeyboardAssumption
  <2> QED BY <1>1, <1>2, <1>6, <1>7, <2>1 DEF KbTypes, TypeOK
<1> QED BY <1>9, <1>10, <1>11 DEF KbInv

LEMMA Invariance == Spec => []KbInv
<1>1. Init => KbInv
  BY KbInit
<1>2. KbInv /\ [Next]_vars => KbInv'
  <2>1. KbInv /\ Next => KbInv'
    BY PressInv, ReleaseInv, RepeatInv, HandlerInv, ReadInv DEF Next
  <2>2. KbInv /\ UNCHANGED vars => KbInv'
    BY DEF vars, hand, line, modifiers, KbInv, KbTypes, TypeOK, WireInv,
           QueueInv, Settled, Now
  <2> QED BY <2>1, <2>2
<1> QED BY <1>1, <1>2, PTL DEF Spec

-----------------------------------------------------------------------------
\* Every variable has its type: neither the controller nor the buffer holds
\* more than there is room for.
THEOREM TypeCorrect == Spec => []TypeOK
<1>1. KbInv => TypeOK
  BY DEF KbInv, KbTypes
<1> QED BY <1>1, Invariance, PTL

\* What is read is what was typed, however late the handler runs and whatever
\* the controller and the buffer have no room for.
THEOREM TypedInOrder == Spec => []TypedIsRead
<1>1. KbInv => TypedIsRead
  <2> SUFFICES ASSUME KbInv PROVE TypedIsRead
    OBVIOUS
  <2>1. /\ wire \in Seq(Code) /\ queue \in Seq(Characters)
        /\ want \in Seq(Characters \cup {Doubtful}) /\ QueueInv
    BY DEF KbInv, KbTypes, TypeOK
  <2>2. PICK e \in ModState : Leads(Now, e, wire, Len(queue), want)
    BY DEF KbInv, WireInv
  <2>3. Len(wire) \in Nat /\ Len(queue) \in Nat /\ Len(want) \in Nat
    BY <2>1, LenProperties
  <2>4. Len(queue) <= Len(want) /\ (wire = << >> => Len(want) = Len(queue))
    BY <2>1, <2>2, <2>3, Reach
  <2> QED BY <2>1, <2>4 DEF TypedIsRead, QueueInv
<1> QED BY <1>1, Invariance, PTL

\* No modifier sticks: once the handler has caught up, each that the
\* controller lost no change of is on exactly when its key is down.
THEOREM NoModifierSticks == Spec => []ModifiersRecover
<1>1. KbInv => ModifiersRecover
  <2> SUFFICES ASSUME KbInv, wire = << >> PROVE Settled(Now)
    BY DEF ModifiersRecover, Settled, Now
  <2>1. /\ wire \in Seq(Code) /\ queue \in Seq(Characters)
        /\ want \in Seq(Characters \cup {Doubtful})
    BY DEF KbInv, KbTypes, TypeOK
  <2>2. PICK e \in ModState :
          Settled(e) /\ Leads(Now, e, wire, Len(queue), want)
    BY DEF KbInv, WireInv
  <2>3. Len(wire) \in Nat /\ Len(queue) \in Nat /\ Len(want) \in Nat
    BY <2>1, LenProperties
  <2>4. e = Now
    BY <2>1, <2>2, <2>3, Reach
  <2> QED BY <2>2, <2>4
<1> QED BY <1>1, Invariance, PTL
=============================================================================

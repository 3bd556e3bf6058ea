---------------------------- MODULE Shell_proofs ----------------------------
(***************************************************************************)
(* Proofs about Shell, for every set of lines that fit the buffer and of   *)
(* commands that find their place in the list: a command runs with the     *)
(* words of the line, exec-elf's program gets those behind the file's,     *)
(* autorun's number selects the file it is shown with, and memdump shows   *)
(* the range it was given.                                                 *)
(*                                                                         *)
(* strtok works in place, so the words are there only as long as nothing   *)
(* but their ends is overwritten: ParseInv says that the buffer is the     *)
(* line with the ends of the tokens so far cut out (Cut), that the tokens  *)
(* are the first words (Taken, Upto), and all of them when strtok has      *)
(* nothing more to return (Every).                                         *)
(***************************************************************************)
EXTENDS Shell, FiniteSetTheorems, SequenceTheorems, WellFoundedInduction, TLAPS

IsLine(l) == l \in Seq(ToSet(l) \ {NUL})

\* A word begins at i, and ends before RunEnd.
Begins(l, i) ==
  i \in 1 .. Len(l) /\ l[i] # Space /\ (i > 1 => l[i - 1] = Space)

RunEnd(l, i) == Scan(Input(l), i, {NUL, Space})

\* T is the places of the first words, of all, of those before f.
Taken(l, T) ==
  /\ T \in Seq(Nat)
  /\ \A n \in 1 .. Len(T) : Begins(l, T[n]) /\ T[n] >= 2 * n - 1
  /\ \A m, n \in 1 .. Len(T) : m < n => T[m] < T[n]

Every(l, T) ==
  \A i \in 1 .. Len(l) : Begins(l, i) => \E n \in 1 .. Len(T) : T[n] = i

Upto(l, T, f) ==
  /\ f \in 1 .. Len(l) + 1 /\ (f > 1 => l[f - 1] = Space)
  /\ 2 * Len(T) + 1 <= f
  /\ \A n \in 1 .. Len(T) : RunEnd(l, T[n]) < f
  /\ \A i \in 1 .. f - 1 : Begins(l, i) => \E n \in 1 .. Len(T) : T[n] = i

\* The buffer when the words at T are cut out.
Cut(l, T) ==
  [i \in 1 .. Len(l) + 2 |->
     IF \E n \in 1 .. Len(T) : i = RunEnd(l, T[n]) THEN NUL ELSE Input(l)[i]]

Tokens == IF token = Null THEN argv ELSE Append(argv, token)

ParseInv ==
  /\ IsLine(typed) /\ Len(typed) + 1 <= 2 * MAX_ARGS
  /\ argv \in Seq(Nat) /\ Taken(typed, Tokens)
  /\ buf = Cut(typed, Tokens)
  /\ token = Null \/ next = Null => Every(typed, Tokens)
  /\ token # Null /\ next # Null => Upto(typed, Tokens, next)

Parsed == ParseInv /\ token = Null

RegistryInv ==
  /\ calls \in 0 .. Len(Registered)
  /\ command_list = SubSeq(Registered, 1, calls)
  /\ pc \in {"prompt", "parse", "answered", "run", "program"} =>
       calls = Len(Registered)

ShellInv ==
  /\ RegistryInv
  /\ pc \in {"boot", "register", "prompt"} => ran = "none"
  /\ pc = "parse" => ran = "none" /\ ParseInv
  /\ pc = "run" => Parsed
  /\ CommandGetsWords
  /\ pc = "program" /\ ran = "exec-elf" =>
       /\ Parsed /\ Len(argv) - 2 <= ELF_ARGS
       /\ handed = [i \in 1 .. Len(argv) - 2 |-> argv[i + 2]]

-----------------------------------------------------------------------------
(***************************************************************************)
(* Scanning a buffer.                                                      *)
(***************************************************************************)
\* A set of numbers has a smallest one.
LEMMA Smallest ==
  ASSUME NEW S \in SUBSET Nat, S # {}
  PROVE  \E x \in S : \A y \in S : x <= y
<1>1. PICK x \in S : \A y \in S : <<y, x>> \notin OpToRel(<, Nat)
  BY NatLessThanWellFounded, WFMin, Zenon
<1>2. \A y \in S : x <= y
  <2> SUFFICES ASSUME NEW y \in S PROVE ~(y < x)
    OBVIOUS
  <2>1. y < x => <<y, x>> \in OpToRel(<, Nat)
    BY DEF OpToRel
  <2> QED BY <1>1, <2>1
<1> QED BY <1>2

\* A set of numbers that has a number if it has all below it has all numbers.
LEMMA StrongInduction ==
  ASSUME NEW S \in SUBSET Nat,
         \A n \in Nat : (\A m \in 0 .. n - 1 : m \in S) => n \in S
  PROVE  S = Nat
<1>1. SUFFICES ASSUME Nat \ S # {} PROVE FALSE
  OBVIOUS
<1>2. PICK x \in Nat \ S : \A y \in Nat \ S : x <= y
  <2>1. Nat \ S \in SUBSET Nat
    OBVIOUS
  <2> QED BY <1>1, <2>1, Smallest
<1>3. \A m \in 0 .. x - 1 : m \in S
  BY <1>2
<1> QED BY <1>2, <1>3

\* A set of numbers with 0 and the successor of each of its members has all.
LEMMA Induction ==
  ASSUME NEW S \in SUBSET Nat, 0 \in S, \A n \in S : n + 1 \in S
  PROVE  S = Nat
<1>1. ASSUME NEW n \in Nat, \A m \in 0 .. n - 1 : m \in S PROVE n \in S
  <2>1. n # 0 => n - 1 \in S /\ (n - 1) + 1 = n
    BY <1>1
  <2> QED BY <2>1
<1> QED BY <1>1, StrongInduction

\* Scan finds a place if there is one,
LEMMA ScanIs ==
  ASSUME NEW b, Len(b) \in Nat, NEW chars, NEW i \in Nat,
         NEW j \in i .. Len(b), b[j] \in chars
  PROVE  /\ Scan(b, i, chars) \in i .. j
         /\ b[Scan(b, i, chars)] \in chars
         /\ \A k \in i .. Scan(b, i, chars) - 1 : b[k] \notin chars
<1> DEFINE S == {k \in i .. Len(b) : b[k] \in chars}
<1>1. PICK x \in S : \A y \in S : x <= y
  <2>1. S \in SUBSET Nat /\ j \in S
    OBVIOUS
  <2> HIDE DEF S
  <2> QED BY <2>1, Smallest
<1>2. \A k \in i .. x - 1 : b[k] \notin chars
  BY <1>1
<1> HIDE DEF S
<1>3. \E k \in i .. Len(b) :
        b[k] \in chars /\ \A m \in i .. k - 1 : b[m] \notin chars
  BY <1>1, <1>2 DEF S
<1>4. /\ Scan(b, i, chars) \in i .. Len(b)
      /\ b[Scan(b, i, chars)] \in chars
      /\ \A k \in i .. Scan(b, i, chars) - 1 : b[k] \notin chars
  BY <1>3 DEF Scan
<1> QED BY <1>4

\* and no other than the first.
LEMMA ScanAt ==
  ASSUME NEW b, Len(b) \in Nat, NEW chars, NEW i \in Nat,
         NEW j \in i .. Len(b), b[j] \in chars,
         \A k \in i .. j - 1 : b[k] \notin chars
  PROVE  Scan(b, i, chars) = j
BY ScanIs

-----------------------------------------------------------------------------
(***************************************************************************)
(* Words.                                                                  *)
(***************************************************************************)
LEMMA LineIs ==
  ASSUME NEW l, IsLine(l)
  PROVE  /\ Len(l) \in Nat /\ l \in Seq(ToSet(l))
         /\ \A i \in 1 .. Len(l) : l[i] # NUL
         /\ Len(Input(l)) = Len(l) + 2
         /\ \A i \in 1 .. Len(l) : Input(l)[i] = l[i]
         /\ Input(l)[Len(l) + 1] = NUL
         /\ Input(l) \in Seq(ToSet(l) \cup {NUL, "?"}) /\ NUL # Space
<1>1. /\ Len(l) \in Nat /\ l \in Seq(ToSet(l))
      /\ \A i \in 1 .. Len(l) : l[i] # NUL
  <2>1. l \in Seq(ToSet(l) \ {NUL})
    BY DEF IsLine
  <2> HIDE DEF ToSet
  <2> QED BY <2>1
<1>2. l \in Seq(ToSet(l) \cup {NUL, "?"})
  BY <1>1, DOMAIN l = 1 .. Len(l) DEF ToSet
<1>3. <<NUL, "?">> \in Seq(ToSet(l) \cup {NUL, "?"})
  OBVIOUS
<1> QED BY <1>1, <1>2, <1>3 DEF Input, NUL, Space

\* A word is all of the characters up to its end.
LEMMA EndIs ==
  ASSUME NEW l, IsLine(l), NEW i, Begins(l, i)
  PROVE  /\ RunEnd(l, i) \in i + 1 .. Len(l) + 1
         /\ \A k \in i .. RunEnd(l, i) - 1 : l[k] # Space /\ l[k] # NUL
         /\ RunEnd(l, i) <= Len(l) => l[RunEnd(l, i)] = Space
<1>1. i \in 1 .. Len(l) /\ l[i] # Space
  BY DEF Begins
<1>2. /\ Len(l) \in Nat /\ Input(l)[Len(l) + 1] = NUL
      /\ \A k \in 1 .. Len(l) : l[k] # NUL /\ Input(l)[k] = l[k]
      /\ Len(Input(l)) = Len(l) + 2
  BY LineIs
<1>3. PICK e : e = RunEnd(l, i)
  OBVIOUS
<1>4. /\ e \in i .. Len(l) + 1 /\ Input(l)[e] \in {NUL, Space}
      /\ \A k \in i .. e - 1 : Input(l)[k] \notin {NUL, Space}
  <2>1. /\ Len(Input(l)) \in Nat /\ i \in Nat
        /\ Len(l) + 1 \in i .. Len(Input(l))
        /\ Input(l)[Len(l) + 1] \in {NUL, Space}
    BY <1>1, <1>2
  <2>2. e = Scan(Input(l), i, {NUL, Space})
    BY <1>3 DEF RunEnd
  <2> QED BY <2>1, <2>2, ScanIs
<1>5. e # i /\ (e <= Len(l) => l[e] = Space)
  BY <1>1, <1>2, <1>4
<1> QED BY <1>1, <1>2, <1>3, <1>4, <1>5

\* Sequences that agree somewhere have the same part there.
LEMMA SameParts ==
  ASSUME NEW S, NEW s \in Seq(S), NEW t \in Seq(S), NEW m \in Nat \ {0},
         NEW n \in Nat, n <= Len(s), n <= Len(t), \A k \in m .. n : s[k] = t[k]
  PROVE  SubSeq(s, m, n) = SubSeq(t, m, n)
<1>1. /\ SubSeq(s, m, n) = [k \in 1 .. n - m + 1 |-> s[m + k - 1]]
      /\ SubSeq(t, m, n) = [k \in 1 .. n - m + 1 |-> t[m + k - 1]]
  OBVIOUS
<1>2. \A k \in 1 .. n - m + 1 : s[m + k - 1] = t[m + k - 1]
  OBVIOUS
<1> QED BY <1>1, <1>2

LEMMA CutIs ==
  ASSUME NEW l, IsLine(l), NEW T, Taken(l, T)
  PROVE  /\ Len(Cut(l, T)) = Len(l) + 2
         /\ Cut(l, T) \in Seq(ToSet(l) \cup {NUL, "?"})
         /\ \A n \in 1 .. Len(T) : Cut(l, T)[RunEnd(l, T[n])] = NUL
         /\ \A i \in 1 .. Len(l) + 2 :
              (\A n \in 1 .. Len(T) : i # RunEnd(l, T[n])) =>
                Cut(l, T)[i] = Input(l)[i]
<1>1. /\ Len(l) \in Nat /\ Input(l) \in Seq(ToSet(l) \cup {NUL, "?"})
      /\ Len(Input(l)) = Len(l) + 2
  BY LineIs
<1>2. \A n \in 1 .. Len(T) : RunEnd(l, T[n]) \in 1 .. Len(l) + 2
  <2> TAKE n \in 1 .. Len(T)
  <2>1. Begins(l, T[n])
    BY DEF Taken
  <2> QED BY <1>1, <2>1, EndIs DEF Begins
<1>3. /\ \A i \in 1 .. Len(l) + 2 : Input(l)[i] \in ToSet(l) \cup {NUL, "?"}
      /\ Cut(l, T) \in [1 .. Len(l) + 2 -> ToSet(l) \cup {NUL, "?"}]
  <2>1. \A i \in 1 .. Len(l) + 2 : Input(l)[i] \in ToSet(l) \cup {NUL, "?"}
    BY <1>1
  <2> HIDE DEF Begins, Input
  <2> QED BY <2>1 DEF Cut
<1>4. /\ Len(Cut(l, T)) = Len(l) + 2
      /\ Cut(l, T) \in Seq(ToSet(l) \cup {NUL, "?"})
  BY <1>1, <1>3
<1> QED BY <1>2, <1>4 DEF Cut

\* Cutting other words leaves a word in the buffer, and ends it.
LEMMA WordInBuffer ==
  ASSUME NEW l, IsLine(l), NEW T, Taken(l, T), NEW n \in 1 .. Len(T)
  PROVE  StringAt(Cut(l, T), T[n]) = SubSeq(l, T[n], RunEnd(l, T[n]) - 1)
<1> DEFINE e == RunEnd(l, T[n])
           b == Cut(l, T)
<1>1. /\ Len(T) \in Nat /\ T[n] \in 1 .. Len(l) /\ Len(l) \in Nat
      /\ \A m \in 1 .. Len(T) : Begins(l, T[m])
  BY LineIs DEF Taken, Begins
<1>2. /\ e \in T[n] + 1 .. Len(l) + 1
      /\ \A k \in T[n] .. e - 1 : l[k] # Space /\ l[k] # NUL
  BY <1>1, EndIs
<1>3. /\ Len(b) = Len(l) + 2 /\ b[e] = NUL
      /\ b \in Seq(ToSet(l) \cup {NUL, "?"})
  BY CutIs
<1>4. ASSUME NEW k \in T[n] .. e - 1
      PROVE  b[k] = l[k]
  <2>1. ASSUME NEW m \in 1 .. Len(T), k = RunEnd(l, T[m])
        PROVE  FALSE
    <3>1. Begins(l, T[m]) /\ T[m] \in 1 .. Len(l)
      BY <1>1 DEF Begins
    <3>2. /\ k \in T[m] + 1 .. Len(l) + 1 /\ (k <= Len(l) => l[k] = Space)
      BY <2>1, <3>1, EndIs
    <3>3. l[k] # Space /\ k <= Len(l)
      BY <1>1, <1>2
    <3> QED BY <3>2, <3>3
  <2>2. k \in 1 .. Len(l)
    BY <1>1, <1>2
  <2>3. Input(l)[k] = l[k]
    BY <2>2, LineIs, Zenon
  <2>4. k \in 1 .. Len(l) + 2
    BY <1>1, <2>2
  <2> QED BY <2>1, <2>3, <2>4, CutIs
<1> HIDE DEF b, e
<1>5. Scan(b, T[n], {NUL}) = e
  <2>1. T[n] \in Nat /\ e \in T[n] .. Len(b) /\ Len(b) \in Nat
    BY <1>1, <1>2, <1>3
  <2>2. \A k \in T[n] .. e - 1 : b[k] \notin {NUL}
    BY <1>2, <1>4
  <2> QED BY <1>3, <2>1, <2>2, ScanAt
<1>6. SubSeq(b, T[n], e - 1) = SubSeq(l, T[n], e - 1)
  <2>1. l \in Seq(ToSet(l) \cup {NUL, "?"})
    <3>1. l \in Seq(ToSet(l))
      BY LineIs
    <3> HIDE DEF ToSet
    <3> QED BY <3>1
  <2>2. /\ T[n] \in Nat \ {0}
        /\ e - 1 \in Nat /\ e - 1 <= Len(b) /\ e - 1 <= Len(l)
    BY <1>1, <1>2, <1>3
  <2>3. b \in Seq(ToSet(l) \cup {NUL, "?"})
    BY <1>3
  <2>4. \A k \in T[n] .. e - 1 : b[k] = l[k]
    BY <1>4
  <2> HIDE DEF b, e
  <2> QED BY <2>1, <2>2, <2>3, <2>4, SameParts, Zenon
<1> QED BY <1>5, <1>6 DEF StringAt, b, e

-----------------------------------------------------------------------------
(***************************************************************************)
(* strtok.                                                                 *)
(***************************************************************************)
\* Behind f the buffer is the line.
LEMMA BufferBehind ==
  ASSUME NEW l, IsLine(l), NEW T, Taken(l, T), NEW f, Upto(l, T, f),
         NEW k \in f .. Len(l) + 1
  PROVE  /\ Cut(l, T)[k] = Input(l)[k]
         /\ k <= Len(l) => Cut(l, T)[k] = l[k] /\ l[k] # NUL
         /\ k = Len(l) + 1 => Cut(l, T)[k] = NUL
<1>1. /\ Len(l) \in Nat /\ k \in 1 .. Len(l) + 1 /\ k \in 1 .. Len(l) + 2
      /\ \A n \in 1 .. Len(T) : k # RunEnd(l, T[n])
  <2>1. Len(l) \in Nat /\ f \in 1 .. Len(l) + 1
    BY LineIs DEF Upto
  <2>2. ASSUME NEW n \in 1 .. Len(T) PROVE k # RunEnd(l, T[n])
    <3>1. RunEnd(l, T[n]) < f /\ Begins(l, T[n])
      BY DEF Upto, Taken
    <3>2. RunEnd(l, T[n]) \in Int
      BY <2>1, <3>1, EndIs DEF Begins
    <3> QED BY <2>1, <3>1, <3>2
  <2> QED BY <2>1, <2>2
<1>2. Cut(l, T)[k] = Input(l)[k]
  BY <1>1, CutIs
<1>3. k <= Len(l) => k \in 1 .. Len(l)
  BY <1>1
<1>4. /\ k <= Len(l) => Input(l)[k] = l[k] /\ l[k] # NUL
      /\ k = Len(l) + 1 => Input(l)[k] = NUL
  BY <1>3, LineIs, Zenon
<1> QED BY <1>2, <1>4

\* One word more.
LEMMA TakenMore ==
  ASSUME NEW l, IsLine(l), NEW T, Taken(l, T), NEW f, Upto(l, T, f),
         NEW i \in f .. Len(l), Begins(l, i)
  PROVE  Taken(l, Append(T, i))
<1>1. /\ T \in Seq(Nat) /\ Len(T) \in Nat /\ Len(l) \in Nat
      /\ f \in 1 .. Len(l) + 1 /\ 2 * Len(T) + 1 <= f /\ i \in Nat
      /\ \A n \in 1 .. Len(T) : Begins(l, T[n]) /\ T[n] >= 2 * n - 1
      /\ \A m, n \in 1 .. Len(T) : m < n => T[m] < T[n]
  BY LineIs DEF Taken, Upto
<1>2. ASSUME NEW n \in 1 .. Len(T) PROVE T[n] < i
  <2>1. RunEnd(l, T[n]) < f /\ RunEnd(l, T[n]) \in T[n] + 1 .. Len(l) + 1
    BY <1>1, EndIs DEF Upto
  <2> QED BY <1>1, <2>1
<1>3. /\ Append(T, i) \in Seq(Nat) /\ Len(Append(T, i)) = Len(T) + 1
      /\ Append(T, i)[Len(T) + 1] = i
      /\ \A n \in 1 .. Len(T) : Append(T, i)[n] = T[n]
  BY <1>1
<1>4. ASSUME NEW n \in 1 .. Len(T) + 1
      PROVE  Begins(l, Append(T, i)[n]) /\ Append(T, i)[n] >= 2 * n - 1
  <2>1. CASE n = Len(T) + 1
    BY <1>1, <1>3, <2>1
  <2>2. CASE n \in 1 .. Len(T)
    BY <1>1, <1>3, <2>2
  <2>3. n = Len(T) + 1 \/ n \in 1 .. Len(T)
    BY <1>1
  <2> QED BY <2>1, <2>2, <2>3
<1>5. ASSUME NEW m \in 1 .. Len(T) + 1, NEW n \in 1 .. Len(T) + 1, m < n
      PROVE  Append(T, i)[m] < Append(T, i)[n]
  <2>1. m \in 1 .. Len(T)
    BY <1>1, <1>5
  <2>2. CASE n = Len(T) + 1
    BY <1>2, <1>3, <2>1, <2>2
  <2>3. CASE n \in 1 .. Len(T)
    BY <1>1, <1>3, <1>5, <2>1, <2>3
  <2> QED BY <1>1, <2>2, <2>3
<1> QED BY <1>3, <1>4, <1>5 DEF Taken

\* The buffer with one word more cut out.
LEMMA CutMore ==
  ASSUME NEW l, IsLine(l), NEW T, Taken(l, T), NEW i \in Nat
  PROVE  Cut(l, Append(T, i)) =
           [k \in 1 .. Len(l) + 2 |->
              IF k = RunEnd(l, i) THEN NUL ELSE Cut(l, T)[k]]
<1>1. T \in Seq(Nat) /\ Len(T) \in Nat
  BY DEF Taken
<1>2. /\ Append(T, i) \in Seq(Nat) /\ Len(Append(T, i)) = Len(T) + 1
      /\ Append(T, i)[Len(T) + 1] = i
      /\ \A n \in 1 .. Len(T) : Append(T, i)[n] = T[n]
  BY <1>1
<1>3. ASSUME NEW k
      PROVE  (\E n \in 1 .. Len(Append(T, i)) : k = RunEnd(l, Append(T, i)[n]))
               <=> \/ k = RunEnd(l, i)
                   \/ \E n \in 1 .. Len(T) : k = RunEnd(l, T[n])
  <2>1. \A n \in 1 .. Len(Append(T, i)) : n \in 1 .. Len(T) \/ n = Len(T) + 1
    BY <1>1, <1>2
  <2>2. /\ Len(T) + 1 \in 1 .. Len(Append(T, i))
        /\ \A n \in 1 .. Len(T) : n \in 1 .. Len(Append(T, i))
    BY <1>1, <1>2
  <2> QED BY <1>2, <2>1, <2>2, Zenon
<1>4. ASSUME NEW k \in 1 .. Len(l) + 2
      PROVE  Cut(l, Append(T, i))[k] =
               IF k = RunEnd(l, i) THEN NUL ELSE Cut(l, T)[k]
  BY <1>3 DEF Cut
<1>5. Cut(l, Append(T, i)) =
        [k \in 1 .. Len(l) + 2 |-> Cut(l, Append(T, i))[k]]
  BY DEF Cut
<1> QED BY <1>4, <1>5

\* It returns the next word, or none when there is none.
LEMMA StrtokIs ==
  ASSUME NEW l, IsLine(l), NEW T, Taken(l, T), NEW f, Upto(l, T, f),
         NEW r, r = Strtok(Cut(l, T), f)
  PROVE  \/ r.token = Null /\ r.buf = Cut(l, T) /\ Every(l, T)
         \/ /\ r.token \in Nat /\ r.token # Null
            /\ Taken(l, Append(T, r.token))
            /\ r.buf = Cut(l, Append(T, r.token))
            /\ r.next = Null => Every(l, Append(T, r.token))
            /\ r.next # Null => Upto(l, Append(T, r.token), r.next)
<1> DEFINE b == Cut(l, T)
           start == TokenStart(b, f)
           end == TokenEnd(b, f)
<1>1. /\ Len(l) \in Nat /\ f \in 1 .. Len(l) + 1 /\ f # Null /\ f \in Nat
      /\ NUL # Space /\ T \in Seq(Nat) /\ Len(T) \in Nat
      /\ 2 * Len(T) + 1 <= f /\ (f > 1 => l[f - 1] = Space)
      /\ \A n \in 1 .. Len(T) : RunEnd(l, T[n]) < f
      /\ \A i \in 1 .. f - 1 :
           Begins(l, i) => \E n \in 1 .. Len(T) : T[n] = i
  <2>1. Len(l) \in Nat /\ NUL # Space
    BY LineIs
  <2>2. T \in Seq(Nat) /\ Len(T) \in Nat
    BY DEF Taken
  <2>3. f \in 1 .. Len(l) + 1 /\ 2 * Len(T) + 1 <= f
    BY DEF Upto
  <2>4. f # Null /\ f \in Nat
    BY <2>1, <2>3 DEF Null
  <2> QED BY <2>1, <2>2, <2>3, <2>4, Zenon DEF Upto
<1>2. /\ Len(b) = Len(l) + 2 /\ \A k \in 1 .. Len(l) + 2 : b[k] \in ToSet(b)
      /\ DOMAIN b = 1 .. Len(l) + 2
  <2>1. Len(b) = Len(l) + 2 /\ b \in Seq(ToSet(l) \cup {NUL, "?"})
    BY CutIs
  <2> HIDE DEF b
  <2>2. DOMAIN b = 1 .. Len(l) + 2
    BY <2>1
  <2> QED BY <2>1, <2>2 DEF ToSet
<1>3. /\ \A k \in f .. Len(l) : b[k] = l[k] /\ l[k] # NUL
      /\ b[Len(l) + 1] = NUL
      /\ \A k \in f .. Len(l) + 1 : b[k] = Input(l)[k]
  <2>1. \A k \in f .. Len(l) : k \in f .. Len(l) + 1 /\ k <= Len(l)
    BY <1>1
  <2>2. Len(l) + 1 \in f .. Len(l) + 1
    BY <1>1
  <2> QED BY <2>1, <2>2, BufferBehind
<1> HIDE DEF b
<1>4. /\ start \in f .. Len(l) + 1 /\ b[start] # Space
      /\ \A k \in f .. start - 1 : l[k] = Space
  <2>1. /\ Len(b) \in Nat /\ Len(l) + 1 \in f .. Len(b)
        /\ b[Len(l) + 1] \in ToSet(b) \ {Space}
    BY <1>1, <1>2, <1>3
  <2>2. /\ start \in f .. Len(l) + 1 /\ b[start] \in ToSet(b) \ {Space}
        /\ \A k \in f .. start - 1 : b[k] \notin ToSet(b) \ {Space}
    BY <1>1, <2>1, ScanIs DEF TokenStart
  <2> HIDE DEF start
  <2>3. ASSUME NEW k \in f .. start - 1 PROVE l[k] = Space
    <3>1. k \in f .. Len(l) /\ k \in 1 .. Len(l) + 2
      BY <1>1, <2>2
    <3> QED BY <1>2, <1>3, <2>2, <3>1
  <2> QED BY <2>2, <2>3
<1> HIDE DEF start
<1>5. CASE start = Len(l) + 1
  <2>1. r.token = Null /\ r.buf = b
    <3>1. f # Null /\ b[start] = NUL
      BY <1>1, <1>3, <1>5
    <3>2. r = [token |-> Null, next |-> start, buf |-> b]
      BY <3>1, Zenon DEF Strtok, b, start
    <3> QED BY <3>2
  <2>2. ASSUME NEW i, Begins(l, i) PROVE \E n \in 1 .. Len(T) : T[n] = i
    <3>1. i \in 1 .. Len(l) /\ l[i] # Space
      BY <2>2 DEF Begins
    <3>2. i \in 1 .. f - 1
      BY <1>1, <1>4, <1>5, <3>1
    <3> QED BY <1>1, <2>2, <3>2
  <2> QED BY <2>1, <2>2 DEF Every, b
<1>6. CASE start # Len(l) + 1
  <2> DEFINE U == Append(T, start)
             e == RunEnd(l, start)
  <2>1. /\ start \in f .. Len(l) /\ start \in 1 .. Len(l) /\ start \in Nat
        /\ b[start] = l[start] /\ l[start] # NUL /\ l[start] # Space
    BY <1>1, <1>3, <1>4, <1>6
  <2>2. Begins(l, start)
    <3>1. CASE start = f
      BY <1>1, <2>1, <3>1 DEF Begins
    <3>2. CASE start # f
      <4>1. start - 1 \in f .. start - 1
        BY <1>1, <2>1, <3>2
      <4> QED BY <1>4, <2>1, <4>1 DEF Begins
    <3> QED BY <3>1, <3>2
  <2>3. /\ e \in start + 1 .. Len(l) + 1
        /\ \A k \in start .. e - 1 : l[k] # Space /\ l[k] # NUL
        /\ e <= Len(l) => l[e] = Space
    BY <2>2, EndIs
  <2>4. Taken(l, U)
    BY <2>1, <2>2, TakenMore
  <2>5. /\ U \in Seq(Nat) /\ Len(U) = Len(T) + 1 /\ U[Len(T) + 1] = start
        /\ \A n \in 1 .. Len(T) : U[n] = T[n]
    BY <1>1, <2>1
  <2>6. Cut(l, U) = [k \in 1 .. Len(l) + 2 |-> IF k = e THEN NUL ELSE b[k]]
    BY <2>1, CutMore DEF b
  <2> HIDE DEF U, e
  <2>7. end = e
    <3>1. b[e] \in {NUL, Space}
      <4>1. CASE e = Len(l) + 1
        BY <1>3, <4>1
      <4>2. CASE e <= Len(l)
        BY <1>1, <1>3, <2>1, <2>3, <4>2
      <4> QED BY <1>1, <2>3, <4>1, <4>2
    <3>2. ASSUME NEW k \in start .. e - 1 PROVE b[k] \notin {NUL, Space}
      BY <1>1, <1>3, <2>1, <2>3
    <3>3. Len(b) \in Nat /\ e \in start .. Len(b)
      BY <1>1, <1>2, <2>1, <2>3
    <3>4. end = Scan(b, start, {NUL, Space})
      BY DEF start, TokenEnd
    <3> QED BY <2>1, <3>1, <3>2, <3>3, <3>4, ScanAt
  <2> HIDE DEF end
  <2>8. /\ r.token = start
        /\ b[e] = NUL => r.next = Null /\ r.buf = b
        /\ b[e] # NUL => r.next = e + 1 /\ r.buf = [b EXCEPT ![e] = NUL]
    <3>1. f # Null /\ b[start] # NUL
      BY <1>1, <2>1
    <3>2. /\ b[end] = NUL =>
               r = [token |-> start, next |-> Null, buf |-> b]
          /\ b[end] # NUL =>
               r = [token |-> start, next |-> end + 1,
                    buf |-> [b EXCEPT ![end] = NUL]]
      BY <3>1, Zenon DEF Strtok, b, start, end
    <3> QED BY <2>7, <3>2
  <2>9. r.buf = Cut(l, U)
    <3>1. b = [k \in 1 .. Len(l) + 2 |-> b[k]]
      BY DEF b, Cut
    <3> QED BY <2>6, <2>8, <3>1
  <2>10. ASSUME NEW i \in 1 .. e - 1, Begins(l, i)
         PROVE  \E n \in 1 .. Len(U) : U[n] = i
    <3>1. i \in Nat /\ l[i] # Space /\ (i > 1 => l[i - 1] = Space)
      BY <2>10 DEF Begins
    <3>2. CASE i < f
      <4>1. PICK n \in 1 .. Len(T) : T[n] = i
        BY <1>1, <2>10, <3>1, <3>2
      <4>2. n \in 1 .. Len(U)
        BY <1>1, <2>5
      <4> QED BY <2>5, <4>1, <4>2
    <3>3. CASE i >= f /\ i < start
      BY <1>1, <1>4, <2>1, <3>1, <3>3
    <3>4. CASE i = start
      <4>1. Len(T) + 1 \in 1 .. Len(U)
        BY <1>1, <2>5
      <4> QED BY <2>5, <3>4, <4>1
    <3>5. CASE i > start
      <4>1. i - 1 \in start .. e - 1 /\ i > 1
        BY <2>1, <2>3, <3>1, <3>5
      <4> QED BY <2>3, <3>1, <4>1
    <3> QED BY <1>1, <2>1, <3>1, <3>2, <3>3, <3>4, <3>5
  <2>11. CASE e = Len(l) + 1
    <3>1. r.next = Null
      BY <1>3, <2>8, <2>11
    <3>2. Every(l, U)
      <4> SUFFICES ASSUME NEW i, Begins(l, i)
                   PROVE  \E n \in 1 .. Len(U) : U[n] = i
        BY DEF Every
      <4>1. i \in 1 .. e - 1
        BY <1>1, <2>11 DEF Begins
      <4> QED BY <2>10, <4>1
    <3> QED BY <2>1, <2>4, <2>8, <2>9, <3>1, <3>2 DEF U, Null
  <2>12. CASE e # Len(l) + 1
    <3>1. e \in f .. Len(l) /\ e \in 1 .. Len(l) /\ l[e] = Space /\ e \in Nat
      BY <1>1, <2>1, <2>3, <2>12
    <3>2. r.next = e + 1 /\ e + 1 # Null
      BY <1>1, <1>3, <2>8, <3>1 DEF Null
    <3>3. \A n \in 1 .. Len(U) : RunEnd(l, U[n]) < e + 1
      <4> TAKE n \in 1 .. Len(U)
      <4>1. CASE n = Len(T) + 1
        BY <2>5, <3>1, <4>1 DEF e
      <4>2. CASE n \in 1 .. Len(T)
        <5>1. Begins(l, T[n])
          BY <4>2 DEF Taken
        <5>2. RunEnd(l, T[n]) \in T[n] + 1 .. Len(l) + 1
          BY <5>1, EndIs
        <5>3. RunEnd(l, T[n]) < f /\ U[n] = T[n]
          BY <1>1, <2>5, <4>2
        <5> QED BY <1>1, <3>1, <5>2, <5>3
      <4> QED BY <1>1, <2>5, <4>1, <4>2
    <3>4. \A i \in 1 .. (e + 1) - 1 :
            Begins(l, i) => \E n \in 1 .. Len(U) : U[n] = i
      <4> SUFFICES ASSUME NEW i \in 1 .. (e + 1) - 1, Begins(l, i)
                   PROVE  \E n \in 1 .. Len(U) : U[n] = i
        OBVIOUS
      <4>1. i # e
        BY <3>1 DEF Begins
      <4>2. i \in 1 .. e - 1
        BY <3>1, <4>1
      <4> QED BY <2>10, <4>2
    <3>5. /\ e + 1 \in 1 .. Len(l) + 1 /\ l[(e + 1) - 1] = Space
          /\ 2 * Len(U) + 1 <= e + 1
      <4>1. (e + 1) - 1 = e
        BY <3>1
      <4>2. start >= f /\ e >= start + 1 /\ Len(U) = Len(T) + 1
        BY <1>1, <2>1, <2>3, <2>5
      <4> QED BY <1>1, <2>1, <3>1, <4>1, <4>2
    <3>6. Upto(l, U, e + 1)
      BY <3>3, <3>4, <3>5, Zenon DEF Upto
    <3> QED BY <2>1, <2>4, <2>8, <2>9, <3>2, <3>6 DEF U, Null
  <2> QED BY <2>11, <2>12
<1> QED BY <1>5, <1>6

\* At the beginning no word is cut out.
LEMMA Beginning ==
  ASSUME NEW l, IsLine(l)
  PROVE  Taken(l, <<>>) /\ Cut(l, <<>>) = Input(l) /\ Upto(l, <<>>, 1)
<1>1. /\ Len(l) \in Nat /\ Len(Input(l)) = Len(l) + 2
      /\ Input(l) \in Seq(ToSet(l) \cup {NUL, "?"})
  BY LineIs
<1>2. Input(l) = [i \in 1 .. Len(l) + 2 |-> Input(l)[i]]
  BY <1>1
<1>3. Cut(l, <<>>) = [i \in 1 .. Len(l) + 2 |-> Input(l)[i]]
  BY DEF Cut
<1> QED BY <1>1, <1>2, <1>3 DEF Taken, Upto

-----------------------------------------------------------------------------
(***************************************************************************)
(* The words of a line.                                                    *)
(***************************************************************************)
\* The longest runs without a space are the words from where they begin.
LEMMA RunsAre ==
  ASSUME NEW l, IsLine(l)
  PROVE  Runs(l) = {<<i, RunEnd(l, i) - 1>> :
                      i \in {i \in 1 .. Len(l) : Begins(l, i)}}
<1>1. Len(l) \in Nat
  BY LineIs
<1>2. ASSUME NEW i \in 1 .. Len(l), Begins(l, i)
      PROVE  <<i, RunEnd(l, i) - 1>> \in Runs(l)
  <2>1. PICK e : e = RunEnd(l, i)
    OBVIOUS
  <2>2. /\ e \in i + 1 .. Len(l) + 1 /\ \A k \in i .. e - 1 : l[k] # Space
        /\ e <= Len(l) => l[e] = Space
    BY <1>2, <2>1, EndIs
  <2>3. /\ e - 1 \in 1 .. Len(l) /\ i <= e - 1 /\ (e - 1) + 1 = e
        /\ e - 1 < Len(l) => l[e] = Space
    BY <1>1, <2>2
  <2>4. i > 1 => l[i - 1] = Space
    BY <1>2 DEF Begins
  <2> QED BY <2>1, <2>2, <2>3, <2>4 DEF Runs
<1>3. ASSUME NEW r \in Runs(l)
      PROVE  \E i \in 1 .. Len(l) : Begins(l, i) /\ r = <<i, RunEnd(l, i) - 1>>
  <2>1. PICK i \in 1 .. Len(l), j \in 1 .. Len(l) : r = <<i, j>>
    BY DEF Runs
  <2>2. /\ i <= j /\ \A k \in i .. j : l[k] # Space
        /\ i > 1 => l[i - 1] = Space
        /\ j < Len(l) => l[j + 1] = Space
    BY <2>1 DEF Runs
  <2>3. Begins(l, i)
    BY <1>1, <2>2 DEF Begins
  <2>4. PICK e : e = RunEnd(l, i)
    OBVIOUS
  <2>5. /\ e \in i + 1 .. Len(l) + 1 /\ \A k \in i .. e - 1 : l[k] # Space
        /\ e <= Len(l) => l[e] = Space
    BY <2>3, <2>4, EndIs
  <2>6. ~(e <= j)
    BY <1>1, <2>2, <2>5
  <2>7. ~(j + 1 < e)
    <3> SUFFICES ASSUME j + 1 < e PROVE FALSE
      OBVIOUS
    <3>1. j + 1 \in i .. e - 1 /\ j < Len(l)
      BY <1>1, <2>2, <2>5
    <3> QED BY <2>2, <2>5, <3>1
  <2>8. j = e - 1
    BY <1>1, <2>5, <2>6, <2>7
  <2> QED BY <2>1, <2>3, <2>4, <2>8
<1> QED BY <1>2, <1>3

\* When T is all of the words the n-th begins at T[n].
LEMMA WordsAre ==
  ASSUME NEW l, IsLine(l), NEW T, Taken(l, T), Every(l, T)
  PROVE  Words(l) =
           [n \in 1 .. Len(T) |-> SubSeq(l, T[n], RunEnd(l, T[n]) - 1)]
<1> DEFINE g == [n \in 1 .. Len(T) |-> <<T[n], RunEnd(l, T[n]) - 1>>]
           Ahead(r) == {q \in Runs(l) : q[1] < r[1]}
<1>1. /\ Len(T) \in Nat /\ T \in Seq(Nat)
      /\ \A n \in 1 .. Len(T) : T[n] \in Nat /\ Begins(l, T[n])
      /\ \A m, n \in 1 .. Len(T) : m < n => T[m] < T[n]
  BY DEF Taken
<1>2. Runs(l) = {g[n] : n \in 1 .. Len(T)}
  <2>1. \A n \in 1 .. Len(T) : T[n] \in 1 .. Len(l) /\ Begins(l, T[n])
    BY <1>1 DEF Begins
  <2>2. \A i \in 1 .. Len(l) : Begins(l, i) => \E n \in 1 .. Len(T) : T[n] = i
    BY DEF Every
  <2> QED BY <2>1, <2>2, RunsAre
<1>3. \A n \in 1 .. Len(T) : g[n][1] = T[n] /\ g[n][2] = RunEnd(l, T[n]) - 1
  OBVIOUS
<1>4. DOMAIN g = 1 .. Len(T)
  OBVIOUS
<1> HIDE DEF g
<1>5. \A m, n \in 1 .. Len(T) : g[m][1] < g[n][1] <=> m < n
  <2> TAKE m, n \in 1 .. Len(T)
  <2>1. m < n => T[m] < T[n]
    BY <1>1
  <2>2. n < m => T[n] < T[m]
    BY <1>1
  <2>3. T[m] \in Nat /\ T[n] \in Nat /\ (m = n => T[m] = T[n])
    BY <1>1
  <2> QED BY <1>1, <1>3, <2>1, <2>2, <2>3
<1>6. ASSUME NEW n \in 0 .. Len(T), NEW S, S = {g[m] : m \in 1 .. n}
      PROVE  Cardinality(S) = n
  <2> DEFINE h == [m \in 1 .. n |-> g[m]]
  <2>1. h \in Surjection(1 .. n, S)
    BY <1>6 DEF Surjection
  <2>2. \A j, k \in 1 .. n : h[j] = h[k] => j = k
    <3>1. \A j \in 1 .. n : h[j] = g[j] /\ j \in 1 .. Len(T) /\ j \in Nat
      BY <1>1
    <3>2. \A j, k \in 1 .. Len(T) : g[j] = g[k] => ~(j < k) /\ ~(k < j)
      BY <1>5, <1>1
    <3> HIDE DEF h
    <3> QED BY <3>1, <3>2
  <2>3. h \in Bijection(1 .. n, S)
    BY <2>1, <2>2 DEF Bijection, Injection, IsInjective, Surjection
  <2>4. ExistsBijection(1 .. n, S) /\ n \in Nat
    BY <1>1, <2>3 DEF ExistsBijection
  <2> QED BY <2>4, FS_CountingElements
<1>7. Cardinality(Runs(l)) = Len(T)
  BY <1>1, <1>2, <1>6
<1>8. ASSUME NEW n \in 1 .. Len(T)
      PROVE  Cardinality(Ahead(g[n])) = n - 1
  <2>1. Ahead(g[n]) = {g[m] : m \in 1 .. n - 1}
    <3>1. \A m \in 1 .. Len(T) : g[m][1] < g[n][1] <=> m \in 1 .. n - 1
      BY <1>1, <1>5
    <3>2. \A m \in 1 .. n - 1 : m \in 1 .. Len(T)
      BY <1>1
    <3> QED BY <1>2, <3>1, <3>2
  <2>2. n - 1 \in 0 .. Len(T)
    BY <1>1
  <2> QED BY <1>6, <2>1, <2>2
<1>9. ASSUME NEW n \in 1 .. Len(T) PROVE Run(l, n) = g[n]
  <2>1. g[n] \in Runs(l) /\ Cardinality(Ahead(g[n])) = n - 1
    BY <1>2, <1>8
  <2>2. ASSUME NEW r \in Runs(l), Cardinality(Ahead(r)) = n - 1 PROVE r = g[n]
    <3>1. PICK m \in 1 .. Len(T) : r = g[m]
      BY <1>2
    <3>2. m - 1 = n - 1
      BY <1>8, <2>2, <3>1
    <3> QED BY <3>1, <3>2
  <2> QED BY <2>1, <2>2 DEF Run
<1>10. ASSUME NEW n \in 1 .. Len(T)
       PROVE  Run(l, n)[1] = T[n] /\ Run(l, n)[2] = RunEnd(l, T[n]) - 1
  BY <1>3, <1>9
<1> QED BY <1>7, <1>10 DEF Words

\* The strings of argv are the words when strtok has nothing to return.
LEMMA StringsAre ==
  ASSUME Parsed
  PROVE  /\ Strings(argv) = Words(typed)
         /\ Len(Words(typed)) = Len(argv) /\ Len(argv) \in Nat
<1>1. /\ IsLine(typed) /\ Taken(typed, argv) /\ Every(typed, argv)
      /\ buf = Cut(typed, argv) /\ argv \in Seq(Nat)
  BY DEF Parsed, ParseInv, Tokens
<1>2. DOMAIN argv = 1 .. Len(argv) /\ Len(argv) \in Nat
  BY <1>1
<1>3. \A n \in 1 .. Len(argv) :
        StringAt(buf, argv[n])
          = SubSeq(typed, argv[n], RunEnd(typed, argv[n]) - 1)
  BY <1>1, WordInBuffer
<1>4. Strings(argv) = [n \in 1 .. Len(argv) |->
                         SubSeq(typed, argv[n], RunEnd(typed, argv[n]) - 1)]
  BY <1>2, <1>3 DEF Strings
<1>5. Words(typed) = Strings(argv)
  BY <1>1, <1>4, WordsAre
<1>6. Len(Strings(argv)) = Len(argv)
  BY <1>2 DEF Strings
<1> QED BY <1>2, <1>5, <1>6

-----------------------------------------------------------------------------
(***************************************************************************)
(* Numerals and numbers.  Itoa and the loops of atoi and parse_hex are     *)
(* recursive functions: they exist, and what they compute follows by       *)
(* induction on the number, in the form of a set of numbers.               *)
(***************************************************************************)
\* One sequence behind another.
LEMMA Joined ==
  ASSUME NEW X, NEW s \in Seq(X), NEW t \in Seq(X)
  PROVE  /\ s \o t \in Seq(X) /\ Len(s \o t) = Len(s) + Len(t)
         /\ Len(s) \in Nat /\ Len(t) \in Nat
         /\ \A n \in 1 .. Len(s) : (s \o t)[n] = s[n]
         /\ \A n \in 1 .. Len(t) : (s \o t)[Len(s) + n] = t[n]
OBVIOUS

LEMMA BothPrefix ==
  ASSUME NEW X, NEW s \in Seq(X), NEW t \in Seq(X), NEW Y, NEW l \in Seq(Y),
         Len(s) + Len(t) <= Len(l),
         \A i \in 1 .. Len(s) : l[i] = s[i],
         \A i \in 1 .. Len(t) : l[Len(s) + i] = t[i]
  PROVE  IsPrefix(s \o t, l)
<1> DEFINE w == s \o t
<1>1. /\ w \in Seq(X) /\ Len(w) = Len(s) + Len(t)
      /\ Len(s) \in Nat /\ Len(t) \in Nat
      /\ \A n \in 1 .. Len(s) : w[n] = s[n]
      /\ \A n \in 1 .. Len(t) : w[Len(s) + n] = t[n]
  BY Joined
<1> HIDE DEF w
<1>2. ASSUME NEW i \in 1 .. Len(w) PROVE w[i] = l[i]
  <2>1. CASE i <= Len(s)
    BY <1>1, <2>1
  <2>2. CASE i > Len(s)
    <3>1. i - Len(s) \in 1 .. Len(t) /\ Len(s) + (i - Len(s)) = i
      BY <1>1, <2>2
    <3> QED BY <1>1, <3>1
  <2> QED BY <1>1, <2>1, <2>2
<1>3. /\ SubSeq(w, 1, Len(w)) = [i \in 1 .. Len(w) |-> w[i]]
      /\ SubSeq(l, 1, Len(w)) = [i \in 1 .. Len(w) |-> l[i]]
  BY <1>1
<1> QED BY <1>1, <1>2, <1>3 DEF IsPrefix, w

\* The digits are characters of their own.
LEMMA DigitsAre ==
  /\ DOMAIN Digits = 1 .. 16 /\ DOMAIN LowDigits = 1 .. 16
  /\ \A i, j \in 1 .. 16 :
       Digits[i] = Digits[j] \/ LowDigits[i] = Digits[j] => i = j
  /\ \A i, j \in 1 .. 16 :
       LowDigits[i] = LowDigits[j] => i = j
  /\ \A i \in 1 .. 16 : /\ Digits[i] \notin {"-", "x", "X", NUL, Space}
                        /\ LowDigits[i] \notin {"-", "x", "X", NUL, Space}
BY DEF Digits, LowDigits, NUL, Space

\* The first ten are the decimal ones.
LEMMA Decimal ==
  /\ ToSet(DecDigits) = {Digits[d + 1] : d \in 0 .. 9}
  /\ \A d \in 0 .. 9 : Digits[d + 1] = LowDigits[d + 1]
<1>1. ASSUME NEW c
      PROVE  c \in ToSet(DecDigits) <=> \E d \in 0 .. 9 : c = Digits[d + 1]
  BY DEF DecDigits, Digits, ToSet
<1> QED BY <1>1 DEF DecDigits, Digits, LowDigits

\* A digit's value is its place.
LEMMA ValueIs ==
  ASSUME NEW d \in 0 .. 15
  PROVE  DigitValue(Digits[d + 1]) = d /\ DigitValue(LowDigits[d + 1]) = d
<1>1. \A e \in 0 .. 15 :
        /\ Digits[e + 1] = Digits[d + 1] \/ LowDigits[e + 1] = Digits[d + 1]
             <=> e = d
        /\ Digits[e + 1] = LowDigits[d + 1]
             \/ LowDigits[e + 1] = LowDigits[d + 1] <=> e = d
  <2> TAKE e \in 0 .. 15
  <2>1. e + 1 \in 1 .. 16 /\ d + 1 \in 1 .. 16 /\ (e + 1 = d + 1 <=> e = d)
    OBVIOUS
  <2> QED BY <2>1, DigitsAre
<1> QED BY <1>1 DEF DigitValue

Base == {10, 16}

LEMMA Division ==
  ASSUME NEW b \in Base, NEW v \in Nat
  PROVE  /\ b \in Nat /\ b \in 2 .. 16
         /\ v \div b \in Nat /\ v % b \in 0 .. b - 1
         /\ v = (v \div b) * b + (v % b)
         /\ v >= b => 0 < v \div b /\ v \div b < v
         /\ \A q \in Nat, d \in 0 .. b - 1 :
              /\ q * b + d \in Nat /\ (q * b + d) \div b = q
              /\ (q * b + d) % b = d
<1>1. ASSUME NEW q \in Nat, NEW d \in 0 .. b - 1
      PROVE  (q * b + d) \div b = q /\ (q * b + d) % b = d
  <2>1. CASE b = 10
    BY <2>1
  <2>2. CASE b = 16
    BY <2>2
  <2> QED BY <2>1, <2>2 DEF Base
<1>2. CASE b = 10
  BY <1>1, <1>2
<1>3. CASE b = 16
  BY <1>1, <1>3
<1> QED BY <1>2, <1>3 DEF Base

\* The recursion of Itoa as far as n.
Numeral(f, b, v) ==
  IF v < b THEN <<Digits[v + 1]>> ELSE Append(f[v \div b], Digits[(v % b) + 1])

IsItoa(f, b, n) == f = [v \in 0 .. n |-> Numeral(f, b, v)]

\* It defines a function,
LEMMA ItoaExists ==
  ASSUME NEW b \in Base, NEW n \in Nat
  PROVE  \E f : IsItoa(f, b, n)
<1> DEFINE S == {m \in Nat : \E f : IsItoa(f, b, m)}
<1>1. ASSUME NEW m \in Nat, \A k \in 0 .. m - 1 : k \in S PROVE m \in S
  <2>1. PICK f : m # 0 => IsItoa(f, b, m - 1)
    <3>1. m # 0 => m - 1 \in S
      BY <1>1
    <3> QED BY <3>1
  <2> DEFINE g == [v \in 0 .. m |-> IF v = m THEN Numeral(f, b, m) ELSE f[v]]
  <2>2. ASSUME NEW v \in 0 .. m PROVE g[v] = Numeral(g, b, v)
    <3>1. v >= b => v \div b \in 0 .. m - 1
      BY Division
    <3>2. v >= b => g[v \div b] = f[v \div b]
      BY <3>1
    <3>3. Numeral(g, b, v) = Numeral(f, b, v)
      <4> HIDE DEF g
      <4>1. ~(v < b) => v >= b
        BY DEF Base
      <4> QED BY <3>2, <4>1, Zenon DEF Numeral
    <3>4. v # m => v \in 0 .. m - 1 /\ m # 0
      OBVIOUS
    <3>5. v # m => f[v] = Numeral(f, b, v)
      BY <2>1, <3>4 DEF IsItoa
    <3> QED BY <3>3, <3>5
  <2>3. g = [v \in 0 .. m |-> Numeral(g, b, v)]
    <3>1. g = [v \in 0 .. m |-> g[v]]
      OBVIOUS
    <3> HIDE DEF g
    <3> QED BY <2>2, <3>1
  <2> HIDE DEF g
  <2> QED BY <2>3 DEF IsItoa
<1>2. S = Nat
  <2>1. S \in SUBSET Nat
    OBVIOUS
  <2> HIDE DEF S
  <2> QED BY <1>1, <2>1, StrongInduction
<1> QED BY <1>2

\* the same one however far it goes,
LEMMA ItoaUnique ==
  ASSUME NEW b \in Base, NEW m \in Nat, NEW n \in Nat,
         NEW f, IsItoa(f, b, m), NEW g, IsItoa(g, b, n),
         NEW v \in 0 .. m, v <= n
  PROVE  f[v] = g[v]
<1> DEFINE S == {k \in Nat : k <= m /\ k <= n => f[k] = g[k]}
<1>1. ASSUME NEW k \in Nat, \A j \in 0 .. k - 1 : j \in S PROVE k \in S
  <2>1. SUFFICES ASSUME k <= m, k <= n PROVE f[k] = g[k]
    OBVIOUS
  <2>2. f[k] = Numeral(f, b, k) /\ g[k] = Numeral(g, b, k)
    <3>1. k \in 0 .. m /\ k \in 0 .. n
      BY <2>1
    <3>2. f[k] = Numeral(f, b, k)
      BY <3>1 DEF IsItoa
    <3>3. g[k] = Numeral(g, b, k)
      BY <3>1 DEF IsItoa
    <3> QED BY <3>2, <3>3
  <2>3. k >= b => k \div b \in 0 .. k - 1
    BY Division
  <2>4. k >= b => f[k \div b] = g[k \div b]
    BY <1>1, <2>1, <2>3
  <2>5. ~(k < b) => k >= b
    BY DEF Base
  <2> QED BY <2>2, <2>4, <2>5, Zenon DEF Numeral
<1>2. S = Nat
  <2>1. S \in SUBSET Nat
    OBVIOUS
  <2> HIDE DEF S
  <2> QED BY <1>1, <2>1, StrongInduction
<1> QED BY <1>2

\* so that a number's last digit follows the numeral of the others.
LEMMA ItoaIs ==
  ASSUME NEW b \in Base, NEW v \in Nat
  PROVE  /\ v < b => Itoa(v, b) = <<Digits[v + 1]>>
         /\ v >= b =>
              Itoa(v, b) = Append(Itoa(v \div b, b), Digits[(v % b) + 1])
<1>1. ASSUME NEW u \in Nat
      PROVE  \E f : IsItoa(f, b, u) /\ Itoa(u, b) = f[u]
  <2>1. Itoa(u, b) = (CHOOSE f : IsItoa(f, b, u))[u]
    BY DEF Itoa, IsItoa, Numeral
  <2> QED BY <2>1, ItoaExists
<1>2. PICK f : IsItoa(f, b, v) /\ Itoa(v, b) = f[v]
  BY <1>1
<1>3. Itoa(v, b) = Numeral(f, b, v)
  BY <1>2 DEF IsItoa
<1>4. v >= b => Itoa(v \div b, b) = f[v \div b]
  <2> SUFFICES ASSUME v >= b PROVE Itoa(v \div b, b) = f[v \div b]
    OBVIOUS
  <2> DEFINE q == v \div b
  <2>1. q \in 0 .. v /\ q \in Nat
    BY Division
  <2> HIDE DEF q
  <2>2. PICK g : IsItoa(g, b, q) /\ Itoa(q, b) = g[q]
    BY <1>1, <2>1
  <2>3. q \in 0 .. q /\ q <= v
    BY <2>1
  <2>4. g[q] = f[q]
    BY <1>2, <2>1, <2>2, <2>3, ItoaUnique
  <2> QED BY <2>2, <2>4 DEF q
<1>5. v >= b => ~(v < b)
  BY DEF Base
<1> QED BY <1>3, <1>4, <1>5, Zenon DEF Numeral

\* A numeral consists of digits.
LEMMA NumeralIs ==
  ASSUME NEW b \in Base, NEW v \in Nat
  PROVE  /\ Itoa(v, b) \in Seq({Digits[d + 1] : d \in 0 .. b - 1})
         /\ Len(Itoa(v, b)) \in Nat \ {0}
         /\ v < b => Itoa(v, b) = <<Digits[v + 1]>>
         /\ v >= b =>
              /\ Len(Itoa(v, b)) = Len(Itoa(v \div b, b)) + 1
              /\ Itoa(v, b)[Len(Itoa(v, b))] = Digits[(v % b) + 1]
              /\ \A i \in 1 .. Len(Itoa(v \div b, b)) :
                   Itoa(v, b)[i] = Itoa(v \div b, b)[i]
<1> DEFINE D == {Digits[d + 1] : d \in 0 .. b - 1}
           S == {u \in Nat : Itoa(u, b) \in Seq(D) /\ Len(Itoa(u, b)) # 0}
<1>1. ASSUME NEW u \in Nat, \A k \in 0 .. u - 1 : k \in S PROVE u \in S
  <2>1. CASE u < b
    <3>1. Itoa(u, b) = <<Digits[u + 1]>>
      BY <2>1, ItoaIs
    <3>2. Digits[u + 1] \in D
      <4>1. u \in 0 .. b - 1
        BY <2>1 DEF Base
      <4> QED BY <4>1
    <3> HIDE DEF D
    <3>3. <<Digits[u + 1]>> \in Seq(D) /\ Len(<<Digits[u + 1]>>) # 0
      BY <3>2
    <3> QED BY <3>1, <3>3
  <2>2. CASE u >= b
    <3>1. u \div b \in 0 .. u - 1 /\ Digits[(u % b) + 1] \in D
      <4>1. u \div b \in 0 .. u - 1
        BY <2>2, Division
      <4>2. u % b \in 0 .. b - 1
        BY Division
      <4> QED BY <4>1, <4>2
    <3>2. Itoa(u, b) = Append(Itoa(u \div b, b), Digits[(u % b) + 1])
      BY <2>2, ItoaIs
    <3>3. Itoa(u \div b, b) \in Seq(D)
      BY <1>1, <3>1
    <3> HIDE DEF D
    <3> QED BY <3>1, <3>2, <3>3
  <2> QED BY <2>1, <2>2 DEF Base
<1>2. S = Nat
  <2>1. S \in SUBSET Nat
    OBVIOUS
  <2> HIDE DEF S
  <2> QED BY <1>1, <2>1, StrongInduction
<1>3. \A u \in Nat : Itoa(u, b) \in Seq(D) /\ Len(Itoa(u, b)) \in Nat \ {0}
  <2> HIDE DEF D
  <2> QED BY <1>2
<1>4. v >= b =>
        /\ Itoa(v, b) = Append(Itoa(v \div b, b), Digits[(v % b) + 1])
        /\ Itoa(v \div b, b) \in Seq(D) /\ Digits[(v % b) + 1] \in D
  BY <1>3, ItoaIs, Division
<1> HIDE DEF D
<1>5. v >= b =>
        /\ Len(Itoa(v, b)) = Len(Itoa(v \div b, b)) + 1
        /\ Itoa(v, b)[Len(Itoa(v, b))] = Digits[(v % b) + 1]
        /\ \A i \in 1 .. Len(Itoa(v \div b, b)) :
             Itoa(v, b)[i] = Itoa(v \div b, b)[i]
  BY <1>4
<1> QED BY <1>3, <1>5, ItoaIs DEF D

\* A larger number has no fewer digits.
LEMMA MoreDigits ==
  ASSUME NEW b \in Base, NEW u \in Nat, NEW v \in Nat, u <= v
  PROVE  Len(Itoa(u, b)) <= Len(Itoa(v, b))
<1> DEFINE S == {y \in Nat : \A x \in 0 .. y :
                   Len(Itoa(x, b)) <= Len(Itoa(y, b))}
<1>1. ASSUME NEW y \in Nat, \A k \in 0 .. y - 1 : k \in S PROVE y \in S
  <2> SUFFICES ASSUME NEW x \in 0 .. y PROVE Len(Itoa(x, b)) <= Len(Itoa(y, b))
    OBVIOUS
  <2>1. Len(Itoa(y, b)) \in Nat \ {0}
    BY NumeralIs
  <2>2. CASE x < b
    <3>1. Itoa(x, b) = <<Digits[x + 1]>>
      <4>1. x \in Nat
        OBVIOUS
      <4> QED BY <2>2, <4>1, NumeralIs
    <3>2. Len(<<Digits[x + 1]>>) = 1
      OBVIOUS
    <3> QED BY <2>1, <3>1, <3>2
  <2>3. CASE x >= b
    <3>1. y >= b /\ x \in Nat
      BY <2>3 DEF Base
    <3>2. y \div b \in 0 .. y - 1 /\ x \div b \in 0 .. y \div b
      <4>1. CASE b = 10
        BY <2>3, <4>1
      <4>2. CASE b = 16
        BY <2>3, <4>2
      <4> QED BY <4>1, <4>2 DEF Base
    <3>3. Len(Itoa(x \div b, b)) <= Len(Itoa(y \div b, b))
      BY <1>1, <3>2
    <3>4. /\ Len(Itoa(x, b)) = Len(Itoa(x \div b, b)) + 1
          /\ Len(Itoa(y, b)) = Len(Itoa(y \div b, b)) + 1
      BY <2>3, <3>1, NumeralIs
    <3>5. Len(Itoa(x \div b, b)) \in Nat /\ Len(Itoa(y \div b, b)) \in Nat
      BY <3>2, NumeralIs
    <3> QED BY <3>3, <3>4, <3>5
  <2> QED BY <2>2, <2>3 DEF Base
<1>2. S = Nat
  <2>1. S \in SUBSET Nat
    OBVIOUS
  <2> HIDE DEF S
  <2> QED BY <1>1, <2>1, StrongInduction
<1> QED BY <1>2

\* f reads n characters of t, as far as numbers less than max.
Reads(f, t, n, b, max) ==
  /\ f[0] = 0
  /\ \A k \in 1 .. n :
       f[k - 1] * b + DigitValue(t[k]) \in 0 .. max - 1 =>
         f[k] = f[k - 1] * b + DigitValue(t[k])

\* A numeral, and a zero before it, is read as its number.
LEMMA NumeralRead ==
  ASSUME NEW b \in Base, NEW max \in Nat, NEW n \in Nat, NEW t,
         NEW f, Reads(f, t, n, b, max),
         NEW z \in 0 .. 1, z <= n, z = 1 => DigitValue(t[1]) = 0,
         NEW a \in 0 .. max - 1, z + Len(Itoa(a, b)) <= n,
         \A i \in 1 .. Len(Itoa(a, b)) :
           DigitValue(t[z + i]) = DigitValue(Itoa(a, b)[i])
  PROVE  f[z + Len(Itoa(a, b))] = a
<1>1. f[z] = 0
  <2>1. 0 * b + 0 = 0
    BY DEF Base
  <2> QED BY <2>1 DEF Reads
<1> DEFINE P(u) == /\ u < max /\ z + Len(Itoa(u, b)) <= n
                   /\ \A i \in 1 .. Len(Itoa(u, b)) :
                        DigitValue(t[z + i]) = DigitValue(Itoa(u, b)[i])
           S == {u \in Nat : P(u) => f[z + Len(Itoa(u, b))] = u}
<1>2. ASSUME NEW u \in Nat, \A k \in 0 .. u - 1 : k \in S PROVE u \in S
  <2>1. SUFFICES ASSUME P(u) PROVE f[z + Len(Itoa(u, b))] = u
    OBVIOUS
  <2> DEFINE m == Len(Itoa(u, b))
  <2>2. m \in Nat \ {0}
    BY NumeralIs
  <2>3. /\ z + m \in 1 .. n /\ m \in 1 .. m
        /\ DigitValue(t[z + m]) = DigitValue(Itoa(u, b)[m])
    BY <2>1, <2>2
  <2>4. CASE u < b
    <3>1. m = 1 /\ Itoa(u, b)[m] = Digits[u + 1]
      <4>1. Itoa(u, b) = <<Digits[u + 1]>>
        BY <2>4, NumeralIs
      <4> QED BY <4>1
    <3>2. u \in 0 .. 15
      BY <2>4 DEF Base
    <3>3. DigitValue(t[z + m]) = u
      BY <2>3, <3>1, <3>2, ValueIs
    <3>4. (z + m) - 1 = z /\ 0 * b + u = u /\ u \in 0 .. max - 1
      BY <2>1, <3>1 DEF Base
    <3> HIDE DEF m, P
    <3> QED BY <1>1, <2>3, <3>3, <3>4 DEF Reads, m
  <2>5. CASE u >= b
    <3> DEFINE q == u \div b
    <3>1. q \in 0 .. u - 1 /\ u % b \in 0 .. 15 /\ u = q * b + (u % b)
      <4>1. q \in 0 .. u - 1 /\ u = q * b + (u % b)
        BY <2>5, Division
      <4>2. u % b \in 0 .. b - 1 /\ b \in 2 .. 16
        BY Division
      <4>3. \A k \in 0 .. b - 1 : k \in 0 .. 15
        BY <4>2
      <4> HIDE DEF q
      <4> QED BY <4>1, <4>2, <4>3, Zenon
    <3>2. /\ m = Len(Itoa(q, b)) + 1 /\ Itoa(u, b)[m] = Digits[(u % b) + 1]
          /\ \A i \in 1 .. Len(Itoa(q, b)) : Itoa(u, b)[i] = Itoa(q, b)[i]
      BY <2>5, NumeralIs
    <3> HIDE DEF q
    <3>3. Len(Itoa(q, b)) \in Nat
      BY <3>1, NumeralIs
    <3>4. P(q)
      BY <2>1, <3>1, <3>2, <3>3
    <3>5. f[z + Len(Itoa(q, b))] = q /\ z + Len(Itoa(q, b)) = (z + m) - 1
      BY <1>2, <3>1, <3>2, <3>3, <3>4
    <3>6. DigitValue(t[z + m]) = u % b
      BY <2>3, <3>1, <3>2, ValueIs
    <3>7. u \in 0 .. max - 1
      BY <2>1
    <3> HIDE DEF m, P
    <3> QED BY <2>3, <3>1, <3>5, <3>6, <3>7 DEF Reads, m
  <2> QED BY <2>4, <2>5 DEF Base
<1>3. S = Nat
  <2>1. S \in SUBSET Nat
    OBVIOUS
  <2> HIDE DEF S
  <2> QED BY <1>2, <2>1, StrongInduction
<1>4. a \in S
  BY <1>3
<1> QED BY <1>4

\* The first k characters of t are v's numeral behind zeros.
Behind(v, t, k, z) ==
  /\ \A i \in 1 .. z : t[i] = "0"
  /\ v = 0 => z = k
  /\ v # 0 => /\ z + Len(Itoa(v, 10)) = k
              /\ \A i \in 1 .. Len(Itoa(v, 10)) : t[z + i] = Itoa(v, 10)[i]

\* One digit more.
LEMMA BehindMore ==
  ASSUME NEW v \in Nat, NEW t, NEW k \in Nat, NEW z \in 0 .. k,
         Behind(v, t, k, z), NEW d \in 0 .. 9, t[k + 1] = Digits[d + 1]
  PROVE  \E y \in 0 .. k + 1 : Behind(v * 10 + d, t, k + 1, y)
<1> DEFINE w == v * 10 + d
<1>1. w \in Nat /\ 10 \in Base
  BY DEF Base
<1>2. CASE v = 0 /\ d = 0
  <2>1. w = 0 /\ Digits[d + 1] = "0"
    BY <1>2 DEF Digits
  <2>2. \A i \in 1 .. k + 1 : t[i] = "0"
    <3>1. \A i \in 1 .. k + 1 : i \in 1 .. k \/ i = k + 1
      OBVIOUS
    <3> QED BY <1>2, <2>1, <3>1 DEF Behind
  <2>3. Behind(w, t, k + 1, k + 1)
    BY <2>1, <2>2 DEF Behind
  <2> HIDE DEF w
  <2>4. k + 1 \in 0 .. k + 1
    OBVIOUS
  <2> QED BY <2>3, <2>4 DEF w
<1>3. CASE v = 0 /\ d # 0
  <2>1. w = d /\ w # 0 /\ w < 10
    BY <1>3
  <2>2. Itoa(w, 10) = <<Digits[d + 1]>>
    <3> HIDE DEF w
    <3> QED BY <1>1, <2>1, NumeralIs
  <2>3. z = k /\ \A i \in 1 .. z : t[i] = "0"
    BY <1>3 DEF Behind
  <2>4. Len(Itoa(w, 10)) = 1 /\ Itoa(w, 10)[1] = t[k + 1]
    BY <2>2
  <2> HIDE DEF w
  <2>5. \A i \in 1 .. Len(Itoa(w, 10)) : t[z + i] = Itoa(w, 10)[i]
    <3>1. \A i \in 1 .. 1 : i = 1
      OBVIOUS
    <3>2. \A i \in 1 .. 1 : t[z + i] = Itoa(w, 10)[i]
      BY <2>3, <2>4, <3>1
    <3> QED BY <2>4, <3>2, Zenon
  <2>6. Behind(w, t, k + 1, z)
    BY <2>1, <2>3, <2>4, <2>5 DEF Behind
  <2> QED BY <2>6 DEF w
<1>4. CASE v # 0
  <2>1. w >= 10 /\ w # 0 /\ w \div 10 = v /\ w % 10 = d
    <3>1. \A q \in Nat, e \in 0 .. 10 - 1 :
            (q * 10 + e) \div 10 = q /\ (q * 10 + e) % 10 = e
      OBVIOUS
    <3> QED BY <1>4, <3>1
  <2> HIDE DEF w
  <2>2. /\ Len(Itoa(w, 10)) = Len(Itoa(v, 10)) + 1
        /\ Itoa(w, 10)[Len(Itoa(w, 10))] = Digits[d + 1]
        /\ \A i \in 1 .. Len(Itoa(v, 10)) : Itoa(w, 10)[i] = Itoa(v, 10)[i]
    BY <1>1, <2>1, NumeralIs
  <2>3. Len(Itoa(v, 10)) \in Nat
    BY <1>1, NumeralIs
  <2>4. /\ \A i \in 1 .. z : t[i] = "0" /\ z + Len(Itoa(v, 10)) = k
        /\ \A i \in 1 .. Len(Itoa(v, 10)) : t[z + i] = Itoa(v, 10)[i]
        /\ z + Len(Itoa(v, 10)) = k
    BY <1>4 DEF Behind
  <2>5. ASSUME NEW i \in 1 .. Len(Itoa(w, 10))
        PROVE  t[z + i] = Itoa(w, 10)[i]
    <3>1. CASE i \in 1 .. Len(Itoa(v, 10))
      BY <2>2, <2>4, <3>1
    <3>2. CASE i = Len(Itoa(v, 10)) + 1
      <4>1. z + i = k + 1
        BY <2>3, <2>4, <3>2
      <4> QED BY <2>2, <3>2, <4>1
    <3> QED BY <2>2, <2>3, <3>1, <3>2
  <2>6. z + Len(Itoa(w, 10)) = k + 1
    BY <2>2, <2>3, <2>4
  <2>7. \A i \in 1 .. z : t[i] = "0"
    BY DEF Behind
  <2>8. Behind(w, t, k + 1, z)
    BY <2>1, <2>5, <2>6, <2>7 DEF Behind
  <2> QED BY <2>8 DEF w
<1> QED BY <1>2, <1>3, <1>4

\* What is read of a line too short for max is the number that is there.
LEMMA ReadNumeral ==
  ASSUME NEW max \in Nat \ {0}, NEW n \in Nat, n < Len(Itoa(max, 10)), NEW t,
         \A k \in 1 .. n : t[k] \in ToSet(DecDigits),
         NEW f, Reads(f, t, n, 10, max)
  PROVE  f[n] \in 0 .. max - 1 /\ \E z \in 0 .. n : Behind(f[n], t, n, z)
<1> DEFINE P(k) == /\ f[k] \in 0 .. max - 1
                   /\ \E z \in 0 .. k : Behind(f[k], t, k, z)
           S == {k \in Nat : k <= n => P(k)}
<1>1. 0 \in S
  <2>1. Behind(0, t, 0, 0) /\ f[0] = 0
    BY DEF Behind, Reads
  <2> QED BY <2>1
<1>2. ASSUME NEW k \in S PROVE k + 1 \in S
  <2>1. SUFFICES ASSUME k + 1 <= n PROVE P(k + 1)
    OBVIOUS
  <2>2. /\ k \in Nat /\ k + 1 \in 1 .. n /\ (k + 1) - 1 = k
        /\ f[k] \in 0 .. max - 1
    BY <2>1
  <2>3. PICK z \in 0 .. k : Behind(f[k], t, k, z)
    BY <2>1
  <2>4. PICK d \in 0 .. 9 : t[k + 1] = Digits[d + 1]
    BY <2>2, Decimal
  <2>5. DigitValue(t[k + 1]) = d
    <3>1. d \in 0 .. 15
      OBVIOUS
    <3> QED BY <2>4, <3>1, ValueIs
  <2> DEFINE w == f[k] * 10 + d
  <2>6. PICK y \in 0 .. k + 1 : Behind(w, t, k + 1, y)
    <3>1. f[k] \in Nat
      BY <2>2
    <3> QED BY <2>2, <2>3, <2>4, <3>1, BehindMore
  <2>7. w \in Nat
    BY <2>2
  <2> HIDE DEF w, P
  <2>8. w < max
    <3>1. SUFFICES ASSUME w >= max PROVE FALSE
      BY <2>7
    <3>2. w # 0 /\ 10 \in Base
      BY <3>1 DEF Base
    <3>3. y + Len(Itoa(w, 10)) = k + 1
      BY <2>6, <3>2 DEF Behind
    <3>4. Len(Itoa(w, 10)) \in Nat /\ Len(Itoa(max, 10)) \in Nat
      BY <2>7, <3>2, NumeralIs
    <3>5. Len(Itoa(max, 10)) <= Len(Itoa(w, 10))
      BY <2>7, <3>1, <3>2, MoreDigits
    <3> QED BY <2>2, <3>3, <3>4, <3>5
  <2>9. f[k + 1] = w
    <3>1. w \in 0 .. max - 1 /\ w = f[(k + 1) - 1] * 10 + DigitValue(t[k + 1])
      BY <2>2, <2>5, <2>7, <2>8 DEF w
    <3> QED BY <2>2, <3>1 DEF Reads
  <2> QED BY <2>6, <2>7, <2>8, <2>9 DEF P
<1>3. S = Nat
  <2>1. S \in SUBSET Nat
    OBVIOUS
  <2> HIDE DEF S
  <2> QED BY <1>1, <1>2, <2>1, Induction
<1> QED BY <1>3

LEMMA SpanIs ==
  ASSUME NEW s, Len(s) \in Nat, NEW chars
  PROVE  /\ Span(s, chars) \in 0 .. Len(s)
         /\ \A k \in 1 .. Span(s, chars) : s[k] \in chars
         /\ Span(s, chars) < Len(s) => s[Span(s, chars) + 1] \notin chars
<1> DEFINE S == {k \in 1 .. Len(s) + 1 : k = Len(s) + 1 \/ s[k] \notin chars}
<1>1. PICK x \in S : \A y \in S : x <= y
  <2>1. S \in SUBSET Nat /\ Len(s) + 1 \in S
    OBVIOUS
  <2> HIDE DEF S
  <2> QED BY <2>1, Smallest
<1>2. \A k \in 1 .. x - 1 : s[k] \in chars
  BY <1>1
<1>3. x - 1 \in 0 .. Len(s) /\ (x - 1) + 1 = x
      /\ (x - 1 < Len(s) => s[x] \notin chars)
  BY <1>1
<1> HIDE DEF S
<1>4. \E n \in 0 .. Len(s) :
        /\ \A k \in 1 .. n : s[k] \in chars
        /\ n < Len(s) => s[n + 1] \notin chars
  BY <1>2, <1>3
<1> QED BY <1>4 DEF Span

\* The loops of atoi and of parse_hex: how a number so far is kept, and for
\* what numbers.
Kept(x, b) == IF b = 10 THEN Signed(x) ELSE x % WORD
Limit(b) == IF b = 10 THEN WORD \div 2 ELSE WORD

IsReading(f, t, n, b) ==
  f = [k \in 0 .. n |->
         IF k = 0 THEN 0 ELSE Kept(f[k - 1] * b + DigitValue(t[k]), b)]

LEMMA ReadingExists ==
  ASSUME NEW b, NEW t, NEW n \in Nat
  PROVE  \E f : IsReading(f, t, n, b)
<1> DEFINE Turn(x, k) == Kept(x * b + DigitValue(t[k]), b)
           S == {m \in Nat : \E f : IsReading(f, t, m, b)}
<1>1. 0 \in S
  <2>1. IsReading([k \in 0 .. 0 |-> 0], t, 0, b)
    BY DEF IsReading
  <2> QED BY <2>1
<1>2. ASSUME NEW m \in S PROVE m + 1 \in S
  <2>1. PICK f : f = [k \in 0 .. m |-> IF k = 0 THEN 0 ELSE Turn(f[k - 1], k)]
    BY DEF IsReading
  <2> HIDE DEF Turn
  <2> DEFINE g == [k \in 0 .. m + 1 |->
                     IF k = m + 1 THEN Turn(f[m], m + 1) ELSE f[k]]
  <2>2. ASSUME NEW k \in 0 .. m + 1
        PROVE  g[k] = IF k = 0 THEN 0 ELSE Turn(g[k - 1], k)
    <3>1. CASE k = m + 1
      <4>1. k # 0 /\ k - 1 = m /\ g[m] = f[m] /\ g[k] = Turn(f[m], m + 1)
        BY <3>1
      <4> HIDE DEF g
      <4> QED BY <3>1, <4>1
    <3>2. CASE k \in 0 .. m
      <4>1. g[k] = f[k] /\ (k # 0 => g[k - 1] = f[k - 1])
        BY <3>2
      <4> HIDE DEF g
      <4> QED BY <2>1, <3>2, <4>1
    <3> QED BY <3>1, <3>2
  <2>3. g = [k \in 0 .. m + 1 |-> IF k = 0 THEN 0 ELSE Turn(g[k - 1], k)]
    <3>1. g = [k \in 0 .. m + 1 |-> g[k]]
      OBVIOUS
    <3> HIDE DEF g
    <3> QED BY <2>2, <3>1
  <2> HIDE DEF g
  <2>4. IsReading(g, t, m + 1, b)
    BY <2>3 DEF IsReading, Turn
  <2> QED BY <2>4
<1>3. S = Nat
  <2>1. S \in SUBSET Nat
    OBVIOUS
  <2> HIDE DEF S
  <2> QED BY <1>1, <1>2, <2>1, Induction
<1> QED BY <1>3

LEMMA KeptIs ==
  ASSUME NEW b \in Base, NEW x \in 0 .. Limit(b) - 1
  PROVE  Kept(x, b) = x
<1>1. WORD \in Nat \ {0}
  BY WordAssumption
<1>2. CASE b = 10
  <2>1. x + (WORD \div 2) \in 0 .. WORD - 1
    BY <1>1, <1>2 DEF Limit
  <2>2. (x + (WORD \div 2)) % WORD = x + (WORD \div 2)
    BY <1>1, <2>1
  <2> QED BY <1>1, <1>2, <2>2 DEF Kept, Signed, Limit
<1>3. CASE b = 16
  BY <1>1, <1>3 DEF Kept, Limit
<1> QED BY <1>2, <1>3 DEF Base

\* They read.
LEMMA ReadingReads ==
  ASSUME NEW b \in Base, NEW t, NEW n \in Nat, NEW f, IsReading(f, t, n, b)
  PROVE  Reads(f, t, n, b, Limit(b))
<1>1. f[0] = 0
  BY DEF IsReading
<1>2. ASSUME NEW k \in 1 .. n,
             f[k - 1] * b + DigitValue(t[k]) \in 0 .. Limit(b) - 1
      PROVE  f[k] = f[k - 1] * b + DigitValue(t[k])
  <2>1. k \in 0 .. n /\ k # 0
    OBVIOUS
  <2>2. f[k] = Kept(f[k - 1] * b + DigitValue(t[k]), b)
    BY <2>1, Zenon DEF IsReading
  <2> QED BY <1>2, <2>2, KeptIs
<1> QED BY <1>1, <1>2 DEF Reads

\* atoi is a sign and a reading.
Unsigned(s) == IF s # <<>> /\ s[1] = "-" THEN Tail(s) ELSE s
UnsignedLen(s) == Span(Unsigned(s), ToSet(DecDigits))

LEMMA AtoiIs ==
  ASSUME NEW s, UnsignedLen(s) \in Nat
  PROVE  \E f : /\ IsReading(f, Unsigned(s), UnsignedLen(s), 10)
                /\ Atoi(s) = IF s # <<>> /\ s[1] = "-"
                               THEN Signed(-f[UnsignedLen(s)])
                             ELSE f[UnsignedLen(s)]
<1> DEFINE N(f) == f = [k \in 0 .. UnsignedLen(s) |->
                          IF k = 0 THEN 0
                          ELSE Signed(f[k - 1] * 10
                                      + DigitValue(Unsigned(s)[k]))]
           num == CHOOSE f : N(f)
<1>1. \A f : N(f) <=> IsReading(f, Unsigned(s), UnsignedLen(s), 10)
  BY Zenon DEF IsReading, Kept
<1>2. Atoi(s) = IF s # <<>> /\ s[1] = "-" THEN Signed(-num[UnsignedLen(s)])
                ELSE num[UnsignedLen(s)]
  BY Zenon DEF Atoi, Unsigned, UnsignedLen
<1> HIDE DEF N
<1>3. \E f : N(f)
  BY <1>1, ReadingExists
<1>4. IsReading(num, Unsigned(s), UnsignedLen(s), 10)
  BY <1>1, <1>3
<1> QED BY <1>2, <1>4

\* What it finds is the number the line begins with, and a numeral's number.
LEMMA NumberIs ==
  ASSUME NEW X, NEW l \in Seq(X), Len(l) < Len(Itoa(WORD \div 2, 10))
  PROVE  /\ Atoi(l) \in Int
         /\ Atoi(l) > 0 =>
              \E z \in 0 .. Len(l) :
                IsPrefix([i \in 1 .. z |-> "0"] \o Itoa(Atoi(l), 10), l)
         /\ \A n \in Nat : l = Itoa(n, 10) => Atoi(l) = n
<1> DEFINE minus == l # <<>> /\ l[1] = "-"
           t == IF minus THEN Tail(l) ELSE l
           n == Span(t, ToSet(DecDigits))
           max == WORD \div 2
<1>1. /\ max \in Nat \ {0} /\ WORD \in Nat /\ 2 * max <= WORD
      /\ max = Limit(10) /\ 10 \in Base
  BY WordAssumption DEF Limit, Base
<1> HIDE DEF max
<1>2. Len(t) \in Nat /\ Len(t) <= Len(l)
  <2> HIDE DEF minus
  <2>1. l # <<>> => Tail(l) \in Seq(X) /\ Len(Tail(l)) = Len(l) - 1
    OBVIOUS
  <2>2. minus => l # <<>>
    BY DEF minus
  <2> QED BY <2>1, <2>2
<1> HIDE DEF t, minus
<1>3. /\ n \in 0 .. Len(t) /\ \A k \in 1 .. n : t[k] \in ToSet(DecDigits)
      /\ n < Len(t) => t[n + 1] \notin ToSet(DecDigits)
  BY <1>2, SpanIs
<1> HIDE DEF n
<1>4. n \in Nat /\ n < Len(Itoa(max, 10)) /\ n <= Len(l)
  <2>1. Len(Itoa(max, 10)) \in Nat
    BY <1>1, NumeralIs
  <2> QED BY <1>2, <1>3, <2>1 DEF max
<1>5. PICK f : /\ IsReading(f, t, n, 10)
               /\ Atoi(l) = IF minus THEN Signed(-f[n]) ELSE f[n]
  <2>1. n = UnsignedLen(l) /\ t = Unsigned(l)
    BY Zenon DEF n, t, minus, Unsigned, UnsignedLen
  <2> QED BY <1>4, <2>1, AtoiIs, Zenon DEF minus
<1>6. Reads(f, t, n, 10, max)
  BY <1>1, <1>4, <1>5, ReadingReads
<1>7. f[n] \in 0 .. max - 1 /\ \E z \in 0 .. n : Behind(f[n], t, n, z)
  BY <1>1, <1>3, <1>4, <1>6, ReadNumeral
<1>8. CASE minus
  <2>1. Atoi(l) = -f[n]
    <3>1. PICK x : x = f[n]
      OBVIOUS
    <3>2. x \in Nat /\ x < max
      BY <1>1, <1>7, <3>1
    <3>3. (-x + max) % WORD = -x + max
      <4>1. PICK y \in Nat : y = -x + max
        BY <1>1, <3>2
      <4>2. y < WORD
        BY <1>1, <3>2, <4>1
      <4>3. y % WORD = y
        BY <1>1, <4>2
      <4> QED BY <4>1, <4>3
    <3> QED BY <1>1, <1>5, <1>8, <3>1, <3>2, <3>3 DEF Signed, max
  <2>2. Atoi(l) \in Int /\ ~(Atoi(l) > 0)
    BY <1>1, <1>7, <2>1
  <2>3. ASSUME NEW m \in Nat, l = Itoa(m, 10) PROVE FALSE
    <3>1. l \in Seq({Digits[d + 1] : d \in 0 .. 10 - 1}) /\ Len(l) # 0
      BY <1>1, <2>3, NumeralIs
    <3>2. l[1] \in {Digits[d + 1] : d \in 0 .. 10 - 1}
      BY <3>1
    <3>3. \A d \in 0 .. 9 : d + 1 \in 1 .. 16
      OBVIOUS
    <3> QED BY <1>8, <3>2, <3>3, DigitsAre DEF minus
  <2> QED BY <2>2, <2>3
<1>9. CASE ~minus
  <2>1. t = l /\ Atoi(l) = f[n] /\ f[n] \in Int
    BY <1>1, <1>5, <1>7, <1>9 DEF t
  <2>2. ASSUME f[n] > 0
        PROVE  \E z \in 0 .. Len(l) :
                 IsPrefix([i \in 1 .. z |-> "0"] \o Itoa(f[n], 10), l)
    <3>1. PICK z \in 0 .. n : Behind(f[n], l, n, z)
      BY <1>7, <2>1
    <3> DEFINE u == [i \in 1 .. z |-> "0"]
               v == Itoa(f[n], 10)
    <3>2. /\ z + Len(v) = n /\ \A i \in 1 .. z : l[i] = "0"
          /\ \A i \in 1 .. Len(v) : l[z + i] = v[i]
      BY <1>7, <2>2, <3>1 DEF Behind
    <3>3. f[n] \in Nat
      BY <1>7
    <3>4. v \in Seq({Digits[d + 1] : d \in 0 .. 10 - 1}) /\ Len(v) \in Nat
      BY <1>1, <3>3, NumeralIs
    <3> DEFINE D == {Digits[d + 1] : d \in 0 .. 10 - 1} \cup {"0"}
    <3>5. v \in Seq(D) /\ u \in Seq(D) /\ Len(u) = z /\ z \in Nat
          /\ \A i \in 1 .. z : u[i] = "0"
      <4>1. z \in Nat
        BY <1>4
      <4> HIDE DEF v
      <4> QED BY <3>4, <4>1
    <3> HIDE DEF u, v, D
    <3>6. /\ \A i \in 1 .. Len(u) : l[i] = u[i]
          /\ \A i \in 1 .. Len(v) : l[Len(u) + i] = v[i]
          /\ Len(u) + Len(v) <= Len(l)
      BY <1>4, <3>2, <3>5
    <3>7. u \in Seq(D) /\ v \in Seq(D)
      BY <3>5
    <3>8. IsPrefix(u \o v, l)
      BY <3>6, <3>7, BothPrefix
    <3>9. z \in 0 .. Len(l)
      BY <1>4
    <3> QED BY <3>8, <3>9 DEF u, v
  <2>3. ASSUME NEW m \in Nat, l = Itoa(m, 10) PROVE f[n] = m
    <3>1. /\ l \in Seq({Digits[d + 1] : d \in 0 .. 10 - 1})
          /\ Len(l) \in Nat \ {0}
      BY <1>1, <2>3, NumeralIs
    <3>2. \A k \in 1 .. Len(l) : l[k] \in ToSet(DecDigits)
      BY <3>1, Decimal
    <3>3. n = Len(l)
      <4>1. n < Len(l) => n + 1 \in 1 .. Len(l)
        BY <1>4
      <4> QED BY <1>3, <1>4, <2>1, <3>1, <3>2, <4>1
    <3>4. m < max
      <4>1. SUFFICES ASSUME m >= max PROVE FALSE
        BY <1>1
      <4>2. /\ Len(Itoa(max, 10)) <= Len(Itoa(m, 10))
            /\ Len(Itoa(max, 10)) \in Nat
        BY <1>1, <4>1, MoreDigits, NumeralIs
      <4> QED BY <2>3, <3>1, <4>2 DEF max
    <3>5. /\ m \in 0 .. max - 1 /\ 0 + Len(Itoa(m, 10)) = n
          /\ \A i \in 1 .. Len(Itoa(m, 10)) : 0 + i = i
      BY <1>1, <2>3, <3>1, <3>3, <3>4
    <3>6. f[0 + Len(Itoa(m, 10))] = m
      <4>1. \A i \in 1 .. Len(Itoa(m, 10)) :
              DigitValue(l[0 + i]) = DigitValue(Itoa(m, 10)[i])
        BY <2>3, <3>5
      <4>2. 0 \in 0 .. 1 /\ 0 <= n /\ 0 # 1 /\ max \in Nat
            /\ 0 + Len(Itoa(m, 10)) <= n
        BY <1>1, <1>4, <3>5
      <4> QED BY <1>1, <1>4, <1>6, <2>1, <3>5, <4>1, <4>2, NumeralRead
    <3> QED BY <3>5, <3>6
  <2> QED BY <2>1, <2>2, <2>3
<1> QED BY <1>8, <1>9

\* parse_hex is a reading behind the prefix.
Hexadecimal == ToSet(Digits) \cup ToSet(LowDigits)
Bare(s) == IF Len(s) >= 2 /\ s[1] = "0" /\ s[2] \in {"x", "X"}
             THEN SubSeq(s, 3, Len(s)) ELSE s
BareLen(s) == Span(Bare(s), Hexadecimal)

LEMMA ParseHexIs ==
  ASSUME NEW s, BareLen(s) \in Nat
  PROVE  \E f : /\ IsReading(f, Bare(s), BareLen(s), 16)
                /\ ParseHex(s) = IF BareLen(s) < Len(Bare(s))
                                    THEN (f[BareLen(s)] * 16) % WORD
                                  ELSE f[BareLen(s)]
<1> DEFINE N(f) == f = [k \in 0 .. BareLen(s) |->
                          IF k = 0 THEN 0
                          ELSE (f[k - 1] * 16 + DigitValue(Bare(s)[k])) % WORD]
           value == CHOOSE f : N(f)
<1>1. \A f : N(f) <=> IsReading(f, Bare(s), BareLen(s), 16)
  <2>1. 16 # 10
    OBVIOUS
  <2> QED BY <2>1, Zenon DEF IsReading, Kept
<1>2. ParseHex(s) = IF BareLen(s) < Len(Bare(s))
                      THEN (value[BareLen(s)] * 16) % WORD
                    ELSE value[BareLen(s)]
  BY Zenon DEF ParseHex, Bare, BareLen, Hexadecimal
<1> HIDE DEF N
<1>3. \E f : N(f)
  BY <1>1, ReadingExists
<1>4. IsReading(value, Bare(s), BareLen(s), 16)
  BY <1>1, <1>3
<1> QED BY <1>2, <1>4

\* A character counts like its capital.
LEMMA CapitalIs ==
  ASSUME NEW c, NEW d \in 0 .. 15, Capital(c) = Digits[d + 1]
  PROVE  c \in Hexadecimal /\ DigitValue(c) = d /\ c \notin {"x", "X"}
<1>1. d + 1 \in 1 .. 16
  OBVIOUS
<1>2. CASE c \in ToSet(LowDigits)
  <2>1. PICK i \in 1 .. 16 : c = LowDigits[i]
    BY <1>2, DigitsAre DEF ToSet
  <2>2. PICK e \in 0 .. 15 : e + 1 = i
    <3>1. i - 1 \in 0 .. 15 /\ (i - 1) + 1 = i
      OBVIOUS
    <3> QED BY <3>1
  <2>3. DigitValue(c) = e
    BY <2>1, <2>2, ValueIs
  <2>4. Digits[e + 1] = Digits[d + 1]
    BY <1>2, <2>3 DEF Capital
  <2>5. e = d
    BY <1>1, <2>2, <2>4, DigitsAre
  <2> QED BY <1>2, <2>1, <2>3, <2>5, DigitsAre DEF Hexadecimal
<1>3. CASE c \notin ToSet(LowDigits)
  <2>1. c = Digits[d + 1]
    BY <1>3 DEF Capital
  <2>2. c \in ToSet(Digits) /\ c \notin {"x", "X"}
    BY <1>1, <2>1, DigitsAre DEF ToSet
  <2> QED BY <2>1, <2>2, ValueIs DEF Hexadecimal
<1> QED BY <1>2, <1>3

\* An x is not a digit, a digit that is printed is capital.
LEMMA CapitalOf ==
  /\ \A c : Capital(c) = "x" => c = "x"
  /\ \A c : Capital(c) = "0" => c = "0"
  /\ \A d \in 0 .. 15 : Capital(Digits[d + 1]) = Digits[d + 1]
<1>1. \A i \in 1 .. 16 : \E e \in 0 .. 15 : e + 1 = i
  <2>1. \A i \in 1 .. 16 : i - 1 \in 0 .. 15 /\ (i - 1) + 1 = i
    OBVIOUS
  <2> QED BY <2>1
<1>2. \A c \in ToSet(LowDigits) :
        \E e \in 0 .. 15 : c = LowDigits[e + 1] /\ Capital(c) = Digits[e + 1]
  <2> TAKE c \in ToSet(LowDigits)
  <2>1. PICK e \in 0 .. 15 : c = LowDigits[e + 1]
    BY <1>1, DigitsAre DEF ToSet
  <2>2. DigitValue(c) = e
    BY <2>1, ValueIs
  <2> QED BY <2>1, <2>2 DEF Capital
<1>3. \A e \in 0 .. 15 : e + 1 \in 1 .. 16 /\ (e + 1 = 1 <=> e = 0)
  OBVIOUS
<1>4. Digits[1] = "0" /\ LowDigits[1] = "0"
  BY DEF Digits, LowDigits
<1>5. ASSUME NEW c, Capital(c) = "x" PROVE c = "x"
  BY <1>2, <1>3, <1>5, DigitsAre DEF Capital
<1>6. ASSUME NEW c, Capital(c) = "0" PROVE c = "0"
  <2>1. c \notin ToSet(LowDigits) => c = "0"
    BY <1>6 DEF Capital
  <2>2. ASSUME NEW e \in 0 .. 15, c = LowDigits[e + 1], Digits[e + 1] = "0"
        PROVE  c = "0"
    <3>1. 1 \in 1 .. 16
      OBVIOUS
    <3>2. e + 1 = 1
      BY <1>3, <1>4, <2>2, <3>1, DigitsAre
    <3> QED BY <1>4, <2>2, <3>2
  <2> QED BY <1>2, <1>6, <2>1, <2>2
<1>7. ASSUME NEW d \in 0 .. 15 PROVE Capital(Digits[d + 1]) = Digits[d + 1]
  BY ValueIs DEF Capital
<1> QED BY <1>5, <1>6, <1>7

\* A hexadecimal numeral is read as its number.
LEMMA HexadecimalRead ==
  ASSUME NEW X, NEW t \in Seq(X), NEW a \in 0 .. WORD - 1, NEW z \in 0 .. 1,
         Len(t) = z + Len(Itoa(a, 16)), z = 1 => Capital(t[1]) = "0",
         \A i \in 1 .. Len(Itoa(a, 16)) : Capital(t[z + i]) = Itoa(a, 16)[i]
  PROVE  /\ Span(t, Hexadecimal) = Len(t)
         /\ \A i \in 1 .. Len(t) : t[i] \notin {"x", "X"}
         /\ \A f : IsReading(f, t, Len(t), 16) => f[Len(t)] = a
<1> DEFINE s == Itoa(a, 16)
<1>1. 16 \in Base /\ WORD \in Nat /\ Limit(16) = WORD /\ a \in Nat
  BY WordAssumption DEF Base, Limit
<1>2. s \in Seq({Digits[d + 1] : d \in 0 .. 16 - 1}) /\ Len(s) \in Nat
  BY <1>1, NumeralIs
<1> HIDE DEF s
<1>3. \A i \in 1 .. Len(s) : \E d \in 0 .. 15 : s[i] = Digits[d + 1]
  <2>1. \A i \in 1 .. Len(s) : s[i] \in {Digits[d + 1] : d \in 0 .. 16 - 1}
    BY <1>2
  <2>2. 16 - 1 = 15
    OBVIOUS
  <2> QED BY <2>1, <2>2
<1>4. \A i \in 1 .. Len(s) : Capital(t[z + i]) = s[i]
  BY DEF s
<1>5. \A i \in 1 .. Len(s) : /\ t[z + i] \in Hexadecimal
                             /\ DigitValue(t[z + i]) = DigitValue(s[i])
                             /\ t[z + i] \notin {"x", "X"}
  <2> TAKE i \in 1 .. Len(s)
  <2>1. PICK d \in 0 .. 15 : s[i] = Digits[d + 1]
    BY <1>3
  <2>2. Capital(t[z + i]) = Digits[d + 1]
    BY <1>4, <2>1
  <2>3. DigitValue(s[i]) = d
    BY <2>1, ValueIs
  <2> QED BY <2>2, <2>3, CapitalIs
<1>6. z = 1 => /\ t[1] \in Hexadecimal /\ DigitValue(t[1]) = 0
               /\ t[1] \notin {"x", "X"}
  <2>1. Digits[0 + 1] = "0" /\ 0 \in 0 .. 15
    BY DEF Digits
  <2> QED BY <2>1, CapitalIs
<1>7. Len(t) \in Nat /\ Len(t) = z + Len(s)
  BY DEF s
<1>8. \A i \in 1 .. Len(t) : t[i] \in Hexadecimal /\ t[i] \notin {"x", "X"}
  <2> TAKE i \in 1 .. Len(t)
  <2>1. CASE i <= z
    <3>1. z = 1 /\ i = 1
      BY <2>1
    <3> QED BY <1>6, <3>1
  <2>2. CASE i > z
    <3>1. i - z \in 1 .. Len(s) /\ z + (i - z) = i
      BY <1>2, <1>7, <2>2
    <3> QED BY <1>5, <3>1
  <2> QED BY <2>1, <2>2
<1>9. Span(t, Hexadecimal) = Len(t)
  <2> DEFINE n == Span(t, Hexadecimal)
  <2>1. n \in 0 .. Len(t) /\ (n < Len(t) => t[n + 1] \notin Hexadecimal)
    BY <1>7, SpanIs
  <2> HIDE DEF n
  <2>2. n < Len(t) => n + 1 \in 1 .. Len(t)
    BY <1>7, <2>1
  <2>3. n = Len(t)
    BY <1>7, <1>8, <2>1, <2>2
  <2> QED BY <2>3 DEF n
<1>10. ASSUME NEW f, IsReading(f, t, Len(t), 16) PROVE f[Len(t)] = a
  <2>1. Reads(f, t, Len(t), 16, WORD)
    BY <1>1, <1>7, <1>10, ReadingReads
  <2>2. z <= Len(t) /\ z + Len(s) <= Len(t)
    BY <1>2, <1>7
  <2>3. z = 1 => DigitValue(t[1]) = 0
    BY <1>6
  <2>4. \A i \in 1 .. Len(s) : DigitValue(t[z + i]) = DigitValue(s[i])
    BY <1>5
  <2>5. f[z + Len(Itoa(a, 16))] = a
    <3>1. PICK u, n : u = t /\ n = Len(t)
      OBVIOUS
    <3>2. /\ 16 \in Base /\ WORD \in Nat /\ n \in Nat
          /\ Reads(f, u, n, 16, WORD)
          /\ z <= n /\ (z = 1 => DigitValue(u[1]) = 0)
          /\ a \in 0 .. WORD - 1 /\ z + Len(Itoa(a, 16)) <= n
          /\ \A i \in 1 .. Len(Itoa(a, 16)) :
               DigitValue(u[z + i]) = DigitValue(Itoa(a, 16)[i])
      BY <1>1, <1>7, <2>1, <2>2, <2>3, <2>4, <3>1 DEF s
    <3> QED BY <3>2, NumeralRead
  <2> QED BY <2>5
<1> QED BY <1>8, <1>9, <1>10

\* The number that a word means is the one that is read.
LEMMA MeantIsRead ==
  ASSUME NEW X, NEW w \in Seq(X), NEW a \in 0 .. WORD - 1, Means(w, a)
  PROVE  ParseHex(w) = a
<1> DEFINE s == Itoa(a, 16)
           D == {Digits[d + 1] : d \in 0 .. 16 - 1} \cup {"0", "x"}
<1>0. \A i \in 1 .. Len(w) : w[i] \in X
  OBVIOUS
<1>1. s \in Seq(D) /\ Len(s) \in Nat
  <2>1. 16 \in Base /\ a \in Nat
    BY WordAssumption DEF Base
  <2>2. s \in Seq({Digits[d + 1] : d \in 0 .. 16 - 1})
    BY <2>1, NumeralIs
  <2> HIDE DEF s
  <2> QED BY <2>2
<1>2. PICK p \in {<<>>, <<"0">>, <<"0", "x">>} :
        [i \in DOMAIN w |-> Capital(w[i])] = p \o s
  BY DEF Means
<1>3. /\ p \in Seq(D) /\ Len(p) \in 0 .. 2
      /\ Len(p) >= 1 => p[1] = "0"
      /\ Len(p) = 2 => p[2] = "x"
  <2>1. {"0", "x"} \subseteq D
    OBVIOUS
  <2> HIDE DEF D, s
  <2>2. CASE p = <<>>
    BY <2>2
  <2>3. CASE p = <<"0">>
    BY <2>1, <2>3
  <2>4. CASE p = <<"0", "x">>
    BY <2>1, <2>4
  <2> QED BY <1>2, <2>2, <2>3, <2>4
<1> HIDE DEF s, D
<1>4. /\ Len(w) = Len(p) + Len(s) /\ Len(w) \in Nat
      /\ \A i \in 1 .. Len(p) : Capital(w[i]) = p[i]
      /\ \A i \in 1 .. Len(s) : Capital(w[Len(p) + i]) = s[i]
  <2> DEFINE h == p \o s
  <2>1. /\ h \in Seq(D) /\ Len(h) = Len(p) + Len(s)
        /\ \A i \in 1 .. Len(p) : h[i] = p[i]
        /\ \A i \in 1 .. Len(s) : h[Len(p) + i] = s[i]
    BY <1>1, <1>3, Joined
  <2>2. h = [i \in DOMAIN w |-> Capital(w[i])]
    BY <1>2
  <2> HIDE DEF h
  <2>3. DOMAIN h = DOMAIN w /\ \A i \in DOMAIN w : h[i] = Capital(w[i])
    BY <2>2
  <2>4. DOMAIN h = 1 .. Len(h) /\ DOMAIN w = 1 .. Len(w) /\ Len(w) \in Nat
        /\ Len(h) \in Nat
    BY <2>1
  <2>5. Len(h) = Len(w)
    <3>1. h = [i \in 1 .. Len(w) |-> Capital(w[i])]
      BY <2>2, <2>4
    <3> QED BY <2>4, <3>1
  <2>6. \A i \in 1 .. Len(p) : i \in 1 .. Len(w)
    BY <1>1, <1>3, <2>1, <2>5
  <2>7. \A i \in 1 .. Len(s) : Len(p) + i \in 1 .. Len(w)
    BY <1>1, <1>3, <2>1, <2>5
  <2> QED BY <2>1, <2>3, <2>4, <2>5, <2>6, <2>7
<1>5. \E z \in 0 .. 1 :
        /\ Len(Bare(w)) = z + Len(s) /\ Bare(w) \in Seq(X)
        /\ z = 1 => Capital(Bare(w)[1]) = "0"
        /\ \A i \in 1 .. Len(s) : Capital(Bare(w)[z + i]) = s[i]
  <2>1. CASE Len(p) = 2
    <3>1. Len(w) >= 2 /\ w[1] = "0" /\ w[2] = "x"
      BY <1>1, <1>3, <1>4, <2>1, CapitalOf
    <3>2. Bare(w) = SubSeq(w, 3, Len(w))
      BY <3>1 DEF Bare
    <3>3. /\ Bare(w) \in Seq(X) /\ Len(Bare(w)) = Len(s)
          /\ \A i \in 1 .. Len(s) : Bare(w)[i] = w[2 + i]
      <4>1. PICK n \in Nat : n = Len(w) /\ n = Len(s) + 2
        BY <1>1, <1>4, <2>1
      <4>2. /\ SubSeq(w, 3, n) \in Seq(X) /\ Len(SubSeq(w, 3, n)) = n - 2
            /\ \A i \in 1 .. n - 2 : SubSeq(w, 3, n)[i] = w[2 + i]
        <5>1. SubSeq(w, 3, n) = [i \in 1 .. n - 3 + 1 |-> w[3 + i - 1]]
          BY <3>1, <4>1
        <5>2. n - 3 + 1 = n - 2 /\ n - 2 \in Nat
          BY <3>1, <4>1
        <5>3. SubSeq(w, 3, n) = [i \in 1 .. n - 2 |-> w[2 + i]]
          BY <5>1, <5>2
        <5>4. \A i \in 1 .. n - 2 : w[2 + i] \in X
          <6>1. \A i \in 1 .. n : w[i] \in X
            BY <1>0, <4>1, Zenon
          <6>2. \A i \in 1 .. n - 2 : 2 + i \in 1 .. n
            OBVIOUS
          <6> QED BY <6>1, <6>2
        <5> QED BY <5>2, <5>3, <5>4
      <4>3. n - 2 = Len(s) /\ Bare(w) = SubSeq(w, 3, n)
        BY <1>1, <3>2, <4>1
      <4> QED BY <4>2, <4>3, Zenon
    <3>4. \A i \in 1 .. Len(s) : 0 + i = i
      BY <1>1
    <3>5. /\ Len(Bare(w)) = 0 + Len(s)
          /\ \A i \in 1 .. Len(s) : Capital(Bare(w)[0 + i]) = s[i]
      BY <1>1, <1>4, <2>1, <3>3, <3>4
    <3> QED BY <3>3, <3>5
  <2>2. CASE Len(p) \in 0 .. 1
    <3>1. /\ Len(w) = Len(p) + Len(s)
          /\ Len(p) = 1 => Capital(w[1]) = "0"
          /\ \A i \in 1 .. Len(s) : Capital(w[Len(p) + i]) = s[i]
      <4>1. Len(p) = 1 => 1 \in 1 .. Len(p) /\ p[1] = "0"
        BY <1>3
      <4> QED BY <1>4, <4>1
    <3>2. \A i \in 1 .. Len(w) : w[i] \notin {"x", "X"}
      BY <2>2, <3>1, HexadecimalRead DEF s
    <3>3. Bare(w) = w
      <4>1. Len(w) >= 2 => 2 \in 1 .. Len(w)
        BY <1>4
      <4> QED BY <3>2, <4>1, Zenon DEF Bare
    <3> QED BY <2>2, <3>1, <3>3
  <2> QED BY <1>3, <2>1, <2>2
<1>6. PICK z \in 0 .. 1 :
        /\ Len(Bare(w)) = z + Len(s) /\ Bare(w) \in Seq(X)
        /\ z = 1 => Capital(Bare(w)[1]) = "0"
        /\ \A i \in 1 .. Len(s) : Capital(Bare(w)[z + i]) = s[i]
  BY <1>5
<1>7. /\ BareLen(w) = Len(Bare(w))
      /\ \A f : IsReading(f, Bare(w), Len(Bare(w)), 16) => f[Len(Bare(w))] = a
  BY <1>6, HexadecimalRead DEF s, BareLen
<1>8. BareLen(w) \in Nat /\ ~(BareLen(w) < Len(Bare(w)))
  BY <1>1, <1>6, <1>7
<1> QED BY <1>7, <1>8, ParseHexIs

\* A numeral that is printed means its number.
LEMMA PrintedMeans ==
  ASSUME NEW a \in Nat
  PROVE  Means(Itoa(a, 16), a)
<1> DEFINE s == Itoa(a, 16)
<1>1. s \in Seq({Digits[d + 1] : d \in 0 .. 16 - 1})
  <2>1. 16 \in Base
    BY DEF Base
  <2> QED BY <2>1, NumeralIs
<1> HIDE DEF s
<1>2. \A i \in DOMAIN s : Capital(s[i]) = s[i]
  <2>1. \A i \in DOMAIN s : s[i] \in {Digits[d + 1] : d \in 0 .. 16 - 1}
    BY <1>1
  <2>2. 16 - 1 = 15
    OBVIOUS
  <2> QED BY <2>1, <2>2, CapitalOf
<1>3. s = [i \in DOMAIN s |-> s[i]]
  BY <1>1
<1>4. [i \in DOMAIN s |-> Capital(s[i])] = s
  BY <1>2, <1>3
<1>5. <<>> \o s = s
  BY <1>1
<1> QED BY <1>4, <1>5 DEF Means, s

-----------------------------------------------------------------------------
(***************************************************************************)
(* The shell.                                                              *)
(***************************************************************************)
Running == {"prompt", "parse", "answered", "run", "program"}

LEMMA RegistryKept ==
  ASSUME RegistryInv, UNCHANGED registry,
         pc' \in Running => pc \in Running
  PROVE  RegistryInv'
BY DEF RegistryInv, Running, registry

\* Where no line is in work nothing is asked but the registry.
LEMMA Elsewhere ==
  ASSUME RegistryInv, UNCHANGED registry, pc' \notin Running,
         pc' \notin {"boot", "register"}
  PROVE  ShellInv'
<1>1. RegistryInv'
  BY RegistryKept
<1>2. CommandGetsWords'
  BY DEF CommandGetsWords, Running
<1> QED BY <1>1, <1>2 DEF ShellInv, Running

LEMMA Registering ==
  ASSUME RegistryInv, ShellAdd, ran = "none"
  PROVE  ShellInv'
<1>1. /\ calls \in 0 .. Len(Registered) /\ calls < Len(Registered)
      /\ command_list = SubSeq(Registered, 1, calls)
      /\ Registered \in Seq(ToSet(Registered))
      /\ Len(Registered) <= MAX_COMMANDS /\ MAX_COMMANDS \in Nat
      /\ pc' = "register" /\ ran' = "none"
  BY ShellAssumption, CommandsAssumption DEF RegistryInv, ShellAdd
<1>2. Len(command_list) = calls /\ ~(Len(command_list) >= MAX_COMMANDS)
  BY <1>1
<1>3. /\ calls' = calls + 1
      /\ command_list' =
           Append(SubSeq(Registered, 1, calls), Registered[calls + 1])
  BY <1>1, <1>2 DEF ShellAdd
<1>4. command_list' = SubSeq(Registered, 1, calls')
  BY <1>1, <1>3
<1>5. RegistryInv'
  BY <1>1, <1>3, <1>4 DEF RegistryInv
<1>6. CommandGetsWords'
  BY <1>1 DEF CommandGetsWords
<1> QED BY <1>1, <1>5, <1>6 DEF ShellInv

\* strtok's results are kept.
LEMMA Typing ==
  ASSUME RegistryInv, pc = "prompt" => ran = "none",
         NEW l \in Lines, TypeLine(l)
  PROVE  ShellInv'
<1> DEFINE r == Strtok(Input(l), 1)
<1>1. /\ pc = "prompt" /\ pc' = "parse" /\ ran' = "none" /\ typed' = l
      /\ argv' = <<>> /\ UNCHANGED registry
      /\ buf' = r.buf /\ next' = r.next /\ token' = r.token
  BY DEF TypeLine
<1>2. IsLine(l) /\ Len(l) + 1 <= 2 * MAX_ARGS
  BY LinesAssumption DEF IsLine
<1>3. Taken(l, <<>>) /\ Cut(l, <<>>) = Input(l) /\ Upto(l, <<>>, 1)
  BY <1>2, Beginning
<1>4. \/ r.token = Null /\ r.buf = Cut(l, <<>>) /\ Every(l, <<>>)
      \/ /\ r.token \in Nat /\ r.token # Null
         /\ Taken(l, Append(<<>>, r.token))
         /\ r.buf = Cut(l, Append(<<>>, r.token))
         /\ r.next = Null => Every(l, Append(<<>>, r.token))
         /\ r.next # Null => Upto(l, Append(<<>>, r.token), r.next)
  BY <1>2, <1>3, StrtokIs
<1> HIDE DEF r
<1>5. Tokens' = IF r.token = Null THEN <<>> ELSE Append(<<>>, r.token)
  BY <1>1 DEF Tokens
<1>6. ParseInv'
  BY <1>1, <1>2, <1>3, <1>4, <1>5 DEF ParseInv
<1>7. RegistryInv'
  BY <1>1, RegistryKept DEF Running
<1>8. CommandGetsWords'
  BY <1>1 DEF CommandGetsWords
<1> QED BY <1>1, <1>6, <1>7, <1>8 DEF ShellInv

LEMMA Tokenizing ==
  ASSUME ShellInv, NextToken
  PROVE  ShellInv'
<1> DEFINE r == Strtok(buf, next)
           T == Append(argv, token)
<1>1. /\ pc = "parse" /\ pc' = "parse" /\ ran' = "none" /\ typed' = typed
      /\ token # Null /\ argv' = T /\ UNCHANGED registry
      /\ buf' = r.buf /\ next' = r.next /\ token' = r.token
      /\ ParseInv /\ RegistryInv
  BY DEF NextToken, ShellInv
<1>2. /\ IsLine(typed) /\ Len(typed) + 1 <= 2 * MAX_ARGS
      /\ Taken(typed, T) /\ buf = Cut(typed, T) /\ T \in Seq(Nat)
      /\ next = Null => Every(typed, T)
      /\ next # Null => Upto(typed, T, next)
  BY <1>1 DEF ParseInv, Tokens, Taken
<1>3. ParseInv'
  <2>1. CASE next = Null
    <3>1. r = [token |-> Null, next |-> Null, buf |-> buf]
      BY <2>1, Zenon DEF Strtok, r
    <3> HIDE DEF r, T
    <3>2. Tokens' = T
      BY <1>1, <3>1 DEF Tokens
    <3> QED BY <1>1, <1>2, <2>1, <3>1, <3>2 DEF ParseInv
  <2>2. CASE next # Null
    <3>1. \/ r.token = Null /\ r.buf = Cut(typed, T) /\ Every(typed, T)
          \/ /\ r.token \in Nat /\ r.token # Null
             /\ Taken(typed, Append(T, r.token))
             /\ r.buf = Cut(typed, Append(T, r.token))
             /\ r.next = Null => Every(typed, Append(T, r.token))
             /\ r.next # Null => Upto(typed, Append(T, r.token), r.next)
      BY <1>2, <2>2, StrtokIs
    <3> HIDE DEF r, T
    <3>2. Tokens' = IF r.token = Null THEN T ELSE Append(T, r.token)
      BY <1>1 DEF Tokens
    <3> QED BY <1>1, <1>2, <3>1, <3>2 DEF ParseInv
  <2> QED BY <2>1, <2>2
<1>4. RegistryInv'
  BY <1>1, RegistryKept DEF Running
<1>5. CommandGetsWords'
  BY <1>1 DEF CommandGetsWords
<1> QED BY <1>1, <1>3, <1>4, <1>5 DEF ShellInv

\* argv is not full while there are words.
LEMMA AllTaken ==
  ASSUME ParseInv, ~(token # Null /\ Room)
  PROVE  Parsed
<1> SUFFICES ASSUME token # Null PROVE FALSE
  BY DEF Parsed
<1> DEFINE T == Append(argv, token)
<1>1. /\ argv \in Seq(Nat) /\ Taken(typed, T) /\ IsLine(typed)
      /\ Len(typed) + 1 <= 2 * MAX_ARGS /\ ~(Len(argv) < MAX_ARGS)
  BY DEF ParseInv, Tokens, Room
<1>2. MAX_ARGS \in Nat /\ Len(typed) \in Nat
  BY <1>1, ShellAssumption, LineIs
<1>3. T \in Seq(Nat) /\ Len(T) \in Nat
  BY <1>1 DEF Taken
<1>4. Len(T) = Len(argv) + 1 /\ Len(argv) \in Nat
  BY <1>1
<1> HIDE DEF T
<1>5. Begins(typed, T[Len(T)]) /\ T[Len(T)] >= 2 * Len(T) - 1
  <2>1. Len(T) \in 1 .. Len(T)
    BY <1>4
  <2> QED BY <1>1, <2>1 DEF Taken
<1>6. T[Len(T)] <= Len(typed) /\ T[Len(T)] \in Nat
  BY <1>2, <1>5 DEF Begins
<1> QED BY <1>1, <1>2, <1>4, <1>5, <1>6

\* A name is that of one command at most.
LEMMA FoundIs ==
  ASSUME RegistryInv, pc = "parse", NEW w, w = StringAt(buf, argv[1])
  PROVE  \/ /\ Found.func = "unknown"
            /\ \A cmd \in ToSet(Registered) : cmd.name # w
         \/ /\ Found \in ToSet(Registered) /\ Found.name = w
            /\ Found.func # "unknown"
            /\ \A cmd \in ToSet(Registered) : cmd.name = w => cmd = Found
<1> DEFINE L == DOMAIN Registered
           with == {i \in L : Matches(Registered[i])}
<1>1. Registered \in Seq(ToSet(Registered)) /\ command_list = Registered
  <2>1. /\ Registered \in Seq(ToSet(Registered))
        /\ command_list = SubSeq(Registered, 1, Len(Registered))
    BY CommandsAssumption DEF RegistryInv
  <2> QED BY <2>1
<1>2. \A cmd : Matches(cmd) <=> cmd.name = w
  BY DEF Matches, SameString
<1>3. ToSet(Registered) = {Registered[i] : i \in L}
  BY DEF ToSet
<1>4. CASE with = {}
  <2>1. Found = [func |-> "unknown"]
    BY <1>1, <1>4 DEF Found
  <2>2. \A i \in L : Registered[i].name # w
    BY <1>2, <1>4
  <2> QED BY <1>3, <2>1, <2>2
<1>5. CASE with # {}
  <2>1. PICK k \in L : Registered[k].name = w
    BY <1>2, <1>5
  <2>2. \A i \in L : Registered[i].name = w <=> i = k
    BY <2>1, CommandsAssumption
  <2>3. with = {k}
    BY <1>2, <2>1, <2>2
  <2>4. k \in Nat
    BY <1>1, <2>1
  <2>5. (CHOOSE i \in with : \A j \in with : i <= j) = k
    BY <2>3, <2>4
  <2>6. Found = Registered[k]
    BY <1>1, <1>5, <2>5 DEF Found
  <2>7. Found \in ToSet(Registered)
    BY <1>3, <2>1, <2>6
  <2>8. \A cmd \in ToSet(Registered) : cmd.name = w => cmd = Found
    BY <1>3, <2>2, <2>6
  <2> QED BY <2>1, <2>6, <2>7, <2>8, CommandsAssumption
<1> QED BY <1>4, <1>5

LEMMA Dispatching ==
  ASSUME ShellInv, Dispatch
  PROVE  ShellInv'
<1>1. /\ pc = "parse" /\ ran = "none" /\ ParseInv /\ RegistryInv
      /\ ~(token # Null /\ Room)
      /\ UNCHANGED <<registry, tokens, handed, file, dumping, typed>>
      /\ pc' \in {"answered", "run"}
  BY DEF Dispatch, ShellInv
<1>2. Parsed
  BY <1>1, AllTaken
<1>3. Parsed'
  BY <1>1, <1>2 DEF Parsed, ParseInv, Tokens, tokens
<1>4. RegistryInv'
  BY <1>1, RegistryKept DEF Running
<1>5. /\ Strings(argv) = Words(typed)
      /\ Len(Words(typed)) = Len(argv) /\ Len(argv) \in Nat
  BY <1>2, StringsAre
<1>6. Strings(argv)' = Words(typed)' /\ Words(typed)' = Words(typed)
  BY <1>1, <1>5 DEF Strings, tokens
<1>7. CASE argv = <<>>
  <2>1. pc' = "answered" /\ ran' = "none"
    BY <1>1, <1>7 DEF Dispatch
  <2>2. CommandGetsWords'
    BY <2>1 DEF CommandGetsWords
  <2> QED BY <1>4, <2>1, <2>2 DEF ShellInv
<1>8. CASE argv # <<>>
  <2> DEFINE words == Words(typed)
             w == StringAt(buf, argv[1])
             Accepts(cmd) ==
               /\ cmd.name = words[1]
               /\ Len(words) - 1 >= cmd.min_args
               /\ cmd.max_args = -1 \/ Len(words) - 1 <= cmd.max_args
  <2>1. argv \in Seq(Nat)
    BY <1>1 DEF ParseInv
  <2>2. words[1] = w /\ words # <<>>
    <3>1. 1 \in DOMAIN argv /\ Len(argv) # 0
      BY <1>8, <2>1
    <3>2. Strings(argv)[1] = w
      BY <3>1 DEF Strings
    <3> QED BY <1>5, <3>1, <3>2
  <2>3. \/ /\ Found.func = "unknown"
           /\ \A cmd \in ToSet(Registered) : cmd.name # w
        \/ /\ Found \in ToSet(Registered) /\ Found.name = w
           /\ Found.func # "unknown"
           /\ \A cmd \in ToSet(Registered) : cmd.name = w => cmd = Found
    BY <1>1, FoundIs
  <2>4. ASSUME NEW cmd \in ToSet(Registered), cmd.name = w
        PROVE  Misused(cmd) <=> ~Accepts(cmd)
    <3>1. cmd.min_args \in Int /\ cmd.max_args \in Int
      BY CommandsAssumption, Zenon
    <3> QED BY <1>5, <2>2, <2>4, <3>1 DEF Misused
  <2> HIDE DEF w, words
  <2>5. CASE Found.func = "unknown" \/ Misused(Found)
    <3>1. pc' = "answered" /\ ran' = "refused"
      BY <1>1, <1>8, <2>5 DEF Dispatch
    <3>2. \A cmd \in ToSet(Registered) : ~Accepts(cmd)
      BY <2>2, <2>3, <2>4, <2>5
    <3>3. CommandGetsWords'
      BY <1>6, <2>2, <3>1, <3>2 DEF CommandGetsWords, words
    <3> QED BY <1>4, <3>1, <3>3 DEF ShellInv
  <2>6. CASE ~(Found.func = "unknown" \/ Misused(Found))
    <3>1. pc' = "run" /\ ran' = Found.func
      BY <1>1, <1>8, <2>6 DEF Dispatch
    <3>2. Found \in ToSet(Registered) /\ Accepts(Found)
      BY <2>3, <2>4, <2>6
    <3>3. CommandGetsWords'
      <4>1. \E cmd \in ToSet(Registered) : Accepts(cmd) /\ cmd.func = ran'
        BY <3>1, <3>2
      <4> QED BY <1>6, <3>1, <4>1 DEF CommandGetsWords, words
    <3> QED BY <1>3, <1>4, <3>1, <3>3 DEF ShellInv
  <2> QED BY <2>5, <2>6
<1> QED BY <1>7, <1>8

LEMMA Starting ==
  ASSUME ShellInv, ExecElf
  PROVE  ShellInv'
<1>1. /\ pc = "run" /\ ran = "exec-elf" /\ ran' = ran /\ Parsed /\ RegistryInv
      /\ UNCHANGED <<registry, tokens, typed>>
  BY DEF ExecElf, ShellInv
<1>2. CASE Len(argv) - 2 > ELF_ARGS
  BY <1>1, <1>2, Elsewhere DEF ExecElf, Running
<1>3. CASE ~(Len(argv) - 2 > ELF_ARGS)
  <2>1. /\ pc' = "program"
        /\ handed' = [i \in 1 .. Len(argv) - 2 |-> argv[i + 2]]
    BY <1>3 DEF ExecElf, ElfArgument
  <2>2. Len(argv) - 2 <= ELF_ARGS
    <3>1. Len(argv) \in Nat /\ ELF_ARGS \in Nat
      BY <1>1, StringsAre, ShellAssumption
    <3> QED BY <1>3, <3>1
  <2>3. Parsed'
    BY <1>1 DEF Parsed, ParseInv, Tokens, tokens
  <2>4. RegistryInv'
    BY <1>1, <2>1, RegistryKept DEF Running
  <2>5. CommandGetsWords'
    BY <2>1 DEF CommandGetsWords
  <2> QED BY <1>1, <2>1, <2>2, <2>3, <2>4, <2>5 DEF ShellInv, tokens
<1> QED BY <1>2, <1>3

LEMMA ShellStep ==
  ASSUME ShellInv, [Next]_vars
  PROVE  ShellInv'
<1>1. RegistryInv /\ (pc \in {"boot", "register", "prompt"} => ran = "none")
  BY DEF ShellInv
<1>2. ASSUME NEW conf \in {"y", "Y", "n"}, Boot(conf) PROVE ShellInv'
  <2>1. /\ pc' \in {"register", "suspended"} /\ ran' = "none"
        /\ UNCHANGED registry
    BY <1>1, <1>2 DEF Boot
  <2>2. RegistryInv'
    BY <1>1, <2>1, RegistryKept DEF Running
  <2>3. CommandGetsWords'
    BY <2>1 DEF CommandGetsWords
  <2> QED BY <2>1, <2>2, <2>3 DEF ShellInv
<1>3. CASE ShellAdd
  BY <1>1, <1>3, Registering DEF ShellAdd
<1>4. CASE ShellInit
  <2>1. /\ pc' = "prompt" /\ ran' = ran /\ UNCHANGED registry
        /\ calls = Len(Registered)
    BY <1>4 DEF ShellInit
  <2>2. ran = "none"
    BY <1>1, <1>4 DEF ShellInit
  <2>3. RegistryInv'
    BY <1>1, <2>1 DEF RegistryInv, registry
  <2>4. CommandGetsWords'
    BY <2>1 DEF CommandGetsWords
  <2> QED BY <2>1, <2>2, <2>3, <2>4 DEF ShellInv
<1>5. ASSUME NEW l \in Lines, TypeLine(l) PROVE ShellInv'
  BY <1>1, <1>5, Typing
<1>6. CASE NextToken
  BY <1>6, Tokenizing
<1>7. CASE Dispatch
  BY <1>7, Dispatching
<1>8. CASE Return
  <2>1. pc \in Running /\ pc' = "prompt" /\ ran' = "none" /\ UNCHANGED registry
    BY <1>8 DEF Return, Forget, Running
  <2>2. RegistryInv'
    BY <1>1, <2>1, RegistryKept
  <2>3. CommandGetsWords'
    BY <2>1 DEF CommandGetsWords
  <2> QED BY <2>1, <2>2, <2>3 DEF ShellInv
<1>9. CASE Shutdown
  BY <1>1, <1>9, Elsewhere DEF Shutdown, Running
<1>10. CASE ExecElf
  BY <1>10, Starting
<1>11. CASE Exception
  BY <1>1, <1>11, Elsewhere DEF Exception, Panic, Forget, Running
<1>12. ASSUME NEW l \in Numbers, Prompt(l) PROVE ShellInv'
  <2>1. /\ pc = "run" /\ UNCHANGED registry
        /\ \/ pc' = "answered" /\ ran' = "no file"
           \/ pc' = "program" /\ ran' = "autorun"
    BY <1>12 DEF Prompt
  <2>2. RegistryInv'
    BY <1>1, <2>1, RegistryKept DEF Running
  <2>3. CommandGetsWords'
    BY <2>1 DEF CommandGetsWords
  <2> QED BY <2>1, <2>2, <2>3 DEF ShellInv
<1>13. ASSUME NEW conf \in {"s", "S", "n"}, Question(conf) PROVE ShellInv'
  BY <1>1, <1>13, Elsewhere DEF Question, Running
<1>14. ASSUME NEW l \in PanicLines, PanicLine(l) PROVE ShellInv'
  <2>1. UNCHANGED registry /\ pc' \in {"pshell", "dump"}
    BY <1>14 DEF PanicLine, CmdMemdump
  <2> QED BY <1>1, <2>1, Elsewhere DEF Running
<1>15. CASE DumpRow
  BY <1>1, <1>15, Elsewhere DEF DumpRow, Running
<1>16. CASE Fault
  BY <1>1, <1>16, Elsewhere DEF Fault, Panic, Forget, Running
<1>17. CASE DumpDone
  BY <1>1, <1>17, Elsewhere DEF DumpDone, Running
<1>18. CASE UNCHANGED vars
  BY <1>18 DEF vars, registry, tokens, dumping, ShellInv, RegistryInv,
     ParseInv, Parsed, Tokens, CommandGetsWords, Strings
<1> QED
  BY <1>2, <1>3, <1>4, <1>5, <1>6, <1>7, <1>8, <1>9, <1>10, <1>11, <1>12,
     <1>13, <1>14, <1>15, <1>16, <1>17, <1>18 DEF Next

LEMMA ShellHeld == Spec => []ShellInv
<1>1. Init => ShellInv
  <2> SUFFICES ASSUME Init PROVE ShellInv
    OBVIOUS
  <2>1. Registered \in Seq(ToSet(Registered))
    BY CommandsAssumption
  <2>2. RegistryInv
    BY <2>1 DEF Init, RegistryInv
  <2>3. CommandGetsWords
    BY DEF Init, CommandGetsWords
  <2> QED BY <2>2, <2>3 DEF Init, ShellInv
<1>2. ShellInv /\ [Next]_vars => ShellInv'
  BY ShellStep
<1> QED BY <1>1, <1>2, PTL DEF Spec

\* The command that runs is the one the line's first word names, and gets the
\* words of the line; one that is refused is no command's, or has not as many
\* words as the command that has the name takes.
THEOREM Command == Spec => []CommandGetsWords
BY ShellHeld, PTL DEF ShellInv

\* A program that exec-elf starts gets the words behind the file's name.
THEOREM ProgramArguments == Spec => []ProgramGetsArguments
<1>1. ShellInv => ProgramGetsArguments
  <2> SUFFICES ASSUME ShellInv, pc = "program", ran = "exec-elf"
               PROVE  /\ Strings(handed) =
                           SubSeq(Words(typed), 3, Len(Words(typed)))
                      /\ Len(handed) <= ELF_ARGS
    BY DEF ProgramGetsArguments
  <2>1. /\ Parsed /\ Len(argv) - 2 <= ELF_ARGS
        /\ handed = [i \in 1 .. Len(argv) - 2 |-> argv[i + 2]]
    BY DEF ShellInv
  <2>2. /\ Strings(argv) = Words(typed)
        /\ Len(Words(typed)) = Len(argv) /\ Len(argv) \in Nat
    BY <2>1, StringsAre
  <2>3. argv \in Seq(Nat)
    BY <2>1 DEF Parsed, ParseInv
  <2>4. Strings(handed) =
          [i \in 1 .. Len(argv) - 2 |-> StringAt(buf, argv[i + 2])]
    BY <2>1 DEF Strings
  <2>5. \A i \in 1 .. Len(argv) - 2 :
          Words(typed)[i + 2] = StringAt(buf, argv[i + 2])
    <3>1. \A i \in 1 .. Len(argv) - 2 : i + 2 \in DOMAIN argv
      BY <2>2, <2>3
    <3>2. \A i \in DOMAIN argv : Words(typed)[i] = StringAt(buf, argv[i])
      BY <2>2 DEF Strings
    <3> QED BY <3>1, <3>2
  <2>6. SubSeq(Words(typed), 3, Len(Words(typed)))
          = [i \in 1 .. Len(argv) - 2 |-> Words(typed)[i + 2]]
    <3>1. PICK s : s = Words(typed)
      OBVIOUS
    <3>2. s = [i \in 1 .. Len(argv) |-> StringAt(buf, argv[i])]
      BY <2>2, <2>3, <3>1 DEF Strings
    <3>3. s \in Seq({s[i] : i \in 1 .. Len(argv)}) /\ Len(s) = Len(argv)
      BY <2>2, <3>2
    <3>4. SubSeq(s, 3, Len(argv)) = [i \in 1 .. Len(argv) - 2 |-> s[i + 2]]
      BY <2>2, <3>3
    <3> QED BY <2>2, <3>1, <3>4
  <2>7. Len(handed) <= ELF_ARGS
    <3>1. CASE Len(argv) - 2 \in Nat
      BY <2>1, <3>1
    <3>2. CASE Len(argv) - 2 \notin Nat
      <4>1. handed = <<>>
        BY <2>1, <2>2, <3>2
      <4> QED BY <4>1, ShellAssumption
    <3> QED BY <3>1, <3>2
  <2> QED BY <2>4, <2>5, <2>6, <2>7
<1> QED BY <1>1, ShellHeld, PTL
-----------------------------------------------------------------------------
(***************************************************************************)
(* The number autorun asks for.                                            *)
(***************************************************************************)
\* A line is the string at the beginning of its buffer.
LEMMA LineString ==
  ASSUME NEW l, IsLine(l)
  PROVE  StringAt(Input(l), 1) = l
<1> DEFINE b == Input(l)
           D == ToSet(l) \cup {NUL, "?"}
<1>1. /\ Len(l) \in Nat /\ l \in Seq(ToSet(l)) /\ b \in Seq(D)
      /\ Len(b) = Len(l) + 2 /\ b[Len(l) + 1] = NUL
      /\ \A i \in 1 .. Len(l) : b[i] = l[i] /\ l[i] # NUL
  BY LineIs
<1>2. l \in Seq(D)
  <2>1. ToSet(l) \subseteq D
    OBVIOUS
  <2> HIDE DEF D
  <2> QED BY <1>1, <2>1
<1> HIDE DEF b, D
<1>3. Scan(b, 1, {NUL}) = Len(l) + 1
  <2>1. /\ Len(b) \in Nat /\ 1 \in Nat /\ Len(l) + 1 \in 1 .. Len(b)
        /\ b[Len(l) + 1] \in {NUL}
        /\ \A k \in 1 .. (Len(l) + 1) - 1 : b[k] \notin {NUL}
    BY <1>1
  <2> QED BY <2>1, ScanAt
<1>4. SubSeq(b, 1, Len(l)) = SubSeq(l, 1, Len(l))
  <2>1. /\ 1 \in Nat \ {0} /\ Len(l) <= Len(b) /\ Len(l) <= Len(l)
        /\ \A k \in 1 .. Len(l) : b[k] = l[k]
    BY <1>1
  <2> QED BY <1>1, <1>2, <2>1, SameParts
<1>5. SubSeq(l, 1, Len(l)) = l /\ (Len(l) + 1) - 1 = Len(l)
  BY <1>1
<1> QED BY <1>3, <1>4, <1>5 DEF StringAt, b

LEMMA Asking ==
  ASSUME NEW l \in Numbers, Prompt(l)
  PROVE  NumberShownSelects'
<1>1. IsLine(l) /\ Len(l) < Len(Itoa(WORD \div 2, 10))
  BY LinesAssumption DEF IsLine
<1>2. /\ Atoi(l) \in Int
      /\ Atoi(l) > 0 =>
           \E z \in 0 .. Len(l) :
             IsPrefix([i \in 1 .. z |-> "0"] \o Itoa(Atoi(l), 10), l)
      /\ \A n \in Nat : l = Itoa(n, 10) => Atoi(l) = n
  BY <1>1, LineIs, NumberIs
<1>3. /\ typed' = l /\ file' = Atoi(l)
      /\ file' <= 0 \/ file' > FILES => pc' = "answered" /\ ran' = "no file"
      /\ ~(file' <= 0 \/ file' > FILES) => pc' = "program" /\ ran' = "autorun"
  BY <1>1, LineString DEF Prompt
<1>4. FILES \in Nat /\ \A n \in 1 .. FILES : n \in Nat
  BY ShellAssumption
<1>5. \A n \in 1 .. FILES : typed' = Itoa(n, 10) => file' = n
  BY <1>2, <1>3, <1>4
<1>6. CASE file' <= 0 \/ file' > FILES
  <2>1. ~\E n \in 1 .. FILES : typed' = Itoa(n, 10)
    BY <1>4, <1>5, <1>6
  <2> QED BY <1>3, <1>6, <2>1 DEF NumberShownSelects
<1>7. CASE ~(file' <= 0 \/ file' > FILES)
  <2>1. file' \in 1 .. FILES /\ Atoi(l) > 0
    BY <1>2, <1>3, <1>4, <1>7
  <2>2. \E z \in 0 .. Len(typed') :
          IsPrefix([i \in 1 .. z |-> "0"] \o Itoa(file', 10), typed')
    BY <1>2, <1>3, <2>1
  <2> QED BY <1>3, <1>5, <1>7, <2>1, <2>2 DEF NumberShownSelects
<1> QED BY <1>6, <1>7

LEMMA NumberStep ==
  ASSUME ShellInv, NumberShownSelects, [Next]_vars
  PROVE  NumberShownSelects'
<1>1. ASSUME ran' # "no file", pc' # "program" PROVE NumberShownSelects'
  BY <1>1 DEF NumberShownSelects
<1>2. pc \in {"boot", "register", "prompt", "parse"} => ran = "none"
  BY DEF ShellInv
<1>3. ASSUME NEW conf \in {"y", "Y", "n"}, Boot(conf) PROVE NumberShownSelects'
  <2>1. ran' = "none" /\ pc' # "program"
    BY <1>2, <1>3 DEF Boot
  <2> QED BY <1>1, <2>1
<1>4. CASE ShellAdd \/ ShellInit \/ NextToken
  <2>1. ran' = "none" /\ pc' # "program"
    BY <1>2, <1>4 DEF ShellAdd, ShellInit, NextToken
  <2> QED BY <1>1, <2>1
<1>5. ASSUME NEW l \in Lines, TypeLine(l) PROVE NumberShownSelects'
  <2>1. ran' = "none" /\ pc' # "program"
    BY <1>2, <1>5 DEF TypeLine
  <2> QED BY <1>1, <2>1
<1>6. CASE Dispatch
  <2>1. pc = "parse" /\ pc' # "program" /\ RegistryInv
    BY <1>6 DEF Dispatch, ShellInv
  <2>2. Found.func # "no file"
    <3>1. \/ Found.func = "unknown"
          \/ Found \in ToSet(Registered)
      BY <2>1, FoundIs
    <3> QED BY <3>1, CommandsAssumption
  <2>3. ran' # "no file"
    BY <1>2, <1>6, <2>2 DEF Dispatch
  <2> QED BY <1>1, <2>1, <2>3
<1>7. CASE Return \/ Exception \/ Fault
  <2>1. ran' = "none" /\ pc' # "program"
    BY <1>7 DEF Return, Exception, Fault, Panic, Forget
  <2> QED BY <1>1, <2>1
<1>8. CASE Shutdown \/ DumpRow \/ DumpDone
  <2>1. ran' = ran /\ typed' = typed /\ pc' # "program"
    BY <1>8 DEF Shutdown, DumpRow, DumpDone
  <2> QED BY <2>1 DEF NumberShownSelects
<1>9. CASE ExecElf
  <2>1. ran' = "exec-elf"
    BY <1>9 DEF ExecElf
  <2> QED BY <2>1 DEF NumberShownSelects
<1>10. ASSUME NEW l \in Numbers, Prompt(l) PROVE NumberShownSelects'
  BY <1>10, Asking
<1>11. ASSUME NEW conf \in {"s", "S", "n"}, Question(conf)
       PROVE  NumberShownSelects'
  <2>1. ran' = ran /\ typed' = typed /\ pc' # "program"
    BY <1>11 DEF Question
  <2> QED BY <2>1 DEF NumberShownSelects
<1>12. ASSUME NEW l \in PanicLines, PanicLine(l) PROVE NumberShownSelects'
  <2>1. ran' # "no file" /\ pc' # "program"
    BY <1>12 DEF PanicLine, CmdMemdump
  <2> QED BY <1>1, <2>1
<1>13. CASE UNCHANGED vars
  BY <1>13 DEF vars, NumberShownSelects
<1> QED
  BY <1>3, <1>4, <1>5, <1>6, <1>7, <1>8, <1>9, <1>10, <1>11, <1>12, <1>13
     DEF Next

\* The number autorun shows before a file's name starts that file, and only a
\* number that the line begins with starts one, whatever the other characters.
THEOREM NumberSelects == Spec => []NumberShownSelects
<1>1. Init => NumberShownSelects
  BY DEF Init, NumberShownSelects
<1>2. ShellInv /\ NumberShownSelects /\ [Next]_vars => NumberShownSelects'
  BY NumberStep
<1> QED BY <1>1, <1>2, ShellHeld, PTL DEF Spec
-----------------------------------------------------------------------------
(***************************************************************************)
(* The dump of memory.                                                     *)
(***************************************************************************)
\* What parse_hex returns is an unsigned word, whatever it is given.
LEMMA ParseHexWord ==
  ASSUME NEW X, NEW w \in Seq(X)
  PROVE  ParseHex(w) \in 0 .. WORD - 1
<1> DEFINE t == Bare(w)
           n == BareLen(w)
<1>1. t \in Seq(X) /\ Len(t) \in Nat
  <2>1. CASE Len(w) >= 2
    <3>1. SubSeq(w, 3, Len(w)) \in Seq(X)
      BY <2>1
    <3> QED BY <3>1 DEF Bare
  <2>2. CASE ~(Len(w) >= 2)
    BY <2>2 DEF Bare
  <2> QED BY <2>1, <2>2
<1>2. /\ n \in 0 .. Len(t)
      /\ \A k \in 1 .. n : t[k] \in Hexadecimal
  BY <1>1, SpanIs DEF BareLen
<1>3. PICK f : /\ IsReading(f, t, n, 16)
               /\ ParseHex(w) = IF n < Len(t) THEN (f[n] * 16) % WORD
                                ELSE f[n]
  BY <1>1, <1>2, ParseHexIs
<1> HIDE DEF t, n
<1>4. \A k \in 1 .. n : DigitValue(t[k]) \in 0 .. 15
  <2> SUFFICES ASSUME NEW k \in 1 .. n PROVE DigitValue(t[k]) \in 0 .. 15
    OBVIOUS
  <2>1. PICK i \in 1 .. 16 : t[k] = Digits[i] \/ t[k] = LowDigits[i]
    BY <1>2, DigitsAre DEF Hexadecimal, ToSet
  <2>2. i - 1 \in 0 .. 15 /\ (i - 1) + 1 = i
    OBVIOUS
  <2> QED BY <2>1, <2>2, ValueIs
<1>5. WORD \in Nat \ {0}
  BY WordAssumption
<1>6. f[0] = 0 /\ \A k \in 1 .. n :
        f[k] = (f[k - 1] * 16 + DigitValue(t[k])) % WORD
  <2>1. f[0] = 0
    BY <1>1, <1>2, <1>3 DEF IsReading
  <2>2. ASSUME NEW k \in 1 .. n
        PROVE  f[k] = (f[k - 1] * 16 + DigitValue(t[k])) % WORD
    <3>1. k \in 0 .. n /\ k # 0 /\ 16 # 10
      BY <1>1, <1>2
    <3>2. f[k] = Kept(f[k - 1] * 16 + DigitValue(t[k]), 16)
      BY <1>3, <3>1, Zenon DEF IsReading
    <3> QED BY <3>1, <3>2, Zenon DEF Kept
  <2> QED BY <2>1, <2>2
<1> DEFINE S == {k \in Nat : k <= n => f[k] \in 0 .. WORD - 1}
<1>7. 0 \in S
  BY <1>5, <1>6
<1>8. ASSUME NEW k \in S PROVE k + 1 \in S
  <2> SUFFICES ASSUME k + 1 <= n PROVE f[k + 1] \in 0 .. WORD - 1
    OBVIOUS
  <2>1. k + 1 \in 1 .. n /\ k <= n /\ (k + 1) - 1 = k
    BY <1>1, <1>2
  <2>2. f[k] \in 0 .. WORD - 1 /\ DigitValue(t[k + 1]) \in 0 .. 15
    BY <1>4, <2>1
  <2>3. f[k + 1] = (f[k] * 16 + DigitValue(t[k + 1])) % WORD
    BY <1>6, <2>1
  <2>4. \A x \in 0 .. WORD - 1, d \in 0 .. 15 :
          (x * 16 + d) % WORD \in 0 .. WORD - 1
    BY <1>5
  <2> QED BY <2>2, <2>3, <2>4
<1>9. S = Nat
  <2>1. S \in SUBSET Nat
    OBVIOUS
  <2> HIDE DEF S
  <2> QED BY <1>7, <1>8, <2>1, Induction
<1>10. f[n] \in 0 .. WORD - 1
  BY <1>1, <1>2, <1>9
<1>11. (f[n] * 16) % WORD \in 0 .. WORD - 1
  BY <1>5, <1>10
<1> QED BY <1>3, <1>10, <1>11

\* The words found so far are followed by the others.
LEMMA OtherWords ==
  ASSUME NEW l, IsLine(l), NEW T, Taken(l, T), NEW f, Upto(l, T, f)
  PROVE  \E U : /\ Taken(l, U) /\ Every(l, U) /\ Len(T) <= Len(U)
                /\ \A n \in 1 .. Len(T) : U[n] = T[n]
<1> DEFINE Whole(V) ==
             \E U : /\ Taken(l, U) /\ Every(l, U) /\ Len(V) <= Len(U)
                    /\ \A n \in 1 .. Len(V) : U[n] = V[n]
           S == {k \in Nat : \A V, g :
                   /\ Taken(l, V) /\ Upto(l, V, g)
                   /\ Len(l) + 1 - 2 * Len(V) <= k
                   => Whole(V)}
<1>1. Len(l) \in Nat
  BY LineIs
<1>2. \A V : Taken(l, V) => V \in Seq(Nat) /\ Len(V) \in Nat
  BY DEF Taken
<1>3. 0 \in S
  <2> SUFFICES ASSUME NEW V, NEW g, Taken(l, V), Upto(l, V, g),
                      Len(l) + 1 - 2 * Len(V) <= 0
               PROVE  FALSE
    OBVIOUS
  <2>1. g \in 1 .. Len(l) + 1 /\ 2 * Len(V) + 1 <= g
    BY DEF Upto
  <2> QED BY <1>1, <1>2, <2>1
<1>4. ASSUME NEW k \in S PROVE k + 1 \in S
  <2> SUFFICES ASSUME NEW V, NEW g, Taken(l, V), Upto(l, V, g),
                      Len(l) + 1 - 2 * Len(V) <= k + 1
               PROVE  Whole(V)
    OBVIOUS
  <2> DEFINE r == Strtok(Cut(l, V), g)
             W == Append(V, r.token)
  <2>1. \/ r.token = Null /\ r.buf = Cut(l, V) /\ Every(l, V)
        \/ /\ r.token \in Nat /\ r.token # Null
           /\ Taken(l, W)
           /\ r.buf = Cut(l, W)
           /\ r.next = Null => Every(l, W)
           /\ r.next # Null => Upto(l, W, r.next)
    BY StrtokIs
  <2> HIDE DEF r
  <2>2. CASE Every(l, V)
    <3>1. Len(V) <= Len(V)
      BY <1>2
    <3> QED BY <2>2, <3>1
  <2>3. CASE r.token \in Nat /\ Taken(l, W)
             /\ (r.next = Null => Every(l, W))
             /\ (r.next # Null => Upto(l, W, r.next))
    <3>1. /\ V \in Seq(Nat) /\ Len(V) \in Nat /\ Len(W) = Len(V) + 1
          /\ \A n \in 1 .. Len(V) : n \in 1 .. Len(W) /\ W[n] = V[n]
      BY <1>2, <2>3
    <3> HIDE DEF W
    <3>2. Whole(W)
      <4>1. CASE r.next = Null
        <5>1. Len(W) <= Len(W)
          BY <3>1
        <5> QED BY <2>3, <4>1, <5>1
      <4>2. CASE r.next # Null
        <5>1. Len(l) + 1 - 2 * Len(W) <= k
          BY <1>1, <3>1
        <5>2. \A g1 : Upto(l, W, g1) => Whole(W)
          BY <2>3, <5>1
        <5> QED BY <2>3, <4>2, <5>2
      <4> QED BY <4>1, <4>2
    <3>3. PICK U : /\ Taken(l, U) /\ Every(l, U) /\ Len(W) <= Len(U)
                   /\ \A n \in 1 .. Len(W) : U[n] = W[n]
      BY <3>2
    <3>4. Len(V) <= Len(U) /\ \A n \in 1 .. Len(V) : U[n] = V[n]
      BY <1>2, <3>1, <3>3
    <3> QED BY <3>3, <3>4
  <2> QED BY <2>1, <2>2, <2>3
<1>5. S = Nat
  <2>1. S \in SUBSET Nat
    OBVIOUS
  <2> HIDE DEF S
  <2> QED BY <1>3, <1>4, <2>1, Induction
<1>6. \E k \in Nat : Len(l) + 1 - 2 * Len(T) <= k
  <2>1. Len(T) \in Nat /\ Len(l) + 1 \in Nat
    BY <1>1, <1>2
  <2>2. Len(l) + 1 - 2 * Len(T) <= Len(l) + 1
    BY <2>1
  <2> QED BY <2>1, <2>2
<1> QED BY <1>5, <1>6

\* A word found is in the buffer as it was typed.
LEMMA FirstWords ==
  ASSUME NEW l, IsLine(l), NEW T, Taken(l, T),
         Every(l, T) \/ \E f : Upto(l, T, f), NEW n \in 1 .. Len(T)
  PROVE  /\ StringAt(Cut(l, T), T[n]) = Words(l)[n]
         /\ Words(l)[n] \in Seq(ToSet(l))
<1>1. PICK U : /\ Taken(l, U) /\ Every(l, U) /\ Len(T) <= Len(U)
               /\ \A m \in 1 .. Len(T) : U[m] = T[m]
  <2>1. Len(T) <= Len(T)
    BY DEF Taken
  <2> QED BY <2>1, OtherWords
<1>2. n \in 1 .. Len(U) /\ U[n] = T[n]
  BY <1>1 DEF Taken
<1>3. Words(l)[n] = SubSeq(l, T[n], RunEnd(l, T[n]) - 1)
  BY <1>1, <1>2, WordsAre
<1>4. StringAt(Cut(l, T), T[n]) = SubSeq(l, T[n], RunEnd(l, T[n]) - 1)
  BY WordInBuffer
<1>5. /\ Begins(l, T[n]) /\ RunEnd(l, T[n]) \in T[n] + 1 .. Len(l) + 1
      /\ l \in Seq(ToSet(l)) /\ Len(l) \in Nat /\ T[n] \in 1 .. Len(l)
  BY EndIs, LineIs DEF Taken, Begins
<1>6. SubSeq(l, T[n], RunEnd(l, T[n]) - 1) \in Seq(ToSet(l))
  BY <1>5
<1> QED BY <1>3, <1>4, <1>6

\* The words of a line that the panic shell takes.
LEMMA ThreeTokens ==
  ASSUME NEW l, IsLine(l),
         NEW r1, r1 = Strtok(Input(l), 1), r1.token # Null,
         NEW r2, r2 = Strtok(r1.buf, r1.next), r2.token # Null,
         NEW r3, r3 = Strtok(r2.buf, r2.next), r3.token # Null
  PROVE  /\ StringAt(r3.buf, r2.token) = Words(l)[2]
         /\ StringAt(r3.buf, r3.token) = Words(l)[3]
         /\ {Words(l)[2], Words(l)[3]} \subseteq Seq(ToSet(l))
<1> DEFINE T1 == Append(<<>>, r1.token)
           T2 == Append(T1, r2.token)
           T3 == Append(T2, r3.token)
           Cutting(r, T) == /\ Taken(l, T) /\ r.buf = Cut(l, T)
                            /\ r.next = Null => Every(l, T)
                            /\ r.next # Null => Upto(l, T, r.next)
<1>1. Taken(l, <<>>) /\ Cut(l, <<>>) = Input(l) /\ Upto(l, <<>>, 1)
  BY Beginning
<1>2. Cutting(r1, T1) /\ r1.token \in Nat
  BY <1>1, StrtokIs
<1>3. ASSUME NEW r, NEW T, Cutting(r, T), NEW q, q = Strtok(r.buf, r.next),
             q.token # Null
      PROVE  Cutting(q, Append(T, q.token)) /\ q.token \in Nat
  <2>1. r.next # Null
    BY <1>3 DEF Strtok
  <2> QED BY <1>3, <2>1, StrtokIs
<1> HIDE DEF T1
<1>4. Cutting(r2, T2) /\ r2.token \in Nat
  BY <1>2, <1>3
<1> HIDE DEF T2
<1>5. Cutting(r3, T3) /\ r3.token \in Nat
  BY <1>3, <1>4
<1>6. Len(T3) = 3 /\ T3[2] = r2.token /\ T3[3] = r3.token
  BY <1>2, <1>4, <1>5 DEF T1, T2
<1>7. 2 \in 1 .. Len(T3) /\ 3 \in 1 .. Len(T3)
  BY <1>6
<1> HIDE DEF T3
<1>8. \A n \in 1 .. Len(T3) : /\ StringAt(Cut(l, T3), T3[n]) = Words(l)[n]
                              /\ Words(l)[n] \in Seq(ToSet(l))
  BY <1>5, FirstWords
<1> QED BY <1>5, <1>6, <1>7, <1>8

Dumped(from, n) ==
  [r \in 1 .. n |->
     [label |-> Itoa(from + (r - 1) * ROW, 16),
      bytes |-> [i \in 1 .. ROW |-> from + (r - 1) * ROW + i - 1]]]

\* dump is that of the last line, and so many rows of it are shown.
DumpInv ==
  ran = "memdump" =>
    /\ pc \in {"dump", "pshell"}
    /\ dump = [from |-> dump.from, to |-> dump.to, addr |-> dump.addr]
    /\ dump.from \in 0 .. WORD - 1 /\ dump.to \in 0 .. WORD - 1
    /\ dump.from < dump.to /\ dump.to - dump.from <= MAX_DUMP
    /\ \E n \in Nat :
         /\ rows = Dumped(dump.from, n)
         /\ dump.addr = dump.from + n * ROW /\ dump.addr < WORD
         /\ dump.addr < dump.to + ROW
    /\ pc = "pshell" => dump.addr >= dump.to
    /\ {Words(typed)[2], Words(typed)[3]} \subseteq Seq(ToSet(typed))
    /\ dump.from = ParseHex(Words(typed)[2])
    /\ dump.to = ParseHex(Words(typed)[3])

LEMMA DumpShown == DumpInv => MemdumpShowsRange
<1> SUFFICES ASSUME DumpInv, ran = "memdump" PROVE MemdumpShowsRange
  BY DEF MemdumpShowsRange
<1>1. /\ dump.from \in 0 .. WORD - 1 /\ dump.to \in 0 .. WORD - 1
      /\ pc = "pshell" => dump.addr >= dump.to
      /\ {Words(typed)[2], Words(typed)[3]} \subseteq Seq(ToSet(typed))
      /\ dump.from = ParseHex(Words(typed)[2])
      /\ dump.to = ParseHex(Words(typed)[3])
  BY DEF DumpInv
<1>2. PICK n \in Nat : /\ rows = Dumped(dump.from, n)
                       /\ dump.addr = dump.from + n * ROW
                       /\ dump.addr < dump.to + ROW
  BY DEF DumpInv
<1>3. WORD \in Nat /\ ROW \in Nat \ {0}
  BY WordAssumption, ShellAssumption
<1>4. DOMAIN rows = 1 .. n /\ Len(rows) = n
  BY <1>2 DEF Dumped
<1>5. ASSUME NEW r \in DOMAIN rows
      PROVE  /\ rows[r].bytes =
                  [i \in 1 .. ROW |-> dump.from + (r - 1) * ROW + i - 1]
             /\ Means(rows[r].label, rows[r].bytes[1])
  <2>1. PICK a \in Nat : a = dump.from + (r - 1) * ROW
    <3>1. (r - 1) \in Nat
      BY <1>4
    <3>2. (r - 1) * ROW \in Nat
      BY <1>3, <3>1
    <3> QED BY <1>1, <1>3, <3>2
  <2>2. /\ rows[r].label = Itoa(a, 16)
        /\ rows[r].bytes = [i \in 1 .. ROW |-> a + i - 1]
    BY <1>2, <1>4, <2>1 DEF Dumped
  <2>3. rows[r].bytes[1] = a
    BY <1>3, <2>2
  <2> QED BY <2>1, <2>2, <2>3, PrintedMeans
<1>6. \A w \in Seq(ToSet(typed)), a \in 0 .. WORD - 1 :
        Means(w, a) => Means(w, ParseHex(w))
  BY MeantIsRead
<1>7. ASSUME pc = "pshell"
      PROVE  Len(rows) * ROW - (dump.to - dump.from) \in 0 .. ROW - 1
  <2>1. n * ROW \in Nat
    BY <1>3
  <2> QED BY <1>1, <1>2, <1>3, <1>4, <1>7, <2>1
<1> QED BY <1>1, <1>5, <1>6, <1>7 DEF MemdumpShowsRange

\* No row that is mapped reaches the end of the address space.
LEMMA MappedRow ==
  ASSUME NEW a \in 0 .. WORD - 1, Mapped(RowBytes(a))
  PROVE  a + ROW < WORD /\ RowBytes(a) = [i \in 1 .. ROW |-> a + i - 1]
<1>1. /\ WORD \in Nat \ {0} /\ ROW \in Nat \ {0} /\ PAGE_SIZE \in Nat \ {0}
      /\ WORD % PAGE_SIZE = 0 /\ WORD \div PAGE_SIZE - 1 \in Absent
  BY WordAssumption, ShellAssumption
<1>2. (WORD - 1) \div PAGE_SIZE = WORD \div PAGE_SIZE - 1
  BY <1>1
<1>3. a + ROW < WORD
  <2> SUFFICES ASSUME a + ROW >= WORD PROVE FALSE
    BY <1>1
  <2> DEFINE i == WORD - a
  <2>1. i \in 1 .. ROW /\ a + i - 1 = WORD - 1
    BY <1>1
  <2>2. (a + i - 1) % WORD = WORD - 1
    BY <1>1, <2>1
  <2> HIDE DEF i
  <2>3. RowBytes(a)[i] = WORD - 1 /\ i \in DOMAIN RowBytes(a)
    BY <2>1, <2>2 DEF RowBytes
  <2>4. WORD - 1 \in ToSet(RowBytes(a))
    BY <2>3 DEF ToSet
  <2> QED BY <1>1, <1>2, <2>4 DEF Mapped
<1>4. \A i \in 1 .. ROW : (a + i - 1) % WORD = a + i - 1
  BY <1>1, <1>3
<1> QED BY <1>3, <1>4 DEF RowBytes

\* A line of the panic shell that asks for a dump begins one.
LEMMA AskingDump ==
  ASSUME NEW l \in PanicLines, PanicLine(l)
  PROVE  DumpInv'
<1> SUFFICES ASSUME ran' = "memdump" PROVE DumpInv'
  BY DEF DumpInv
<1> DEFINE cmd == Strtok(Input(l), 1)
           arg1 == Strtok(cmd.buf, cmd.next)
           arg2 == Strtok(arg1.buf, arg1.next)
           Word(r) == StringAt(arg2.buf, r.token)
           Is(name) == cmd.token # Null /\ SameString(Word(cmd), name)
           from == ParseHex(Word(arg1))
           to == ParseHex(Word(arg2))
<1>1. /\ Is(MEMDUMP) /\ Null \notin {arg1.token, arg2.token}
      /\ CmdMemdump(from, to)
      /\ typed' = l /\ rows' = <<>>
  BY Zenon DEF PanicLine
<1>2. IsLine(l)
  BY LinesAssumption DEF IsLine
<1>3. cmd.token # Null /\ arg1.token # Null /\ arg2.token # Null
  BY <1>1
<1> HIDE DEF cmd, arg1, arg2
<1>4. /\ Word(arg1) = Words(l)[2] /\ Word(arg2) = Words(l)[3]
      /\ {Words(l)[2], Words(l)[3]} \subseteq Seq(ToSet(l))
  BY <1>2, <1>3, ThreeTokens DEF cmd, arg1, arg2
<1>5. from \in 0 .. WORD - 1 /\ to \in 0 .. WORD - 1
  BY <1>4, ParseHexWord
<1>6. from = ParseHex(Words(l)[2]) /\ to = ParseHex(Words(l)[3])
  BY <1>4
<1> HIDE DEF from, to
<1>7. /\ pc' = "dump" /\ dump' = [from |-> from, to |-> to, addr |-> from]
      /\ ~(from >= to \/ to - from > MAX_DUMP)
  BY <1>1 DEF CmdMemdump
<1>8. /\ WORD \in Nat /\ MAX_DUMP \in Nat /\ ROW \in Nat \ {0}
  BY WordAssumption, ShellAssumption
<1>9. rows' = Dumped(from, 0) /\ from = from + 0 * ROW /\ 0 \in Nat
  BY <1>1, <1>5, <1>8 DEF Dumped
<1>10. from < to /\ to - from <= MAX_DUMP /\ from < WORD /\ from < to + ROW
  BY <1>5, <1>7, <1>8
<1>11. dump'.from = from /\ dump'.to = to /\ dump'.addr = from
  BY <1>7
<1> QED BY <1>1, <1>4, <1>5, <1>6, <1>7, <1>9, <1>10, <1>11 DEF DumpInv

\* One row more.
LEMMA Dumping ==
  ASSUME DumpInv, DumpRow
  PROVE  DumpInv'
<1> SUFFICES ASSUME ran' = "memdump" PROVE DumpInv'
  BY DEF DumpInv
<1> DEFINE from == dump.from
           to == dump.to
           addr == dump.addr
<1>1. /\ pc = "dump" /\ addr < to /\ Mapped(RowBytes(addr))
      /\ pc' = pc /\ ran' = ran /\ typed' = typed
      /\ rows' = IF Len(rows) * ROW <= MAX_DUMP
                   THEN Append(rows, [label |-> Itoa(addr, 16),
                                      bytes |-> RowBytes(addr)])
                 ELSE rows
      /\ dump' = [dump EXCEPT !.addr = (addr + ROW) % WORD]
  BY DEF DumpRow
<1>2. /\ ran = "memdump"
      /\ dump = [from |-> from, to |-> to, addr |-> addr]
      /\ from \in 0 .. WORD - 1 /\ to \in 0 .. WORD - 1
      /\ from < to /\ to - from <= MAX_DUMP
      /\ {Words(typed)[2], Words(typed)[3]} \subseteq Seq(ToSet(typed))
      /\ from = ParseHex(Words(typed)[2]) /\ to = ParseHex(Words(typed)[3])
  BY <1>1 DEF DumpInv
<1>3. PICK n \in Nat : /\ rows = Dumped(from, n)
                       /\ addr = from + n * ROW /\ addr < WORD
  BY <1>1, <1>2 DEF DumpInv
<1> HIDE DEF from, to, addr
<1>4. /\ WORD \in Nat /\ MAX_DUMP \in Nat /\ ROW \in Nat \ {0}
  BY WordAssumption, ShellAssumption
<1>5. n * ROW \in Nat /\ (n + 1) * ROW = n * ROW + ROW /\ n + 1 \in Nat
  BY <1>4
<1> DEFINE m == n * ROW
           k == (n + 1) * ROW
<1>6. m \in Nat /\ k = m + ROW /\ addr = from + m
  BY <1>3, <1>5
<1> HIDE DEF m, k
<1>7. /\ from \in 0 .. WORD - 1 /\ to \in 0 .. WORD - 1 /\ addr < WORD
       /\ addr < to /\ to - from <= MAX_DUMP
  BY <1>1, <1>2, <1>3, Zenon
<1>8. addr \in 0 .. WORD - 1
  BY <1>4, <1>6, <1>7
<1>9. /\ addr + ROW < WORD
      /\ RowBytes(addr) = [i \in 1 .. ROW |-> addr + i - 1]
  BY <1>1, <1>8, MappedRow
<1>10. dump' = [from |-> from, to |-> to, addr |-> addr + ROW]
  <2>1. (addr + ROW) % WORD = addr + ROW
    BY <1>4, <1>8, <1>9
  <2> QED BY <1>1, <1>2, <2>1
<1>11. rows' = Dumped(from, n + 1)
  <2> DEFINE At(r) == from + (r - 1) * ROW
             Row(r) == [label |-> Itoa(At(r), 16),
                        bytes |-> [i \in 1 .. ROW |-> At(r) + i - 1]]
  <2>1. rows = [r \in 1 .. n |-> Row(r)]
        /\ Dumped(from, n + 1) = [r \in 1 .. n + 1 |-> Row(r)]
    BY <1>3 DEF Dumped
  <2>2. At(n + 1) = addr
    <3>1. (n + 1) - 1 = n
      OBVIOUS
    <3> QED BY <1>3, <3>1
  <2>3. Row(n + 1) = [label |-> Itoa(addr, 16), bytes |-> RowBytes(addr)]
    <3> HIDE DEF At
    <3> QED BY <1>9, <2>2
  <2> HIDE DEF Row
  <2>4. rows' = Append(rows, Row(n + 1))
    <3>1. Len(rows) = n
      BY <2>1
    <3>2. m <= MAX_DUMP
      BY <1>4, <1>6, <1>7
    <3>3. Len(rows) * ROW <= MAX_DUMP
      BY <3>1, <3>2 DEF m
    <3> QED BY <1>1, <2>3, <3>3
  <2>5. Append(rows, Row(n + 1)) = [r \in 1 .. n + 1 |-> Row(r)]
    <3>1. rows \in Seq({Row(r) : r \in 1 .. n}) /\ Len(rows) = n
      BY <2>1
    <3> QED BY <2>1, <3>1
  <2> QED BY <2>1, <2>4, <2>5
<1>12. dump'.from = from /\ dump'.to = to /\ dump'.addr = addr + ROW
  BY <1>10
<1>13. /\ addr + ROW = from + (n + 1) * ROW
       /\ addr + ROW < to + ROW
  <2>1. addr + ROW = from + k /\ addr + ROW < to + ROW
    BY <1>4, <1>6, <1>7
  <2> QED BY <2>1 DEF k
<1> QED
  BY <1>1, <1>2, <1>5, <1>9, <1>10, <1>11, <1>12, <1>13 DEF DumpInv

LEMMA DumpStep ==
  ASSUME ShellInv, DumpInv, [Next]_vars
  PROVE  DumpInv'
<1>1. ASSUME ran' # "memdump" PROVE DumpInv'
  BY <1>1 DEF DumpInv
<1>2. ASSUME ran' = ran, pc \notin {"dump", "pshell"} PROVE DumpInv'
  BY <1>1, <1>2 DEF DumpInv
<1>3. ASSUME NEW conf \in {"y", "Y", "n"}, Boot(conf) PROVE DumpInv'
  BY <1>2, <1>3 DEF Boot
<1>4. CASE ShellAdd \/ ShellInit \/ NextToken \/ Shutdown
  BY <1>2, <1>4 DEF ShellAdd, ShellInit, NextToken, Shutdown
<1>5. ASSUME NEW l \in Lines, TypeLine(l) PROVE DumpInv'
  BY <1>2, <1>5 DEF TypeLine
<1>6. CASE Dispatch
  <2>1. pc = "parse" /\ RegistryInv /\ ran = "none"
    BY <1>6 DEF Dispatch, ShellInv
  <2>2. Found.func # "memdump"
    <3>1. \/ Found.func = "unknown"
          \/ Found \in ToSet(Registered)
      BY <2>1, FoundIs
    <3> QED BY <3>1, CommandsAssumption
  <2>3. ran' # "memdump"
    BY <1>6, <2>1, <2>2 DEF Dispatch
  <2> QED BY <1>1, <2>3
<1>7. CASE Return \/ Exception \/ Fault
  <2>1. ran' = "none"
    BY <1>7 DEF Return, Exception, Fault, Panic, Forget
  <2> QED BY <1>1, <2>1
<1>8. CASE ExecElf
  BY <1>2, <1>8 DEF ExecElf
<1>9. ASSUME NEW l \in Numbers, Prompt(l) PROVE DumpInv'
  <2>1. ran' # "memdump"
    BY <1>9 DEF Prompt
  <2> QED BY <1>1, <2>1
<1>10. ASSUME NEW conf \in {"s", "S", "n"}, Question(conf) PROVE DumpInv'
  BY <1>2, <1>10 DEF Question
<1>11. ASSUME NEW l \in PanicLines, PanicLine(l) PROVE DumpInv'
  BY <1>11, AskingDump
<1>12. CASE DumpRow
  BY <1>12, Dumping
<1>13. CASE DumpDone
  <2>1. /\ pc' = "pshell" /\ dump.addr >= dump.to
        /\ UNCHANGED <<ran, dump, rows, typed>>
    BY <1>13 DEF DumpDone, dumping
  <2> QED BY <2>1 DEF DumpInv
<1>14. CASE UNCHANGED vars
  BY <1>14 DEF vars, dumping, DumpInv
<1> QED
  BY <1>3, <1>4, <1>5, <1>6, <1>7, <1>8, <1>9, <1>10, <1>11, <1>12, <1>13,
     <1>14 DEF Next

\* memdump shows the range that the two words stand for, every byte of it once
\* and in order, in rows labelled with the address of their first byte, and no
\* whole row more; it never goes on at address 0 behind the last.
THEOREM MemdumpShows == Spec => []MemdumpShowsRange
<1>1. Init => DumpInv
  BY DEF Init, DumpInv
<1>2. ShellInv /\ DumpInv /\ [Next]_vars => DumpInv'
  BY DumpStep
<1> QED BY <1>1, <1>2, DumpShown, ShellHeld, PTL DEF Spec
=============================================================================

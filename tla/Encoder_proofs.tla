--------------------------- MODULE Encoder_proofs -----------------------------
(***************************************************************************)
(* The code buffer is sound for every page size, every size of the label   *)
(* and relocation tables, every reach of a branch and every sequence of    *)
(* requests and refusals.                                                  *)
(***************************************************************************)
EXTENDS Encoder, SequenceTheorems, TLAPS

\* The time each prover has for a leaf.
USE SMTT(30), ZenonT(30)

Reloc   == [label : Nat, patch : Nat]
Literal == [b : Byte]
Field   == [to : Nat, i : 0..3]
Item    == Literal \cup Field
Code    == Seq(Byte)
Labels  == Seq(Int)
Table   == Seq(Reloc)
Program == Seq(Item)
Buffer  == [failed : BOOLEAN, capacity : Nat, code : Code, labels : Labels, relocs : Table]

\* Length and concatenation, under names that the provers leave alone.
Size(s)   == Len(s)
Cat(s, t) == s \o t

\* A buffer that the encoder can hold.
Sound(e) ==
  /\ e \in Buffer /\ Size(e.code) <= e.capacity
  /\ Size(e.labels) <= kMaxLabels /\ Size(e.relocs) <= kMaxRelocs

\* The buffer e is the program t: byte for byte outside the branch fields; every
\* branch field has its relocation, and every relocation its field.
Bytes(e, t) ==
  Size(e.code) = Size(t) /\ \A j \in 1..Size(t) : t[j] \in Literal => e.code[j] = t[j].b
Fields(e, t) ==
  \A j \in 1..Size(t) : t[j] \in Field =>
    \E k \in 1..Size(e.relocs) :
      e.relocs[k].label = t[j].to /\ e.relocs[k].patch = j - 1 - t[j].i
Patches(r, t) ==
  \A i \in 0..3 :
    r.patch + 1 + i <= Size(t) /\ t[r.patch + 1 + i] = [to |-> r.label, i |-> i]
Relocs(e, t) == \A k \in 1..Size(e.relocs) : Patches(e.relocs[k], t)
Once(e) ==
  \A h, k \in 1..Size(e.relocs) : e.relocs[h].patch = e.relocs[k].patch => h = k
Mirrors(e, t) == Bytes(e, t) /\ Fields(e, t) /\ Relocs(e, t) /\ Once(e)

\* The buffer e, where the program t with its labels at p was asked for: while
\* nothing has failed the one is the other.
Core(e, t, p) ==
  /\ Sound(e) /\ t \in Program /\ p \in Labels /\ Size(e.labels) = Size(p)
  /\ ~ e.failed => Mirrors(e, t) /\ e.labels = p

\* What was handed out is the patched buffer, which is still there.
Handed(e, d, x) ==
  /\ x.kind = "code" =>
       Resolves(e) /\ x.code = Patched(e) /\ x.size = MapSize(Len(e.code))
  /\ x = Null => d \/ e.code = <<>> \/ ~ Resolves(e)

\* The inductive invariant: the buffer is the program, and what failed was denied.
EInv ==
  /\ Core(enc, text, place) /\ denied \in BOOLEAN /\ (enc.failed => denied)
  /\ Handed(enc, denied, image)
-------------------------------------------------------------------------------
(* The operators.                                                          *)

\* Lengths and concatenations of code.
LEMMA CodeSize ==
  ASSUME NEW c \in Code PROVE Size(c) \in Nat
BY LenProperties DEF Code, Size

LEMMA CodeCat ==
  ASSUME NEW c \in Code, NEW d \in Code
  PROVE  Cat(c, d) \in Code /\ Size(Cat(c, d)) = Size(c) + Size(d)
BY ConcatProperties DEF Code, Size, Cat

LEMMA CodeAssoc ==
  ASSUME NEW c \in Code, NEW d \in Code, NEW e \in Code
  PROVE  Cat(Cat(c, d), e) = Cat(c, Cat(d, e))
BY ConcatAssociative DEF Code, Cat

\* A size rounded up to pages is not smaller, and is whole pages.
LEMMA RoundUpFacts ==
  ASSUME NEW n \in Nat
  PROVE  RoundUp(n) \in Nat /\ RoundUp(n) >= n /\ RoundUp(n) % PageSize = 0
<1>1. RoundUp(n) \in Nat
  BY EncoderConstants DEF RoundUp
<1>2. RoundUp(n) >= n
  BY EncoderConstants DEF RoundUp
<1>3. RoundUp(n) % PageSize = 0
  <2>1. PageSize \in Nat /\ PageSize > 0
    BY EncoderConstants
  <2>2. (n + PageSize - 1) \div PageSize \in Nat
    BY <2>1
  <2>3. \A q, p \in Nat : p > 0 => (q * p) % p = 0
    OBVIOUS
  <2> QED BY <2>1, <2>2, <2>3 DEF RoundUp
<1> QED BY <1>1, <1>2, <1>3

\* y is e with data written at its end, or y lost some of it and has failed.
Wrote(e, data, y) ==
  \/ y.failed = e.failed /\ y.code = Cat(e.code, data)
  \/ y.failed = TRUE /\ Size(y.code) < Size(e.code) + Size(data)

\* The same buffer but for its code and its failure.
SameTables(e, y) == y.labels = e.labels /\ y.relocs = e.relocs

\* An emission of at most eight bytes: the mapping has room for what is written.
LEMMA PutFacts ==
  ASSUME NEW e, Sound(e), NEW data \in Code, Size(data) \in 1..8, NEW mapped
  PROVE  /\ Sound(Put(e, data, mapped)) /\ SameTables(e, Put(e, data, mapped))
         /\ Wrote(e, data, Put(e, data, mapped))
<1> DEFINE n    == Size(data)
           c    == IF e.capacity = 0 THEN PageSize ELSE RoundUp(2 * e.capacity + n)
           fits == Size(e.code) + n <= e.capacity
           room == IF fits THEN e ELSE [e EXCEPT !.capacity = c]
           full == [room EXCEPT !.code = Cat(e.code, data)]
           y    == Put(e, data, mapped)
<1>1. /\ e \in Buffer /\ e.capacity \in Nat /\ Size(e.code) <= e.capacity /\ e.code \in Code
      /\ Size(e.labels) <= kMaxLabels /\ Size(e.relocs) <= kMaxRelocs
  BY DEF Sound, Buffer
<1>2. /\ Size(e.code) \in Nat
      /\ Cat(e.code, data) \in Code /\ Size(Cat(e.code, data)) = Size(e.code) + n
  BY <1>1, CodeSize, CodeCat
<1>3. y = IF fits \/ mapped THEN full ELSE [e EXCEPT !.failed = TRUE]
  BY DEF Put, Fits, Grown, Size, Cat
<1> HIDE DEF y
<1>4. CASE fits \/ mapped
  <2>1. /\ room \in Buffer /\ SameTables(e, room) /\ room.failed = e.failed
        /\ Size(e.code) + n <= room.capacity
    <3>1. CASE fits
      BY <3>1, <1>1 DEF SameTables
    <3>2. CASE ~ fits
      <4>1. c \in Nat /\ Size(e.code) + n <= c
        <5>1. CASE e.capacity = 0
          BY <5>1, <1>1, <1>2, EncoderConstants
        <5>2. CASE e.capacity # 0
          <6>1. 2 * e.capacity + n \in Nat
            BY <1>1
          <6>2. RoundUp(2 * e.capacity + n) \in Nat
                /\ RoundUp(2 * e.capacity + n) >= 2 * e.capacity + n
            BY <6>1, RoundUpFacts
          <6> QED BY <5>2, <6>2, <1>1, <1>2
        <5> QED BY <5>1, <5>2
      <4>2. room = [e EXCEPT !.capacity = c]
        BY <3>2
      <4> HIDE DEF c, room
      <4> QED BY <4>1, <4>2, <1>1 DEF Buffer, SameTables
    <3> QED BY <3>1, <3>2
  <2> HIDE DEF room, fits
  <2>2. /\ full \in Buffer /\ SameTables(e, full) /\ full.code = Cat(e.code, data)
        /\ full.failed = e.failed /\ full.capacity = room.capacity
    BY <2>1, <1>2 DEF Buffer, SameTables
  <2> HIDE DEF full
  <2>3. y = full
    BY <1>3, <1>4
  <2>4. Sound(full)
    BY <2>1, <2>2, <1>1, <1>2 DEF Sound, SameTables
  <2> QED BY <2>2, <2>3, <2>4 DEF Wrote, y
<1>5. CASE ~ (fits \/ mapped)
  <2> HIDE DEF fits, full
  <2>1. y = [e EXCEPT !.failed = TRUE]
    BY <1>3, <1>5
  <2>2. /\ y \in Buffer /\ y.code = e.code /\ SameTables(e, y)
        /\ y.failed = TRUE /\ y.capacity = e.capacity
    BY <2>1, <1>1, Zenon DEF Buffer, SameTables
  <2>3. Sound(y)
    BY <2>2, <1>1 DEF Sound, SameTables
  <2>4. Size(y.code) < Size(e.code) + Size(data)
    BY <2>2, <1>2
  <2> QED BY <2>2, <2>3, <2>4 DEF Wrote, y
<1> QED BY <1>4, <1>5

\* Two writes in a row are one.
LEMMA WroteTwice ==
  ASSUME NEW e \in Buffer, NEW c \in Code, NEW d \in Code,
         NEW x \in Buffer, NEW y \in Buffer, Wrote(e, c, x), Wrote(x, d, y)
  PROVE  Wrote(e, Cat(c, d), y)
<1>1. e.code \in Code /\ x.code \in Code /\ y.code \in Code
  BY DEF Buffer
<1>2. Size(e.code) \in Nat /\ Size(x.code) \in Nat /\ Size(y.code) \in Nat
      /\ Size(c) \in Nat /\ Size(d) \in Nat
  BY <1>1, CodeSize
<1>3. Size(Cat(c, d)) = Size(c) + Size(d)
  BY CodeCat
<1>4. CASE x.failed = e.failed /\ x.code = Cat(e.code, c)
  <2>1. Size(x.code) = Size(e.code) + Size(c)
    BY <1>1, <1>4, CodeCat
  <2>2. Cat(Cat(e.code, c), d) = Cat(e.code, Cat(c, d))
    BY <1>1, CodeAssoc
  <2>3. CASE y.failed = x.failed /\ y.code = Cat(x.code, d)
    BY <1>4, <2>2, <2>3 DEF Wrote
  <2>4. CASE y.failed = TRUE /\ Size(y.code) < Size(x.code) + Size(d)
    BY <1>2, <1>3, <2>1, <2>4 DEF Wrote
  <2> QED BY <2>3, <2>4, Zenon DEF Wrote
<1>5. CASE x.failed = TRUE /\ Size(x.code) < Size(e.code) + Size(c)
  <2>1. CASE y.failed = x.failed /\ y.code = Cat(x.code, d)
    <3>1. Size(y.code) = Size(x.code) + Size(d)
      BY <1>1, <2>1, CodeCat
    <3> QED BY <1>2, <1>3, <1>5, <2>1, <3>1 DEF Wrote
  <2>2. CASE y.failed = TRUE /\ Size(y.code) < Size(x.code) + Size(d)
    BY <1>2, <1>3, <1>5, <2>2 DEF Wrote
  <2> QED BY <2>1, <2>2, Zenon DEF Wrote
<1> QED BY <1>4, <1>5, Zenon DEF Wrote

\* y has the relocations of e and one of a branch to l whose field is at n.
Grew(e, l, n, y) == y.relocs = Append(e.relocs, [label |-> l, patch |-> n])

\* y is e with a branch to l at its end, or y has failed, and for a reason.
Branching(e, opcode, l, y) ==
  /\ y.code = Cat(Cat(e.code, opcode), Zero32)
  /\ Grew(e, l, Size(Cat(e.code, opcode)), y)
Branched(e, opcode, l, y) ==
  \/ /\ y.failed = e.failed /\ Size(e.relocs) < kMaxRelocs
     /\ Branching(e, opcode, l, y)
  \/ /\ y.failed = TRUE
     /\ Size(y.code) < Size(e.code) + Size(opcode) + 4 \/ Size(e.relocs) = kMaxRelocs

\* The opcodes are one byte, or two that are written one by one.
Head1(opcode) == <<opcode[1]>>
Tail1(opcode) == <<opcode[2]>>

LEMMA OneByte == \A b \in Byte : <<b>> \in Code /\ Size(<<b>>) = 1
BY DEF Code, Size

LEMMA OpcodeFacts ==
  ASSUME NEW opcode \in BranchOpcodes
  PROVE  /\ opcode \in Code /\ Size(opcode) \in 1..2
         /\ Head1(opcode) \in Code /\ Size(Head1(opcode)) = 1
         /\ Size(opcode) = 1 => Head1(opcode) = opcode
         /\ Size(opcode) = 2 => /\ Tail1(opcode) \in Code /\ Size(Tail1(opcode)) = 1
                                /\ Cat(Head1(opcode), Tail1(opcode)) = opcode
<1>1. CASE opcode = <<233>>
  <2>1. Head1(opcode) = opcode /\ 233 \in Byte
    BY <1>1 DEF Head1, Byte
  <2> QED BY <1>1, <2>1, OneByte
<1>2. CASE opcode = <<15, 132>>
  <2>1. Head1(opcode) = <<15>> /\ Tail1(opcode) = <<132>> /\ 15 \in Byte /\ 132 \in Byte
    BY <1>2 DEF Head1, Tail1, Byte
  <2>2. opcode \in Code /\ Size(opcode) = 2 /\ opcode[1] = 15 /\ opcode[2] = 132
    BY <1>2 DEF Code, Size, Byte
  <2>3. <<15>> \in Code /\ Size(<<15>>) = 1 /\ <<132>> \in Code /\ Size(<<132>>) = 1
    BY <2>1, OneByte
  <2>4. Cat(<<15>>, <<132>>) = opcode
    <3> DEFINE both == Cat(<<15>>, <<132>>)
    <3>1. both \in Code /\ Size(both) = 2
      BY <2>3, CodeCat
    <3>2. both[1] = 15 /\ both[2] = 132
      BY <2>3, ConcatProperties DEF Code, Cat, Size
    <3> HIDE DEF both
    <3>3. both \in Seq(Byte) /\ opcode \in Seq(Byte) /\ Len(both) = Len(opcode)
      BY <2>2, <3>1 DEF Code, Size
    <3>4. \A i \in 1..Len(both) : both[i] = opcode[i]
      <4>1. Len(both) = 2
        BY <3>1 DEF Size
      <4>2. \A i \in 1..2 : both[i] = opcode[i]
        BY <2>2, <3>2
      <4> QED BY <4>1, <4>2
    <3>5. both = opcode
      BY <3>3, <3>4, SeqEqual, Zenon
    <3> QED BY <3>5 DEF both
  <2> QED BY <2>1, <2>2, <2>3, <2>4
<1> QED BY <1>1, <1>2 DEF BranchOpcodes

\* The opcode of a branch.
LEMMA OpcodeWritten ==
  ASSUME NEW e, Sound(e), NEW opcode \in BranchOpcodes, NEW m, NEW x, NEW y,
         x = Put(e, Head1(opcode), m[1]),
         y = IF Size(opcode) = 2 THEN Put(x, Tail1(opcode), m[2]) ELSE x
  PROVE  Sound(y) /\ SameTables(e, y) /\ Wrote(e, opcode, y)
<1>0. Head1(opcode) \in Code /\ Size(Head1(opcode)) \in 1..8
  BY OpcodeFacts
<1>1. Sound(x) /\ SameTables(e, x) /\ Wrote(e, Head1(opcode), x)
  BY <1>0, PutFacts
<1>2. CASE Size(opcode) = 1
  <2>1. Head1(opcode) = opcode /\ y = x
    BY <1>2, OpcodeFacts
  <2> QED BY <2>1, <1>1
<1>3. CASE Size(opcode) = 2
  <2>1. y = Put(x, Tail1(opcode), m[2])
    BY <1>3
  <2>2. /\ Tail1(opcode) \in Code /\ Size(Tail1(opcode)) \in 1..8
        /\ Cat(Head1(opcode), Tail1(opcode)) = opcode
    BY <1>3, OpcodeFacts
  <2>3. Sound(y) /\ SameTables(x, y) /\ Wrote(x, Tail1(opcode), y)
    BY <1>1, <2>1, <2>2, PutFacts
  <2>4. SameTables(e, y)
    BY <1>1, <2>3 DEF SameTables
  <2>5. e \in Buffer /\ x \in Buffer /\ y \in Buffer
    BY <1>1, <2>3 DEF Sound
  <2>6. Wrote(e, Cat(Head1(opcode), Tail1(opcode)), y)
    BY <1>0, <1>1, <2>2, <2>3, <2>5, WroteTwice
  <2> QED BY <2>2, <2>3, <2>4, <2>6
<1>4. Size(opcode) = 1 \/ Size(opcode) = 2
  BY OpcodeFacts
<1> QED BY <1>2, <1>3, <1>4

\* y is e with the relocation r, or the failure is latched.
Relocated(e, r, y) ==
  /\ Sound(y) /\ y.labels = e.labels /\ y.code = e.code
  /\ \/ Size(e.relocs) = kMaxRelocs /\ y.failed = TRUE
     \/ Size(e.relocs) < kMaxRelocs /\ y.failed = e.failed /\ y.relocs = Append(e.relocs, r)

LEMMA RelocateFacts ==
  ASSUME NEW e, Sound(e), NEW l \in Nat, NEW r, r = [label |-> l, patch |-> Size(e.code)],
         NEW y, y = Relocate(e, l)
  PROVE  Relocated(e, r, y)
<1>1. /\ e \in Buffer /\ e.code \in Code /\ e.relocs \in Table
      /\ Size(e.code) <= e.capacity /\ Size(e.labels) <= kMaxLabels /\ Size(e.relocs) <= kMaxRelocs
  BY DEF Sound, Buffer
<1>2. Size(e.relocs) \in Nat /\ Size(e.code) \in Nat
  BY <1>1, CodeSize, LenProperties DEF Table, Size
<1>3. r \in Reloc
  BY <1>2 DEF Reloc
<1>4. /\ Append(e.relocs, r) \in Table /\ Size(Append(e.relocs, r)) = Size(e.relocs) + 1
  BY <1>1, <1>3, AppendProperties DEF Table, Size
<1>5. y = IF Size(e.relocs) >= kMaxRelocs THEN [e EXCEPT !.failed = TRUE]
          ELSE [e EXCEPT !.relocs = Append(e.relocs, r)]
  BY DEF Relocate, Size
<1>6. CASE Size(e.relocs) >= kMaxRelocs
  <2>1. /\ y \in Buffer /\ y.failed = TRUE /\ y.code = e.code /\ y.relocs = e.relocs
        /\ y.labels = e.labels /\ y.capacity = e.capacity
    BY <1>1, <1>5, <1>6, Zenon DEF Buffer
  <2>2. Size(e.relocs) = kMaxRelocs
    BY <1>1, <1>2, <1>6, EncoderConstants
  <2> QED BY <1>1, <2>1, <2>2 DEF Sound, Relocated
<1>7. CASE ~ (Size(e.relocs) >= kMaxRelocs)
  <2>1. /\ y \in Buffer /\ y.failed = e.failed /\ y.code = e.code
        /\ y.relocs = Append(e.relocs, r) /\ y.labels = e.labels /\ y.capacity = e.capacity
    BY <1>1, <1>4, <1>5, <1>7, Zenon DEF Buffer
  <2>2. Size(e.relocs) < kMaxRelocs /\ Size(e.relocs) + 1 <= kMaxRelocs
    BY <1>1, <1>2, <1>7, EncoderConstants
  <2> QED BY <1>1, <1>4, <2>1, <2>2 DEF Sound, Relocated
<1> QED BY <1>6, <1>7

Jumped(e, opcode, l, y) == Sound(y) /\ y.labels = e.labels /\ Branched(e, opcode, l, y)

\* A branch, whichever of its requests for memory are refused.
LEMMA JumpFacts ==
  ASSUME NEW e, Sound(e), NEW opcode \in BranchOpcodes, NEW l \in Nat, NEW m,
         NEW y, y = Jump(e, opcode, l, m)
  PROVE  Jumped(e, opcode, l, y)
<1> DEFINE first == Put(e, Head1(opcode), m[1])
           w     == IF Size(opcode) = 2 THEN Put(first, Tail1(opcode), m[2]) ELSE first
           x     == Relocate(w, l)
           r     == [label |-> l, patch |-> Size(w.code)]
<1>1. y = Put(x, Zero32, m[3])
  BY DEF Jump, Head1, Tail1, Size
<1>2. Sound(w) /\ SameTables(e, w) /\ Wrote(e, opcode, w)
  BY OpcodeWritten
<1> HIDE DEF w
<1>3. /\ Sound(x) /\ x.labels = w.labels /\ x.code = w.code
      /\ \/ Size(w.relocs) = kMaxRelocs /\ x.failed = TRUE
         \/ Size(w.relocs) < kMaxRelocs /\ x.failed = w.failed /\ x.relocs = Append(w.relocs, r)
  <2>1. x = Relocate(w, l) /\ r = [label |-> l, patch |-> Size(w.code)]
    OBVIOUS
  <2> HIDE DEF x, r
  <2>2. Relocated(w, r, x)
    BY <1>2, <2>1, RelocateFacts, Zenon
  <2> QED BY <2>2 DEF Relocated
<1> HIDE DEF x
<1>4. Zero32 \in Code /\ Size(Zero32) = 4
  BY DEF Zero32, Byte, Code, Size
<1>5. Sound(y) /\ SameTables(x, y) /\ Wrote(x, Zero32, y)
  <2>1. Size(Zero32) \in 1..8
    BY <1>4
  <2> QED BY <1>1, <1>3, <1>4, <2>1, PutFacts
<1>6. y.labels = e.labels /\ w.relocs = e.relocs
  BY <1>2, <1>3, <1>5 DEF SameTables
<1>7. \/ w.failed = e.failed /\ w.code = Cat(e.code, opcode)
      \/ w.failed = TRUE /\ Size(w.code) < Size(e.code) + Size(opcode)
  BY <1>2 DEF Wrote
<1>8. \/ y.failed = x.failed /\ y.code = Cat(w.code, Zero32)
      \/ y.failed = TRUE /\ Size(y.code) < Size(w.code) + 4
  BY <1>3, <1>4, <1>5 DEF Wrote
<1>9. /\ Size(e.code) \in Nat /\ Size(w.code) \in Nat /\ Size(y.code) \in Nat /\ Size(opcode) \in Nat
      /\ Size(Cat(e.code, opcode)) = Size(e.code) + Size(opcode)
      /\ Size(Cat(w.code, Zero32)) = Size(w.code) + 4
  <2>1. e.code \in Code /\ w.code \in Code /\ y.code \in Code
    BY <1>2, <1>5 DEF Sound, Buffer
  <2>2. opcode \in Code
    BY OpcodeFacts
  <2> QED BY <2>1, <2>2, <1>4, CodeSize, CodeCat
<1> HIDE DEF r
<1>10. CASE Size(w.relocs) = kMaxRelocs /\ x.failed = TRUE
  <2>1. y.failed = TRUE
    BY <1>8, <1>10
  <2> QED BY <2>1, <1>5, <1>6, <1>10 DEF Jumped, Branched
<1>11. CASE Size(w.relocs) < kMaxRelocs /\ x.failed = w.failed /\ x.relocs = Append(w.relocs, r)
  <2>1. CASE /\ w.failed = e.failed /\ w.code = Cat(e.code, opcode)
             /\ y.failed = x.failed /\ y.code = Cat(w.code, Zero32)
    <3>1. y.failed = e.failed /\ y.code = Cat(Cat(e.code, opcode), Zero32)
      BY <1>11, <2>1
    <3>2. y.relocs = Append(e.relocs, [label |-> l, patch |-> Size(Cat(e.code, opcode))])
      BY <1>5, <1>6, <1>11, <2>1 DEF SameTables, r
    <3> QED BY <1>5, <1>6, <1>11, <3>1, <3>2 DEF Jumped, Branched, Branching, Grew
  <2>2. CASE y.failed = TRUE /\ Size(y.code) < Size(e.code) + Size(opcode) + 4
    BY <1>5, <1>6, <2>2 DEF Jumped, Branched
  <2>3. \/ /\ w.failed = e.failed /\ w.code = Cat(e.code, opcode)
           /\ y.failed = x.failed /\ y.code = Cat(w.code, Zero32)
        \/ y.failed = TRUE /\ Size(y.code) < Size(e.code) + Size(opcode) + 4
    BY <1>7, <1>8, <1>9, <1>11
  <2> QED BY <2>1, <2>2, <2>3, Zenon
<1> QED BY <1>3, <1>10, <1>11, Zenon
-------------------------------------------------------------------------------
(* Writing at the end of the buffer keeps it the program asked for.        *)

\* The entries of a relocation table.
LEMMA TableFacts ==
  ASSUME NEW w \in Table
  PROVE  /\ Size(w) \in Nat
         /\ \A k \in 1..Size(w) : w[k] \in Reloc /\ w[k].patch \in Nat /\ w[k].label \in Nat
<1>1. w \in Seq(Reloc)
  BY DEF Table
<1>2. Len(w) \in Nat /\ \A k \in 1..Len(w) : w[k] \in Reloc
  BY <1>1, LenProperties, ElementOfSeq
<1>3. \A r \in Reloc : r.patch \in Nat /\ r.label \in Nat
  BY DEF Reloc
<1> QED BY <1>2, <1>3 DEF Size

\* A literal is no branch field.
LEMMA ItemKinds ==
  /\ \A x \in Literal : x \notin Field /\ "to" \notin DOMAIN x
  /\ \A x \in Field : x \notin Literal /\ "to" \in DOMAIN x
<1>1. ASSUME NEW x \in Literal PROVE "to" \notin DOMAIN x
  BY DEF Literal
<1>2. ASSUME NEW x \in Field PROVE "to" \in DOMAIN x
  BY DEF Field
<1> QED BY <1>1, <1>2

\* u goes on after t.
Onward(t, u) == Size(t) <= Size(u) /\ \A j \in 1..Size(t) : u[j] = t[j]

\* What a relocation patches stays.
LEMMA PatchesOnward ==
  ASSUME NEW r, NEW t, NEW u, r.patch \in Nat, Size(t) \in Nat, Size(u) \in Nat,
         Patches(r, t), Onward(t, u)
  PROVE  Patches(r, u)
BY DEF Patches, Onward

\* What u adds to t is literal bytes, and y has them.
Added(y, t, u) ==
  \A j \in (Size(t) + 1)..Size(u) : u[j] \in Literal /\ y.code[j] = u[j].b

\* Without new relocations: literal bytes.
LEMMA LiteralsMirror ==
  ASSUME NEW e, NEW t, NEW y, NEW u, Mirrors(e, t), Size(t) \in Nat, Size(u) \in Nat,
         Onward(t, u), Onward(e.code, y.code), Size(y.code) = Size(u), y.relocs = e.relocs,
         e.relocs \in Table, Added(y, t, u)
  PROVE  Mirrors(y, u)
<1>0. Size(e.code) = Size(t) /\ Bytes(e, t) /\ Fields(e, t) /\ Relocs(e, t) /\ Once(e)
  BY DEF Mirrors, Bytes
<1>1. \A j \in 1..Size(u) : j \in 1..Size(t) \/ j \in (Size(t) + 1)..Size(u)
  BY DEF Onward
<1>2. Bytes(y, u)
  <2>1. ASSUME NEW j \in 1..Size(t), u[j] \in Literal PROVE y.code[j] = u[j].b
    BY <1>0, <2>1 DEF Onward, Bytes
  <2> QED BY <1>1, <2>1 DEF Bytes, Added
<1>3. Fields(y, u)
  <2>1. ASSUME NEW j \in 1..Size(u), u[j] \in Field
        PROVE  j \in 1..Size(t) /\ u[j] = t[j]
    BY <1>1, <2>1, ItemKinds DEF Onward, Added
  <2> QED BY <1>0, <2>1 DEF Fields
<1>4. Relocs(y, u)
  <2>1. ASSUME NEW k \in 1..Size(e.relocs)
        PROVE  Patches(e.relocs[k], u)
    <3>1. Patches(e.relocs[k], t)
      BY <1>0, Zenon DEF Relocs
    <3>2. e.relocs[k].patch \in Nat
      BY TableFacts
    <3> QED BY <3>1, <3>2, PatchesOnward, Zenon
  <2> QED BY <2>1, Zenon DEF Relocs
<1>5. Once(y)
  BY <1>0 DEF Once
<1> QED BY <1>2, <1>3, <1>4, <1>5 DEF Mirrors

\* y and u are e and t with one more field, of a branch to l.
OneField(e, t, y, u, l) ==
  /\ Size(t) \in Nat /\ Size(u) \in Nat /\ Size(u) = Size(t) + 4
  /\ Onward(t, u) /\ Onward(e.code, y.code) /\ Size(y.code) = Size(u)
  /\ Grew(e, l, Size(t), y)
  /\ \A i \in 0..3 : u[Size(t) + 1 + i] = [to |-> l, i |-> i]

\* With one: the field of a branch.
LEMMA FieldMirrors ==
  ASSUME NEW e, NEW t, NEW y, NEW u, NEW l \in Nat,
         Mirrors(e, t), e.relocs \in Table, OneField(e, t, y, u, l)
  PROVE  Mirrors(y, u)
<1> USE DEF OneField
<1> DEFINE r == [label |-> l, patch |-> Size(t)]
           n == Size(e.relocs)
<1>0. Size(e.code) = Size(t) /\ Bytes(e, t) /\ Fields(e, t) /\ Relocs(e, t) /\ Once(e)
  BY DEF Mirrors, Bytes
<1>1. \A j \in 1..Size(u) : j \in 1..Size(t) \/ \E i \in 0..3 : j = Size(t) + 1 + i
  <2>1. ASSUME NEW j \in 1..Size(u), j \notin 1..Size(t)
        PROVE  j - Size(t) - 1 \in 0..3 /\ j = Size(t) + 1 + (j - Size(t) - 1)
    BY <2>1
  <2> QED BY <2>1, Zenon
<1>2. \A i \in 0..3 : u[Size(t) + 1 + i] \in Field
  BY DEF Field
<1>3. n \in Nat /\ \A k \in 1..n : e.relocs[k] \in Reloc /\ e.relocs[k].patch \in Nat
  BY TableFacts
<1>4. r \in Reloc
  BY DEF Reloc
<1>5. /\ Size(y.relocs) = n + 1 /\ y.relocs[n + 1] = r
      /\ \A k \in 1..n : y.relocs[k] = e.relocs[k]
  BY <1>4, AppendProperties DEF Table, Size, Grew
<1>6. r.label = l /\ r.patch = Size(t)
  OBVIOUS
<1> HIDE DEF r, n
<1>7. \A k \in 1..Size(y.relocs) : k \in 1..n \/ k = n + 1
  BY <1>3, <1>5
<1>8. Bytes(y, u)
  <2>1. ASSUME NEW j \in 1..Size(t), u[j] \in Literal PROVE y.code[j] = u[j].b
    BY <1>0, <2>1 DEF Onward, Bytes
  <2> QED BY <1>1, <1>2, <2>1, ItemKinds, Zenon DEF Bytes
<1>9. Fields(y, u)
  <2>1. ASSUME NEW j \in 1..Size(t), u[j] \in Field
        PROVE  \E k \in 1..Size(y.relocs) :
                 y.relocs[k].label = u[j].to /\ y.relocs[k].patch = j - 1 - u[j].i
    <3>1. u[j] = t[j]
      BY DEF Onward
    <3>2. PICK k \in 1..n : e.relocs[k].label = u[j].to /\ e.relocs[k].patch = j - 1 - u[j].i
      BY <1>0, <2>1, <3>1 DEF Fields, n
    <3>3. k \in 1..Size(y.relocs)
      BY <1>3, <1>5
    <3> QED BY <3>2, <3>3, <1>5, Zenon
  <2>2. ASSUME NEW i \in 0..3, NEW j, j = Size(t) + 1 + i
        PROVE  \E k \in 1..Size(y.relocs) :
                 y.relocs[k].label = u[j].to /\ y.relocs[k].patch = j - 1 - u[j].i
    <3>1. n + 1 \in 1..Size(y.relocs)
      BY <1>3, <1>5
    <3>2. u[j].to = l /\ u[j].i = i
      BY <2>2
    <3>3. j - 1 - i = Size(t)
      BY <2>2
    <3> QED BY <3>1, <3>2, <3>3, <1>5, <1>6, Zenon
  <2> SUFFICES ASSUME NEW j \in 1..Size(u), u[j] \in Field
               PROVE  \E k \in 1..Size(y.relocs) :
                        y.relocs[k].label = u[j].to /\ y.relocs[k].patch = j - 1 - u[j].i
    BY Zenon DEF Fields
  <2>3. CASE j \in 1..Size(t)
    BY <2>1, <2>3, Zenon
  <2>4. CASE \E i \in 0..3 : j = Size(t) + 1 + i
    BY <2>2, <2>4, Zenon
  <2> QED BY <1>1, <2>3, <2>4, Zenon
<1>10. \A k \in 1..n : e.relocs[k].patch \in Nat /\ Patches(e.relocs[k], t)
  BY <1>0, <1>3, Zenon DEF Relocs, n
<1>11. Relocs(y, u)
  <2>1. ASSUME NEW k \in 1..n PROVE Patches(e.relocs[k], u)
    BY <1>10, PatchesOnward, Zenon
  <2>2. Patches(r, u)
    BY <1>6 DEF Patches
  <2>3. ASSUME NEW k \in 1..Size(y.relocs) PROVE Patches(y.relocs[k], u)
    BY <1>5, <1>7, <2>1, <2>2, Zenon
  <2> QED BY <2>3, Zenon DEF Relocs
<1>12. Once(y)
  <2>1. ASSUME NEW k \in 1..n PROVE e.relocs[k].patch # r.patch
    <3> DEFINE p == e.relocs[k].patch
    <3>1. p \in Nat /\ p + 1 + 0 <= Size(t)
      <4>1. 0 \in 0..3
        OBVIOUS
      <4> QED BY <4>1, <1>10, Zenon DEF Patches
    <3> HIDE DEF p
    <3>2. p # Size(t)
      BY <3>1
    <3> QED BY <3>2, <1>6 DEF p
  <2> QED BY <1>0, <1>5, <1>7, <2>1, Zenon DEF Once, n
<1> QED BY <1>8, <1>9, <1>11, <1>12 DEF Mirrors
-------------------------------------------------------------------------------
(* Each operation keeps the buffer the program asked for.                  *)

\* The history of an emission and of a branch field.
Literals(data) == [i \in 1..Size(data) |-> [b |-> data[i]]]
FieldsTo(l) == [i \in 1..4 |-> [to |-> l, i |-> i - 1]]

\* A function on the first n numbers is a sequence of its values.
LEMMA FunctionIsSeq ==
  ASSUME NEW S, NEW n \in Nat, NEW f \in [1..n -> S]
  PROVE  f \in Seq(S)
BY SeqDef, Zenon

LEMMA LiteralsFacts ==
  ASSUME NEW data \in Code
  PROVE  /\ Literals(data) \in Program /\ Size(Literals(data)) = Size(data)
         /\ \A i \in 1..Size(data) : Literals(data)[i] \in Literal /\ Literals(data)[i].b = data[i]
<1>1. Size(data) \in Nat /\ \A i \in 1..Size(data) : data[i] \in Byte
  BY LenProperties, ElementOfSeq DEF Code, Size
<1>2. \A i \in 1..Size(data) : [b |-> data[i]] \in Literal
  BY <1>1 DEF Literal
<1>3. Literals(data) \in [1..Size(data) -> Item]
  BY <1>2 DEF Literals, Item
<1>4. Literals(data) \in Seq(Item)
  BY <1>1, <1>3, FunctionIsSeq, Zenon
<1>5. Len(Literals(data)) = Size(data)
  <2>1. DOMAIN Literals(data) = 1..Size(data)
    BY DEF Literals
  <2> QED BY <1>1, <1>4, <2>1, LenProperties
<1> QED BY <1>2, <1>4, <1>5 DEF Literals, Size, Program

LEMMA FieldsFacts ==
  ASSUME NEW l \in Nat
  PROVE  /\ FieldsTo(l) \in Program /\ Size(FieldsTo(l)) = 4
         /\ \A i \in 0..3 : FieldsTo(l)[1 + i] = [to |-> l, i |-> i]
<1>1. \A i \in 1..4 : [to |-> l, i |-> i - 1] \in Field
  BY DEF Field
<1>2. FieldsTo(l) \in [1..4 -> Item]
  BY <1>1 DEF FieldsTo, Item
<1>3. FieldsTo(l) \in Seq(Item)
  <2>1. 4 \in Nat
    OBVIOUS
  <2> QED BY <2>1, <1>2, FunctionIsSeq, Zenon
<1>4. Len(FieldsTo(l)) = 4
  <2>1. DOMAIN FieldsTo(l) = 1..4
    BY DEF FieldsTo
  <2> QED BY <1>3, <2>1, LenProperties
<1>5. \A i \in 0..3 : FieldsTo(l)[1 + i] = [to |-> l, i |-> i]
  BY DEF FieldsTo
<1> QED BY <1>3, <1>4, <1>5 DEF Size, Program

\* The mirror depends on the code and the relocations only.
LEMMA MirrorsSame ==
  ASSUME NEW e, NEW y, NEW t, Mirrors(e, t), y.code = e.code, y.relocs = e.relocs
  PROVE  Mirrors(y, t)
BY DEF Mirrors, Bytes, Fields, Relocs, Once

\* u is s followed by t.
Joined(s, t, u) ==
  /\ Onward(s, u)
  /\ Size(s) \in Nat /\ Size(t) \in Nat /\ Size(u) \in Nat /\ Size(u) = Size(s) + Size(t)
  /\ \A j \in 1..Size(t) : u[Size(s) + j] = t[j]

LEMMA CatJoined ==
  ASSUME NEW S, NEW s \in Seq(S), NEW t \in Seq(S)
  PROVE  Joined(s, t, Cat(s, t))
<1>1. Len(s) \in Nat /\ Len(t) \in Nat
  BY LenProperties
<1>2. /\ s \o t \in Seq(S) /\ Len(s \o t) = Len(s) + Len(t)
      /\ \A j \in 1..Len(s) + Len(t) : (s \o t)[j] = IF j <= Len(s) THEN s[j] ELSE t[j - Len(s)]
  BY ConcatProperties
<1>3. ASSUME NEW j \in 1..Len(s) PROVE (s \o t)[j] = s[j]
  <2>1. j \in 1..Len(s) + Len(t) /\ j <= Len(s)
    BY <1>1
  <2> QED BY <1>2, <2>1, Zenon
<1>4. ASSUME NEW j \in 1..Len(t) PROVE (s \o t)[Len(s) + j] = t[j]
  <2>1. Len(s) + j \in 1..Len(s) + Len(t) /\ ~ (Len(s) + j <= Len(s)) /\ (Len(s) + j) - Len(s) = j
    BY <1>1
  <2> QED BY <1>2, <2>1, Zenon
<1>5. Len(s \o t) \in Nat /\ Len(s) <= Len(s \o t)
  BY <1>1, <1>2
<1> QED BY <1>1, <1>2, <1>3, <1>4, <1>5 DEF Size, Cat, Joined, Onward

LEMMA CodeJoined ==
  ASSUME NEW s \in Code, NEW t \in Code, NEW u, u = Cat(s, t)
  PROVE  Joined(s, t, u)
<1>1. Joined(s, t, Cat(s, t))
  BY CatJoined, Zenon DEF Code
<1> QED BY <1>1

LEMMA ProgramJoined ==
  ASSUME NEW s \in Program, NEW t \in Program, NEW u, u = Cat(s, t)
  PROVE  Joined(s, t, u) /\ u \in Program
<1>1. Joined(s, t, Cat(s, t))
  BY CatJoined, Zenon DEF Program
<1>2. Cat(s, t) \in Program
  BY ConcatProperties, Zenon DEF Program, Cat
<1> QED BY <1>1, <1>2

\* Bytes that were asked for and written.
LEMMA EmitMirrors ==
  ASSUME NEW e, NEW t \in Program, NEW y, NEW u, NEW data \in Code, Mirrors(e, t),
         e.code \in Code, e.relocs \in Table, y.relocs = e.relocs,
         y.code = Cat(e.code, data), u = Cat(t, Literals(data))
  PROVE  Mirrors(y, u)
<1> DEFINE n == Size(data)
           a == Size(t)
<1>1. /\ Onward(e.code, y.code) /\ Size(e.code) \in Nat /\ n \in Nat
      /\ Size(y.code) = Size(e.code) + n
      /\ \A j \in 1..n : y.code[Size(e.code) + j] = data[j]
  <2>1. Joined(e.code, data, y.code)
    BY CodeJoined, Zenon
  <2> QED BY <2>1, Zenon DEF Joined
<1>2. /\ Literals(data) \in Program /\ Size(Literals(data)) = n
      /\ \A i \in 1..n : Literals(data)[i] \in Literal /\ Literals(data)[i].b = data[i]
  BY LiteralsFacts
<1>3. /\ Onward(t, u) /\ a \in Nat /\ Size(u) \in Nat /\ Size(u) = a + Size(Literals(data))
      /\ \A j \in 1..Size(Literals(data)) : u[a + j] = Literals(data)[j]
  <2>1. Joined(t, Literals(data), u)
    BY <1>2, ProgramJoined, Zenon
  <2> QED BY <2>1, Zenon DEF Joined
<1>4. Size(e.code) = a
  BY DEF Mirrors, Bytes
<1>5. Size(u) = a + n /\ Size(y.code) = Size(u)
  BY <1>1, <1>2, <1>3, <1>4
<1>6. ASSUME NEW j \in (a + 1)..Size(u) PROVE u[j] \in Literal /\ y.code[j] = u[j].b
  <2> DEFINE i == j - a
  <2>1. i \in 1..n /\ j = a + i
    BY <1>1, <1>3, <1>5
  <2> HIDE DEF i
  <2>2. u[j] = Literals(data)[i] /\ y.code[j] = data[i]
    BY <1>1, <1>2, <1>3, <1>4, <2>1
  <2> QED BY <1>2, <2>1, <2>2
<1>7. Added(y, t, u)
  BY <1>6, Zenon DEF Added
<1> QED BY <1>1, <1>3, <1>5, <1>7, LiteralsMirror, Zenon

\* emit8, emit32, emit64.
LEMMA EmitCore ==
  ASSUME NEW e, NEW t, NEW p, Core(e, t, p),
         NEW data \in Code, Size(data) \in 1..8, NEW mapped,
         NEW y, y = Put(e, data, mapped), NEW u, u = Cat(t, Literals(data))
  PROVE  Core(y, u, p) /\ (y.failed => e.failed \/ Size(y.code) < Size(e.code) + Size(data))
<1> DEFINE f == e.failed \/ Size(y.code) < Size(e.code) + Size(data)
<1>1. Sound(e) /\ t \in Program /\ p \in Labels /\ Size(e.labels) = Size(p)
      /\ (~ e.failed => Mirrors(e, t) /\ e.labels = p)
  BY DEF Core
<1>2. Sound(y) /\ SameTables(e, y) /\ Wrote(e, data, y)
  BY <1>1, PutFacts
<1>3. e.code \in Code /\ e.relocs \in Table
  BY <1>1 DEF Sound, Buffer
<1>4. u \in Program
  <2>1. Literals(data) \in Program
    BY LiteralsFacts
  <2> QED BY <1>1, <2>1, ProgramJoined, Zenon
<1>6. Size(y.labels) = Size(p) /\ y.relocs = e.relocs /\ y.labels = e.labels
  BY <1>1, <1>2 DEF SameTables
<1>7. CASE y.failed = e.failed /\ y.code = Cat(e.code, data)
  <2>1. y.failed => f
    BY <1>1, <1>7, Zenon
  <2>2. ~ y.failed => Mirrors(y, u) /\ y.labels = p
    <3>1. ASSUME ~ y.failed PROVE Mirrors(y, u) /\ y.labels = p
      <4>1. Mirrors(e, t) /\ e.labels = p
        BY <1>1, <1>7, <3>1, Zenon
      <4>2. Mirrors(y, u)
        BY <4>1, <1>1, <1>3, <1>6, <1>7, EmitMirrors, Zenon
      <4> QED BY <4>1, <4>2, <1>6
    <3> QED BY <3>1
  <2> QED BY <1>1, <1>2, <1>4, <1>6, <2>1, <2>2, Zenon DEF Core
<1>8. CASE y.failed = TRUE /\ Size(y.code) < Size(e.code) + Size(data)
  <2>1. f /\ y.failed
    BY <1>8, Zenon
  <2> QED BY <1>1, <1>2, <1>4, <1>6, <2>1, Zenon DEF Core
<1> QED BY <1>2, <1>7, <1>8, Zenon DEF Wrote

\* A branch that was written whole.
LEMMA BranchMirrors ==
  ASSUME NEW e, NEW t \in Program, NEW y, NEW u, NEW opcode \in Code, NEW l \in Nat,
         Mirrors(e, t), e.code \in Code, e.relocs \in Table,
         Branching(e, opcode, l, y), u = Cat(Cat(t, Literals(opcode)), FieldsTo(l))
  PROVE  Mirrors(y, u)
<1> DEFINE w == [code |-> Cat(e.code, opcode), relocs |-> e.relocs]
           v == Cat(t, Literals(opcode))
<1>1. w.code = Cat(e.code, opcode) /\ w.relocs = e.relocs
  OBVIOUS
<1>2. Literals(opcode) \in Program
  BY LiteralsFacts
<1>3. v \in Program
  BY <1>2, ProgramJoined, Zenon
<1> HIDE DEF w
<1>4. v = Cat(t, Literals(opcode)) /\ u = Cat(v, FieldsTo(l))
  BY Zenon
<1> HIDE DEF v
<1>5. Mirrors(w, v)
  BY <1>1, <1>4, EmitMirrors, Zenon
<1>6. w.code \in Code
  BY <1>1, CodeCat
<1>7. y.code = Cat(w.code, Zero32)
      /\ y.relocs = Append(e.relocs, [label |-> l, patch |-> Size(w.code)])
  BY <1>1, Zenon DEF Branching, Grew
<1>8. Zero32 \in Code /\ Size(Zero32) = 4
  BY DEF Zero32, Byte, Code, Size
<1>9. Onward(w.code, y.code) /\ Size(y.code) = Size(w.code) + Size(Zero32)
  <2>1. Joined(w.code, Zero32, y.code)
    BY <1>6, <1>7, <1>8, CodeJoined, Zenon
  <2> QED BY <2>1, Zenon DEF Joined
<1>10. /\ FieldsTo(l) \in Program /\ Size(FieldsTo(l)) = 4
       /\ \A i \in 0..3 : FieldsTo(l)[1 + i] = [to |-> l, i |-> i]
  BY FieldsFacts
<1>11. /\ Onward(v, u) /\ Size(v) \in Nat /\ Size(u) \in Nat /\ Size(u) = Size(v) + Size(FieldsTo(l))
       /\ \A j \in 1..Size(FieldsTo(l)) : u[Size(v) + j] = FieldsTo(l)[j]
  <2>1. Joined(v, FieldsTo(l), u)
    BY <1>3, <1>4, <1>10, ProgramJoined, Zenon
  <2> QED BY <2>1, Zenon DEF Joined
<1>12. Size(w.code) = Size(v)
  BY <1>5 DEF Mirrors, Bytes
<1>13. Grew(e, l, Size(v), y)
  BY <1>7, <1>12, Zenon DEF Grew
<1>14. Size(u) = Size(v) + 4 /\ Size(y.code) = Size(u)
  BY <1>8, <1>9, <1>10, <1>11, <1>12
<1>15. ASSUME NEW i \in 0..3 PROVE u[Size(v) + 1 + i] = [to |-> l, i |-> i]
  <2>1. 1 + i \in 1..Size(FieldsTo(l)) /\ Size(v) + (1 + i) = Size(v) + 1 + i
    BY <1>10, <1>11
  <2> QED BY <2>1, <1>10, <1>11
<1>16. Grew(w, l, Size(v), y) /\ w.relocs \in Table
  BY <1>1, <1>13, Zenon DEF Grew
<1>17. OneField(w, v, y, u, l)
  BY <1>9, <1>11, <1>14, <1>15, <1>16, Zenon DEF OneField
<1> QED BY <1>5, <1>16, <1>17, FieldMirrors, Zenon

\* jmp_label and the jcc family.
LEMMA BranchCore ==
  ASSUME NEW e, NEW t, NEW p, Core(e, t, p),
         NEW opcode \in BranchOpcodes, NEW l \in Nat, NEW m,
         NEW y, y = Jump(e, opcode, l, m),
         NEW u, u = Cat(Cat(t, Literals(opcode)), FieldsTo(l))
  PROVE  /\ Core(y, u, p)
         /\ y.failed => \/ e.failed \/ Size(y.code) < Size(e.code) + (Size(opcode) + 4)
                        \/ Size(e.relocs) = kMaxRelocs
<1> DEFINE f == \/ e.failed \/ Size(y.code) < Size(e.code) + (Size(opcode) + 4)
                \/ Size(e.relocs) = kMaxRelocs
<1>1. Sound(e) /\ t \in Program /\ p \in Labels /\ Size(e.labels) = Size(p)
      /\ (~ e.failed => Mirrors(e, t) /\ e.labels = p)
  BY DEF Core
<1>2. Sound(y) /\ y.labels = e.labels /\ Branched(e, opcode, l, y)
  <2>1. Jumped(e, opcode, l, y)
    BY <1>1, JumpFacts, Zenon
  <2> QED BY <2>1, Zenon DEF Jumped
<1>3. e.code \in Code /\ e.relocs \in Table /\ y.code \in Code
  BY <1>1, <1>2 DEF Sound, Buffer
<1>4. opcode \in Code /\ Size(opcode) \in Nat
  BY OpcodeFacts
<1>5. u \in Program
  <2>1. Literals(opcode) \in Program
    BY <1>4, LiteralsFacts
  <2>2. Cat(t, Literals(opcode)) \in Program
    BY <1>1, <2>1, ProgramJoined, Zenon
  <2>3. FieldsTo(l) \in Program
    BY FieldsFacts, Zenon
  <2> QED BY <2>2, <2>3, ProgramJoined, Zenon
<1>7. Size(y.labels) = Size(p)
  BY <1>1, <1>2
<1>8. CASE y.failed = e.failed /\ Branching(e, opcode, l, y)
  <2>1. y.failed => f
    BY <1>1, <1>8, Zenon
  <2>2. ASSUME ~ y.failed PROVE Mirrors(y, u) /\ y.labels = p
    <3>1. Mirrors(e, t) /\ e.labels = p
      BY <1>1, <1>8, <2>2, Zenon
    <3>2. Mirrors(y, u)
      BY <3>1, <1>1, <1>3, <1>4, <1>8, BranchMirrors, Zenon
    <3> QED BY <3>1, <3>2, <1>2
  <2> QED BY <1>1, <1>2, <1>5, <1>7, <2>1, <2>2, Zenon DEF Core
<1>9. CASE /\ y.failed = TRUE
           /\ Size(y.code) < Size(e.code) + Size(opcode) + 4 \/ Size(e.relocs) = kMaxRelocs
  <2>1. Size(e.code) \in Nat /\ Size(y.code) \in Nat
    BY <1>3, CodeSize
  <2>2. Size(y.code) < Size(e.code) + (Size(opcode) + 4) \/ Size(e.relocs) = kMaxRelocs
    BY <1>4, <1>9, <2>1
  <2>3. f /\ y.failed
    BY <1>9, <2>2, Zenon
  <2> QED BY <1>1, <1>2, <1>5, <1>7, <2>3, Zenon DEF Core
<1> QED BY <1>2, <1>8, <1>9, Zenon DEF Branched

\* Label tables: one more entry, and one entry changed.
LEMMA LabelsFacts ==
  ASSUME NEW p \in Labels
  PROVE  /\ Size(p) \in Nat /\ \A k \in 1..Size(p) : p[k] \in Int
         /\ Append(p, Unbound) \in Labels /\ Size(Append(p, Unbound)) = Size(p) + 1
         /\ \A k \in 1..Size(p), n \in Int :
              [p EXCEPT ![k] = n] \in Labels /\ Size([p EXCEPT ![k] = n]) = Size(p)
<1>1. p \in Seq(Int) /\ Unbound \in Int
  BY DEF Labels, Unbound
<1>2. Len(p) \in Nat /\ \A k \in 1..Len(p) : p[k] \in Int
  BY <1>1, LenProperties, ElementOfSeq
<1>3. Append(p, Unbound) \in Seq(Int) /\ Len(Append(p, Unbound)) = Len(p) + 1
  BY <1>1, AppendProperties
<1>4. \A k \in 1..Len(p), n \in Int :
        [p EXCEPT ![k] = n] \in Seq(Int) /\ Len([p EXCEPT ![k] = n]) = Len(p)
  BY <1>1, ExceptSeq
<1> QED BY <1>2, <1>3, <1>4, Zenon DEF Labels, Size

\* The table z is p with one entry changed.
Relabelled(p, z) == z \in Labels /\ Size(z) = Size(p)

LEMMA Relabels ==
  ASSUME NEW p \in Labels, NEW k \in 1..Size(p), NEW n \in Int
  PROVE  Relabelled(p, [p EXCEPT ![k] = n])
BY LabelsFacts, Zenon DEF Relabelled

\* new_label.
LEMMA NewLabelCore ==
  ASSUME NEW e, NEW t, NEW p, Core(e, t, p),
         NEW y, y = WithLabel(e),
         NEW q, q = IF Size(e.labels) < kMaxLabels THEN Append(p, Unbound) ELSE p
  PROVE  Core(y, t, q) /\ (y.failed => e.failed \/ Size(e.labels) = kMaxLabels)
<1> DEFINE f == e.failed \/ Size(e.labels) = kMaxLabels
<1>1. Sound(e) /\ t \in Program /\ p \in Labels /\ Size(e.labels) = Size(p)
      /\ (~ e.failed => Mirrors(e, t) /\ e.labels = p)
  BY DEF Core
<1>2. /\ e \in Buffer /\ e.labels \in Labels
      /\ Size(e.code) <= e.capacity /\ Size(e.labels) <= kMaxLabels /\ Size(e.relocs) <= kMaxRelocs
  BY <1>1 DEF Sound, Buffer
<1>4. Size(e.labels) \in Nat /\ kMaxLabels \in Nat
  BY <1>2, LabelsFacts, EncoderConstants
<1> DEFINE z == Append(e.labels, Unbound)
<1>5. z \in Labels /\ Size(z) = Size(e.labels) + 1
  BY <1>2, LabelsFacts, Zenon
<1>6. Append(p, Unbound) \in Labels /\ Size(Append(p, Unbound)) = Size(p) + 1
  BY <1>1, LabelsFacts, Zenon
<1>7. CASE Size(e.labels) < kMaxLabels
  <2>1. y = [e EXCEPT !.labels = z] /\ q = Append(p, Unbound)
    BY <1>7 DEF WithLabel, Size
  <2> HIDE DEF z
  <2>2. /\ y \in Buffer /\ y.labels = z /\ y.failed = e.failed /\ y.code = e.code
        /\ y.relocs = e.relocs /\ y.capacity = e.capacity
    BY <1>2, <1>5, <2>1, Zenon DEF Buffer
  <2>3. Size(y.labels) <= kMaxLabels /\ Size(y.labels) = Size(q)
    <3>1. Size(z) <= kMaxLabels
      BY <1>4, <1>5, <1>7
    <3>2. Size(q) = Size(p) + 1
      BY <1>6, <2>1, Zenon
    <3>3. Size(z) = Size(q)
      BY <3>2, <1>5, <1>1
    <3> QED BY <2>2, <3>1, <3>3
  <2>4. Sound(y)
    BY <1>2, <2>2, <2>3, Zenon DEF Sound
  <2>5. y.failed => f
    BY <1>1, <2>2, Zenon
  <2>6. ASSUME ~ y.failed PROVE Mirrors(y, t) /\ y.labels = q
    <3>1. Mirrors(e, t) /\ e.labels = p
      BY <1>1, <2>2, <2>6, Zenon
    <3>2. y.labels = q
      BY <3>1, <2>1, <2>2, Zenon DEF z
    <3> QED BY <3>1, <3>2, <2>2, MirrorsSame, Zenon
  <2>7. q \in Labels
    BY <1>6, <2>1, Zenon
  <2> QED BY <1>1, <2>3, <2>4, <2>5, <2>6, <2>7, Zenon DEF Core
<1>8. CASE ~ (Size(e.labels) < kMaxLabels)
  <2>1. y = [e EXCEPT !.failed = TRUE] /\ q = p
    BY <1>8 DEF WithLabel, Size
  <2>2. /\ y \in Buffer /\ y.labels = e.labels /\ y.failed = TRUE /\ y.code = e.code
        /\ y.relocs = e.relocs /\ y.capacity = e.capacity
    BY <1>2, <2>1, Zenon DEF Buffer
  <2>3. Sound(y)
    BY <1>2, <2>2, Zenon DEF Sound
  <2>4. Size(e.labels) = kMaxLabels
    BY <1>2, <1>4, <1>8
  <2>5. f /\ y.failed
    BY <2>2, <2>4, Zenon
  <2>6. Size(y.labels) = Size(q)
    BY <1>1, <2>1, <2>2, Zenon
  <2>7. q \in Labels
    BY <1>1, <2>1, Zenon
  <2> QED BY <1>1, <2>3, <2>5, <2>6, <2>7, Zenon DEF Core
<1> QED BY <1>7, <1>8

\* bind_label of a label that was issued, or of the answer of a refused new_label.
LEMMA BindCore ==
  ASSUME NEW e, NEW t, NEW p, Core(e, t, p),
         NEW l \in Nat,
         NEW y, y = Bound(e, l),
         NEW q, q = IF l < Size(p) THEN [p EXCEPT ![l + 1] = Size(t)] ELSE p
  PROVE  Core(y, t, q) /\ (y.failed => e.failed \/ ~ (l < Size(e.labels)))
<1> DEFINE d == e.failed \/ ~ (l < Size(e.labels))
<1>1. Sound(e) /\ t \in Program /\ p \in Labels /\ Size(e.labels) = Size(p)
      /\ (~ e.failed => Mirrors(e, t) /\ e.labels = p)
  BY DEF Core
<1>2. /\ e \in Buffer /\ e.labels \in Labels /\ e.code \in Code
      /\ Size(e.code) <= e.capacity /\ Size(e.labels) <= kMaxLabels /\ Size(e.relocs) <= kMaxRelocs
  BY <1>1 DEF Sound, Buffer
<1>3. Size(e.labels) \in Nat
  BY <1>2, LabelsFacts
<1>4. Size(e.code) \in Int /\ Size(t) \in Int
  <2>1. Size(t) \in Nat
    BY <1>1, LenProperties DEF Program, Size
  <2> QED BY <1>2, <2>1, CodeSize
<1> DEFINE z == [e.labels EXCEPT ![l + 1] = Size(e.code)]
<1>5. CASE l < Size(e.labels)
  <2>0. l + 1 \in 1..Size(e.labels)
    BY <1>3, <1>5
  <2>1. y = [e EXCEPT !.labels = z] /\ q = [p EXCEPT ![l + 1] = Size(t)]
    BY <1>1, <1>5 DEF Bound, IsLabel, Size
  <2>2. z \in Labels /\ Size(z) = Size(e.labels)
    <3>1. Relabelled(e.labels, z)
      BY <1>2, <1>4, <2>0, Relabels, Zenon
    <3> QED BY <3>1, Zenon DEF Relabelled
  <2>3. q \in Labels /\ Size(q) = Size(p)
    <3>1. l + 1 \in 1..Size(p)
      BY <1>1, <2>0
    <3>2. Relabelled(p, [p EXCEPT ![l + 1] = Size(t)])
      BY <1>1, <1>4, <3>1, Relabels, Zenon
    <3> QED BY <2>1, <3>2, Zenon DEF Relabelled
  <2> HIDE DEF z
  <2>4. /\ y \in Buffer /\ y.labels = z /\ y.failed = e.failed /\ y.code = e.code
        /\ y.relocs = e.relocs /\ y.capacity = e.capacity
    BY <1>2, <2>1, <2>2, Zenon DEF Buffer
  <2>5. Size(y.labels) = Size(q) /\ Size(y.labels) = Size(e.labels)
    BY <1>1, <2>2, <2>3, <2>4
  <2>6. Sound(y)
    BY <1>2, <2>4, <2>5 DEF Sound
  <2>7. y.failed => d
    BY <1>1, <2>4, Zenon
  <2>8. ASSUME ~ y.failed PROVE Mirrors(y, t) /\ y.labels = q
    <3>1. Mirrors(e, t) /\ e.labels = p
      BY <1>1, <2>4, <2>8, Zenon
    <3>2. Size(e.code) = Size(t)
      BY <3>1, Zenon DEF Mirrors, Bytes
    <3>3. y.labels = q
      BY <3>1, <3>2, <2>1, <2>4, Zenon DEF z
    <3> QED BY <3>1, <3>3, <2>4, MirrorsSame, Zenon
  <2> QED BY <1>1, <2>3, <2>5, <2>6, <2>7, <2>8, Zenon DEF Core
<1>6. CASE ~ (l < Size(e.labels))
  <2>1. y = [e EXCEPT !.failed = TRUE] /\ q = p
    BY <1>1, <1>6 DEF Bound, IsLabel, Size
  <2>2. /\ y \in Buffer /\ y.labels = e.labels /\ y.failed = TRUE /\ y.code = e.code
        /\ y.relocs = e.relocs /\ y.capacity = e.capacity
    BY <1>2, <2>1, Zenon DEF Buffer
  <2>3. Sound(y)
    BY <1>2, <2>2, Zenon DEF Sound
  <2>4. d /\ y.failed
    BY <1>6, <2>2, Zenon
  <2>5. Size(y.labels) = Size(q) /\ q \in Labels
    BY <1>1, <2>1, <2>2, Zenon
  <2> QED BY <1>1, <2>3, <2>4, <2>5, Zenon DEF Core
<1> QED BY <1>5, <1>6

\* An empty buffer, as the constructor and reset leave it.
LEMMA EmptyCore ==
  ASSUME NEW b \in BOOLEAN, NEW c \in Nat, NEW y,
         y = [failed |-> b, capacity |-> c, code |-> <<>>, labels |-> <<>>, relocs |-> <<>>]
  PROVE  Core(y, <<>>, <<>>) /\ y.failed = b
<1>1. <<>> \in Code /\ <<>> \in Labels /\ <<>> \in Table /\ <<>> \in Program /\ Size(<<>>) = 0
  BY DEF Code, Labels, Table, Program, Size
<1>2. /\ y.code = <<>> /\ y.labels = <<>> /\ y.relocs = <<>>
      /\ y.failed = b /\ y.capacity = c
  OBVIOUS
<1>3. y \in Buffer
  BY <1>1, Zenon DEF Buffer
<1>4. Size(y.code) = 0 /\ Size(y.labels) = 0 /\ Size(y.relocs) = 0
  BY <1>1, <1>2
<1>5. Sound(y)
  BY <1>3, <1>4, EncoderConstants DEF Sound
<1>6. Mirrors(y, <<>>)
  <2> DEFINE o == <<>>
  <2>1. Size(o) = 0
    BY <1>1
  <2> HIDE DEF o
  <2>2. Mirrors(y, o)
    BY <1>4, <2>1 DEF Mirrors, Bytes, Fields, Relocs, Once
  <2> QED BY <2>2 DEF o
<1> QED BY <1>1, <1>2, <1>5, <1>6, Zenon DEF Core
-------------------------------------------------------------------------------
(* The inductive invariant.                                                *)

\* Nothing is handed out while the function is being compiled.
LEMMA NotYetHanded == \A e, d : Handed(e, d, NotYet)
<1>1. NotYet.kind # "code" /\ NotYet # Null
  <2>1. NotYet.kind = "not yet" /\ Null.kind = "nullptr"
    BY DEF NotYet, Null
  <2> QED BY <2>1, Zenon
<1> QED BY <1>1, Zenon DEF Handed

LEMMA EmitInv ==
  ASSUME EInv, NEW n \in EmitSizes, NEW mapped, Emit([i \in 1..n |-> 144], mapped)
  PROVE  EInv'
<1> DEFINE data == [i \in 1..n |-> 144]
<1>1. data \in Code /\ Size(data) \in 1..8
  <2>1. n \in 1..8
    BY EncoderConstants
  <2>2. data \in [1..n -> Byte] /\ n \in Nat
    BY <2>1 DEF Byte
  <2>3. data \in Seq(Byte)
    BY <2>2, FunctionIsSeq, Zenon
  <2>4. Len(data) = n
    <3>1. DOMAIN data = 1..n
      OBVIOUS
    <3> QED BY <2>2, <2>3, <3>1, LenProperties
  <2> HIDE DEF data
  <2> QED BY <2>1, <2>3, <2>4 DEF Code, Size
<1>2. /\ enc' = Put(enc, data, mapped) /\ text' = Cat(text, Literals(data))
      /\ denied' = (denied \/ Size(enc'.code) < Size(enc.code) + Size(data))
      /\ place' = place /\ image' = NotYet
  BY Zenon DEF Emit, Compiling, Lost, Cat, Literals, Size
<1> HIDE DEF data
<1>3. Core(enc, text, place) /\ denied \in BOOLEAN /\ (enc.failed => denied)
  BY DEF EInv
<1>4. Core(enc', text', place) /\ (enc'.failed => enc.failed \/ Size(enc'.code) < Size(enc.code) + Size(data))
  BY <1>1, <1>2, <1>3, EmitCore, Zenon
<1>5. Core(enc', text', place')
  BY <1>2, <1>4, Zenon
<1>6. denied' \in BOOLEAN /\ (enc'.failed => denied')
  BY <1>2, <1>3, <1>4, Zenon
<1>7. Handed(enc', denied', image')
  BY <1>2, NotYetHanded, Zenon
<1> QED BY <1>5, <1>6, <1>7, Zenon DEF EInv

\* The labels the compiler may hold.
LEMMA HeldFacts ==
  ASSUME EInv, NEW l \in Held
  PROVE  l \in Nat /\ (l < Size(enc.labels) \/ denied)
<1>1. Size(enc.labels) \in Nat /\ kMaxLabels \in Nat
  <2>1. enc.labels \in Labels
    BY DEF EInv, Core, Sound, Buffer
  <2> QED BY <2>1, LabelsFacts, EncoderConstants
<1>2. l \in 0..(Size(enc.labels) - 1) \/ (denied /\ l = kMaxLabels)
  BY Zenon DEF Held, Size, kInvalidLabel
<1>3. CASE l \in 0..(Size(enc.labels) - 1)
  BY <1>1, <1>3
<1>4. CASE denied /\ l = kMaxLabels
  BY <1>1, <1>4
<1> QED BY <1>2, <1>3, <1>4

LEMMA BranchInv ==
  ASSUME EInv, NEW opcode \in BranchOpcodes, NEW l \in Held, NEW m, Branch(opcode, l, m)
  PROVE  EInv'
<1>1. l \in Nat
  BY HeldFacts
<1>2. /\ enc' = Jump(enc, opcode, l, m)
      /\ text' = Cat(Cat(text, Literals(opcode)), FieldsTo(l))
      /\ denied' = (\/ denied \/ Size(enc'.code) < Size(enc.code) + (Size(opcode) + 4)
                    \/ Size(enc.relocs) = kMaxRelocs)
      /\ place' = place /\ image' = NotYet
  BY Zenon DEF Branch, Compiling, Lost, Cat, Literals, FieldsTo, Size
<1>3. Core(enc, text, place) /\ denied \in BOOLEAN /\ (enc.failed => denied)
  BY DEF EInv
<1>4. Core(enc', text', place) /\ (enc'.failed => \/ enc.failed
          \/ Size(enc'.code) < Size(enc.code) + (Size(opcode) + 4) \/ Size(enc.relocs) = kMaxRelocs)
  BY <1>1, <1>2, <1>3, BranchCore, Zenon
<1>5. Core(enc', text', place')
  BY <1>2, <1>4, Zenon
<1>6. denied' \in BOOLEAN /\ (enc'.failed => denied')
  BY <1>2, <1>3, <1>4, Zenon
<1>7. Handed(enc', denied', image')
  BY <1>2, NotYetHanded, Zenon
<1> QED BY <1>5, <1>6, <1>7, Zenon DEF EInv

LEMMA NewLabelInv ==
  ASSUME EInv, NewLabel
  PROVE  EInv'
<1>1. /\ enc' = WithLabel(enc)
      /\ place' = IF Size(enc.labels) < kMaxLabels THEN Append(place, Unbound) ELSE place
      /\ denied' = (denied \/ Size(enc.labels) = kMaxLabels)
      /\ text' = text /\ image' = NotYet
  BY Zenon DEF NewLabel, Compiling, Size
<1>2. Core(enc, text, place) /\ denied \in BOOLEAN /\ (enc.failed => denied)
  BY DEF EInv
<1>3. Core(enc', text, place') /\ (enc'.failed => enc.failed \/ Size(enc.labels) = kMaxLabels)
  BY <1>1, <1>2, NewLabelCore, Zenon
<1>4. Core(enc', text', place')
  BY <1>1, <1>3, Zenon
<1>5. denied' \in BOOLEAN /\ (enc'.failed => denied')
  BY <1>1, <1>2, <1>3, Zenon
<1>6. Handed(enc', denied', image')
  BY <1>1, NotYetHanded, Zenon
<1> QED BY <1>4, <1>5, <1>6, Zenon DEF EInv

LEMMA BindLabelInv ==
  ASSUME EInv, NEW l \in Held, BindLabel(l)
  PROVE  EInv'
<1>1. l \in Nat /\ (l < Size(enc.labels) \/ denied)
  BY HeldFacts
<1>2. /\ enc' = Bound(enc, l)
      /\ place' = IF l < Size(place) THEN [place EXCEPT ![l + 1] = Size(text)] ELSE place
      /\ text' = text /\ denied' = denied /\ image' = NotYet
  BY Zenon DEF BindLabel, Compiling, Size
<1>3. Core(enc, text, place) /\ denied \in BOOLEAN /\ (enc.failed => denied)
  BY DEF EInv
<1>4. Core(enc', text, place') /\ (enc'.failed => enc.failed \/ ~ (l < Size(enc.labels)))
  BY <1>1, <1>2, <1>3, BindCore, Zenon
<1>5. Core(enc', text', place')
  BY <1>2, <1>4, Zenon
<1>6. denied' \in BOOLEAN /\ (enc'.failed => denied')
  BY <1>1, <1>2, <1>3, <1>4, Zenon
<1>7. Handed(enc', denied', image')
  BY <1>2, NotYetHanded, Zenon
<1> QED BY <1>5, <1>6, <1>7, Zenon DEF EInv

LEMMA ResetInv ==
  ASSUME EInv, reset
  PROVE  EInv'
<1>1. enc \in Buffer
  BY DEF EInv, Core, Sound
<1>2. /\ enc' = [enc EXCEPT !.failed = FALSE, !.code = <<>>, !.labels = <<>>, !.relocs = <<>>]
      /\ text' = <<>> /\ place' = <<>> /\ denied' = FALSE /\ image' = NotYet
  BY Zenon DEF reset
<1>3. /\ enc' = [failed |-> FALSE, capacity |-> enc.capacity,
                 code |-> <<>>, labels |-> <<>>, relocs |-> <<>>]
      /\ enc.capacity \in Nat
  BY <1>1, <1>2, Zenon DEF Buffer
<1>4. Core(enc', <<>>, <<>>) /\ enc'.failed = FALSE
  BY <1>3, EmptyCore, Zenon
<1>5. Core(enc', text', place') /\ denied' \in BOOLEAN /\ (enc'.failed => denied')
  BY <1>2, <1>4, Zenon
<1>6. Handed(enc', denied', image')
  BY <1>2, NotYetHanded, Zenon
<1> QED BY <1>5, <1>6, Zenon DEF EInv

LEMMA FinishInv ==
  ASSUME EInv, NEW mapped \in BOOLEAN, Finish(mapped)
  PROVE  EInv'
<1>1. /\ image' = IF Resolves(enc) /\ enc.code # <<>> /\ mapped
                  THEN [kind |-> "code", code |-> Patched(enc), size |-> MapSize(Len(enc.code))]
                  ELSE Null
      /\ denied' = (denied \/ ~ mapped)
      /\ enc' = enc /\ text' = text /\ place' = place
  BY Zenon DEF Finish
<1>2. Core(enc, text, place) /\ (enc.failed => denied)
  BY DEF EInv
<1>3. denied' \in BOOLEAN /\ (denied => denied')
  BY <1>1, Zenon
<1>4. Core(enc', text', place')
  BY <1>1, <1>2, Zenon
<1>5. Core(enc', text', place') /\ denied' \in BOOLEAN /\ (enc'.failed => denied')
  BY <1>1, <1>2, <1>3, <1>4, Zenon
<1>6. Handed(enc, denied', image')
  <2> DEFINE c == Patched(enc)
             z == MapSize(Len(enc.code))
             x == [kind |-> "code", code |-> c, size |-> z]
  <2>1. CASE Resolves(enc) /\ enc.code # <<>> /\ mapped
    <3>1. image' = x
      BY <1>1, <2>1, Zenon
    <3> HIDE DEF c, z
    <3>2. x.kind = "code" /\ x.code = c /\ x.size = z /\ x # Null
      <4>1. x.kind = "code" /\ x.code = c /\ x.size = z /\ Null.kind = "nullptr"
        BY DEF Null
      <4> QED BY <4>1
    <3> HIDE DEF x
    <3>3. Handed(enc, denied', x)
      BY <2>1, <3>2, Zenon DEF Handed, c, z
    <3> QED BY <3>1, <3>3, Zenon
  <2>2. CASE ~ (Resolves(enc) /\ enc.code # <<>> /\ mapped)
    <3>1. image' = Null
      BY <1>1, <2>2, Zenon
    <3>2. Null.kind # "code"
      <4>1. Null.kind = "nullptr"
        BY DEF Null
      <4> QED BY <4>1
    <3>3. denied' \/ enc.code = <<>> \/ ~ Resolves(enc)
      BY <1>1, <2>2, Zenon
    <3>4. Handed(enc, denied', Null)
      BY <3>2, <3>3, Zenon DEF Handed
    <3> QED BY <3>1, <3>4, Zenon
  <2> QED BY <2>1, <2>2, Zenon
<1>7. Handed(enc', denied', image')
  BY <1>1, <1>6, Zenon
<1> QED BY <1>5, <1>7, Zenon DEF EInv

\* An encoder of its own for each function.
LEMMA ConstructedCore ==
  ASSUME NEW mapped \in BOOLEAN
  PROVE  Core(Constructed(mapped), <<>>, <<>>) /\ Constructed(mapped).failed = (~ mapped)
<1> DEFINE c == IF mapped THEN PageSize ELSE 0
           b == ~ mapped
<1>1. c \in Nat /\ b \in BOOLEAN
  BY EncoderConstants
<1>2. Constructed(mapped) =
        [failed |-> b, capacity |-> c, code |-> <<>>, labels |-> <<>>, relocs |-> <<>>]
  BY Zenon DEF Constructed
<1> HIDE DEF c, b
<1>3. Core(Constructed(mapped), <<>>, <<>>) /\ Constructed(mapped).failed = b
  BY <1>1, <1>2, EmptyCore, Zenon
<1> QED BY <1>3, Zenon DEF b

LEMMA EInvInit == Init => EInv
<1> SUFFICES ASSUME Init PROVE EInv
  OBVIOUS
<1>1. PICK mapped \in BOOLEAN : enc = Constructed(mapped) /\ denied = (~ mapped)
  BY Zenon DEF Init
<1>2. text = <<>> /\ place = <<>> /\ image = NotYet
  BY Zenon DEF Init
<1>3. Core(enc, text, place) /\ denied \in BOOLEAN /\ (enc.failed => denied)
  BY <1>1, <1>2, ConstructedCore, Zenon
<1> QED BY <1>2, <1>3, NotYetHanded, Zenon DEF EInv

LEMMA NextFunctionInv ==
  ASSUME NEW mapped \in BOOLEAN, NextFunction(mapped)
  PROVE  EInv'
<1>1. /\ enc' = Constructed(mapped) /\ denied' = (~ mapped)
      /\ text' = <<>> /\ place' = <<>> /\ image' = NotYet
  BY Zenon DEF NextFunction, Fresh
<1>2. Core(enc', text', place') /\ denied' \in BOOLEAN /\ (enc'.failed => denied')
  BY <1>1, ConstructedCore, Zenon
<1>3. Handed(enc', denied', image')
  BY <1>1, NotYetHanded, Zenon
<1> QED BY <1>2, <1>3, Zenon DEF EInv

LEMMA EInvNext == EInv /\ [Next]_vars => EInv'
<1> SUFFICES ASSUME EInv, [Next]_vars PROVE EInv'
  OBVIOUS
<1>1. CASE \E n \in EmitSizes, mapped \in BOOLEAN : Emit([i \in 1..n |-> 144], mapped)
  BY <1>1, EmitInv, Zenon
<1>2. CASE \E opcode \in BranchOpcodes, l \in Held, m \in [1..3 -> BOOLEAN] : Branch(opcode, l, m)
  BY <1>2, BranchInv, Zenon
<1>3. CASE NewLabel
  BY <1>3, NewLabelInv
<1>4. CASE \E l \in Held : BindLabel(l)
  BY <1>4, BindLabelInv, Zenon
<1>5. CASE reset
  BY <1>5, ResetInv
<1>6. CASE \E mapped \in BOOLEAN : Finish(mapped) \/ NextFunction(mapped)
  BY <1>6, FinishInv, NextFunctionInv, Zenon
<1>7. CASE UNCHANGED vars
  BY <1>7, Zenon DEF EInv, vars
<1> QED BY <1>1, <1>2, <1>3, <1>4, <1>5, <1>6, <1>7, Zenon DEF Next

-------------------------------------------------------------------------------
(* What compile_function hands out.                                        *)

LEMMA LenOfFunction ==
  ASSUME NEW n \in Nat, NEW g(_)
  PROVE  Len([j \in 1..n |-> g(j)]) = n
<1> DEFINE f == [j \in 1..n |-> g(j)]
           S == {g(j) : j \in 1..n}
<1>1. f \in [1..n -> S] /\ DOMAIN f = 1..n
  OBVIOUS
<1> HIDE DEF f, S
<1>2. f \in Seq(S)
  BY <1>1, FunctionIsSeq, Zenon
<1>3. Len(f) = n
  BY <1>1, <1>2, LenProperties
<1> QED BY <1>3 DEF f

\* The relocations whose field the byte j is in.
Covering(e, j) == {k \in 1..Size(e.relocs) : j - 1 - e.relocs[k].patch \in 0..3}

LEMMA PatchedFacts ==
  ASSUME NEW e, e.code \in Code
  PROVE  /\ Size(Patched(e)) = Size(e.code)
         /\ \A j \in 1..Size(e.code) : Covering(e, j) = {} => Patched(e)[j] = e.code[j]
         /\ \A j \in 1..Size(e.code), k \in Nat :
              Covering(e, j) = {k} =>
                Patched(e)[j] = Rel32(Rel(e, e.relocs[k]))[j - e.relocs[k].patch]
<1> DEFINE Best(j) == CHOOSE k \in Covering(e, j) : \A h \in Covering(e, j) : h <= k
           At(j) == IF Covering(e, j) = {} THEN e.code[j]
                    ELSE Rel32(Rel(e, e.relocs[Best(j)]))[j - e.relocs[Best(j)].patch]
           n == Size(e.code)
<1>1. Patched(e) = [j \in 1..n |-> At(j)]
  BY Zenon DEF Patched, Covering, Size
<1>2. n \in Nat
  BY CodeSize
<1>3. Size(Patched(e)) = n
  <2> HIDE DEF At
  <2>1. Len([j \in 1..n |-> At(j)]) = n
    BY <1>2, LenOfFunction
  <2> QED BY <1>1, <2>1, Zenon DEF Size
<1>4. ASSUME NEW j \in 1..n PROVE Patched(e)[j] = At(j)
  <2> HIDE DEF At
  <2> QED BY <1>1, Zenon
<1>5. ASSUME NEW j \in 1..n, NEW k \in Nat, Covering(e, j) = {k} PROVE Best(j) = k
  BY <1>5
<1>6. ASSUME NEW j \in 1..n, NEW k \in Nat, Covering(e, j) = {k}
      PROVE  Patched(e)[j] = Rel32(Rel(e, e.relocs[k]))[j - e.relocs[k].patch]
  <2>1. Covering(e, j) # {}
    BY <1>6
  <2>2. Best(j) = k
    BY <1>5, <1>6
  <2> HIDE DEF Best
  <2>3. At(j) = Rel32(Rel(e, e.relocs[k]))[j - e.relocs[k].patch]
    BY <2>1, <2>2, Zenon
  <2> QED BY <1>4, <2>3, Zenon
<1> QED BY <1>3, <1>4, <1>6, Zenon

\* No relocation touches a literal byte.
LEMMA LiteralUncovered ==
  ASSUME NEW e, NEW t, Mirrors(e, t), e.relocs \in Table,
         NEW j \in 1..Size(t), Size(t) \in Nat, t[j] \in Literal
  PROVE  Covering(e, j) = {}
<1> SUFFICES ASSUME NEW k \in 1..Size(e.relocs), j - 1 - e.relocs[k].patch \in 0..3
             PROVE  FALSE
  BY Zenon DEF Covering
<1> DEFINE q == e.relocs[k].patch
           l == e.relocs[k].label
           i == j - 1 - q
<1>1. q \in Nat /\ l \in Nat
  BY TableFacts, Zenon
<1>2. Patches(e.relocs[k], t)
  BY Zenon DEF Mirrors, Relocs
<1>3. i \in 0..3
  OBVIOUS
<1>4. t[q + 1 + i] = [to |-> l, i |-> i]
  <2> HIDE DEF i
  <2> QED BY <1>2, <1>3, Zenon DEF Patches
<1>5. q + 1 + i = j
  <2> HIDE DEF q
  <2> QED BY <1>1
<1>6. [to |-> l, i |-> i] \in Field
  <2> HIDE DEF l, i
  <2> QED BY <1>1, <1>3 DEF Field
<1> HIDE DEF q, l, i
<1>7. t[j] \in Field
  BY <1>4, <1>5, <1>6
<1> QED BY <1>7, ItemKinds

\* One relocation, its own, patches a byte of a branch field.
OwnReloc(e, t, j) ==
  \E k \in 1..Size(e.relocs) :
    /\ Covering(e, j) = {k} /\ e.relocs[k].label = t[j].to
    /\ e.relocs[k].patch = j - 1 - t[j].i

LEMMA FieldCovered ==
  ASSUME NEW e, NEW t, Mirrors(e, t), e.relocs \in Table,
         NEW j \in 1..Size(t), Size(t) \in Nat, t[j] \in Field
  PROVE  OwnReloc(e, t, j)
<1>1. PICK k \in 1..Size(e.relocs) :
        e.relocs[k].label = t[j].to /\ e.relocs[k].patch = j - 1 - t[j].i
  BY Zenon DEF Mirrors, Fields
<1>2. t[j].i \in 0..3 /\ t[j].to \in Nat
  BY DEF Field
<1>3. j - 1 - e.relocs[k].patch \in 0..3
  <2> DEFINE x == t[j].i
             q == e.relocs[k].patch
  <2>1. x \in 0..3 /\ q = j - 1 - x
    BY <1>1, <1>2, Zenon
  <2> HIDE DEF x, q
  <2>2. j - 1 - q \in 0..3
    BY <2>1
  <2> QED BY <2>2 DEF q
<1>4. ASSUME NEW h \in 1..Size(e.relocs), j - 1 - e.relocs[h].patch \in 0..3
      PROVE  h = k
  <2> DEFINE q == e.relocs[h].patch
             l == e.relocs[h].label
             i == j - 1 - q
  <2>1. q \in Nat /\ l \in Nat
    BY TableFacts, Zenon
  <2>2. Patches(e.relocs[h], t)
    BY Zenon DEF Mirrors, Relocs
  <2>3. i \in 0..3
    BY <1>4
  <2>4. t[q + 1 + i] = [to |-> l, i |-> i]
    <3> HIDE DEF i
    <3> QED BY <2>2, <2>3, Zenon DEF Patches
  <2>5. q + 1 + i = j
    <3> HIDE DEF q
    <3> QED BY <2>1
  <2>6. t[j].i = i
    <3> HIDE DEF q, l, i
    <3>1. t[j] = [to |-> l, i |-> i]
      BY <2>4, <2>5
    <3> QED BY <3>1
  <2>7. q = j - 1 - i
    <3> HIDE DEF q
    <3> QED BY <2>1
  <2>8. e.relocs[h].patch = e.relocs[k].patch
    <3> HIDE DEF i
    <3> QED BY <1>1, <2>6, <2>7, Zenon
  <2> QED BY <2>8, Zenon DEF Mirrors, Once
<1>5. Covering(e, j) = {k}
  BY <1>3, <1>4, Zenon DEF Covering
<1> QED BY <1>1, <1>5, Zenon DEF OwnReloc
\* The items of a program.
LEMMA ProgramFacts ==
  ASSUME NEW t \in Program
  PROVE  /\ Size(t) \in Nat /\ (Size(t) = 0 => t = <<>>)
         /\ \A j \in 1..Size(t) : t[j] \in Literal \/ t[j] \in Field
<1>1. t \in Seq(Item)
  BY DEF Program
<1>2. Len(t) \in Nat /\ \A j \in 1..Len(t) : t[j] \in Item
  BY <1>1, LenProperties, ElementOfSeq
<1>3. Len(t) = 0 => t = <<>>
  BY <1>1, EmptySeq
<1> QED BY <1>2, <1>3, Zenon DEF Size, Item

LEMMA ResolvesFacts ==
  ASSUME NEW e
  PROVE  Resolves(e) <=> /\ ~ e.failed /\ e.capacity > 0
                         /\ \A k \in 1..Size(e.relocs) : Resolvable(e, e.relocs[k])
BY Zenon DEF Resolves, Size

\* A byte of a branch field, patched: the distance to where the label was bound.
Jumps(x, j, to, i, p) ==
  /\ x = Rel32(p[to + 1] - (j + 3 - i))[i + 1]
  /\ to < Size(p) /\ p[to + 1] # Unbound

LEMMA LinkedField ==
  ASSUME NEW e, NEW t, NEW p, Core(e, t, p), Resolves(e),
         NEW j \in 1..Size(t), t[j] \in Field
  PROVE  Jumps(Patched(e)[j], j, t[j].to, t[j].i, p)
<1>1. Sound(e) /\ t \in Program /\ Mirrors(e, t) /\ e.labels = p
  BY ResolvesFacts, Zenon DEF Core
<1>2. e.relocs \in Table /\ e.code \in Code
  BY <1>1 DEF Sound, Buffer
<1>3. Size(t) \in Nat
  BY <1>1, ProgramFacts
<1>4. PICK k \in 1..Size(e.relocs) :
        /\ Covering(e, j) = {k} /\ e.relocs[k].label = t[j].to
        /\ e.relocs[k].patch = j - 1 - t[j].i
  <2>1. OwnReloc(e, t, j)
    BY <1>1, <1>2, <1>3, FieldCovered, Zenon
  <2> QED BY <2>1, Zenon DEF OwnReloc
<1> DEFINE x == t[j].i
           to == t[j].to
           q == e.relocs[k].patch
<1>5. x \in 0..3 /\ to \in Nat
  BY DEF Field
<1>6. k \in Nat
  <2>1. Size(e.relocs) \in Nat
    BY <1>2, TableFacts
  <2> QED BY <2>1
<1>7. j \in 1..Size(e.code)
  BY <1>1 DEF Mirrors, Bytes
<1>8. Patched(e)[j] = Rel32(Rel(e, e.relocs[k]))[j - q]
  BY <1>2, <1>4, <1>6, <1>7, PatchedFacts, Zenon
<1>9. Resolvable(e, e.relocs[k])
  BY ResolvesFacts, Zenon
<1>10. Rel(e, e.relocs[k]) = p[to + 1] - (q + 4)
  BY <1>1, <1>4, Zenon DEF Rel
<1>11. to < Size(p) /\ p[to + 1] # Unbound
  BY <1>1, <1>4, <1>9, Zenon DEF Resolvable, IsLabel, Size
<1>12. q = j - 1 - x
  BY <1>4
<1> HIDE DEF x, to, q
<1>13. j - q = x + 1 /\ q + 4 = j + 3 - x
  BY <1>5, <1>12
<1>14. Patched(e)[j] = Rel32(p[to + 1] - (j + 3 - x))[x + 1]
  <2> DEFINE w == p[to + 1]
             y == Patched(e)[j]
  <2>1. y = Rel32(w - (q + 4))[j - q]
    BY <1>8, <1>10, Zenon
  <2> HIDE DEF w, y
  <2>2. y = Rel32(w - (j + 3 - x))[x + 1]
    BY <2>1, <1>13
  <2> QED BY <2>2 DEF w, y
<1>15. Jumps(Patched(e)[j], j, to, x, p)
  BY <1>11, <1>14, Zenon DEF Jumps
<1> QED BY <1>15 DEF to, x

LEMMA LinkedLiteral ==
  ASSUME NEW e, NEW t, NEW p, Core(e, t, p), Resolves(e),
         NEW j \in 1..Size(t), t[j] \in Literal
  PROVE  Patched(e)[j] = t[j].b
<1>1. Sound(e) /\ t \in Program /\ Mirrors(e, t)
  BY ResolvesFacts, Zenon DEF Core
<1>2. e.relocs \in Table /\ e.code \in Code
  BY <1>1 DEF Sound, Buffer
<1>3. Size(t) \in Nat
  BY <1>1, ProgramFacts
<1>4. Covering(e, j) = {}
  BY <1>1, <1>2, <1>3, LiteralUncovered, Zenon
<1>5. j \in 1..Size(e.code) /\ e.code[j] = t[j].b
  BY <1>1, Zenon DEF Mirrors, Bytes
<1> QED BY <1>2, <1>4, <1>5, PatchedFacts, Zenon

LEMMA EInvLinked == EInv => LinkedAsAsked
<1> SUFFICES ASSUME EInv, image.kind = "code" PROVE LinkedAsAsked
  BY Zenon DEF LinkedAsAsked
<1>1. Core(enc, text, place) /\ Resolves(enc) /\ image.code = Patched(enc)
  BY Zenon DEF EInv, Handed
<1>2. text \in Program /\ enc.code \in Code /\ Size(enc.code) = Size(text)
  <2>1. Sound(enc) /\ text \in Program /\ Mirrors(enc, text)
    BY <1>1, ResolvesFacts, Zenon DEF Core
  <2> QED BY <2>1 DEF Sound, Buffer, Mirrors, Bytes
<1>3. Size(image.code) = Size(text)
  BY <1>1, <1>2, PatchedFacts
<1>4. ASSUME NEW j \in 1..Size(text)
      PROVE  /\ image.code[j] = IF IsBranch(j) THEN Rel32(Distance(j))[text[j].i + 1] ELSE text[j].b
             /\ IsBranch(j) => Placed(text[j].to)
  <2>1. CASE text[j] \in Literal
    <3>1. ~ IsBranch(j)
      BY <2>1, ItemKinds, Zenon DEF IsBranch
    <3>2. image.code[j] = text[j].b
      BY <1>1, <2>1, LinkedLiteral, Zenon
    <3> QED BY <3>1, <3>2, Zenon
  <2>2. CASE text[j] \in Field
    <3>1. IsBranch(j)
      BY <2>2, ItemKinds, Zenon DEF IsBranch
    <3>2. Jumps(Patched(enc)[j], j, text[j].to, text[j].i, place)
      BY <1>1, <2>2, LinkedField, Zenon
    <3>3. image.code[j] = Rel32(Distance(j))[text[j].i + 1] /\ Placed(text[j].to)
      BY <1>1, <3>2, Zenon DEF Jumps, Distance, Placed, Size
    <3> QED BY <3>1, <3>3, Zenon
  <2> QED BY <1>2, <2>1, <2>2, ProgramFacts, Zenon
<1> QED BY <1>3, <1>4, Zenon DEF LinkedAsAsked, Size

LEMMA EInvImageHolds == EInv => ImageHoldsCode
<1> SUFFICES ASSUME EInv, image.kind = "code"
             PROVE  Len(image.code) <= image.size /\ image.size % PageSize = 0
  BY Zenon DEF ImageHoldsCode
<1>1. image.code = Patched(enc) /\ image.size = RoundUp(Size(enc.code))
  BY Zenon DEF EInv, Handed, MapSize, Size
<1>2. enc.code \in Code
  BY DEF EInv, Core, Sound, Buffer
<1> DEFINE n == Size(enc.code)
<1>3. n \in Nat /\ Size(image.code) = n
  BY <1>1, <1>2, CodeSize, PatchedFacts
<1>4. RoundUp(n) >= n /\ RoundUp(n) % PageSize = 0 /\ RoundUp(n) \in Nat
  BY <1>3, RoundUpFacts
<1>5. Size(image.code) <= image.size /\ image.size % PageSize = 0
  <2> HIDE DEF n
  <2>1. image.size = RoundUp(n)
    BY <1>1 DEF n
  <2> QED BY <1>3, <1>4, <2>1
<1> QED BY <1>5, Zenon DEF Size

\* A relocation that resolve_labels refuses is a branch with no target in reach.
LEMMA UnresolvedBranch ==
  ASSUME NEW e, NEW t, NEW p, Core(e, t, p), ~ e.failed,
         NEW k \in 1..Size(e.relocs), ~ Resolvable(e, e.relocs[k])
  PROVE  \E j \in 1..Size(t) :
           /\ t[j] \in Field
           /\ (t[j].to < Size(p) /\ p[t[j].to + 1] # Unbound) =>
                p[t[j].to + 1] - (j + 3 - t[j].i) \notin -(RelMax + 1)..RelMax
<1>1. Sound(e) /\ t \in Program /\ Mirrors(e, t) /\ e.labels = p
  BY Zenon DEF Core
<1>2. e.relocs \in Table /\ Size(e.code) = Size(t)
  BY <1>1 DEF Sound, Buffer, Mirrors, Bytes
<1>3. Size(t) \in Nat
  BY <1>1, ProgramFacts
<1> DEFINE q == e.relocs[k].patch
           l == e.relocs[k].label
           j == q + 1
<1>4. q \in Nat /\ l \in Nat
  BY <1>2, TableFacts, Zenon
<1>5. Patches(e.relocs[k], t)
  BY <1>1, Zenon DEF Mirrors, Relocs
<1>6. \A i \in 0..3 : q + 1 + i <= Size(t) /\ t[q + 1 + i] = [to |-> l, i |-> i]
  BY <1>5, Zenon DEF Patches
<1>7. ~ Resolvable(e, e.relocs[k]) /\ Rel(e, e.relocs[k]) = p[l + 1] - (q + 4)
  BY <1>1, Zenon DEF Rel
<1>8. (l < Size(p) /\ p[l + 1] # Unbound /\ q + 4 <= Size(e.code)) =>
        p[l + 1] - (q + 4) \notin -(RelMax + 1)..RelMax
  BY <1>1, <1>7, Zenon DEF Resolvable, IsLabel, Size
<1> HIDE DEF q, l
<1>9. t[j] = [to |-> l, i |-> 0] /\ q + 4 <= Size(t) /\ j \in 1..Size(t)
  <2>1. q + 1 + 0 <= Size(t) /\ t[q + 1 + 0] = [to |-> l, i |-> 0] /\ q + 1 + 3 <= Size(t)
    BY <1>6
  <2>2. q + 1 + 0 = q + 1 /\ q + 1 + 3 = q + 4
    BY <1>4
  <2> QED BY <2>1, <2>2, <1>3, <1>4
<1>10. t[j] \in Field /\ t[j].to = l /\ t[j].i = 0
  BY <1>4, <1>9 DEF Field
<1>11. j + 3 - 0 = q + 4
  BY <1>4
<1> HIDE DEF j
<1>12. (l < Size(p) /\ p[l + 1] # Unbound) => p[l + 1] - (q + 4) \notin -(RelMax + 1)..RelMax
  BY <1>2, <1>8, <1>9, Zenon
<1>13. (t[j].to < Size(p) /\ p[t[j].to + 1] # Unbound) =>
         p[t[j].to + 1] - (j + 3 - t[j].i) \notin -(RelMax + 1)..RelMax
  BY <1>10, <1>11, <1>12
<1> QED BY <1>9, <1>10, <1>13, Zenon

LEMMA EInvRefused == EInv => RefusedForCause
<1> SUFFICES ASSUME EInv, image = Null, ~ denied PROVE RefusedForCause
  BY Zenon DEF RefusedForCause
<1>1. Core(enc, text, place) /\ ~ enc.failed /\ (enc.code = <<>> \/ ~ Resolves(enc))
  BY Zenon DEF EInv, Handed
<1>2. /\ enc.capacity \in Nat /\ Size(enc.code) <= enc.capacity /\ enc.code \in Code
      /\ Size(enc.code) = Size(text) /\ text \in Program
  <2>1. Sound(enc) /\ text \in Program /\ Mirrors(enc, text)
    BY <1>1, Zenon DEF Core
  <2> QED BY <2>1 DEF Sound, Buffer, Mirrors, Bytes
<1>3. CASE Size(enc.code) = 0
  BY <1>2, <1>3, ProgramFacts, Zenon DEF RefusedForCause
<1>4. CASE \E k \in 1..Size(enc.relocs) : ~ Resolvable(enc, enc.relocs[k])
  <2>1. PICK j \in 1..Size(text) :
          /\ text[j] \in Field
          /\ (text[j].to < Size(place) /\ place[text[j].to + 1] # Unbound) =>
               place[text[j].to + 1] - (j + 3 - text[j].i) \notin -(RelMax + 1)..RelMax
    BY <1>1, <1>4, UnresolvedBranch, Zenon
  <2>2. IsBranch(j)
    BY <2>1, ItemKinds, Zenon DEF IsBranch
  <2>3. j \in 1..Len(text) /\ (Placed(text[j].to) => Distance(j) \notin -(RelMax + 1)..RelMax)
    BY <2>1, Zenon DEF Placed, Distance, Size
  <2> QED BY <2>2, <2>3, Zenon DEF RefusedForCause
<1>5. Size(enc.code) \in Nat /\ (enc.code = <<>> => Size(enc.code) = 0)
  <2>1. Size(<<>>) = 0
    BY DEF Size
  <2> QED BY <1>2, <2>1, CodeSize
<1>6. ~ (enc.capacity > 0) => Size(enc.code) = 0
  BY <1>2, <1>5
<1> QED BY <1>1, <1>3, <1>4, <1>5, <1>6, ResolvesFacts, Zenon
-------------------------------------------------------------------------------
(* The theorems.                                                           *)

\* While nothing has failed the buffer is the program asked for, byte for byte and
\* relocation for relocation; everything that failed was denied (ana_encoder.cpp).
THEOREM EncoderInvariant == Spec => []EInv
BY EInvInit, EInvNext, PTL DEF Spec

\* No byte is written past the end of the mapping: ensure_capacity always makes
\* room for what is about to be written, or the write does not happen.
THEOREM EncoderNoOverrun == Spec => []NoOverrun
<1>1. EInv => NoOverrun
  BY Zenon DEF EInv, Core, Sound, NoOverrun, Size
<1> QED BY <1>1, EncoderInvariant, PTL

\* Code that compile_function hands out is the program asked for, every branch
\* leading to where its label was bound (resolve_labels).
THEOREM EncoderLinks == Spec => []LinkedAsAsked
BY EInvLinked, EncoderInvariant, PTL

\* The mapping of the finished code holds all of it and is whole pages.
THEOREM EncoderImage == Spec => []ImageHoldsCode
BY EInvImageHolds, EncoderInvariant, PTL

\* compile_function answers nullptr only for a reason: something was denied, the
\* function is empty, or a branch has no target in reach.
THEOREM EncoderRefusal == Spec => []RefusedForCause
BY EInvRefused, EncoderInvariant, PTL
===============================================================================

---------------------------- MODULE Layout_proofs -----------------------------
(***************************************************************************)
(* Places do not overlap: the blocks of the parser's arena (Arena), the    *)
(* fields of a class (ClassLayout), and the homes of the virtual registers *)
(* of a function in its frame (RegAlloc).                                  *)
(***************************************************************************)
EXTENDS RegAlloc, ClassLayout, Arena, FrameLayout_proofs, WellFoundedInduction

\* The time each prover has for a leaf.
USE SMTT(30), ZenonT(30)
-------------------------------------------------------------------------------
(* The arena.                                                              *)

Length(s) == Len(s)

\* Chunks and blocks, lists of them, and what alloc does to the lists.
ChunkRec == [base : Nat, total : Nat, used : Nat]
BlockRec == [at : Nat, n : Nat, al : Nat]
Chunks   == Seq(ChunkRec)
Blocks   == Seq(BlockRec)

Behind(c, cs)          == <<c>> \o cs
WithBlock(bs, b)       == Append(bs, b)
NewBlock(c, bytes, al) == [at |-> Aligned(c, al), n |-> bytes, al |-> al]
\* ds is cs with d in the first place.
Headed(cs, d, ds) ==
  ds \in Chunks /\ Length(ds) = Length(cs) /\ ds[1] = d /\ \A m \in 2..Length(cs) : ds[m] = cs[m]

\* What is carved from a chunk lies within it; two chunks share no byte; a block
\* lies in the used part of a chunk; two blocks share no byte.
Sound(c)     == c \in ChunkRec /\ 0 < c.total /\ ChunkHeader + c.used <= c.total
Clear(c, d)  == c.base + c.total <= d.base \/ d.base + d.total <= c.base
In(b, c)     == Data(c) <= b.at /\ b.at + b.n <= Data(c) + c.used
Beside(b, d) == b.at + b.n <= d.at \/ d.at + d.n <= b.at

ChunkList(cs) ==
  /\ cs \in Chunks
  /\ \A m \in 1..Length(cs) : Sound(cs[m])
  /\ \A m, k \in 1..Length(cs) : m # k => Clear(cs[m], cs[k])
BlockList(bs, cs) ==
  /\ bs \in Blocks
  /\ \A i \in 1..Length(bs) :
       /\ bs[i].at % bs[i].al = 0
       /\ \E m \in 1..Length(cs) : In(bs[i], cs[m])
       /\ \A j \in 1..(i - 1) : Beside(bs[i], bs[j])

ArenaInv == ChunkList(chunks) /\ BlockList(blocks, chunks)

\* Rounding up gives a multiple that is not below x.
LEMMA RoundUpFacts ==
  ASSUME NEW x \in Nat, NEW a \in Nat \ {0}
  PROVE  RoundUp(x, a) \in Nat /\ x <= RoundUp(x, a) /\ RoundUp(x, a) % a = 0
BY DEF RoundUp

\* No alignment that alloc accepts is zero.
LEMMA PowersFacts ==
  ASSUME NEW al \in Nat, PowerOfTwo(al)
  PROVE  al \in Nat \ {0}
BY DEF PowerOfTwo

\* Carving keeps a chunk sound; the block is aligned and behind all before it.
LEMMA CarveFacts ==
  ASSUME NEW c, Sound(c), NEW bytes \in Nat, NEW al \in Nat \ {0},
         Fits(c, bytes, al),
         NEW d, d = Carve(c, bytes, al),
         NEW b, b = NewBlock(c, bytes, al)
  PROVE  /\ Sound(d) /\ d.base = c.base /\ d.total = c.total /\ c.used <= d.used
         /\ b \in BlockRec /\ In(b, d) /\ b.at % b.al = 0 /\ Data(c) + c.used <= b.at
<1> DEFINE at == Aligned(c, al)
<1>1. /\ c.base \in Nat /\ c.total \in Nat /\ c.used \in Nat /\ 0 < c.total
      /\ ChunkHeader + c.used <= c.total /\ ChunkHeader \in Nat
      /\ c = [base |-> c.base, total |-> c.total, used |-> c.used]
  BY ArenaConstants DEF Sound, ChunkRec
<1>2. Data(c) = c.base + ChunkHeader /\ Capacity(c) = c.total - ChunkHeader
  BY DEF Data, Capacity
<1>3. at \in Nat /\ Data(c) + c.used <= at /\ at % al = 0
  <2>1. Data(c) + c.used \in Nat
    BY <1>1, <1>2
  <2> QED BY <2>1, RoundUpFacts, Zenon DEF Aligned
<1>4. Padding(c, al) = at - (Data(c) + c.used)
  BY DEF Padding
<1> HIDE DEF at
<1>5. Padding(c, al) \in Nat /\ c.used + Padding(c, al) + bytes <= c.total - ChunkHeader
  BY <1>1, <1>2, <1>3, <1>4 DEF Fits
<1> DEFINE u == c.used + Padding(c, al) + bytes
<1>6. d = [base |-> c.base, total |-> c.total, used |-> u]
  BY <1>1 DEF Carve
<1>7. u \in Nat /\ c.used <= u /\ ChunkHeader + u <= c.total /\ at + bytes = Data(c) + u
  BY <1>1, <1>2, <1>3, <1>4, <1>5
<1> HIDE DEF u
<1>8. d.base = c.base /\ d.total = c.total /\ d.used = u
  BY <1>6
<1>9. d \in ChunkRec
  BY <1>1, <1>6, <1>7 DEF ChunkRec
<1>10. Sound(d)
  BY <1>1, <1>7, <1>8, <1>9 DEF Sound
<1>11. b.at = at /\ b.n = bytes /\ b.al = al /\ b \in BlockRec
  BY <1>3 DEF BlockRec, NewBlock, at
<1>12. Data(d) = Data(c)
  BY <1>8 DEF Data
<1>13. In(b, d)
  BY <1>1, <1>2, <1>3, <1>7, <1>8, <1>11, <1>12 DEF In
<1> QED BY <1>3, <1>7, <1>8, <1>10, <1>11, <1>13

\* A block carved from the first chunk of a list.
LEMMA Carved ==
  ASSUME NEW cs, NEW bs, ChunkList(cs), BlockList(bs, cs), 0 < Length(cs),
         NEW bytes \in Nat, NEW al \in Nat \ {0}, Fits(cs[1], bytes, al),
         NEW ds, Headed(cs, Carve(cs[1], bytes, al), ds),
         NEW es, es = WithBlock(bs, NewBlock(cs[1], bytes, al))
  PROVE  ChunkList(ds) /\ BlockList(es, ds)
<1> DEFINE n == Length(cs)
           c == cs[1]
           d == ds[1]
           b == NewBlock(c, bytes, al)
           N == Length(bs)
<1>0. ds \in Chunks /\ Length(ds) = n /\ d = Carve(c, bytes, al) /\ \A m \in 2..n : ds[m] = cs[m]
  BY DEF Headed
<1>1. n \in Nat /\ 1 \in 1..n /\ \A m \in 1..n : m = 1 \/ m \in 2..n
  BY DEF ChunkList, Chunks, Length
<1>2. /\ \A m \in 1..n : Sound(cs[m])
      /\ \A m, k \in 1..n : m # k => Clear(cs[m], cs[k])
  BY DEF ChunkList
<1> HIDE DEF n
<1>3. /\ Sound(d) /\ d.base = c.base /\ d.total = c.total /\ c.used <= d.used
      /\ b \in BlockRec /\ In(b, d) /\ b.at % b.al = 0 /\ Data(c) + c.used <= b.at
  BY <1>0, <1>1, <1>2, CarveFacts
<1> HIDE DEF b
<1>4. \A m \in 1..n : Sound(ds[m]) /\ ds[m].base = cs[m].base /\ ds[m].total = cs[m].total
  BY <1>0, <1>1, <1>2, <1>3 DEF n
<1>5. ChunkList(ds)
  BY <1>0, <1>2, <1>4 DEF ChunkList, Clear, n
<1>6. /\ es \in Blocks /\ N \in Nat /\ Length(es) = N + 1 /\ es[N + 1] = b
      /\ \A i \in 1..N : es[i] = bs[i] /\ bs[i] \in BlockRec
  BY <1>3 DEF BlockList, Blocks, WithBlock, Length, b
<1>7. ChunkHeader \in Nat
  BY ArenaConstants
<1>8. \A m \in 1..n : Data(cs[m]) = cs[m].base + ChunkHeader /\ Data(ds[m]) = Data(cs[m])
  BY <1>4 DEF Data
<1> HIDE DEF N
<1>9. ASSUME NEW i \in 1..N
      PROVE  (\E m \in 1..n : In(bs[i], ds[m])) /\ Beside(b, bs[i])
  <2>1. PICK m \in 1..n : In(bs[i], cs[m])
    BY DEF BlockList, n, N
  <2>2. bs[i].at \in Nat /\ bs[i].n \in Nat /\ b.at \in Nat /\ b.n \in Nat
    BY <1>3, <1>6 DEF BlockRec
  <2>3. /\ cs[m].base \in Nat /\ cs[m].total \in Nat /\ cs[m].used \in Nat
        /\ ChunkHeader + cs[m].used <= cs[m].total
    BY <1>2 DEF Sound, ChunkRec
  <2>4. /\ c.base \in Nat /\ c.total \in Nat /\ c.used \in Nat /\ d.used \in Nat
        /\ ChunkHeader + d.used <= c.total /\ Data(c) = c.base + ChunkHeader
        /\ Data(d) = c.base + ChunkHeader
    BY <1>1, <1>2, <1>3, <1>8 DEF Sound, ChunkRec
  <2>5. /\ Data(cs[m]) <= bs[i].at
        /\ bs[i].at + bs[i].n <= Data(cs[m]) + cs[m].used
        /\ Data(cs[m]) = cs[m].base + ChunkHeader
    BY <2>1, <1>8 DEF In
  <2>6. c.base + ChunkHeader <= b.at /\ b.at + b.n <= c.base + ChunkHeader + d.used
    BY <1>3, <2>4 DEF In
  <2>7. CASE m = 1
    <3>1. Data(c) <= bs[i].at /\ bs[i].at + bs[i].n <= Data(c) + c.used
      BY <2>7, <2>5
    <3>2. Data(c) \in Nat /\ Data(d) = Data(c)
      BY <1>7, <2>4
    <3> HIDE DEF c, d
    <3>3. Data(d) <= bs[i].at /\ bs[i].at + bs[i].n <= Data(d) + d.used
      BY <3>1, <3>2, <1>3, <2>2, <2>4
    <3>4. bs[i].at + bs[i].n <= b.at
      BY <3>1, <3>2, <1>3, <2>2, <2>4
    <3>5. In(bs[i], d) /\ Beside(b, bs[i])
      BY <3>3, <3>4 DEF In, Beside
    <3> QED BY <1>1, <3>5 DEF d
  <2>8. CASE m \in 2..n
    <3>1. m # 1 /\ ds[m] = cs[m] /\ Clear(cs[m], c)
      BY <2>8, <1>0, <1>1, <1>2 DEF n
    <3>2. cs[m].base + cs[m].total <= c.base \/ c.base + c.total <= cs[m].base
      BY <3>1 DEF Clear
    <3>3. cs[m].base <= bs[i].at /\ bs[i].at + bs[i].n <= cs[m].base + cs[m].total
      BY <1>7, <2>2, <2>3, <2>5
    <3>4. c.base <= b.at /\ b.at + b.n <= c.base + c.total
      BY <1>7, <2>2, <2>4, <2>6
    <3> HIDE DEF c, d
    <3>5. bs[i].at + bs[i].n <= b.at \/ b.at + b.n <= bs[i].at
      BY <3>2, <3>3, <3>4, <2>2, <2>3, <2>4
    <3> QED BY <2>1, <3>1, <3>5 DEF Beside
  <2> QED BY <1>1, <2>7, <2>8
<1>10. ASSUME NEW i \in 1..(N + 1)
       PROVE  /\ es[i].at % es[i].al = 0
              /\ \E m \in 1..Length(ds) : In(es[i], ds[m])
              /\ \A j \in 1..(i - 1) : Beside(es[i], es[j])
  <2>1. CASE i = N + 1
    <3>1. \A j \in 1..(i - 1) : j \in 1..N
      BY <2>1, <1>6
    <3>2. es[i] = b /\ \A j \in 1..(i - 1) : es[j] = bs[j] /\ Beside(b, bs[j])
      BY <2>1, <3>1, <1>6, <1>9
    <3>3. 1 \in 1..Length(ds) /\ In(b, ds[1])
      BY <1>0, <1>1, <1>3
    <3> QED BY <3>2, <3>3, <1>3
  <2>2. CASE i \in 1..N
    <3>1. \A j \in 1..(i - 1) : j \in 1..N
      BY <2>2, <1>6
    <3>2. bs[i].at % bs[i].al = 0 /\ \A j \in 1..(i - 1) : Beside(bs[i], bs[j])
      BY <2>2 DEF BlockList, N
    <3> QED BY <2>2, <3>1, <3>2, <1>0, <1>6, <1>9
  <2>3. i = N + 1 \/ i \in 1..N
    BY <1>6
  <2> QED BY <2>1, <2>2, <2>3
<1>11. BlockList(es, ds)
  BY <1>6, <1>10 DEF BlockList
<1> QED BY <1>5, <1>11

\* Byte ranges without a common byte lie one before the other.
LEMMA FreeIsClear ==
  ASSUME NEW a \in Nat, NEW s \in Nat \ {0}, NEW b \in Nat, NEW t \in Nat \ {0},
         Span(a, s) \cap Span(b, t) = {}
  PROVE  a + s <= b \/ b + t <= a
<1>1. a \in Span(a, s) /\ b \in Span(b, t)
  BY DEF Span
<1>2. a \notin Span(b, t) /\ b \notin Span(a, s)
  BY <1>1
<1> QED BY <1>2 DEF Span

\* A chunk more, on free pages.
LEMMA Mapped ==
  ASSUME ChunkList(chunks), BlockList(blocks, chunks),
         NEW n \in Nat \ {0}, ChunkHeader <= n, NEW base \in FreeBases(n),
         NEW c, c = [base |-> base, total |-> n, used |-> 0],
         NEW cs, cs = Behind(c, chunks)
  PROVE  /\ ChunkList(cs) /\ BlockList(blocks, cs) /\ Sound(c)
         /\ Length(chunks) \in Nat /\ Length(cs) = Length(chunks) + 1 /\ cs[1] = c
         /\ \A m \in 2..Length(cs) : m - 1 \in 1..Length(chunks) /\ cs[m] = chunks[m - 1]
<1> DEFINE N == Length(chunks)
<1>1. PICK j \in 1..LastPage :
        /\ base = Page * j
        /\ \A m \in 1..N : Span(chunks[m].base, chunks[m].total) \cap Span(base, n) = {}
  BY DEF FreeBases, Length
<1>2. base \in Nat
  <2>1. Page \in Nat /\ j \in Nat
    BY ArenaConstants
  <2> QED BY <1>1, <2>1
<1>3. c.base = base /\ c.total = n /\ c.used = 0 /\ c \in ChunkRec
  BY <1>2 DEF ChunkRec
<1>4. ChunkHeader \in Nat
  BY ArenaConstants
<1>5. Sound(c)
  BY <1>3, <1>4 DEF Sound
<1>6. /\ N \in Nat /\ \A m \in 1..N : Sound(chunks[m])
      /\ \A m, k \in 1..N : m # k => Clear(chunks[m], chunks[k])
  BY DEF ChunkList, Chunks, Length
<1>7. /\ cs \in Chunks /\ Length(cs) = 1 + N
      /\ \A m \in 1..(1 + N) : cs[m] = IF m <= 1 THEN <<c>>[m] ELSE chunks[m - 1]
  <2>1. <<c>> \in Seq(ChunkRec) /\ Len(<<c>>) = 1
    BY <1>3
  <2> QED BY <2>1 DEF ChunkList, Chunks, Behind, Length
<1> HIDE DEF N
<1>8. cs[1] = c /\ \A m \in 2..Length(cs) : m - 1 \in 1..N /\ cs[m] = chunks[m - 1]
  <2>1. 1 \in 1..(1 + N) /\ <<c>>[1] = c
    BY <1>6
  <2>2. \A m \in 2..Length(cs) : m \in 1..(1 + N) /\ ~(m <= 1) /\ m - 1 \in 1..N
    BY <1>6, <1>7
  <2>3. cs[1] = c
    BY <1>7, <2>1
  <2>4. ASSUME NEW m \in 2..Length(cs) PROVE cs[m] = chunks[m - 1]
    BY <1>7, <2>2
  <2> QED BY <2>2, <2>3, <2>4
<1>9. \A m \in 1..Length(cs) : m = 1 \/ m \in 2..Length(cs)
  BY <1>6, <1>7
<1>10. ASSUME NEW m \in 1..N
       PROVE  Clear(c, chunks[m]) /\ Clear(chunks[m], c)
  <2>1. chunks[m].base \in Nat /\ chunks[m].total \in Nat \ {0}
    BY <1>6 DEF Sound, ChunkRec
  <2>2. chunks[m].base + chunks[m].total <= base \/ base + n <= chunks[m].base
    BY <1>1, <1>2, <2>1, FreeIsClear, Zenon
  <2> QED BY <2>2, <1>3 DEF Clear
<1>11. ChunkList(cs)
  <2>1. \A m \in 1..Length(cs) : Sound(cs[m])
    BY <1>5, <1>6, <1>8, <1>9, Zenon
  <2>2. ASSUME NEW m \in 1..Length(cs), NEW k \in 1..Length(cs), m # k
        PROVE  Clear(cs[m], cs[k])
    <3>1. CASE m = 1
      BY <2>2, <3>1, <1>8, <1>9, <1>10
    <3>2. CASE k = 1
      BY <2>2, <3>2, <1>8, <1>9, <1>10
    <3>3. CASE m \in 2..Length(cs) /\ k \in 2..Length(cs)
      <4>1. m - 1 # k - 1 /\ m - 1 \in 1..N /\ k - 1 \in 1..N
        BY <2>2, <3>3, <1>8
      <4> QED BY <3>3, <4>1, <1>6, <1>8, Zenon
    <3> QED BY <1>9, <3>1, <3>2, <3>3
  <2> QED BY <1>7, <2>1, <2>2 DEF ChunkList
<1>12. ASSUME NEW b, NEW m \in 1..N, In(b, chunks[m])
       PROVE  \E k \in 1..Length(cs) : In(b, cs[k])
  <2>1. m + 1 \in 2..Length(cs) /\ m + 1 \in 1..Length(cs) /\ (m + 1) - 1 = m
    BY <1>6, <1>7
  <2>2. cs[m + 1] = chunks[m]
    BY <1>8, <2>1
  <2> QED BY <1>12, <2>1, <2>2
<1>13. BlockList(blocks, cs)
  BY <1>12 DEF BlockList, N
<1>14. N \in Nat /\ Length(cs) = N + 1
  BY <1>6, <1>7
<1> QED BY <1>5, <1>8, <1>11, <1>13, <1>14 DEF N

\* The arena is empty.
LEMMA ArenaInvInit == ArenaInit => ArenaInv
<1> SUFFICES ASSUME ArenaInit PROVE ArenaInv
  OBVIOUS
<1>1. chunks = << >> /\ blocks = << >>
  BY DEF ArenaInit
<1>2. << >> \in Chunks /\ << >> \in Blocks /\ Length(<< >>) = 0
  BY DEF Chunks, Blocks, Length
<1>3. \A k \in 1..Length(<< >>) : FALSE
  BY <1>2
<1> QED BY <1>1, <1>2, <1>3 DEF ArenaInv, ChunkList, BlockList

\* alloc from the newest chunk.
LEMMA AllocStep ==
  ASSUME ArenaInv, NEW bytes \in Nat, NEW al \in Nat, alloc(bytes, al)
  PROVE  ArenaInv'
<1> DEFINE c == Carve(chunks[1], bytes, al)
           N == Length(chunks)
<1>1. /\ al \in Nat \ {0} /\ chunks # << >> /\ Fits(chunks[1], bytes, al)
      /\ chunks' = Behind(c, Tail(chunks))
      /\ blocks' = WithBlock(blocks, NewBlock(chunks[1], bytes, al))
  BY PowersFacts DEF alloc, Valid, Given, Behind, WithBlock, NewBlock
<1>2. ChunkList(chunks) /\ BlockList(blocks, chunks) /\ chunks \in Chunks
  BY DEF ArenaInv, ChunkList
<1>3. N \in Nat /\ 0 < N /\ 1 \in 1..N
  <2>1. N \in Nat \ {0}
    BY <1>1, <1>2 DEF Chunks, Length
  <2> QED BY <2>1
<1>4. /\ Tail(chunks) \in Chunks /\ Length(Tail(chunks)) = N - 1
      /\ \A i \in 1..Length(Tail(chunks)) : Tail(chunks)[i] = chunks[i + 1]
  BY <1>1, <1>2 DEF Chunks, Length
<1>5. c \in ChunkRec
  <2>1. Sound(chunks[1])
    BY <1>2, <1>3 DEF ChunkList
  <2>2. Sound(c)
    BY <1>1, <2>1, CarveFacts
  <2> QED BY <2>2 DEF Sound
<1> HIDE DEF c, N
<1>6. /\ chunks' \in Chunks /\ Length(chunks') = 1 + (N - 1)
      /\ \A m \in 1..(1 + (N - 1)) : chunks'[m] = IF m <= 1 THEN <<c>>[m] ELSE Tail(chunks)[m - 1]
  <2>1. <<c>> \in Seq(ChunkRec) /\ Len(<<c>>) = 1
    BY <1>5
  <2> QED BY <1>1, <1>4, <2>1 DEF Chunks, Behind, Length
<1>7. Length(chunks') = N /\ chunks'[1] = c
  <2>1. 1 + (N - 1) = N /\ 1 \in 1..(1 + (N - 1)) /\ <<c>>[1] = c
    BY <1>3
  <2> QED BY <1>6, <2>1
<1>8. ASSUME NEW m \in 2..N PROVE chunks'[m] = chunks[m]
  <2>1. /\ m \in 1..(1 + (N - 1)) /\ ~(m <= 1) /\ m - 1 \in 1..Length(Tail(chunks))
        /\ (m - 1) + 1 = m
    BY <1>3, <1>4
  <2> QED BY <1>4, <1>6, <2>1, Zenon
<1>9. Headed(chunks, c, chunks')
  BY <1>6, <1>7, <1>8 DEF Headed, N
<1>10. ChunkList(chunks') /\ BlockList(blocks', chunks')
  BY <1>1, <1>2, <1>3, <1>9, Carved DEF N, c
<1> QED BY <1>10 DEF ArenaInv, ChunkList, BlockList

\* A mapping has room for its header.
LEMMA MapSizeFacts ==
  ASSUME NEW size \in Nat \ {0}, MapSize(size) # 0
  PROVE  MapSize(size) \in Nat \ {0} /\ ChunkHeader <= MapSize(size)
<1> DEFINE need == size + ChunkHeader
           want == IF need > DefaultChunk THEN need ELSE DefaultChunk
<1>1. need \in Nat \ {0} /\ ChunkHeader <= need /\ DefaultChunk \in Nat /\ ChunkHeader \in Nat
  BY ArenaConstants
<1>2. Page \in Nat \ {0} /\ MapSize(size) = RoundUp(want, Page)
  BY ArenaConstants DEF MapSize
<1> HIDE DEF need
<1>3. want \in Nat /\ need <= want
  BY <1>1
<1> HIDE DEF want
<1>4. RoundUp(want, Page) \in Nat /\ want <= RoundUp(want, Page)
  BY <1>2, <1>3, RoundUpFacts
<1> QED BY <1>1, <1>2, <1>3, <1>4

\* alloc with a new chunk.
LEMMA AllocGrowStep ==
  ASSUME ArenaInv, NEW bytes \in Nat, NEW al \in Nat, alloc_grow(bytes, al)
  PROVE  ArenaInv'
<1> DEFINE n == MapSize(bytes + al)
<1>1. al \in Nat \ {0} /\ n # 0
  BY PowersFacts DEF alloc_grow, Valid
<1>2. PICK base \in FreeBases(n) :
        LET c == [base |-> base, total |-> n, used |-> 0]
        IN IF Fits(c, bytes, al) THEN Given(c, chunks, bytes, al)
           ELSE chunks' = <<c>> \o chunks /\ UNCHANGED blocks
  BY DEF alloc_grow
<1> DEFINE c == [base |-> base, total |-> n, used |-> 0]
           cs == Behind(c, chunks)
           N == Length(chunks)
<1>3. n \in Nat \ {0} /\ ChunkHeader <= n
  <2>1. bytes + al \in Nat \ {0}
    BY <1>1
  <2> QED BY <1>1, <2>1, MapSizeFacts
<1>4. chunks \in Chunks
  BY DEF ArenaInv, ChunkList
<1>5. /\ ChunkList(cs) /\ BlockList(blocks, cs) /\ Sound(c)
      /\ N \in Nat /\ Length(cs) = N + 1 /\ cs[1] = c
      /\ \A m \in 2..Length(cs) : m - 1 \in 1..N /\ cs[m] = chunks[m - 1]
  <2> HIDE DEF n
  <2>1. ChunkList(chunks) /\ BlockList(blocks, chunks)
    BY DEF ArenaInv
  <2> QED BY <1>3, <2>1, Mapped
<1>6. CASE ~Fits(c, bytes, al)
  <2>1. chunks' = cs /\ blocks' = blocks
    BY <1>2, <1>6 DEF Behind
  <2> HIDE DEF cs
  <2> QED BY <2>1, <1>5, Zenon DEF ArenaInv, ChunkList, BlockList
<1>7. CASE Fits(c, bytes, al)
  <2> DEFINE d == Carve(c, bytes, al)
  <2>1. chunks' = Behind(d, chunks) /\ blocks' = WithBlock(blocks, NewBlock(c, bytes, al))
    BY <1>2, <1>7 DEF Given, Behind, WithBlock, NewBlock
  <2> HIDE DEF c
  <2>2. d \in ChunkRec
    <3>1. Sound(d)
      BY <1>1, <1>5, <1>7, CarveFacts
    <3> QED BY <3>1 DEF Sound
  <2> HIDE DEF d, cs, N
  <2>3. /\ chunks' \in Chunks /\ Length(chunks') = 1 + N
        /\ \A m \in 1..(1 + N) : chunks'[m] = IF m <= 1 THEN <<d>>[m] ELSE chunks[m - 1]
    <3>1. <<d>> \in Seq(ChunkRec) /\ Len(<<d>>) = 1
      BY <2>2
    <3> QED BY <1>4, <2>1, <3>1 DEF Chunks, Behind, Length, N
  <2>4. 0 < Length(cs) /\ Length(chunks') = Length(cs) /\ chunks'[1] = d
    <3>1. 1 \in 1..(1 + N) /\ <<d>>[1] = d
      BY <1>5
    <3>2. chunks'[1] = d
      BY <2>3, <3>1
    <3> QED BY <1>5, <2>3, <3>2
  <2>5. ASSUME NEW m \in 2..Length(cs) PROVE chunks'[m] = cs[m]
    <3>1. m \in 1..(1 + N) /\ ~(m <= 1)
      BY <1>5
    <3> QED BY <1>5, <2>3, <3>1
  <2>6. Headed(cs, d, chunks')
    BY <2>3, <2>4, <2>5 DEF Headed
  <2>7. ChunkList(chunks') /\ BlockList(blocks', chunks')
    <3>1. Fits(cs[1], bytes, al) /\ Headed(cs, Carve(cs[1], bytes, al), chunks')
      BY <1>5, <1>7, <2>6, Zenon DEF d
    <3>2. blocks' = WithBlock(blocks, NewBlock(cs[1], bytes, al))
      BY <1>5, <2>1, Zenon
    <3> QED BY <1>1, <1>5, <2>4, <3>1, <3>2, Carved, Zenon
  <2> QED BY <2>7 DEF ArenaInv, ChunkList, BlockList
<1> QED BY <1>6, <1>7

\* Every step of the arena keeps the invariant.
LEMMA ArenaStep ==
  ASSUME ArenaInv, [ArenaNext]_arenavars
  PROVE  ArenaInv'
<1>1. ASSUME NEW r \in Requests, alloc(r[1], r[2]) \/ alloc_grow(r[1], r[2])
      PROVE  ArenaInv'
  <2>1. r[1] \in Nat /\ r[2] \in Nat
    BY ArenaConstants
  <2> QED BY <1>1, <2>1, AllocStep, AllocGrowStep
<1>2. CASE reset
  <2>1. chunks' = << >> /\ blocks' = << >>
    BY <1>2 DEF reset
  <2>2. << >> \in Chunks /\ << >> \in Blocks /\ Length(<< >>) = 0
    BY DEF Chunks, Blocks, Length
  <2>3. \A k \in 1..Length(<< >>) : FALSE
    BY <2>2
  <2> QED BY <2>1, <2>2, <2>3 DEF ArenaInv, ChunkList, BlockList
<1>3. CASE UNCHANGED arenavars
  BY <1>3 DEF arenavars, ArenaInv, ChunkList, BlockList
<1> QED BY <1>1, <1>2, <1>3 DEF ArenaNext

\* Chunks and blocks are apart in every reachable state.
THEOREM ArenaInvariant == ArenaSpec => []ArenaInv
<1>1. ArenaInv /\ [ArenaNext]_arenavars => ArenaInv'
  BY ArenaStep
<1> QED BY ArenaInvInit, <1>1, PTL DEF ArenaSpec

\* Blocks of the arena are aligned, inside the payload of a mapped chunk and share
\* no byte, for any page size, chunk size and sequence of requests, and wherever
\* the kernel puts the chunks.
THEOREM ArenaBlocksPrivate == ArenaSpec => []BlocksPrivate
<1>1. ArenaInv => BlocksPrivate
  <2> SUFFICES ASSUME ArenaInv, NEW i \in 1..Length(blocks)
               PROVE  /\ blocks[i].at % blocks[i].al = 0
                      /\ \E m \in 1..Length(chunks) :
                           Span(blocks[i].at, blocks[i].n)
                             \subseteq Span(Data(chunks[m]), Capacity(chunks[m]))
                      /\ \A j \in 1..(i - 1) :
                           Span(blocks[i].at, blocks[i].n)
                             \cap Span(blocks[j].at, blocks[j].n) = {}
    BY Zenon DEF BlocksPrivate, Length
  <2>1. blocks \in Blocks /\ BlockList(blocks, chunks) /\ ChunkList(chunks)
    BY DEF ArenaInv, BlockList
  <2>2. Length(blocks) \in Nat /\ \A j \in 1..Length(blocks) : blocks[j].at \in Nat /\ blocks[j].n \in Nat
    <3>1. Length(blocks) \in Nat /\ \A j \in 1..Length(blocks) : blocks[j] \in BlockRec
      BY <2>1 DEF Blocks, Length
    <3> QED BY <3>1 DEF BlockRec
  <2>3. blocks[i].at % blocks[i].al = 0
    BY <2>1 DEF BlockList
  <2>4. \E m \in 1..Length(chunks) :
          Span(blocks[i].at, blocks[i].n)
            \subseteq Span(Data(chunks[m]), Capacity(chunks[m]))
    <3>1. PICK m \in 1..Length(chunks) : In(blocks[i], chunks[m])
      BY <2>1 DEF BlockList
    <3>2. /\ chunks[m].base \in Nat /\ chunks[m].total \in Nat /\ chunks[m].used \in Nat
          /\ ChunkHeader + chunks[m].used <= chunks[m].total /\ ChunkHeader \in Nat
      BY <2>1, ArenaConstants DEF ChunkList, Sound, ChunkRec
    <3>3. /\ chunks[m].base + ChunkHeader <= blocks[i].at
          /\ blocks[i].at + blocks[i].n <= chunks[m].base + ChunkHeader + chunks[m].used
      BY <3>1 DEF In, Data
    <3>4. Span(blocks[i].at, blocks[i].n)
            \subseteq Span(Data(chunks[m]), Capacity(chunks[m]))
      BY <2>2, <3>2, <3>3 DEF Span, Data, Capacity
    <3> QED BY <3>4
  <2>5. ASSUME NEW j \in 1..(i - 1)
        PROVE  Span(blocks[i].at, blocks[i].n) \cap Span(blocks[j].at, blocks[j].n) = {}
    <3>1. j \in 1..Length(blocks)
      BY <2>2
    <3>2. \/ blocks[i].at + blocks[i].n <= blocks[j].at
          \/ blocks[j].at + blocks[j].n <= blocks[i].at
      BY <2>1 DEF BlockList, Beside
    <3> QED BY <2>2, <3>1, <3>2 DEF Span
  <2> QED BY <2>3, <2>4, <2>5
<1> QED BY ArenaInvariant, <1>1, PTL
-------------------------------------------------------------------------------
(* The fields of a class.                                                  *)

\* Every non-empty set of naturals has a least element.
LEMMA LeastNat ==
  ASSUME NEW T \in SUBSET Nat, T # {}
  PROVE  \E x \in T : \A y \in T : x <= y
<1> DEFINE R == OpToRel(<, Nat)
<1>1. \E x \in T : \A y \in T : ~(<<y, x>> \in R)
  BY NatLessThanWellFounded, WFMin, Zenon
<1>2. \A x, y \in T : y < x => <<y, x>> \in R
  BY Zenon DEF OpToRel
<1>3. \E x \in T : \A y \in T : ~(y < x)
  BY <1>1, <1>2, Zenon
<1> QED BY <1>3

\* A field, and a table of them.
FieldRec == [size : {4, 8}, offset : Nat]
Table    == Seq(FieldRec)
Class    == [fields : Table, size : Nat]
ClassSeq == Seq(Class)
Size(s)  == Len(s)

\* Where parse_class has got to after i fields.
End(fs, i) == IF i = 0 THEN 8 ELSE fs[i].offset + fs[i].size

\* Every field starts at the first multiple of its size that is free.
Chained(fs) ==
  \A i \in 1..Size(fs) : fs[i].offset = Align(End(fs, i - 1), fs[i].size)
\* Fields follow each other.
Rising(fs) ==
  \A i \in 1..Size(fs) : /\ 8 <= fs[i].offset
                         /\ \A j \in 1..(i - 1) : End(fs, j) <= fs[i].offset
Within(fs, n) == 8 <= n /\ \A i \in 1..Size(fs) : End(fs, i) <= n

Placed(c) == c \in Class /\ Chained(c.fields) /\ Rising(c.fields) /\ Within(c.fields, c.size)

\* Align is the least multiple of the size that is not below n.
LEMMA AlignFacts ==
  ASSUME NEW n \in Nat, NEW sz \in {4, 8}
  PROVE  /\ Align(n, sz) \in Nat /\ n <= Align(n, sz) /\ Align(n, sz) % sz = 0
         /\ Align(n, sz) < n + sz
BY DEF Align

\* The second pass finds the ends that the first one left.
LEMMA ResolvedEnds ==
  ASSUME NEW fs \in Table, Chained(fs)
  PROVE  \A k \in 0..Size(fs) : ResolvedEnd(fs)[k] = End(fs, k)
<1> DEFINE n == Size(fs)
           Eq(f) == f = [k \in 0..n |-> IF k = 0 THEN 8 ELSE Align(f[k - 1], fs[k].size) + fs[k].size]
           g == [k \in 0..n |-> End(fs, k)]
           h == ResolvedEnd(fs)
<1>1. n \in Nat
  BY DEF Table, Size
<1>2. Eq(g)
  <2>1. ASSUME NEW k \in 1..n
        PROVE  g[k - 1] = End(fs, k - 1) /\ g[k] = Align(End(fs, k - 1), fs[k].size) + fs[k].size
    <3>1. k - 1 \in 0..n /\ k \in 0..n /\ k # 0
      BY <1>1
    <3> QED BY <3>1 DEF End, Chained
  <2>2. g[0] = 8
    BY <1>1 DEF End
  <2>3. ASSUME NEW k \in 0..n
        PROVE  g[k] = IF k = 0 THEN 8 ELSE Align(g[k - 1], fs[k].size) + fs[k].size
    <3>1. k # 0 => k \in 1..n
      OBVIOUS
    <3> QED BY <3>1, <2>1, <2>2, Zenon
  <2> QED BY <2>3
<1>3. Eq(h)
  <2>1. h = CHOOSE f : Eq(f)
    BY DEF ResolvedEnd, FirstOffset, Size
  <2> QED BY <1>2, <2>1, Zenon
<1> HIDE DEF h, g
<1>4. ASSUME NEW f, Eq(f), NEW k \in 1..n
      PROVE  f[0] = 8 /\ f[k] = Align(f[k - 1], fs[k].size) + fs[k].size
  <2>1. 0 \in 0..n /\ k \in 0..n /\ k # 0
    BY <1>1
  <2> QED BY <2>1, <1>4, Zenon
<1>5. ASSUME NEW f, Eq(f)
      PROVE  f[0] = 8
  <2>1. 0 \in 0..n
    BY <1>1
  <2> QED BY <2>1, <1>5
<1> DEFINE T == {k \in 0..n : h[k] # g[k]}
<1>6. T = {}
  <2> SUFFICES ASSUME T # {} PROVE FALSE
    OBVIOUS
  <2>1. T \in SUBSET Nat
    BY <1>1
  <2>2. PICK x \in T : \A y \in T : x <= y
    BY <2>1, LeastNat, Zenon
  <2>3. x # 0
    BY <1>2, <1>3, <1>5
  <2>4. x \in 1..n /\ x - 1 \in 0..n /\ x - 1 \notin T
    BY <1>1, <2>2, <2>3
  <2>5. h[x - 1] = g[x - 1]
    BY <2>4
  <2>6. h[x] = Align(h[x - 1], fs[x].size) + fs[x].size
    BY <1>3, <1>4, <2>4, Zenon
  <2>7. g[x] = Align(g[x - 1], fs[x].size) + fs[x].size
    BY <1>2, <1>4, <2>4, Zenon
  <2>8. h[x] # g[x]
    BY <2>2, Zenon
  <2> QED BY <2>5, <2>6, <2>7, <2>8, Zenon
<1> QED BY <1>6, Zenon DEF g, h

\* resolve_class_layouts leaves every field where it is, and only adds room at
\* the end.
LEMMA ResolvedKeeps ==
  ASSUME NEW c, Placed(c), c.size = End(c.fields, Size(c.fields))
  PROVE  /\ Resolved(c).fields = c.fields
         /\ Resolved(c).size \in Nat /\ Resolved(c).size >= c.size
         /\ Resolved(c) = [fields |-> Resolved(c).fields, size |-> Resolved(c).size]
<1> DEFINE fs == c.fields
           n == Size(fs)
           end == ResolvedEnd(fs)
           size == Align(end[n], 8)
           new == [k \in 1..n |-> [fs[k] EXCEPT !.offset = Align(end[k - 1], fs[k].size)]]
<1>1. fs \in Table /\ Chained(fs) /\ c.size \in Nat
  BY DEF Placed, Class
<1>2. n \in Nat /\ fs \in [1..n -> FieldRec] 
  BY <1>1 DEF Table, Size
<1>3. \A k \in 0..n : end[k] = End(fs, k)
  BY <1>1, ResolvedEnds
<1>4. Resolved(c) = [fields |-> new, size |-> IF size < 8 THEN 8 ELSE size]
  BY DEF Resolved, Size
<1> HIDE DEF fs, end, n
<1>5. ASSUME NEW k \in 1..n
      PROVE  [fs[k] EXCEPT !.offset = Align(end[k - 1], fs[k].size)] = fs[k]
  <2>1. k - 1 \in 0..n /\ fs[k] \in FieldRec
    BY <1>2
  <2>2. Align(end[k - 1], fs[k].size) = fs[k].offset
    BY <1>1, <1>3, <2>1 DEF Chained, n
  <2> QED BY <2>1, <2>2 DEF FieldRec
<1>6. new = fs
  BY <1>2, <1>5
<1>7. end[n] = c.size
  BY <1>2, <1>3 DEF n, fs
<1>8. size \in Nat /\ c.size <= size
  BY <1>1, <1>7, AlignFacts
<1>9. size <= IF size < 8 THEN 8 ELSE size
  BY <1>8
<1> HIDE DEF new, size
<1> DEFINE room == IF size < 8 THEN 8 ELSE size
<1>10. room \in Nat /\ c.size <= room
  BY <1>1, <1>8, <1>9
<1> HIDE DEF room
<1>11. Resolved(c) = [fields |-> new, size |-> room]
  BY <1>4 DEF room
<1>12. Resolved(c).fields = new /\ Resolved(c).size = room
  BY <1>11
<1> QED BY <1>1, <1>6, <1>10, <1>11, <1>12 DEF fs

\* A field more: it lies behind all others, at the end of the class.
LEMMA WithFieldPlaced ==
  ASSUME NEW c, Placed(c), c.size = End(c.fields, Size(c.fields)), NEW sz \in {4, 8},
         NEW d, d = WithField(c, sz)
  PROVE  /\ Placed(d) /\ d.size = End(d.fields, Size(d.fields)) /\ d.size >= c.size
         /\ Size(c.fields) \in Nat /\ Size(d.fields) = Size(c.fields) + 1
         /\ \A i \in 1..Size(c.fields) : d.fields[i] = c.fields[i]
<1> DEFINE at == Align(c.size, sz)
           r == [size |-> sz, offset |-> at]
           fs == c.fields
           n == Size(fs)
           gs == d.fields
<1>1. fs \in Table /\ Chained(fs) /\ Rising(fs) /\ Within(fs, c.size) /\ c.size \in Nat
  BY DEF Placed, Class
<1>2. at \in Nat /\ c.size <= at
  BY <1>1, AlignFacts, Zenon
<1>3. r \in FieldRec
  BY <1>2 DEF FieldRec
<1>4. d = [fields |-> Append(fs, r), size |-> at + sz]
  BY DEF WithField
<1>5. gs = Append(fs, r) /\ d.size = at + sz /\ d.size \in Nat /\ c.size <= d.size
  <2> HIDE DEF at
  <2>1. gs = Append(fs, r) /\ d.size = at + sz
    BY <1>4
  <2> QED BY <2>1, <1>1, <1>2
<1>6. /\ n \in Nat /\ gs \in Table /\ Size(gs) = n + 1
      /\ gs[n + 1] = r /\ \A i \in 1..n : gs[i] = fs[i]
  BY <1>1, <1>3, <1>5 DEF Table, Size
<1>7. d \in Class
  BY <1>4, <1>5, <1>6 DEF Class
<1>8. r.size = sz /\ r.offset = at
  OBVIOUS
<1> HIDE DEF fs, gs, n, r, at
<1>9. /\ End(gs, n + 1) = d.size
      /\ \A i \in 0..n : End(gs, i) = End(fs, i)
  <2>1. n + 1 # 0 /\ gs[n + 1].offset + gs[n + 1].size = d.size
    BY <1>5, <1>6, <1>8
  <2>2. ASSUME NEW i \in 0..n, i # 0 PROVE gs[i] = fs[i]
    BY <2>2, <1>6
  <2>3. End(gs, n + 1) = d.size
    BY <2>1 DEF End
  <2>4. ASSUME NEW i \in 0..n PROVE End(gs, i) = End(fs, i)
    BY <2>2 DEF End
  <2> QED BY <2>3, <2>4
<1>10. c.size = End(fs, n)
  BY DEF fs, n
<1>11. Chained(gs)
  <2>1. ASSUME NEW i \in 1..(n + 1) PROVE gs[i].offset = Align(End(gs, i - 1), gs[i].size)
    <3>1. CASE i = n + 1
      <4>1. End(gs, i - 1) = c.size
        BY <3>1, <1>6, <1>9, <1>10
      <4> QED BY <3>1, <4>1, <1>6, <1>8 DEF at
    <3>2. CASE i \in 1..n
      <4>1. i - 1 \in 0..n
        BY <3>2, <1>6
      <4> QED BY <3>2, <4>1, <1>1, <1>6, <1>9 DEF Chained, n
    <3> QED BY <3>1, <3>2, <1>6
  <2> QED BY <2>1, <1>6 DEF Chained
<1>12. Within(gs, d.size)
  <2>1. 8 <= c.size /\ \A i \in 1..n : End(fs, i) <= c.size /\ End(fs, i) \in Nat
    <3>1. ASSUME NEW i \in 1..n PROVE End(fs, i) \in Nat
      <4>1. fs[i] \in FieldRec
        BY <1>1 DEF Table, Size, n
      <4> QED BY <4>1, <1>6 DEF End, FieldRec
    <3> QED BY <3>1, <1>1 DEF Within, n
  <2>2. ASSUME NEW i \in 1..(n + 1) PROVE End(gs, i) <= d.size
    <3>1. CASE i = n + 1
      BY <3>1, <1>5, <1>9
    <3>2. CASE i \in 1..n
      BY <3>2, <2>1, <1>1, <1>5, <1>6, <1>9
    <3> QED BY <3>1, <3>2, <1>6
  <2> QED BY <2>1, <2>2, <1>1, <1>5, <1>6 DEF Within
<1>13. Rising(gs)
  <2>1. ASSUME NEW i \in 1..(n + 1)
        PROVE  /\ 8 <= gs[i].offset
               /\ \A j \in 1..(i - 1) : End(gs, j) <= gs[i].offset
    <3>1. CASE i = n + 1
      <4>1. gs[i].offset = at
        BY <3>1, <1>6, <1>8
      <4>2. 8 <= c.size /\ \A j \in 1..n : End(fs, j) <= c.size
        BY <1>1 DEF Within, n
      <4>3. ASSUME NEW j \in 1..(i - 1) PROVE End(gs, j) <= at
        <5>1. j \in 1..n /\ j \in 0..n /\ fs[j] \in FieldRec
          <6>1. j \in 1..n /\ j \in 0..n
            BY <3>1, <1>6
          <6> QED BY <6>1, <1>1 DEF Table, Size, n
        <5>2. End(fs, j) \in Nat
          BY <5>1, <1>6 DEF End, FieldRec
        <5> QED BY <5>1, <5>2, <4>2, <1>1, <1>2, <1>9
      <4> QED BY <4>1, <4>2, <4>3, <1>1, <1>2
    <3>2. CASE i \in 1..n
      <4>1. ASSUME NEW j \in 1..(i - 1) PROVE j \in 0..n
        BY <3>2, <1>6
      <4> QED BY <3>2, <4>1, <1>1, <1>6, <1>9 DEF Rising, n
    <3> QED BY <3>1, <3>2, <1>6
  <2> QED BY <2>1, <1>6 DEF Rising
<1> QED BY <1>5, <1>6, <1>7, <1>9, <1>11, <1>12, <1>13, Zenon DEF Placed, fs, gs, n

\* parse_class has just put its last field at the end of the class.
Whole(c) == c.size = End(c.fields, Size(c.fields))
\* d is c with fields added and room added, if anything.
Grown(c, d) ==
  d.size >= c.size /\ \A i \in 1..Size(c.fields) : d.fields[i] = c.fields[i]

Program(cs)       == cs \in ClassSeq /\ \A k \in 1..Size(cs) : Placed(cs[k])
AllWhole(cs)      == \A k \in 1..Size(cs) : Whole(cs[k])
Preserved(cs, ds) == \A k \in 1..Size(cs) : k <= Size(ds) => Grown(cs[k], ds[k])

\* A class that stays as it is.
LEMMA GrownSelf ==
  ASSUME NEW c, Placed(c)
  PROVE  Grown(c, c)
<1>1. c.size \in Nat
  BY DEF Placed, Class
<1> QED BY <1>1 DEF Grown

\* A program that stays as it is.
LEMMA ProgramFacts ==
  ASSUME NEW cs, Program(cs)
  PROVE  /\ Size(cs) \in Nat /\ Preserved(cs, cs)
         /\ \A k \in 1..Size(cs) : Placed(cs[k]) /\ cs[k] \in Class
<1>1. Size(cs) \in Nat
  BY DEF ClassSeq, Program, Size
<1>2. \A k \in 1..Size(cs) : Placed(cs[k]) /\ cs[k] \in Class
  BY DEF Program, Placed
<1> QED BY <1>1, <1>2, GrownSelf DEF Preserved

\* BeginClass adds an empty class.
LEMMA ClassAdded ==
  ASSUME NEW cs, Program(cs), AllWhole(cs), NEW ds, ds = Append(cs, Empty)
  PROVE  Program(ds) /\ AllWhole(ds) /\ Preserved(cs, ds) /\ 0 < Size(ds)
<1> DEFINE e == Empty
<1>1. e.fields = << >> /\ e.size = 8 /\ e = [fields |-> << >>, size |-> 8]
  BY DEF Empty, VTablePtr
<1>2. << >> \in Table /\ Size(<< >>) = 0
  BY DEF Table, Size
<1> HIDE DEF e
<1>3. e \in Class
  BY <1>1, <1>2 DEF Class
<1>4. Placed(e) /\ Whole(e)
  <2>1. \A i \in 1..Size(e.fields) : FALSE
    BY <1>1, <1>2
  <2>2. Chained(e.fields) /\ Rising(e.fields) /\ Within(e.fields, e.size)
    BY <2>1, <1>1 DEF Chained, Rising, Within
  <2>3. Whole(e)
    BY <1>1, <1>2 DEF Whole, End
  <2> QED BY <1>3, <2>2, <2>3 DEF Placed
<1>5. Size(cs) \in Nat /\ \A k \in 1..Size(cs) : Placed(cs[k])
  BY ProgramFacts
<1>6. /\ ds \in ClassSeq /\ Size(ds) = Size(cs) + 1 /\ ds[Size(cs) + 1] = e
      /\ \A k \in 1..Size(cs) : ds[k] = cs[k]
  BY <1>3 DEF ClassSeq, Program, Size, e
<1>7. \A k \in 1..Size(ds) : k \in 1..Size(cs) \/ k = Size(cs) + 1
  BY <1>5, <1>6
<1>8. Program(ds) /\ AllWhole(ds)
  BY <1>4, <1>5, <1>6, <1>7, Zenon DEF Program, AllWhole
<1>9. Preserved(cs, ds)
  BY <1>5, <1>6, GrownSelf, Zenon DEF Preserved
<1>10. 0 < Size(ds)
  BY <1>5, <1>6
<1> QED BY <1>8, <1>9, <1>10

\* Field and FieldNoColon add a field to the last class.
LEMMA FieldAdded ==
  ASSUME NEW cs, Program(cs), AllWhole(cs), 0 < Size(cs), NEW sz \in {4, 8},
         NEW ds, ds = [cs EXCEPT ![Size(cs)] = WithField(cs[Size(cs)], sz)]
  PROVE  Program(ds) /\ AllWhole(ds) /\ Preserved(cs, ds) /\ 0 < Size(ds)
<1> DEFINE n == Size(cs)
           d == WithField(cs[n], sz)
<1>1. n \in Nat /\ n \in 1..n /\ \A k \in 1..n : Placed(cs[k])
  BY ProgramFacts
<1>2. Whole(cs[n])
  BY <1>1 DEF AllWhole
<1> HIDE DEF n, d
<1>3. /\ Placed(d) /\ Whole(d) /\ d.size >= cs[n].size
      /\ \A i \in 1..Size(cs[n].fields) : d.fields[i] = cs[n].fields[i]
  BY <1>1, <1>2, WithFieldPlaced DEF Whole, d
<1>4. d \in Class /\ Grown(cs[n], d)
  BY <1>3 DEF Placed, Grown
<1>5. /\ ds \in ClassSeq /\ Size(ds) = n
      /\ \A k \in 1..n : ds[k] = IF k = n THEN d ELSE cs[k]
  BY <1>1, <1>4 DEF ClassSeq, Program, Size, n, d
<1>6. Program(ds) /\ AllWhole(ds)
  <2>1. \A k \in 1..n : Placed(ds[k]) /\ Whole(ds[k])
    BY <1>1, <1>3, <1>5 DEF AllWhole, n
  <2> QED BY <1>5, <2>1, Zenon DEF Program, AllWhole
<1>7. Preserved(cs, ds)
  BY <1>1, <1>4, <1>5, GrownSelf DEF Preserved, n
<1> QED BY <1>5, <1>6, <1>7 DEF n

\* FieldFails drops the last class.
LEMMA ClassDropped ==
  ASSUME NEW cs, Program(cs), AllWhole(cs), 0 < Size(cs),
         NEW ds, ds = SubSeq(cs, 1, Size(cs) - 1)
  PROVE  Program(ds) /\ AllWhole(ds) /\ Preserved(cs, ds)
<1> DEFINE n == Size(cs)
<1>1. n \in Nat /\ \A k \in 1..n : Placed(cs[k]) /\ cs[k] \in Class
  BY ProgramFacts
<1> HIDE DEF n
<1>2. n - 1 \in Int /\ \A k \in 1..(n - 1) : k \in 1..n
  BY <1>1
<1>3. /\ ds \in ClassSeq /\ Size(ds) = IF 1 <= n - 1 THEN (n - 1) - 1 + 1 ELSE 0
      /\ \A k \in 1..((n - 1) - 1 + 1) : ds[k] = cs[1 + k - 1]
  BY <1>1, <1>2 DEF ClassSeq, Size, n
<1>4. Size(ds) = n - 1 /\ \A k \in 1..(n - 1) : ds[k] = cs[k]
  BY <1>1, <1>3 DEF n
<1>5. Program(ds) /\ AllWhole(ds)
  BY <1>1, <1>2, <1>3, <1>4 DEF Program, AllWhole, n
<1>6. \A k \in 1..n : k <= n - 1 => k \in 1..(n - 1)
  BY <1>1
<1>7. Preserved(cs, ds)
  BY <1>1, <1>4, <1>6, GrownSelf DEF Preserved, n
<1> QED BY <1>5, <1>7

\* As many classes as there are, in a row, are a program's.
LEMMA ClassRow ==
  ASSUME NEW n \in Nat, NEW ds \in [1..n -> Class]
  PROVE  ds \in ClassSeq
BY DEF ClassSeq

\* Finish resolves every class.
LEMMA AllResolved ==
  ASSUME NEW cs, Program(cs), AllWhole(cs),
         NEW ds, ds = [k \in 1..Size(cs) |-> Resolved(cs[k])]
  PROVE  Program(ds) /\ Preserved(cs, ds)
<1> DEFINE n == Size(cs)
<1>1. n \in Nat /\ \A k \in 1..n : Placed(cs[k]) /\ cs[k] \in Class
  BY ProgramFacts
<1> HIDE DEF n
<1>2. ASSUME NEW k \in 1..n PROVE Placed(Resolved(cs[k])) /\ Grown(cs[k], Resolved(cs[k]))
  <2> DEFINE c == cs[k]
             d == Resolved(c)
  <2>1. Placed(c) /\ c.size = End(c.fields, Size(c.fields))
    BY <1>1 DEF AllWhole, Whole, n
  <2> HIDE DEF c
  <2>2. /\ d.fields = c.fields /\ d.size \in Nat /\ d.size >= c.size
        /\ d = [fields |-> d.fields, size |-> d.size]
    BY <2>1, ResolvedKeeps
  <2> HIDE DEF d
  <2>3. /\ c.fields \in Table /\ c.size \in Nat /\ Chained(c.fields) /\ Rising(c.fields)
        /\ Within(c.fields, c.size)
    BY <2>1 DEF Placed, Class
  <2>4. d \in Class
    BY <2>2, <2>3 DEF Class
  <2>5. ASSUME NEW i \in 1..Size(c.fields) PROVE End(c.fields, i) \in Nat
    <3>1. Size(c.fields) \in Nat /\ c.fields[i] \in FieldRec
      BY <2>3 DEF Table, Size
    <3> QED BY <3>1 DEF FieldRec, End
  <2>6. Within(d.fields, d.size)
    BY <2>2, <2>3, <2>5 DEF Within
  <2>7. Grown(c, d)
    BY <2>2 DEF Grown
  <2> QED BY <2>2, <2>3, <2>4, <2>6, <2>7 DEF Placed, c, d
<1>3. ds \in [1..n -> Class] /\ \A k \in 1..n : ds[k] = Resolved(cs[k])
  BY <1>2 DEF Placed, n
<1>4. ds \in ClassSeq
  BY <1>1, <1>3, ClassRow, Zenon
<1>5. Size(ds) = n
  BY <1>1, <1>3, <1>4 DEF ClassSeq, Size
<1>6. Program(ds)
  BY <1>2, <1>3, <1>4, <1>5, Zenon DEF Program
<1>7. Preserved(cs, ds)
  BY <1>2, <1>3 DEF Preserved, n
<1> QED BY <1>6, <1>7

\* parse_program may be between two lines of the source (answer is "none", all
\* classes end at their last field) or done.
ClassInv ==
  /\ Program(classes)
  /\ answer = "none" => AllWhole(classes)
  /\ open => 0 < Size(classes)

\* The program is empty.
LEMMA ClassInvInit == ClassInit => ClassInv
<1> SUFFICES ASSUME ClassInit PROVE ClassInv
  OBVIOUS
<1>1. classes = << >> /\ ~open
  BY DEF ClassInit
<1>2. classes \in ClassSeq /\ Size(classes) = 0
  BY <1>1 DEF ClassSeq, Size
<1>3. \A k \in 1..Size(classes) : FALSE
  BY <1>2
<1> QED BY <1>1, <1>2, <1>3 DEF ClassInv, Program, AllWhole

\* Every step of the parser keeps the invariant, and what was placed.
LEMMA ClassStep ==
  ASSUME ClassInv, [ClassNext]_classvars
  PROVE  ClassInv' /\ Preserved(classes, classes')
<1>1. Program(classes) /\ (answer = "none" => AllWhole(classes)) /\ (open => 0 < Size(classes))
  BY DEF ClassInv
<1>2. CASE BeginClass
  BY <1>1, <1>2, ClassAdded, Zenon DEF BeginClass, Parsing, ClassInv
<1>3. CASE BeginFails
  BY <1>1, <1>3, ProgramFacts DEF BeginFails, ClassInv
<1>4. ASSUME NEW sz \in {4, 8}, Field(sz) \/ FieldNoColon(sz)
      PROVE  ClassInv' /\ Preserved(classes, classes')
  <2>1. /\ answer = "none" /\ answer' = answer /\ open /\ open' = open
        /\ classes' = [classes EXCEPT ![Size(classes)] = WithField(classes[Size(classes)], sz)]
    BY <1>4 DEF Field, FieldNoColon, Parsing, Size
  <2> QED BY <1>1, <2>1, FieldAdded, Zenon DEF ClassInv
<1>5. CASE FieldFails
  <2>1. /\ answer = "none" /\ answer' = answer /\ open /\ ~open'
        /\ classes' = SubSeq(classes, 1, Size(classes) - 1)
    BY <1>5 DEF FieldFails, Parsing, Size
  <2> QED BY <1>1, <2>1, ClassDropped, Zenon DEF ClassInv
<1>6. CASE EndClass
  BY <1>1, <1>6, ProgramFacts DEF EndClass, ClassInv
<1>7. CASE Finish
  <2>1. /\ answer = "none" /\ answer' # "none" /\ ~open'
        /\ classes' = [k \in 1..Size(classes) |-> Resolved(classes[k])]
    BY <1>7 DEF Finish, Parsing, Size
  <2> QED BY <1>1, <2>1, AllResolved DEF ClassInv
<1>8. CASE UNCHANGED classvars
  BY <1>1, <1>8, ProgramFacts DEF classvars, ClassInv
<1> QED BY <1>2, <1>3, <1>4, <1>5, <1>6, <1>7, <1>8 DEF ClassNext, FieldSize

\* Classes are laid out as the invariant says, in every reachable state.
THEOREM ClassInvariant == ClassSpec => []ClassInv
<1>1. ClassInv /\ [ClassNext]_classvars => ClassInv'
  BY ClassStep
<1> QED BY ClassInvInit, <1>1, PTL DEF ClassSpec

\* A class that is placed satisfies FieldsApart.
LEMMA PlacedApart ==
  ASSUME NEW c, Placed(c), NEW i \in 1..Size(c.fields)
  PROVE  /\ c.fields[i].offset % c.fields[i].size = 0
         /\ Bytes(c.fields[i]) \subseteq 8..(c.size - 1)
         /\ \A j \in 1..(i - 1) : Bytes(c.fields[i]) \cap Bytes(c.fields[j]) = {}
<1> DEFINE fs == c.fields
           n == Size(fs)
<1>1. fs \in Table /\ Chained(fs) /\ Rising(fs) /\ Within(fs, c.size) /\ c.size \in Nat
  BY DEF Placed, Class
<1>2. n \in Nat /\ \A k \in 1..n : fs[k] \in FieldRec
  BY <1>1 DEF Table, Size
<1>3. i - 1 \in 0..n /\ i # 0
  BY <1>2
<1> HIDE DEF fs, n
<1>4. ASSUME NEW k \in 1..n
      PROVE  /\ k # 0 /\ fs[k].offset \in Nat /\ fs[k].size \in {4, 8}
             /\ End(fs, k) = fs[k].offset + fs[k].size
  BY <1>2 DEF End, FieldRec
<1>5. i \in 1..n
  BY DEF n, fs
<1>6. End(fs, i - 1) \in Nat
  <2>1. CASE i = 1
    BY <2>1 DEF End
  <2>2. CASE i # 1
    <3>1. i - 1 \in 1..n
      BY <1>2, <1>5, <2>2
    <3> QED BY <3>1, <1>4
  <2> QED BY <2>1, <2>2
<1>7. fs[i].offset % fs[i].size = 0
  <2>1. fs[i].offset = Align(End(fs, i - 1), fs[i].size)
    BY <1>1, <1>5 DEF Chained, n
  <2> QED BY <2>1, <1>4, <1>5, <1>6, AlignFacts, Zenon
<1>8. 8 <= fs[i].offset /\ \A j \in 1..(i - 1) : End(fs, j) <= fs[i].offset
  BY <1>1, <1>5 DEF Rising, n
<1>9. Bytes(fs[i]) \subseteq 8..(c.size - 1)
  <2>1. fs[i].offset + fs[i].size <= c.size
    BY <1>1, <1>4, <1>5 DEF Within, n
  <2> QED BY <2>1, <1>1, <1>4, <1>5, <1>8 DEF Bytes
<1>10. ASSUME NEW j \in 1..(i - 1)
       PROVE  Bytes(fs[i]) \cap Bytes(fs[j]) = {}
  <2>1. j \in 1..n
    BY <1>2, <1>5
  <2>2. fs[j].offset + fs[j].size <= fs[i].offset
    BY <2>1, <1>4, <1>8
  <2> QED BY <2>1, <2>2, <1>4, <1>5 DEF Bytes
<1> QED BY <1>7, <1>9, <1>10 DEF fs

\* No two fields of a class share a byte, each is aligned, behind the vtable
\* pointer and within the class: for any number of classes and fields.
THEOREM ClassFieldsApart == ClassSpec => []FieldsApart
<1>1. ClassInv => FieldsApart
  <2> SUFFICES ASSUME ClassInv, NEW k \in 1..Size(classes), NEW i \in 1..Size(classes[k].fields)
               PROVE  /\ classes[k].fields[i].offset % classes[k].fields[i].size = 0
                      /\ Bytes(classes[k].fields[i]) \subseteq 8..(classes[k].size - 1)
                      /\ \A j \in 1..(i - 1) :
                           Bytes(classes[k].fields[i]) \cap Bytes(classes[k].fields[j]) = {}
    BY Zenon DEF FieldsApart, VTablePtr, Size
  <2>1. Placed(classes[k])
    BY ProgramFacts DEF ClassInv
  <2> QED BY <2>1, PlacedApart
<1> QED BY ClassInvariant, <1>1, PTL

\* No step, resolve_class_layouts included, moves a field that parse_class has
\* placed or shrinks a class.
THEOREM ClassOffsetsKept == ClassSpec => OffsetsKept
<1>1. ClassInv /\ [ClassNext]_classvars => [Kept]_classvars
  <2> SUFFICES ASSUME ClassInv, [ClassNext]_classvars PROVE Kept
    OBVIOUS
  <2>1. Preserved(classes, classes')
    BY ClassStep
  <2> QED BY <2>1 DEF Preserved, Grown, Kept, Size
<1> QED BY ClassInvariant, <1>1, PTL DEF ClassSpec, OffsetsKept
-------------------------------------------------------------------------------
(* The homes of virtual registers.                                         *)

\* The scanning loops end with a count above every index seen.
LEMMA AboveBounds ==
  ASSUME NEW S \in SUBSET (0..MaxIndex)
  PROVE  Above(S) \in 0..(MaxIndex + 1) /\ IsAbove(Above(S), S)
<1> DEFINE T == {n \in 0..(MaxIndex + 1) : IsAbove(n, S)}
<1>1. T \in SUBSET Nat /\ MaxIndex + 1 \in T
  BY FrameConstants DEF IsAbove
<1>2. PICK n \in T : \A k \in T : n <= k
  BY <1>1, LeastNat, Zenon
<1>3. n \in 0..(MaxIndex + 1) /\ IsAbove(n, S) /\ \A k \in 0..(MaxIndex + 1) : IsAbove(k, S) => n <= k
  BY <1>2
<1> QED BY <1>3 DEF Above

\* And with the least such count.
LEMMA LeastAbove ==
  ASSUME NEW S \in SUBSET (0..MaxIndex), NEW k \in 0..(MaxIndex + 1), IsAbove(k, S)
  PROVE  Above(S) <= k
<1> DEFINE T == {n \in 0..(MaxIndex + 1) : IsAbove(n, S)}
<1>1. T \in SUBSET Nat /\ k \in T
  BY FrameConstants
<1>2. PICK n \in T : \A j \in T : n <= j
  BY <1>1, LeastNat, Zenon
<1>3. n \in 0..(MaxIndex + 1) /\ IsAbove(n, S) /\ \A j \in 0..(MaxIndex + 1) : IsAbove(j, S) => n <= j
  BY <1>2
<1> QED BY <1>1, <1>3 DEF Above

\* The counts are within the tables and above every register named, unless the
\* count of locals wraps.
LEMMA CountsBound ==
  ASSUME TypeOK
  PROVE  /\ LocalCount \in 0..kMaxLocals /\ ParamCount \in 0..MaxParams
         /\ MaxIndex \notin Named("LOCAL") =>
              \A i \in Named("LOCAL") : i < kMaxLocals => i < LocalCount
         /\ \A i \in Named("PARAM") : i < MaxParams => i < ParamCount
<1> DEFINE L == Named("LOCAL")
           P == CountedParams
           m == MaxOf(1, MaxOf(local_count, Above(L)))
<1>1. L \in SUBSET (0..MaxIndex) /\ Named("PARAM") \in SUBSET (0..MaxIndex)
  BY DEF Named, TypeOK, Operand, Register
<1>2. P \in SUBSET (0..MaxIndex)
  BY <1>1 DEF CountedParams
<1>3. /\ Above(L) \in 0..(MaxIndex + 1) /\ IsAbove(Above(L), L)
      /\ Above(P) \in 0..(MaxIndex + 1) /\ IsAbove(Above(P), P)
  BY <1>1, <1>2, AboveBounds
<1>4. m \in 1..(MaxIndex + 1) /\ IsAbove(m, L)
  BY <1>1, <1>3, FrameConstants DEF MaxOf, IsAbove, TypeOK
<1>5. Wrapped(m) \in 0..MaxIndex
  BY <1>4, FrameConstants DEF Wrapped
<1>6. LocalCount = MinOf(Wrapped(m), kMaxLocals)
  BY DEF LocalCount
<1>7. LocalCount \in 0..kMaxLocals
  BY <1>5, <1>6, FrameConstants DEF MinOf
<1>8. ParamCount \in 0..MaxParams
  BY <1>3, FrameConstants DEF ParamCount, MinOf, MaxOf, TypeOK
<1>9. ASSUME MaxIndex \notin L, NEW i \in L, i < kMaxLocals
      PROVE  i < LocalCount
  <2>1. IsAbove(MaxIndex, L)
    BY <1>1, <1>9, FrameConstants DEF IsAbove
  <2>2. Above(L) <= MaxIndex
    BY <1>1, <2>1, LeastAbove, FrameConstants
  <2>3. m \in 1..MaxIndex
    BY <1>3, <2>2, FrameConstants DEF MaxOf, TypeOK
  <2>4. Wrapped(m) = m
    BY <2>3, FrameConstants DEF Wrapped
  <2> QED BY <1>1, <1>4, <1>6, <1>9, <2>3, <2>4, FrameConstants DEF MinOf, IsAbove
<1>10. ASSUME NEW i \in Named("PARAM"), i < MaxParams
       PROVE  i < ParamCount
  <2>1. i \in Nat /\ i + 1 \in 1..MaxIndex
    BY <1>1, <1>10, FrameConstants
  <2>2. Wrapped(i + 1) = i + 1
    BY <2>1, FrameConstants DEF Wrapped
  <2>3. i \in P
    BY <1>10, <2>1, <2>2 DEF CountedParams
  <2>4. i < Above(P)
    BY <1>3, <2>3 DEF IsAbove
  <2> QED BY <1>3, <1>10, <2>1, <2>4, FrameConstants DEF ParamCount, MinOf, MaxOf, TypeOK
<1> QED BY <1>7, <1>8, <1>9, <1>10

\* HomesPrivate holds whatever the two counts are.
LEMMA TypeImpliesPrivate == TypeOK => HomesPrivate
<1> SUFFICES ASSUME TypeOK PROVE HomesPrivate
  OBVIOUS
<1>1. counts.lc \in Nat /\ counts.pc \in Nat
  BY FrameConstants DEF TypeOK
<1> QED BY <1>1, LocInjective, SpillInFrame DEF HomesPrivate, Homes, Loc, FrameSlots

\* Before allocation there is nothing to show.
LEMMA RegAllocInit == Init => TypeOK /\ RegisterOperandsHaveHomes
BY FrameConstants DEF Init, TypeOK, RegisterOperandsHaveHomes

\* Parsing an operand and allocating keep the two inductive parts.
LEMMA RegAllocNext == TypeOK /\ RegisterOperandsHaveHomes /\ [Next]_vars => TypeOK' /\ RegisterOperandsHaveHomes'
<1> SUFFICES ASSUME TypeOK, RegisterOperandsHaveHomes, [Next]_vars
             PROVE  TypeOK' /\ RegisterOperandsHaveHomes'
  OBVIOUS
<1>1. ASSUME NEW o \in Operand, AddOperand(o) PROVE TypeOK' /\ RegisterOperandsHaveHomes'
  BY <1>1 DEF AddOperand, TypeOK, RegisterOperandsHaveHomes
<1>2. CASE allocate_registers
  <2>1. TypeOK'
    BY <1>2, CountsBound, FrameConstants DEF allocate_registers, TypeOK
  <2>2. counts'.lc = LocalCount /\ counts'.pc = ParamCount /\ operands' = operands
    BY <1>2 DEF allocate_registers
  <2>3. ASSUME NEW o \in operands, o.kind = "REGISTER", InTables(o.reg), ~ CountWraps(o.reg.type)
        PROVE  o.reg \in Homed(LocalCount, ParamCount)
    <3>1. o.reg \in Register /\ o.reg.type \in {"LOCAL", "PARAM"}
      BY DEF TypeOK, Operand, Register
    <3>2. o.reg.index \in Named(o.reg.type)
      BY <2>3 DEF Named
    <3> QED BY <2>3, <3>1, <3>2, CountsBound DEF Homed, InTables, CountWraps
  <2>4. \A type : CountWraps(type)' <=> CountWraps(type)
    BY <2>2 DEF CountWraps, Named
  <2> QED BY <2>1, <2>2, <2>3, <2>4 DEF RegisterOperandsHaveHomes, Homes, InTables
<1>3. CASE NextFunction
  BY <1>3, FrameConstants DEF NextFunction, TypeOK, RegisterOperandsHaveHomes
<1>4. CASE UNCHANGED vars
  BY <1>4 DEF vars, TypeOK, RegisterOperandsHaveHomes, Homes, InTables, CountWraps, Named
<1> QED BY <1>1, <1>2, <1>3, <1>4 DEF Next

\* The two inductive parts, for all table sizes and all functions.
THEOREM RegAllocInvariant == Spec => [](TypeOK /\ RegisterOperandsHaveHomes)
BY RegAllocInit, RegAllocNext, PTL DEF Spec

\* Two registers never share a home, and a home is off the preserved registers
\* and inside the frame.
THEOREM RegAllocSafety == Spec => []HomesPrivate
BY RegAllocInvariant, TypeImpliesPrivate, PTL

\* Every register that is itself an operand, within the tables, has a home; for
\* locals unless the count of locals wraps.
THEOREM RegAllocHomes == Spec => []RegisterOperandsHaveHomes
BY RegAllocInvariant, PTL
===============================================================================

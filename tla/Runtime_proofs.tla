--------------------------- MODULE Runtime_proofs -----------------------------
(***************************************************************************)
(* Proofs about ObjectHeap, for every page size, alignment, chunk size and *)
(* set of instance sizes, and about CxaGuard, for any set of threads.      *)
(***************************************************************************)
EXTENDS ObjectHeap, CxaGuard, TLAPS, WellFoundedInduction

\* The time each prover has for a leaf.
USE SMTT(30), ZenonT(30)

\* q[1], ..., q[n] are the chunks in the order of `next', first to current_.
IsChain(n, q) ==
  /\ \A i, j \in 1..n : q[i] = q[j] => i = j
  /\ mapped = {q[i] : i \in 1..n}
  /\ n = 0 => head = NULL /\ current = NULL
  /\ n > 0 => head = q[1] /\ current = q[n] /\ chunk[q[n]].next = NULL
  /\ \A i \in 1..(n-1) : chunk[q[i]].next = q[i+1]

HasChain == \E n \in Nat : \E q \in [1..n -> ChunkIds] : IsChain(n, q)

\* The cursor of a mapped chunk is on a cache line and within the capacity.
CursorsOK ==
  \A c \in mapped : /\ chunk[c].offset <= chunk[c].capacity
                    /\ \E k \in Nat : chunk[c].offset = k * CacheLine

\* Alignment in the form the induction carries.
OnCacheLine == \A o \in objs : \E k \in Nat : o.at = k * CacheLine

HeapInv ==
  /\ TypeOK /\ HasChain /\ CursorsOK
  /\ ObjectsInMappedChunk /\ ObjectsDisjoint /\ OnCacheLine /\ FreshFieldsZero
  /\ objs \subseteq [chunk : ChunkIds, at : Nat, size : Sizes]
-------------------------------------------------------------------------------
\* Every non-empty set of naturals has a least element.
LEMMA LeastElement ==
  ASSUME NEW T \in SUBSET Nat, T # {}
  PROVE  \E x \in T : \A y \in T : x <= y
<1> DEFINE R == OpToRel(<, Nat)
<1>1. \E x \in T : \A y \in T : ~(<<y, x>> \in R)
  BY NatLessThanWellFounded, WFMin, Zenon
<1>2. \A x, y \in T : y < x => <<y, x>> \in R
  BY Zenon DEF OpToRel
<1>3. \E x \in T : \A y \in T : ~(y < x)
  BY <1>1, <1>2, Zenon
<1> QED BY <1>3

\* Rounding up, when it does not wrap, yields the next multiple.
LEMMA AlignUpRounds ==
  ASSUME NEW x \in Nat, NEW a \in Nat \ {0}, WordSize \in Nat, x + a < WordSize
  PROVE  /\ AlignUp(x, a) \in Nat
         /\ x <= AlignUp(x, a) /\ AlignUp(x, a) < x + a
         /\ \E k \in Nat : AlignUp(x, a) = k * a
<1> DEFINE y == x + (a - 1)
           d == y \div a
<1>1. y \in Nat /\ y % WordSize = y
  OBVIOUS
<1>2. d \in Nat /\ y - a < d * a /\ d * a <= y
  OBVIOUS
<1>3. AlignUp(x, a) = d * a
  BY <1>1 DEF AlignUp
<1> HIDE DEF d
<1> QED BY <1>1, <1>2, <1>3

\* `need' covers header and fields and is a multiple of the cache line.
LEMMA NeedCovers ==
  ASSUME NEW s \in Sizes
  PROVE  /\ Need(s) \in Nat /\ HeaderBytes + s <= Need(s) /\ Need(s) > 0
         /\ \E k \in Nat : Need(s) = k * CacheLine
<1> DEFINE x == HeaderBytes + s
           n == AlignUp(x, CacheLine)
<1>1. x \in Nat /\ x > 0 /\ CacheLine \in Nat \ {0} /\ WordSize \in Nat /\ x + CacheLine < WordSize
  BY HeapConstants, WordIsWide
<1> HIDE DEF x
<1>2. n \in Nat /\ x <= n /\ \E k \in Nat : n = k * CacheLine
  BY <1>1, AlignUpRounds, Zenon
<1>3. Need(s) = n
  BY DEF Need, x
<1> HIDE DEF n
<1>4. n > 0
  BY <1>1, <1>2
<1> QED BY <1>2, <1>3, <1>4 DEF x

\* A chunk mapped for an admissible request holds it: the overflow tests of
\* new_chunk never fire and the capacity covers the request.
LEMMA ChunkHolds ==
  ASSUME NEW m \in Nat, m <= MaxSingleObject
  PROVE  ChunkFits(m) /\ Rounded(m) \in Nat /\ m <= Rounded(m) - ChunkHeaderBytes
<1>1. Needed(m) = m + ChunkHeaderBytes
  BY HeapConstants, WordIsWide DEF Needed
<1>2. /\ Mapping(m) \in Nat /\ Mapping(m) >= m + ChunkHeaderBytes
      /\ Mapping(m) + PageBytes < WordSize
  BY <1>1, HeapConstants, WordIsWide DEF Mapping
<1>3. Rounded(m) \in Nat /\ Rounded(m) >= Mapping(m)
  BY <1>2, AlignUpRounds, HeapConstants, WordIsWide DEF Rounded
<1> QED BY <1>1, <1>2, <1>3, HeapConstants DEF ChunkFits
-------------------------------------------------------------------------------
\* Carving an object at the cursor of a chunk with room for it preserves the
\* facts about objects: it lies behind every object of that chunk.
LEMMA CarveInv ==
  ASSUME HeapInv,
         NEW t \in [ChunkIds -> HeapChunk], NEW c \in ChunkIds, NEW s \in Sizes,
         Carve(t, c, s),
         mapped' = mapped \cup {c},
         \A d \in mapped : t[d].offset = chunk[d].offset /\ t[d].capacity = chunk[d].capacity,
         t[c].offset + Need(s) <= t[c].capacity,
         \E k \in Nat : t[c].offset = k * CacheLine
  PROVE  /\ chunk' \in [ChunkIds -> HeapChunk]
         /\ objs' \subseteq [chunk : ChunkIds, at : Nat, size : Sizes]
         /\ touched' \subseteq objs' /\ stale' \subseteq ChunkIds \X Nat
         /\ CursorsOK' /\ ObjectsInMappedChunk' /\ ObjectsDisjoint'
         /\ OnCacheLine' /\ FreshFieldsZero'
<1> DEFINE n == [chunk |-> c, at |-> t[c].offset, size |-> s]
<1>1. /\ chunk' = [t EXCEPT ![c].offset = @ + Need(s)]
      /\ objs' = objs \cup {n} /\ touched' = touched
      /\ stale' = (stale \ Fields(n)) \cup Header(n)
  BY DEF Carve
<1>2. /\ Need(s) \in Nat /\ HeaderBytes + s <= Need(s) /\ Need(s) > 0
      /\ \E k \in Nat : Need(s) = k * CacheLine
  BY NeedCovers
<1>3. /\ t[c] \in HeapChunk /\ t[c].offset \in Nat /\ t[c].capacity \in Nat
      /\ s \in Nat /\ HeaderBytes \in Nat \ {0} /\ CacheLine \in Nat \ {0}
  BY HeapConstants DEF HeapChunk
<1>4. /\ chunk' \in [ChunkIds -> HeapChunk]
      /\ chunk'[c].offset = t[c].offset + Need(s)
      /\ chunk'[c].capacity = t[c].capacity
      /\ \A d \in ChunkIds \ {c} : chunk'[d] = t[d]
  BY <1>1, <1>2, <1>3 DEF HeapChunk
<1>5. /\ n \in [chunk : ChunkIds, at : Nat, size : Sizes]
      /\ n.chunk = c /\ n.at = t[c].offset /\ n.size = s
  BY <1>3
<1> HIDE DEF n
<1>6. objs' \subseteq [chunk : ChunkIds, at : Nat, size : Sizes]
  BY <1>1, <1>5 DEF HeapInv
<1>7. ASSUME NEW o \in objs
      PROVE  /\ o.chunk \in mapped /\ o.at \in Nat /\ o.size \in Nat
             /\ o.at + Need(o.size) <= t[o.chunk].offset
             /\ Need(o.size) \in Nat /\ Need(o.size) > 0
             /\ HeaderBytes + o.size <= Need(o.size)
  <2>1. o \in [chunk : ChunkIds, at : Nat, size : Sizes]
    BY DEF HeapInv
  <2> QED BY <2>1, NeedCovers, HeapConstants, Zenon DEF HeapInv, ObjectsInMappedChunk
<1>8. CursorsOK'
  <2>1. \E k \in Nat : t[c].offset + Need(s) = k * CacheLine
    <3>1. PICK k1 \in Nat : t[c].offset = k1 * CacheLine
      OBVIOUS
    <3>2. PICK k2 \in Nat : Need(s) = k2 * CacheLine
      BY <1>2
    <3>3. k1 + k2 \in Nat /\ t[c].offset + Need(s) = (k1 + k2) * CacheLine
      BY <3>1, <3>2, <1>3
    <3> QED BY <3>3
  <2>2. ASSUME NEW d \in mapped, d # c
        PROVE  /\ chunk'[d].offset = chunk[d].offset
               /\ chunk'[d].capacity = chunk[d].capacity
    BY <1>4, <2>2 DEF HeapInv, TypeOK
  <2> QED BY <1>4, <2>1, <2>2 DEF HeapInv, CursorsOK
<1>9. ObjectsInMappedChunk'
  <2> SUFFICES ASSUME NEW o \in objs'
               PROVE  /\ o.chunk \in mapped'
                      /\ o.at + Need(o.size) <= chunk'[o.chunk].offset
                      /\ chunk'[o.chunk].offset <= chunk'[o.chunk].capacity
                      /\ HeaderBytes + o.size <= Need(o.size)
    BY DEF ObjectsInMappedChunk, Need, AlignUp
  <2>1. CASE o = n
    BY <2>1, <1>2, <1>3, <1>4, <1>5
  <2>2. CASE o \in objs
    BY <2>2, <1>2, <1>3, <1>4, <1>7, <1>8 DEF CursorsOK, HeapInv, TypeOK, HeapChunk
  <2> QED BY <1>1, <2>1, <2>2
<1>10. ObjectsDisjoint'
  <2>1. ASSUME NEW o \in objs
        PROVE  o.chunk # c \/ (Span(o) \cap Span(n) = {} /\ Span(n) \cap Span(o) = {})
    BY <1>2, <1>3, <1>5, <1>7 DEF Span
  <2>2. ASSUME NEW o \in objs', NEW p \in objs', o # p
        PROVE  o.chunk # p.chunk \/ Span(o) \cap Span(p) = {}
    BY <2>1, <2>2, <1>1, <1>5 DEF HeapInv, ObjectsDisjoint
  <2> QED BY <2>2 DEF ObjectsDisjoint, Span, Need, AlignUp
<1>11. OnCacheLine'
  BY <1>1, <1>5 DEF HeapInv, OnCacheLine
<1>12. FreshFieldsZero'
  <2>1. Fields(n) \cap Header(n) = {}
    BY <1>3, <1>5 DEF Fields, Header
  <2>2. ASSUME NEW o \in objs
        PROVE  Fields(o) \cap Header(n) = {}
    BY <1>3, <1>5, <1>7 DEF Fields, Header
  <2>3. ASSUME NEW o \in objs' \ touched'
        PROVE  Fields(o) \cap stale' = {}
    BY <2>1, <2>2, <1>1 DEF HeapInv, FreshFieldsZero
  <2> QED BY <2>3 DEF FreshFieldsZero, Fields
<1>13. touched' \subseteq objs'
  BY <1>1 DEF HeapInv, TypeOK
<1>14. stale' \subseteq ChunkIds \X Nat
  BY <1>1, <1>3, <1>5 DEF HeapInv, TypeOK, Header
<1> QED BY <1>4, <1>6, <1>8, <1>9, <1>10, <1>11, <1>12, <1>13, <1>14

\* allocate_object without growth.
LEMMA AllocateHereInv ==
  ASSUME HeapInv, NEW s \in Sizes, AllocateHere(s)
  PROVE  HeapInv'
<1>1. /\ current \in mapped /\ current \in ChunkIds /\ mapped \subseteq ChunkIds
      /\ chunk \in [ChunkIds -> HeapChunk]
  <2>1. PICK n \in Nat : \E q \in [1..n -> ChunkIds] : IsChain(n, q)
    BY DEF HeapInv, HasChain
  <2>2. PICK q \in [1..n -> ChunkIds] : IsChain(n, q)
    BY <2>1
  <2>3. current # NULL
    BY DEF AllocateHere, MustGrow
  <2>4. n \in 1..n
    BY <2>2, <2>3 DEF IsChain
  <2> QED BY <2>2, <2>4 DEF IsChain, HeapInv, TypeOK
<1>2. Need(s) \in Nat
  BY NeedCovers
<1>3. chunk[current].offset + Need(s) <= chunk[current].capacity
  BY <1>1, <1>2 DEF AllocateHere, MustGrow, HeapChunk, HeapInv, CursorsOK
<1>4. \E k \in Nat : chunk[current].offset = k * CacheLine
  BY <1>1 DEF HeapInv, CursorsOK
<1>5. Carve(chunk, current, s) /\ mapped' = mapped \cup {current}
  BY <1>1 DEF AllocateHere
<1>6. /\ chunk' \in [ChunkIds -> HeapChunk]
      /\ objs' \subseteq [chunk : ChunkIds, at : Nat, size : Sizes]
      /\ touched' \subseteq objs' /\ stale' \subseteq ChunkIds \X Nat
      /\ CursorsOK' /\ ObjectsInMappedChunk' /\ ObjectsDisjoint'
      /\ OnCacheLine' /\ FreshFieldsZero'
  BY <1>1, <1>3, <1>4, <1>5, CarveInv
<1>7. \A d \in ChunkIds : chunk'[d].next = chunk[d].next
  BY <1>1 DEF AllocateHere, Carve, HeapChunk
<1>8. HasChain'
  <2>0. PICK n \in Nat : \E q \in [1..n -> ChunkIds] : IsChain(n, q)
    BY DEF HeapInv, HasChain
  <2>1. PICK q \in [1..n -> ChunkIds] : IsChain(n, q)
    BY <2>0
  <2>2. IsChain(n, q)'
    BY <2>1, <1>7 DEF IsChain, AllocateHere
  <2> QED BY <2>2 DEF HasChain
<1>9. TypeOK'
  BY <1>6, HeapConstants, Zenon DEF HeapInv, TypeOK, AllocateHere, Object
<1> QED BY <1>6, <1>8, <1>9 DEF HeapInv
\* allocate_object through new_chunk: the chain gains c at its end.
LEMMA AllocateGrowInv ==
  ASSUME HeapInv, NEW s \in Sizes, NEW c \in ChunkIds, AllocateGrow(s, c)
  PROVE  HeapInv'
<1> DEFINE t == WithChunk(c, Need(s))
           r == Rounded(Need(s))
<1>1. /\ Need(s) \in Nat /\ Need(s) <= MaxSingleObject
      /\ c \notin mapped /\ mapped' = mapped \cup {c}
      /\ current' = c /\ head' = (IF current = NULL THEN c ELSE head)
      /\ Carve(t, c, s)
  BY NeedCovers DEF AllocateGrow
<1>2. r \in Nat /\ r - ChunkHeaderBytes \in Nat /\ Need(s) <= r - ChunkHeaderBytes
  BY <1>1, ChunkHolds, HeapConstants
<1>3. /\ chunk \in [ChunkIds -> HeapChunk] /\ mapped \subseteq ChunkIds
      /\ current \in ChunkIds \cup {NULL}
  BY DEF HeapInv, TypeOK
<1>4. t \in [ChunkIds -> HeapChunk]
  <2>1. [next |-> NULL, capacity |-> r - ChunkHeaderBytes, offset |-> 0] \in HeapChunk
    BY <1>2 DEF HeapChunk
  <2>2. \A d \in ChunkIds : [chunk[d] EXCEPT !.next = c] \in HeapChunk /\ chunk[d] \in HeapChunk
    BY <1>3 DEF HeapChunk
  <2> QED BY <2>1, <2>2 DEF WithChunk
<1>5. /\ t[c].offset = 0 /\ t[c].capacity = r - ChunkHeaderBytes /\ t[c].next = NULL
      /\ \A d \in mapped : /\ t[d].offset = chunk[d].offset
                            /\ t[d].capacity = chunk[d].capacity
                            /\ t[d].next = IF d = current THEN c ELSE chunk[d].next
  BY <1>1, <1>3 DEF WithChunk, HeapChunk
<1> HIDE DEF t, r
<1>6. \E k \in Nat : t[c].offset = k * CacheLine
  <2>1. t[c].offset = 0 * CacheLine
    BY <1>5, HeapConstants
  <2> QED BY <2>1
<1>7. t[c].offset + Need(s) <= t[c].capacity
  BY <1>1, <1>2, <1>5
<1>8. /\ chunk' \in [ChunkIds -> HeapChunk]
      /\ objs' \subseteq [chunk : ChunkIds, at : Nat, size : Sizes]
      /\ touched' \subseteq objs' /\ stale' \subseteq ChunkIds \X Nat
      /\ CursorsOK' /\ ObjectsInMappedChunk' /\ ObjectsDisjoint'
      /\ OnCacheLine' /\ FreshFieldsZero'
  BY <1>1, <1>4, <1>5, <1>6, <1>7, CarveInv
<1>9. \A d \in ChunkIds : chunk'[d].next = t[d].next
  BY <1>1, <1>4 DEF Carve, HeapChunk
<1>10. HasChain'
  <2>1. PICK n \in Nat : \E q \in [1..n -> ChunkIds] : IsChain(n, q)
    BY DEF HeapInv, HasChain
  <2>2. PICK q \in [1..n -> ChunkIds] : IsChain(n, q)
    BY <2>1
  <2> DEFINE w == [i \in 1..(n+1) |-> IF i = n + 1 THEN c ELSE q[i]]
  <2>3. w \in [1..(n+1) -> ChunkIds] /\ w[n+1] = c /\ \A i \in 1..n : w[i] = q[i]
    OBVIOUS
  <2> HIDE DEF w
  <2>4. \A i \in 1..n : q[i] \in mapped /\ q[i] # c
    BY <2>2, <1>1 DEF IsChain
  <2>5. \A i, j \in 1..(n+1) : w[i] = w[j] => i = j
    BY <2>2, <2>3, <2>4 DEF IsChain
  <2>6. mapped' = {w[i] : i \in 1..(n+1)}
    BY <2>2, <2>3, <1>1 DEF IsChain
  <2>7. head' = w[1] /\ current' = w[n+1] /\ chunk'[w[n+1]].next = NULL
    <3>1. CASE n = 0
      BY <3>1, <2>2, <2>3, <1>1, <1>5, <1>9 DEF IsChain
    <3>2. CASE n > 0
      <4>1. n \in 1..n /\ 1 \in 1..n
        BY <3>2
      <4>2. current # NULL
        BY <4>1, <3>2, <2>2, HeapConstants DEF IsChain
      <4> QED BY <4>1, <4>2, <3>2, <2>2, <2>3, <1>1, <1>5, <1>9 DEF IsChain
    <3> QED BY <3>1, <3>2
  <2>8. ASSUME NEW i \in 1..n
        PROVE  chunk'[w[i]].next = w[i+1]
    <3>1. chunk'[q[i]].next = IF q[i] = current THEN c ELSE chunk[q[i]].next
      BY <2>4, <1>3, <1>5, <1>9
    <3>2. CASE i = n
      BY <3>1, <3>2, <2>2, <2>3 DEF IsChain
    <3>3. CASE i < n
      <4>1. i \in 1..(n-1) /\ i + 1 \in 1..n /\ n \in 1..n
        BY <3>3
      <4>2. q[i] # current
        BY <4>1, <3>3, <2>2 DEF IsChain
      <4> QED BY <4>1, <4>2, <3>1, <2>2, <2>3 DEF IsChain
    <3> QED BY <3>2, <3>3
  <2>9. IsChain(n + 1, w)'
    BY <2>5, <2>6, <2>7, <2>8 DEF IsChain
  <2> QED BY <2>3, <2>9 DEF HasChain
<1>11. TypeOK'
  BY <1>1, <1>8, HeapConstants, Zenon DEF HeapInv, TypeOK, Object
<1> QED BY <1>8, <1>10, <1>11 DEF HeapInv

\* Walking from the k-th chunk of the chain meets the k-th to the last.
LEMMA WalkChain ==
  ASSUME chunk \in [ChunkIds -> HeapChunk],
         NEW n \in Nat, NEW q \in [1..n -> ChunkIds], IsChain(n, q),
         NEW k \in 1..(n+1), NEW from, from = (IF k > n THEN NULL ELSE q[k])
  PROVE  Walk(from) = {q[i] : i \in k..n}
<1> DEFINE W == {q[i] : i \in k..n}
<1>1. W \in SUBSET ChunkIds
  OBVIOUS
<1>2. Closed(W)
  <2> SUFFICES ASSUME NEW i \in k..n
               PROVE  chunk[q[i]].next \in W \cup {NULL}
    BY DEF Closed
  <2>1. CASE i = n
    BY <2>1 DEF IsChain
  <2>2. CASE i < n
    <3>1. i \in 1..(n-1) /\ i + 1 \in k..n
      BY <2>2
    <3> QED BY <3>1 DEF IsChain
  <2> QED BY <2>1, <2>2
<1>3. from \in W \cup {NULL}
  OBVIOUS
<1>4. Walk(from) \subseteq W
  BY <1>1, <1>2, <1>3 DEF Walk
<1>5. ASSUME NEW S \in SUBSET ChunkIds, from \in S \cup {NULL}, Closed(S)
      PROVE  W \subseteq S
  <2> DEFINE T == {i \in k..n : q[i] \notin S}
  <2> SUFFICES ASSUME T # {}
               PROVE  FALSE
    OBVIOUS
  <2>1. T \in SUBSET Nat
    OBVIOUS
  <2>2. PICK i \in T : \A j \in T : i <= j
    BY <2>1, LeastElement, Zenon
  <2>3. k <= n /\ from = q[k] /\ q[k] \in ChunkIds
    BY <2>2
  <2>4. i # k
    BY <2>2, <2>3, <1>5, HeapConstants
  <2>5. i - 1 \in k..n /\ i - 1 \notin T /\ i - 1 \in 1..(n-1) /\ (i - 1) + 1 = i
    BY <2>2, <2>4
  <2>6. q[i-1] \in S /\ chunk[q[i-1]].next = q[i]
    BY <2>5 DEF IsChain
  <2>7. q[i] \in S \cup {NULL} /\ q[i] \in ChunkIds
    BY <2>2, <2>6, <1>5 DEF Closed
  <2> QED BY <2>2, <2>7, HeapConstants
<1>6. W \subseteq Walk(from)
  BY <1>1, <1>5 DEF Walk
<1> QED BY <1>4, <1>6

\* reset(): the first chunk alone remains.
LEMMA ResetInv ==
  ASSUME HeapInv, Reset
  PROVE  HeapInv'
<1>1. PICK n \in Nat : \E q \in [1..n -> ChunkIds] : IsChain(n, q)
  BY DEF HeapInv, HasChain
<1>2. PICK q \in [1..n -> ChunkIds] : IsChain(n, q)
  BY <1>1
<1>3. chunk \in [ChunkIds -> HeapChunk] /\ head \in ChunkIds /\ head # NULL
  BY DEF HeapInv, TypeOK, Reset
<1>4. n > 0 /\ head = q[1]
  BY <1>2, <1>3 DEF IsChain
<1>5. chunk[head].next = IF 2 > n THEN NULL ELSE q[2]
  BY <1>2, <1>4 DEF IsChain
<1>6. Walk(chunk[head].next) = {q[i] : i \in 2..n}
  <2>1. 2 \in 1..(n+1)
    BY <1>4
  <2> QED BY <2>1, <1>2, <1>3, <1>5, WalkChain, Zenon
<1>7. mapped' = {head}
  BY <1>2, <1>4, <1>6 DEF IsChain, Reset
<1>8. /\ chunk' \in [ChunkIds -> HeapChunk]
      /\ chunk'[head].next = NULL /\ chunk'[head].offset = 0
      /\ chunk'[head].capacity \in Nat
      /\ head' = head /\ current' = head /\ objs' = {} /\ touched' = {}
  <2>1. chunk' = [chunk EXCEPT ![head] = [chunk[head] EXCEPT !.next = NULL, !.offset = 0]]
    BY <1>3, Zenon DEF Reset, HeapChunk
  <2>2. [chunk[head] EXCEPT !.next = NULL, !.offset = 0] \in HeapChunk
    BY <1>3, Zenon DEF HeapChunk
  <2> QED BY <1>3, <2>1, <2>2 DEF Reset, HeapChunk
<1>9. HasChain'
  <2> DEFINE w == [i \in 1..1 |-> q[1]]
  <2>1. w \in [1..1 -> ChunkIds] /\ IsChain(1, w)'
    BY <1>3, <1>4, <1>7, <1>8 DEF IsChain
  <2> HIDE DEF w
  <2> QED BY <2>1, Zenon DEF HasChain
<1>10. CursorsOK'
  <2>1. 0 = 0 * CacheLine
    BY HeapConstants
  <2> QED BY <1>7, <1>8, <2>1 DEF CursorsOK
<1>11. TypeOK'
  BY <1>3, <1>7, <1>8 DEF HeapInv, TypeOK, Reset
<1> QED BY <1>8, <1>9, <1>10, <1>11
        DEF HeapInv, ObjectsInMappedChunk, ObjectsDisjoint, OnCacheLine, FreshFieldsZero

\* The destructor: nothing remains.
LEMMA DestroyInv ==
  ASSUME HeapInv, Destroy
  PROVE  HeapInv'
<1>1. PICK n \in Nat : \E q \in [1..n -> ChunkIds] : IsChain(n, q)
  BY DEF HeapInv, HasChain
<1>2. PICK q \in [1..n -> ChunkIds] : IsChain(n, q)
  BY <1>1
<1>3. chunk \in [ChunkIds -> HeapChunk] /\ n > 0 /\ head = q[1]
  BY <1>2 DEF HeapInv, TypeOK, Destroy, IsChain
<1>4. Walk(head) = {q[i] : i \in 1..n}
  BY <1>2, <1>3, WalkChain
<1>5. mapped' = {} /\ head' = NULL /\ current' = NULL /\ objs' = {} /\ touched' = {} /\ chunk' = chunk
  BY <1>2, <1>4 DEF Destroy, IsChain
<1>6. HasChain'
  <2> DEFINE w == [i \in 1..0 |-> NULL]
  <2>1. w \in [1..0 -> ChunkIds] /\ IsChain(0, w)'
    BY <1>5 DEF IsChain
  <2> QED BY <2>1, Zenon DEF HasChain
<1>7. TypeOK'
  BY <1>5 DEF HeapInv, TypeOK, Destroy
<1> QED BY <1>5, <1>6, <1>7
        DEF HeapInv, CursorsOK, ObjectsInMappedChunk, ObjectsDisjoint, OnCacheLine, FreshFieldsZero

\* The list depends on the links and on what is mapped alone.
LEMMA ChainFrame ==
  ASSUME HasChain, UNCHANGED <<head, current, mapped, chunk>> PROVE HasChain'
<1>1. PICK n \in Nat : \E q \in [1..n -> ChunkIds] : IsChain(n, q)
  BY DEF HasChain
<1>2. PICK q \in [1..n -> ChunkIds] : IsChain(n, q)
  BY <1>1
<1>3. IsChain(n, q)'
  BY <1>2 DEF IsChain
<1> QED BY <1>3 DEF HasChain

\* Fields of different objects share no byte.
LEMMA FieldsDisjoint ==
  ASSUME HeapInv, NEW o \in objs, NEW p \in objs, p # o
  PROVE  Fields(p) \cap Fields(o) = {}
<1>2. ASSUME NEW x \in objs
      PROVE  /\ x.chunk \in ChunkIds /\ x.at \in Nat /\ x.size \in Nat
             /\ Need(x.size) \in Nat /\ HeaderBytes + x.size <= Need(x.size)
             /\ HeaderBytes \in Nat
  <2>1. x \in [chunk : ChunkIds, at : Nat, size : Sizes]
    BY DEF HeapInv
  <2> QED BY <2>1, NeedCovers, HeapConstants, Zenon
<1>3. p.chunk # o.chunk \/ Span(p) \cap Span(o) = {}
  BY DEF HeapInv, ObjectsDisjoint
<1>4. ASSUME NEW b, <<o.chunk, b>> \in Fields(p), <<o.chunk, b>> \in Fields(o)
      PROVE  FALSE
  BY <1>2, <1>3, <1>4 DEF Fields, Span
<1> QED BY <1>4 DEF Fields

\* A store into an object's fields stays off every other object's fields.
LEMMA MutateInv ==
  ASSUME HeapInv, NEW o \in objs, Mutate(o)
  PROVE  HeapInv'
<1>1. /\ head' = head /\ current' = current /\ mapped' = mapped
      /\ chunk' = chunk /\ objs' = objs
      /\ touched' = touched \cup {o} /\ stale' = stale \cup Fields(o)
  BY DEF Mutate
<1>2. o \in [chunk : ChunkIds, at : Nat, size : Sizes] /\ HeaderBytes \in Nat
  BY HeapConstants DEF HeapInv
<1>3. ASSUME NEW p \in objs, p # o
      PROVE  Fields(p) \cap Fields(o) = {}
  BY <1>3, FieldsDisjoint
<1>4. FreshFieldsZero'
  BY <1>1, <1>3 DEF HeapInv, FreshFieldsZero, Fields
<1>5. TypeOK'
  <2>1. Fields(o) \subseteq ChunkIds \X Nat
    BY <1>2 DEF Fields
  <2> QED BY <1>1, <2>1 DEF HeapInv, TypeOK
<1>6. HasChain' /\ CursorsOK'
  <2>1. HasChain'
    BY <1>1, ChainFrame DEF HeapInv
  <2>2. CursorsOK'
    BY <1>1 DEF HeapInv, CursorsOK
  <2> QED BY <2>1, <2>2
<1>7. ObjectsInMappedChunk' /\ ObjectsDisjoint' /\ OnCacheLine'
  BY <1>1 DEF HeapInv, ObjectsInMappedChunk, ObjectsDisjoint, OnCacheLine, Span, Need, AlignUp
<1> QED BY <1>1, <1>4, <1>5, <1>6, <1>7 DEF HeapInv
-------------------------------------------------------------------------------
\* The empty heap satisfies the invariant.
LEMMA HeapInvInit == Init => HeapInv
<1> SUFFICES ASSUME Init PROVE HeapInv
  OBVIOUS
<1>1. HasChain
  <2> DEFINE w == [i \in 1..0 |-> NULL]
  <2>1. w \in [1..0 -> ChunkIds] /\ IsChain(0, w)
    BY DEF Init, IsChain
  <2> QED BY <2>1, Zenon DEF HasChain
<1>2. TypeOK
  BY DEF Init, TypeOK, HeapChunk
<1> QED BY <1>1, <1>2 DEF Init, HeapInv, CursorsOK, ObjectsInMappedChunk,
                          ObjectsDisjoint, OnCacheLine, FreshFieldsZero

\* Every operation keeps the invariant.
LEMMA HeapInvNext == HeapInv /\ [Next]_vars => HeapInv'
<1> SUFFICES ASSUME HeapInv, [Next]_vars PROVE HeapInv'
  OBVIOUS
<1>1. CASE UNCHANGED vars
  <2>1. TypeOK'
    BY <1>1 DEF vars, HeapInv, TypeOK
  <2>2. HasChain'
    BY <1>1, ChainFrame DEF vars, HeapInv
  <2>3. CursorsOK' /\ ObjectsInMappedChunk' /\ OnCacheLine'
    BY <1>1 DEF vars, HeapInv, CursorsOK, ObjectsInMappedChunk, OnCacheLine, Span, Need, AlignUp
  <2>4. ObjectsDisjoint' /\ FreshFieldsZero'
    BY <1>1 DEF vars, HeapInv, ObjectsDisjoint, FreshFieldsZero, Span, Fields, Need, AlignUp
  <2> QED BY <1>1, <2>1, <2>2, <2>3, <2>4 DEF vars, HeapInv
<1>2. ASSUME NEW s \in Sizes, AllocateFail(s)
      PROVE  UNCHANGED vars
  BY <1>2 DEF AllocateFail
<1> QED BY <1>1, <1>2, AllocateHereInv, AllocateGrowInv, ResetInv, DestroyInv, MutateInv DEF Next

\* The invariant of the heap holds in every reachable state.
THEOREM HeapInvariant == Spec => []HeapInv
BY HeapInvInit, HeapInvNext, PTL DEF Spec

\* Two objects handed out by allocate_object never overlap, for all sizes and any
\* interleaving of allocation, growth, reset and destruction.
THEOREM HeapSafety == Spec => []ObjectsDisjoint
<1>1. HeapInv => ObjectsDisjoint
  BY DEF HeapInv
<1> QED BY <1>1, HeapInvariant, PTL

\* Each object lies in a chunk that is still mapped, below its cursor.
THEOREM HeapMapped == Spec => []ObjectsInMappedChunk
<1>1. HeapInv => ObjectsInMappedChunk
  BY DEF HeapInv
<1> QED BY <1>1, HeapInvariant, PTL

\* Fields of an object nobody wrote to read as zero, recycled memory included.
THEOREM HeapFresh == Spec => []FreshFieldsZero
<1>1. HeapInv => FreshFieldsZero
  BY DEF HeapInv
<1> QED BY <1>1, HeapInvariant, PTL

\* Objects are aligned to the cache line.
THEOREM HeapAligned == Spec => []ObjectsAligned
<1>1. HeapInv => ObjectsAligned
  <2> SUFFICES ASSUME HeapInv, NEW o \in objs
               PROVE  o.at % CacheLine = 0
    BY DEF ObjectsAligned
  <2>1. PICK k \in Nat : o.at = k * CacheLine
    BY DEF HeapInv, OnCacheLine
  <2>2. CacheLine \in Nat \ {0}
    BY HeapConstants
  <2>3. (k * CacheLine) % CacheLine = 0
    BY <2>2
  <2> QED BY <2>1, <2>3
<1> QED BY <1>1, HeapInvariant, PTL

\* The chunks on the list are exactly the mappings owned: reset and the
\* destructor release everything else.
THEOREM HeapNoLeak == Spec => []ChainIsMapped
<1>1. HeapInv => ChainIsMapped
  <2> SUFFICES ASSUME HeapInv PROVE ChainIsMapped
    OBVIOUS
  <2>1. PICK n \in Nat : \E q \in [1..n -> ChunkIds] : IsChain(n, q)
    BY DEF HeapInv, HasChain
  <2>2. PICK q \in [1..n -> ChunkIds] : IsChain(n, q)
    BY <2>1
  <2>3. chunk \in [ChunkIds -> HeapChunk] /\ 1 \in 1..(n+1)
    BY DEF HeapInv, TypeOK
  <2>4. head = IF 1 > n THEN NULL ELSE q[1]
    BY <2>2 DEF IsChain
  <2>5. Walk(head) = {q[i] : i \in 1..n}
    BY <2>2, <2>3, <2>4, WalkChain, Zenon
  <2> QED BY <2>2, <2>5, HeapConstants DEF ChainIsMapped, IsChain
<1> QED BY <1>1, HeapInvariant, PTL
-------------------------------------------------------------------------------
\* The objects whose fields read as zero, as the refinement mapping sees them.
Zero == {o \in objs : Fields(o) \cap stale = {}}

\* What carving an object does to the store: one new object, reading as zero,
\* and no other object's fields change.
LEMMA CarveStore ==
  ASSUME HeapInv,
         NEW t, NEW c \in ChunkIds, NEW s \in Sizes,
         Carve(t, c, s), t[c].offset \in Nat,
         \A d \in mapped : t[d].offset = chunk[d].offset
  PROVE  \E n : n \notin objs /\ objs' = objs \cup {n} /\ Zero' = Zero \cup {n}
<1> DEFINE n == [chunk |-> c, at |-> t[c].offset, size |-> s]
<1>1. objs' = objs \cup {n} /\ stale' = (stale \ Fields(n)) \cup Header(n)
  BY DEF Carve
<1>2. n.chunk = c /\ n.at = t[c].offset /\ n.size = s
  OBVIOUS
<1> HIDE DEF n
<1>3. s \in Nat /\ HeaderBytes \in Nat \ {0}
  BY HeapConstants
<1>4. ASSUME NEW p \in objs
      PROVE  /\ p.at \in Nat /\ p.size \in Nat /\ Need(p.size) \in Nat
             /\ Need(p.size) > 0 /\ HeaderBytes + p.size <= Need(p.size)
             /\ p.chunk = c => p.at + Need(p.size) <= n.at
  <2>1. p \in [chunk : ChunkIds, at : Nat, size : Sizes]
    BY DEF HeapInv
  <2>2. p.chunk \in mapped /\ p.at + Need(p.size) <= chunk[p.chunk].offset
    BY DEF HeapInv, ObjectsInMappedChunk
  <2> QED BY <2>1, <2>2, <1>2, NeedCovers, HeapConstants
<1>5. n \notin objs
  BY <1>2, <1>4
<1>6. Fields(n) \cap stale' = {}
  <2>1. Fields(n) \cap Header(n) = {}
    BY <1>2, <1>3 DEF Fields, Header
  <2> QED BY <2>1, <1>1
<1>7. ASSUME NEW p \in objs
      PROVE  Fields(p) \cap stale' = Fields(p) \cap stale
  <2>1. Fields(p) \cap Fields(n) = {} /\ Fields(p) \cap Header(n) = {}
    BY <1>2, <1>3, <1>4 DEF Fields, Header
  <2> QED BY <2>1, <1>1
<1>8. Zero' = {o \in objs' : Fields(o) \cap stale' = {}}
  BY DEF Zero, Fields
<1>9. Zero' = Zero \cup {n}
  BY <1>1, <1>6, <1>7, <1>8 DEF Zero
<1> QED BY <1>1, <1>5, <1>9

\* Every operation of the heap is a step of the store, or changes nothing there:
\* both allocations are New, a store to fields is Write (nothing, for an object
\* without fields), reset and the destructor are ReleaseAll.
LEMMA HeapStepsStore == HeapInv /\ [Next]_vars => [Store!Next]_<<objs, Zero>>
<1> SUFFICES ASSUME HeapInv, [Next]_vars
             PROVE  Store!Next \/ (objs' = objs /\ Zero' = Zero)
  OBVIOUS
<1>0. ASSUME NEW n, n \notin objs, objs' = objs \cup {n}, Zero' = Zero \cup {n}
      PROVE  Store!Next
  BY <1>0 DEF Store!Next, Store!New, Zero
<1>1. ASSUME NEW s \in Sizes, AllocateHere(s) PROVE Store!Next
  <2>1. current \in ChunkIds /\ chunk[current].offset \in Nat /\ Carve(chunk, current, s)
    BY <1>1 DEF AllocateHere, MustGrow, HeapInv, TypeOK, HeapChunk
  <2> QED BY <2>1, <1>0, CarveStore
<1>2. ASSUME NEW s \in Sizes, NEW c \in ChunkIds, AllocateGrow(s, c) PROVE Store!Next
  <2> DEFINE t == WithChunk(c, Need(s))
  <2>1. Carve(t, c, s) /\ c \notin mapped
    BY <1>2 DEF AllocateGrow
  <2>2. t[c].offset \in Nat
    BY DEF WithChunk
  <2>3. \A d \in mapped : t[d].offset = chunk[d].offset
    BY <2>1 DEF WithChunk, HeapInv, TypeOK, HeapChunk
  <2> HIDE DEF t
  <2> QED BY <2>1, <2>2, <2>3, <1>0, CarveStore
<1>3. CASE Reset \/ Destroy
  <2>1. objs' = {} /\ Zero' = {}
    BY <1>3 DEF Reset, Destroy, Zero
  <2> QED BY <2>1 DEF Store!Next, Store!ReleaseAll, Zero
<1>4. ASSUME NEW o \in objs, Mutate(o)
      PROVE  Store!Next \/ (objs' = objs /\ Zero' = Zero)
  <2>1. objs' = objs /\ stale' = stale \cup Fields(o)
    BY <1>4 DEF Mutate
  <2>2. ASSUME NEW p \in objs, p # o
        PROVE  Fields(p) \cap Fields(o) = {}
    BY <2>2, FieldsDisjoint
  <2>3. Zero' = {p \in objs' : Fields(p) \cap stale' = {}}
    BY DEF Zero, Fields
  <2>4. Zero' = IF Fields(o) = {} THEN Zero ELSE Zero \ {o}
    BY <2>1, <2>2, <2>3 DEF Zero
  <2> QED BY <2>1, <2>4 DEF Store!Next, Store!Write, Zero
<1>5. CASE UNCHANGED vars
  BY <1>5 DEF vars, Zero, Fields
<1>6. ASSUME NEW s \in Sizes, AllocateFail(s)
      PROVE  UNCHANGED vars
  BY <1>6 DEF AllocateFail
<1> QED BY <1>1, <1>2, <1>3, <1>4, <1>5, <1>6 DEF Next

\* The allocator implements the store of objects: to compiled code, chunks, growth
\* and recycled memory are invisible; an allocation is a fresh object that reads as
\* zero, a store changes its own object only, and objects die together.
THEOREM HeapRefinesStore == Spec => ImplementsStore
<1>1. Init => Store!Init
  BY DEF Init, Store!Init
<1>2. HeapInv /\ [Next]_vars => [Store!Next]_<<objs, {o \in objs : Fields(o) \cap stale = {}}>>
  BY HeapStepsStore DEF Zero
<1> QED BY <1>1, <1>2, HeapInvariant, PTL DEF Spec, ImplementsStore, Store!Spec
-------------------------------------------------------------------------------
(* The guard of a function-local static.                                   *)

\* t has won the compare-exchange and its stores are not all in memory.
Owner(t) == where[t] \in {"construct", "release"} \/ pend[t] # {}

OneOwner ==
  /\ \A t, u \in Callers : Owner(t) /\ Owner(u) => t = u
  /\ \A t \in Callers : Owner(t) => busy

\* Nothing has happened before the first compare-exchange, and the winner has
\* not yet run the constructor when it arrives there.
NotYet ==
  /\ ~busy => builds = 0 /\ ~done
  /\ \A t \in Callers : where[t] = "construct" => builds = 0 /\ pend[t] = {}

\* The guard byte never overtakes the object.
GuardBehindObject ==
  /\ done => object = "built"
  /\ \A t \in Callers :
       "guard" \in pend[t] \/ where[t] \in {"release", "use"} => SeesBuilt(t)

GuardInv == GuardTypeOK /\ OneOwner /\ NotYet /\ GuardBehindObject /\ BuiltOnce
-------------------------------------------------------------------------------
\* Nobody has entered the accessor.
LEMMA GuardInvInit == GuardInit => GuardInv
<1> SUFFICES ASSUME GuardInit PROVE GuardInv
  OBVIOUS
<1>1. \A t \in Callers : pend[t] = {} /\ where[t] = "idle"
  BY DEF GuardInit
<1>2. GuardTypeOK
  BY Zenon DEF GuardInit, GuardTypeOK, Places
<1>3. OneOwner /\ NotYet /\ GuardBehindObject
  BY <1>1 DEF GuardInit, OneOwner, Owner, NotYet, GuardBehindObject, SeesBuilt
<1> QED BY <1>2, <1>3 DEF GuardInit, GuardInv, BuiltOnce

\* Every step of a thread or its store buffer keeps the invariant.
LEMMA StepInv ==
  ASSUME GuardInv, NEW t \in Callers, Access(t) \/ Step(t) \/ Drain(t)
  PROVE  GuardInv'
<1> USE DEF GuardInv, GuardTypeOK, Places, OneOwner, Owner, NotYet, GuardBehindObject, BuiltOnce,
            SeesBuilt, SeesDone, MoveTo
<1>1. CASE Access(t)
  BY <1>1 DEF Access
<1>2. CASE LoadDone(t)
  BY <1>2 DEF LoadDone
<1>3. CASE CompareExchange(t)
  BY <1>3 DEF CompareExchange
<1>4. CASE Spin(t)
  BY <1>4 DEF Spin
<1>5. CASE Construct(t)
  BY <1>5 DEF Construct
<1>6. CASE Release(t)
  BY <1>6 DEF Release
<1>7. CASE Use(t)
  BY <1>7 DEF Use
<1>8. CASE DrainObject(t)
  BY <1>8 DEF DrainObject
<1>9. CASE DrainGuard(t)
  BY <1>9 DEF DrainGuard
<1> QED BY <1>1, <1>2, <1>3, <1>4, <1>5, <1>6, <1>7, <1>8, <1>9, Zenon DEF Step, Drain

\* Every step keeps the invariant.
LEMMA GuardInvNext == GuardInv /\ [GuardNext]_guardvars => GuardInv'
<1> SUFFICES ASSUME GuardInv, [GuardNext]_guardvars PROVE GuardInv'
  OBVIOUS
<1>1. CASE UNCHANGED guardvars
  BY <1>1 DEF guardvars, GuardInv, GuardTypeOK, OneOwner, Owner, NotYet, GuardBehindObject, BuiltOnce, SeesBuilt
<1> QED BY <1>1, StepInv DEF GuardNext

\* The invariant of the guard holds in every reachable state.
THEOREM GuardInvariant == GuardSpec => []GuardInv
BY GuardInvInit, GuardInvNext, PTL DEF GuardSpec

\* The static is constructed at most once, by any number of threads.
THEOREM GuardBuildsOnce == GuardSpec => []BuiltOnce
<1>1. GuardInv => BuiltOnce
  BY DEF GuardInv
<1> QED BY <1>1, GuardInvariant, PTL

\* Whoever leaves the accessor sees the static constructed, whichever thread
\* constructed it and whatever its store buffer still holds.
THEOREM GuardSafety == GuardSpec => []UsersSeeBuilt
<1>1. GuardInv => UsersSeeBuilt
  BY DEF GuardInv, GuardBehindObject, UsersSeeBuilt
<1> QED BY <1>1, GuardInvariant, PTL
===============================================================================

------------------------------ MODULE ObjectHeap ------------------------------
(***************************************************************************)
(* The chunked bump allocator behind new-instance                          *)
(* (src/src/sys/object_heap.cpp).  A chunk is one mapping; its header      *)
(* holds `next', the usable capacity and the bump cursor.  An address is   *)
(* a pair (chunk, byte of the chunk's usable area): mmap returns a page,   *)
(* and the padded chunk header keeps the usable area on a cache line, so   *)
(* alignment of the byte is alignment of the address.                      *)
(***************************************************************************)
EXTENDS Integers

CONSTANTS
  ChunkIds,         \* places at which mmap can put a mapping
  NULL,
  ChunkHeaderBytes, \* kChunkHeaderBytes
  DefaultChunkBytes,\* kDefaultChunkBytes
  PageBytes,        \* kPageBytes
  MaxSingleObject,  \* kMaxSingleObject
  HeaderBytes,      \* sizeof(ObjectHeader)
  CacheLine,        \* object alignment
  WordSize,         \* size_t arithmetic is modulo WordSize
  Sizes             \* the instance sizes requested

ASSUME HeapConstants ==
  /\ NULL \notin ChunkIds
  /\ ChunkHeaderBytes \in Nat \ {0} /\ DefaultChunkBytes \in Nat \ {0}
  /\ PageBytes \in Nat \ {0} /\ MaxSingleObject \in Nat
  /\ HeaderBytes \in Nat \ {0} /\ CacheLine \in Nat \ {0}
  /\ Sizes \subseteq Nat

\* The 64-bit word leaves room: neither the rounding of the largest request
\* to a cache line nor that of the largest chunk to a page wraps.
ASSUME WordIsWide ==
  /\ WordSize \in Nat
  /\ MaxSingleObject + ChunkHeaderBytes + DefaultChunkBytes + PageBytes < WordSize
  /\ \A s \in Sizes : HeaderBytes + s + CacheLine < WordSize

VARIABLES
  head,     \* head_
  current,  \* current_
  mapped,   \* the mappings the heap owns (kernel state)
  chunk,    \* chunk[c]: the HeapChunk at c
  objs,     \* the objects handed out since the last reset
  stale,    \* bytes whose content may differ from zero
  touched   \* objects the program has written to

vars == <<head, current, mapped, chunk, objs, stale, touched>>
-------------------------------------------------------------------------------
\* (x + (a - 1)) & ~(a - 1) in unsigned arithmetic.
AlignUp(x, a) == LET y == (x + (a - 1)) % WordSize IN (y \div a) * a

\* Seeded fault: the header forgotten.
NeedWithoutHeader(size) == AlignUp(size, CacheLine)

\* `need': header and fields, rounded up to a cache line.
Need(size) == AlignUp(HeaderBytes + size, CacheLine)

HeapChunk == [next : ChunkIds \cup {NULL}, capacity : Nat, offset : Nat]
Object == [chunk : ChunkIds, at : Nat, size : Nat]

Span(o)   == o.at .. (o.at + Need(o.size) - 1)
Fields(o) == {<<o.chunk, b>> : b \in (o.at + HeaderBytes) .. (o.at + HeaderBytes + o.size - 1)}
Header(o) == {<<o.chunk, b>> : b \in o.at .. (o.at + HeaderBytes - 1)}

\* The chunks met by `for (c = from; c; c = c->next)': the least set that
\* contains `from' and is closed under `next'.
Closed(S) == \A c \in S : chunk[c].next \in S \cup {NULL}
Walk(from) ==
  {c \in ChunkIds : \A S \in SUBSET ChunkIds :
                      from \in S \cup {NULL} /\ Closed(S) => c \in S}

Init ==
  /\ head = NULL /\ current = NULL
  /\ mapped = {}
  /\ chunk = [c \in ChunkIds |-> [next |-> NULL, capacity |-> 0, offset |-> 0]]
  /\ objs = {} /\ stale = {} /\ touched = {}

\* Bytes new_chunk maps for a request, and its two overflow tests.
Needed(min)  == (min + ChunkHeaderBytes) % WordSize
Mapping(min) == IF Needed(min) > DefaultChunkBytes THEN Needed(min) ELSE DefaultChunkBytes
Rounded(min) == AlignUp(Mapping(min), PageBytes)
ChunkFits(min) == Needed(min) >= min /\ Rounded(min) >= Mapping(min)

\* No current chunk, or the request does not fit behind its cursor.
MustGrow(need) ==
  current # NULL => need > chunk[current].capacity - chunk[current].offset

\* The table of chunks after new_chunk has put a fresh one at c.
WithChunk(c, need) ==
  LET fresh == [next |-> NULL, capacity |-> Rounded(need) - ChunkHeaderBytes, offset |-> 0]
  IN [d \in ChunkIds |-> IF d = c THEN fresh
                         ELSE IF d = current THEN [chunk[d] EXCEPT !.next = c]
                         ELSE chunk[d]]

\* Seeded faults: the object starts in the padding of the object before it; over
\* bytes not cleared; with all of its chunk cleared.
CarveIntoPadding(t, c, size) ==
  LET o == [chunk |-> c, size |-> size,
            at |-> IF t[c].offset = 0 THEN 0 ELSE t[c].offset - CacheLine]
  IN /\ chunk' = [t EXCEPT ![c].offset = @ + Need(size)]
     /\ objs' = objs \cup {o}
     /\ stale' = (stale \ Fields(o)) \cup Header(o)
     /\ UNCHANGED touched
CarveDirty(t, c, size) ==
  LET o == [chunk |-> c, at |-> t[c].offset, size |-> size]
  IN /\ chunk' = [t EXCEPT ![c].offset = @ + Need(size)]
     /\ objs' = objs \cup {o}
     /\ stale' = stale \cup Header(o)
     /\ UNCHANGED touched
CarveWipes(t, c, size) ==
  LET o == [chunk |-> c, at |-> t[c].offset, size |-> size]
  IN /\ chunk' = [t EXCEPT ![c].offset = @ + Need(size)]
     /\ objs' = objs \cup {o}
     /\ stale' = {s \in stale : s[1] # c} \cup Header(o)
     /\ UNCHANGED touched

\* The object is cut from chunk c of table t, its header written, its fields cleared.
Carve(t, c, size) ==
  LET o == [chunk |-> c, at |-> t[c].offset, size |-> size]
  IN /\ chunk' = [t EXCEPT ![c].offset = @ + Need(size)]
     /\ objs' = objs \cup {o}
     /\ stale' = (stale \ Fields(o)) \cup Header(o)
     /\ UNCHANGED touched

\* allocate_object, the request fits in the current chunk.
AllocateHere(size) ==
  /\ Need(size) <= MaxSingleObject
  /\ ~ MustGrow(Need(size))
  /\ Carve(chunk, current, size)
  /\ UNCHANGED <<head, current, mapped>>

\* allocate_object, through new_chunk; the kernel picks any free place c and
\* delivers it zeroed.
AllocateGrow(size, c) ==
  /\ Need(size) <= MaxSingleObject
  /\ MustGrow(Need(size)) /\ ChunkFits(Need(size))
  /\ c \notin mapped
  /\ mapped' = mapped \cup {c}
  /\ head' = IF current = NULL THEN c ELSE head
  /\ current' = c
  /\ Carve(WithChunk(c, Need(size)), c, size)

\* allocate_object returns nullptr: the object is too large, or a chunk is
\* needed and new_chunk refuses (overflow, or mmap fails at will).
AllocateFail(size) ==
  /\ Need(size) > MaxSingleObject \/ MustGrow(Need(size))
  /\ UNCHANGED vars

\* Seeded fault: head_->next keeps pointing at an unmapped chunk.
ResetKeepsLink ==
  /\ head # NULL
  /\ mapped' = mapped \ Walk(chunk[head].next)
  /\ chunk' = [chunk EXCEPT ![head].offset = 0]
  /\ current' = head
  /\ objs' = {} /\ touched' = {}
  /\ stale' = {s \in stale : s[1] \in mapped'}
  /\ UNCHANGED head

\* reset(): every object dies, only the first chunk stays mapped.
Reset ==
  /\ head # NULL
  /\ mapped' = mapped \ Walk(chunk[head].next)
  /\ chunk' = [chunk EXCEPT ![head].next = NULL, ![head].offset = 0]
  /\ current' = head
  /\ objs' = {} /\ touched' = {}
  /\ stale' = {s \in stale : s[1] \in mapped'}
  /\ UNCHANGED head

\* ~ObjectHeap().
Destroy ==
  /\ head # NULL
  /\ mapped' = mapped \ Walk(head)
  /\ head' = NULL /\ current' = NULL
  /\ objs' = {} /\ touched' = {}
  /\ stale' = {s \in stale : s[1] \in mapped'}
  /\ UNCHANGED chunk

\* Compiled code fills the fields of an object it holds (store-mem).
Mutate(o) ==
  /\ stale' = stale \cup Fields(o)
  /\ touched' = touched \cup {o}
  /\ UNCHANGED <<head, current, mapped, chunk, objs>>

Next ==
  \/ \E s \in Sizes : AllocateHere(s)
  \/ \E s \in Sizes, c \in ChunkIds : AllocateGrow(s, c)
  \/ \E s \in Sizes : AllocateFail(s)
  \/ Reset
  \/ Destroy
  \/ \E o \in objs : Mutate(o)

Spec == Init /\ [][Next]_vars
-------------------------------------------------------------------------------
TypeOK ==
  /\ head \in ChunkIds \cup {NULL} /\ current \in ChunkIds \cup {NULL}
  /\ mapped \subseteq ChunkIds
  /\ chunk \in [ChunkIds -> HeapChunk]
  /\ objs \subseteq Object /\ touched \subseteq objs
  /\ stale \subseteq ChunkIds \X Nat

\* Two live objects never share a byte, whatever mix of growth, reset and
\* reuse of the first chunk produced them: the memset and the header writes of
\* allocate_object stay off every object handed out before.
ObjectsDisjoint ==
  \A o, p \in objs :
    o # p => o.chunk # p.chunk \/ Span(o) \cap Span(p) = {}

\* A live object lies, header, fields and padding, below the cursor of a chunk
\* that is still mapped, and the cursor stays within the capacity: no growth
\* path moves or unmaps a chunk under an object ("growth only appends").
ObjectsInMappedChunk ==
  \A o \in objs :
    /\ o.chunk \in mapped
    /\ o.at + Need(o.size) <= chunk[o.chunk].offset
    /\ chunk[o.chunk].offset <= chunk[o.chunk].capacity
    /\ HeaderBytes + o.size <= Need(o.size)

\* Every object starts on a cache line.
ObjectsAligned == \A o \in objs : o.at % CacheLine = 0

\* An object the program has not written to reads as zero, although its memory
\* may be recycled from before a reset and its neighbours are written freely.
FreshFieldsZero == \A o \in objs \ touched : Fields(o) \cap stale = {}

\* The heap implements the store of objects: an object reads as zero as long
\* as none of its field bytes is stale.
Store == INSTANCE ObjectStore WITH
           live <- objs,
           zero <- {o \in objs : Fields(o) \cap stale = {}}
ImplementsStore == Store!Spec

\* Following `next' from head_ meets exactly the mappings the heap owns and
\* ends at current_: reset and the destructor leak nothing, chunk_count and
\* bytes_allocated see every chunk.
ChainIsMapped ==
  /\ Walk(head) = mapped
  /\ (head = NULL) = (current = NULL)
  /\ current # NULL => current \in mapped /\ chunk[current].next = NULL
===============================================================================

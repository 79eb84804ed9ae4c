--------------------------------- MODULE Arena --------------------------------
(***************************************************************************)
(* The arena of src/src/frontend/arena_allocator.h, from which the parser  *)
(* takes its nodes and strings: a list of chunks, the newest first, each   *)
(* with its header in the same mapping; blocks are carved from the newest, *)
(* aligned by their address, and all given back at once by reset.  The     *)
(* kernel may refuse a mapping and puts it on any free page.               *)
(***************************************************************************)
EXTENDS Integers, Sequences

CONSTANTS
  Page, ChunkHeader, DefaultChunk,   \* 4096, sizeof(Chunk) and default_chunk_size_
  Top,                               \* the greatest size_t
  Requests,                          \* bound: <<bytes, alignment>> asked for
  LastPage, MaxChunks                \* bounds: pages of the address space, mappings

ASSUME ArenaConstants ==
  /\ Page \in Nat \ {0} /\ {ChunkHeader, DefaultChunk, Top, LastPage, MaxChunks} \subseteq Nat
  /\ Requests \subseteq Nat \X Nat

VARIABLES
  chunks,    \* the list from head_: [base, total, used]
  blocks     \* what alloc has returned since the last reset: [at, n, al]

arenavars == <<chunks, blocks>>

RoundUp(n, a) == ((n + a - 1) \div a) * a
\* One bit set: no odd divisor but 1.
PowerOfTwo(a) == a > 0 /\ \A d \in 1..a : a % d = 0 => d = 1 \/ d % 2 = 0

\* Bytes that allocate_chunk maps for a payload, 0 if it cannot be.
MapSize(size) ==
  IF size > Top - ChunkHeader - Page THEN 0
  ELSE LET need == size + ChunkHeader
       IN RoundUp(IF need > DefaultChunk THEN need ELSE DefaultChunk, Page)

Data(c)     == c.base + ChunkHeader
Capacity(c) == c.total - ChunkHeader
Span(from, n) == from..(from + n - 1)

\* Where a free mapping of n bytes may lie.
FreeBases(n) ==
  {Page * k : k \in {j \in 1..LastPage :
     \A m \in 1..Len(chunks) :
       Span(chunks[m].base, chunks[m].total) \cap Span(Page * j, n) = {}}}

Aligned(c, al) == RoundUp(Data(c) + c.used, al)
Padding(c, al) == Aligned(c, al) - (Data(c) + c.used)
Fits(c, bytes, al) == c.used + Padding(c, al) + bytes <= Capacity(c)

\* Seeded fault: the padding is not counted.
CarveUnpadded(c, bytes, al) == [c EXCEPT !.used = @ + bytes]

\* The chunk once a block is carved from it.
Carve(c, bytes, al) == [c EXCEPT !.used = @ + Padding(c, al) + bytes]

ArenaInit == chunks = << >> /\ blocks = << >>

Given(c, rest, bytes, al) ==
  /\ chunks' = <<Carve(c, bytes, al)>> \o rest
  /\ blocks' = Append(blocks, [at |-> Aligned(c, al), n |-> bytes, al |-> al])

Valid(bytes, al) == bytes # 0 /\ PowerOfTwo(al) /\ bytes <= Top - al - Page

\* alloc from the newest chunk.
alloc(bytes, al) ==
  /\ Valid(bytes, al) /\ chunks # << >> /\ Fits(chunks[1], bytes, al)
  /\ Given(chunks[1], Tail(chunks), bytes, al)

\* alloc with a new chunk (a refused one changes nothing); one that is still too small stays, unused.
alloc_grow(bytes, al) ==
  /\ Valid(bytes, al) /\ Len(chunks) < MaxChunks
  /\ chunks # << >> => ~ Fits(chunks[1], bytes, al)
  /\ LET n == MapSize(bytes + al) IN
     /\ n # 0
     /\ \E base \in FreeBases(n) :
          LET c == [base |-> base, total |-> n, used |-> 0]
          IN IF Fits(c, bytes, al) THEN Given(c, chunks, bytes, al)
             ELSE chunks' = <<c>> \o chunks /\ UNCHANGED blocks

reset ==
  /\ chunks # << >>
  /\ chunks' = << >> /\ blocks' = << >>

ArenaNext ==
  \/ \E r \in Requests : alloc(r[1], r[2]) \/ alloc_grow(r[1], r[2])
  \/ reset

ArenaSpec == ArenaInit /\ [][ArenaNext]_arenavars
-------------------------------------------------------------------------------
\* Every block handed out since the last reset is aligned as asked, lies in the
\* payload of a chunk that is still mapped, past its header, and shares no byte
\* with another: the nodes of one program never overwrite each other, however
\* many chunks they take and wherever the kernel maps them.
BlocksPrivate ==
  \A i \in 1..Len(blocks) : LET b == blocks[i] IN
    /\ b.at % b.al = 0
    /\ \E m \in 1..Len(chunks) :
         Span(b.at, b.n) \subseteq Span(Data(chunks[m]), Capacity(chunks[m]))
    /\ \A j \in 1..(i - 1) : Span(b.at, b.n) \cap Span(blocks[j].at, blocks[j].n) = {}
===============================================================================

---------------------------- MODULE JitStringPool -----------------------------
(***************************************************************************)
(* The interning pool of string constants                                  *)
(* (src/src/backend/jit_string_pool.cpp).  A pool is a record: the chunks, *)
(* the table of entries with its capacity, and the string stored at every  *)
(* address handed out.  An address is <<chunk, offset>>.  mem says which   *)
(* of the two kinds of mapping the kernel grants during a call.            *)
(***************************************************************************)
EXTENDS Words

CONSTANTS
  ChunkAt,    \* where the kernel maps the n-th chunk (a constant of Words)
  EmptyAt,    \* the address of the literal ""
  StringLen,  \* the length of each string
  StringHash  \* its hash

kPoolHeaderBytes  == 64
kPoolDefaultChunk == 65536
kPoolPage         == 4096
kInitialEntries   == 256

PageUp(n) == ((n + kPoolPage - 1) \div kPoolPage) * kPoolPage

NewPool == [chunks |-> << >>, entries |-> << >>, capacity |-> 0,
            bytes |-> [a \in {} |-> << >>]]
NoString == << >>
\* The address as the compiler sees it.
Address(a) == IF a = NoString THEN EmptyAt
              ELSE Plus(ChunkAt[a[1]], kPoolHeaderBytes + a[2])

new_chunk(p, min_usable) ==
  LET needed  == min_usable + kPoolHeaderBytes
      mapping == IF needed > kPoolDefaultChunk THEN needed ELSE kPoolDefaultChunk
  IN  [p EXCEPT !.chunks = Append(@, [capacity |-> PageUp(mapping) - kPoolHeaderBytes,
                                      cursor |-> 0])]
\* The copy keeps the entries; the old table is unmapped.
grow_entries(p) ==
  [p EXCEPT !.capacity = IF @ = 0 THEN kInitialEntries ELSE @ * 2]

\* Seeded fault: the length recorded is compared with the bytes needed.
same_string_ended(p, e, s) ==
  e.hash = StringHash[s] /\ e.len = StringLen[s] + 1 /\ p.bytes[e.ptr] = s
same_string(p, e, s) ==
  e.hash = StringHash[s] /\ e.len = StringLen[s] /\ p.bytes[e.ptr] = s

\* The address of the string and the pool afterwards; "" when no chunk can be
\* had; no entry is recorded when the table cannot grow.
get_or_intern(p, s, mem) ==
  LET known == {k \in DOMAIN p.entries : same_string(p, p.entries[k], s)}
      need  == StringLen[s] + 1
      n     == Len(p.chunks)
      fits  == n > 0 /\ need <= p.chunks[n].capacity - p.chunks[n].cursor
      q     == IF fits THEN p ELSE new_chunk(p, need)
      c     == Len(q.chunks)
      at    == <<c, q.chunks[c].cursor>>
      put   == [q EXCEPT !.chunks[c].cursor = @ + need,
                         !.bytes = [a \in DOMAIN @ \cup {at} |-> IF a = at THEN s ELSE @[a]]]
      full  == Len(put.entries) = put.capacity
      room  == IF full THEN grow_entries(put) ELSE put
  IN  IF known # {} THEN [ptr |-> p.entries[Min(known)].ptr, pool |-> p]
      ELSE IF ~fits /\ ~mem.chunk THEN [ptr |-> NoString, pool |-> p]
      ELSE IF full /\ ~mem.table THEN [ptr |-> at, pool |-> put]
      ELSE [ptr |-> at,
            pool |-> [room EXCEPT !.entries =
                        Append(@, [hash |-> StringHash[s], len |-> StringLen[s], ptr |-> at])]]
===============================================================================

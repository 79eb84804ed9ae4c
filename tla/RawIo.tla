-------------------------------- MODULE RawIo ---------------------------------
(***************************************************************************)
(* Bytes on their way to a file: SimpleByteBuffer (src/src/backend/        *)
(* elf_emitter.cpp), raw_write and the output ring (src/src/sys/           *)
(* sys_raw.cpp).  What the bytes are is left out: a piece is `n' bytes of  *)
(* something, from its byte `from' on, so a run of bytes is a sequence of  *)
(* pieces, and its sizes and offsets are the real ones.                    *)
(***************************************************************************)
EXTENDS Integers, Sequences

CONSTANTS
  InitialCapacity,   \* of a SimpleByteBuffer, 65536
  RingSize,          \* of the output ring, 65536
  Fds,               \* 1, 2 and the file being written
  Cuts               \* bound: the offsets in a thing where a write may end short

ASSUME Descriptors == {1, 2} \subseteq Fds /\ RingSize \in Nat \ {0}

VARIABLES
  ring,     \* g_sys_ring of the thread: fd, bytes
  todo,     \* the raw_write calls still to come, [fd, bytes]
  file,     \* fd -> the bytes the kernel took
  exited,   \* raw_exit has been called
  failed,   \* history: the kernel refused a write
  printed   \* history: bytes printed on each descriptor

iovars == <<ring, todo, file, exited, failed, printed>>

Piece(what, from, n) == [what |-> what, from |-> from, n |-> n]
Size(bytes) ==
  LET upto[i \in 0..Len(bytes)] == IF i = 0 THEN 0 ELSE upto[i - 1] + bytes[i].n
  IN upto[Len(bytes)]

\* Bytes behind bytes: a piece that continues the last one becomes one with it.
Join(bytes, p) ==
  LET last == bytes[Len(bytes)]
  IN IF p.n = 0 THEN bytes
     ELSE IF bytes # << >> /\ last.what = p.what /\ last.from + last.n = p.from
     THEN [bytes EXCEPT ![Len(bytes)].n = @ + p.n] ELSE Append(bytes, p)

\* All of a thing of n bytes lies at an offset.
Lies(bytes, what, off, n) ==
  \E i \in DOMAIN bytes : bytes[i] = Piece(what, 0, n) /\ Size(SubSeq(bytes, 1, i - 1)) = off

-------------------------------------------------------------------------------
\* SimpleByteBuffer.  Its first mapping, and every later one, may be refused.
NewBuffer(mapped) == [cap |-> IF mapped THEN InitialCapacity ELSE 0, bytes |-> << >>]

\* Twice the capacity until the bytes fit.
Doubled(cap, need) ==
  LET from == IF cap = 0 THEN 4096 ELSE 2 * cap
  IN CHOOSE c \in {from * 2^k : k \in 0..16} : c >= need /\ (c > from => c \div 2 < need)

\* Seeded fault: growth does not copy.
write_fresh(b, p, mapped) ==
  LET need == Size(b.bytes) + p.n
  IN IF p.n = 0 THEN b
     ELSE IF need <= b.cap THEN [b EXCEPT !.bytes = Append(@, p)]
     ELSE IF mapped THEN [cap |-> Doubled(b.cap, need), bytes |-> <<p>>]
     ELSE b

\* A write that does not fit and cannot grow the buffer is dropped.
write(b, p, mapped) ==
  LET need == Size(b.bytes) + p.n
  IN IF p.n = 0 THEN b
     ELSE IF need <= b.cap THEN [b EXCEPT !.bytes = Append(@, p)]
     ELSE IF mapped THEN [cap |-> Doubled(b.cap, need), bytes |-> Append(b.bytes, p)]
     ELSE b

\* The characters of a name, then its NUL.
write_string(b, name, len, mapped) ==
  write(write(b, Piece(name, 0, len), mapped), Piece("NUL", 0, 1), mapped)
-------------------------------------------------------------------------------
Call(fd, bytes) == [fd |-> fd, bytes |-> bytes]

\* How much of a piece the kernel may take at once: some of it or all.
Takes(p) == {k \in 1..p.n : k = p.n \/ p.from + k \in Cuts}

\* The loop of raw_write: the kernel takes some of the bytes, the loop asks again
\* for the others.  EINTR changes nothing.
raw_write ==
  /\ todo # << >>
  /\ LET c == Head(todo)
         p == Head(c.bytes)
     IN \E k \in Takes(p) :
          /\ file' = [file EXCEPT ![c.fd] = Join(@, [p EXCEPT !.n = k])]
          /\ LET left == (IF k = p.n THEN << >> ELSE <<Piece(p.what, p.from + k, p.n - k)>>)
                         \o Tail(c.bytes)
             IN todo' = (IF left = << >> THEN << >> ELSE <<Call(c.fd, left)>>) \o Tail(todo)
  /\ UNCHANGED <<ring, exited, failed, printed>>

\* Any other error, or 0, ends the call; no caller looks at the result.
raw_write_fails ==
  /\ todo # << >> /\ ~ failed   \* bound: one failure
  /\ todo' = Tail(todo) /\ failed' = TRUE
  /\ UNCHANGED <<ring, file, exited, printed>>
-------------------------------------------------------------------------------
\* raw_flush(fd): one call for what the ring holds, if it is fd's.
Flushed(st, fd) ==
  IF st.ring.bytes # << >> /\ st.ring.fd = fd
  THEN [ring |-> [st.ring EXCEPT !.bytes = << >>], calls |-> Append(st.calls, Call(fd, st.ring.bytes))]
  ELSE st

Unflushed == [ring |-> ring, calls |-> << >>]

\* Seeded fault: the ring changes hands with its bytes.
ClaimedFull(fd) == [ring |-> [ring EXCEPT !.fd = fd], calls |-> << >>]

\* The ring becomes fd's; what it holds for another descriptor is flushed.
Claimed(fd) ==
  LET st == IF ring.fd = fd THEN Unflushed ELSE Flushed(Unflushed, ring.fd)
  IN [st EXCEPT !.ring.fd = fd]

\* One more byte of fd's, the one at `at'; a full ring is flushed before it.
Copied(st, fd, at) ==
  LET room == IF Size(st.ring.bytes) = RingSize THEN Flushed(st, fd) ELSE st
  IN [room EXCEPT !.ring.bytes = Join(@, Piece(fd, at, 1))]

\* The copy loop, for the next n bytes of the thread's output on fd, from its
\* byte `from' on.  Gives the ring and the calls.
Buffered(fd, from, n) ==
  LET after[i \in 0..n] == IF i = 0 THEN Claimed(fd) ELSE Copied(after[i - 1], fd, from + i - 1)
  IN after[n]

raw_write_buffered(fd, n) ==
  LET st == Buffered(fd, printed[fd], n)
  IN /\ todo = << >> /\ ~ exited
     /\ ring' = st.ring /\ todo' = st.calls
     /\ printed' = [printed EXCEPT ![fd] = @ + n]
     /\ UNCHANGED <<file, exited, failed>>

\* raw_exit flushes both descriptors of the thread that exits.
raw_exit ==
  LET st == Flushed(Flushed(Unflushed, 1), 2)
  IN /\ todo = << >> /\ ~ exited
     /\ ring' = st.ring /\ todo' = st.calls /\ exited' = TRUE
     /\ UNCHANGED <<file, failed, printed>>
-------------------------------------------------------------------------------
\* Output reaches each descriptor complete and in the order printed, however the
\* two descriptors alternate in the one ring and however the kernel cuts the
\* writes: what it took, and behind it the one run that the ring still holds, are
\* all that was printed, and after raw_exit the ring holds nothing.
OutputInOrder ==
  (exited \/ \E fd \in {1, 2} : printed[fd] > 0) /\ todo = << >> /\ ~ failed =>
    \A fd \in {1, 2} :
      LET held == IF ring.fd = fd THEN ring.bytes ELSE << >>
      IN /\ (IF held = << >> THEN file[fd] ELSE Join(file[fd], held[1])) =
              (IF printed[fd] = 0 THEN << >> ELSE <<Piece(fd, 0, printed[fd])>>)
         /\ Len(held) <= (IF exited THEN 0 ELSE 1)
===============================================================================

------------------------------- MODULE Encoder --------------------------------
(***************************************************************************)
(* The code buffer of src/src/backend/ana_encoder.cpp: bytes appended to a *)
(* growing mapping, forward branches recorded as relocations, labels bound *)
(* to offsets, and one latched failure flag for everything that could not  *)
(* be done; then resolve_labels and the copy of the code into a mapping of *)
(* its own at the end of compile_function (ana_lowerer.cpp).  Every        *)
(* request for memory may be refused.  `text' and `place' are the history  *)
(* of what the compiler asked for: the program an assembler with unlimited *)
(* memory would have produced, branches still naming their labels.         *)
(***************************************************************************)
EXTENDS Integers, Sequences

CONSTANTS
  PageSize,     \* 4096
  kMaxLabels,   \* 512
  kMaxRelocs,   \* 1024
  EmitSizes,    \* the widths of emit8, emit32, emit64: {1, 4, 8}
  RelMax,       \* 2^31 - 1, the largest displacement of a branch
  MaxCode       \* bound: the compiler stops asking at this many bytes

ASSUME EncoderConstants ==
  /\ PageSize \in Nat /\ PageSize >= 8
  /\ EmitSizes \subseteq 1..8
  /\ kMaxLabels \in Nat /\ kMaxRelocs \in Nat /\ RelMax \in Nat /\ MaxCode \in Nat

VARIABLES
  enc,     \* the AnaEncoder: failed, capacity, code, labels, relocs
  text,    \* history: the bytes asked for, [b |-> byte] or [to |-> label, i |-> 0..3]
  place,   \* history: label -> offset in `text', Unbound before bind_label
  denied,  \* history: memory or a table entry was refused for this function
  image    \* what compile_function returned: NotYet, Null or [code, size]

vars == <<enc, text, place, denied, image>>

Byte == 0..255
Unbound == -1
kInvalidLabel == kMaxLabels     \* any number that is no label
NotYet == [kind |-> "not yet"]
Null == [kind |-> "nullptr"]

RoundUp(n) == ((n + PageSize - 1) \div PageSize) * PageSize
-------------------------------------------------------------------------------
(* The buffer. cursor_ is Len(code): bytes beyond it are never looked at.  *)

Fits(e, n) == Len(e.code) + n <= e.capacity

\* Seeded fault: the new capacity forgets what is about to be written.
GrownShort(e, n) == [e EXCEPT !.capacity = IF @ = 0 THEN PageSize ELSE @ + 1]

\* A larger mapping with the bytes so far copied into it.
Grown(e, n) ==
  [e EXCEPT !.capacity = IF @ = 0 THEN PageSize ELSE RoundUp(2 * @ + n)]

\* Seeded fault: a refused mapping drops the bytes and tells nobody.
PutSilent(e, data, mapped) ==
  LET room == IF Fits(e, Len(data)) THEN e ELSE Grown(e, Len(data))
  IN IF Fits(e, Len(data)) \/ mapped
     THEN [room EXCEPT !.code = @ \o data]
     ELSE e

\* emit8, emit32, emit64 through ensure_capacity; `mapped' is the answer of
\* mmap, if it is asked.
Put(e, data, mapped) ==
  LET room == IF Fits(e, Len(data)) THEN e ELSE Grown(e, Len(data))
  IN IF Fits(e, Len(data)) \/ mapped
     THEN [room EXCEPT !.code = @ \o data]
     ELSE [e EXCEPT !.failed = TRUE]

\* The relocation of a branch whose displacement is the next thing emitted.
Relocate(e, l) ==
  IF Len(e.relocs) >= kMaxRelocs
  THEN [e EXCEPT !.failed = TRUE]
  ELSE [e EXCEPT !.relocs = Append(@, [label |-> l, patch |-> Len(e.code)])]

Zero32 == <<0, 0, 0, 0>>

\* jmp_label and the jcc family: the opcode byte by byte, the relocation, four
\* bytes to be patched.  m[i] answers the i-th request for memory.
Jump(e, opcode, l, m) ==
  LET first == Put(e, <<opcode[1]>>, m[1])
      whole == IF Len(opcode) = 2 THEN Put(first, <<opcode[2]>>, m[2]) ELSE first
  IN Put(Relocate(whole, l), Zero32, m[3])

\* Two of the five branches: jmp rel32, and je for the two-byte je/jne/jl/jge.
BranchOpcodes == {<<233>>, <<15, 132>>}
-------------------------------------------------------------------------------
(* Labels are numbered from 0; labels[l + 1] is the offset of label l.      *)

IsLabel(e, l) == l < Len(e.labels)

\* new_label: the table is full, or label Len(labels) is issued unbound.
WithLabel(e) ==
  IF Len(e.labels) < kMaxLabels
  THEN [e EXCEPT !.labels = Append(@, Unbound)]
  ELSE [e EXCEPT !.failed = TRUE]

\* Seeded fault: the last label is taken for one that does not exist.
BoundOffByOne(e, l) ==
  IF l + 1 < Len(e.labels)
  THEN [e EXCEPT !.labels[l + 1] = Len(e.code)]
  ELSE [e EXCEPT !.failed = TRUE]

Bound(e, l) ==
  IF IsLabel(e, l)
  THEN [e EXCEPT !.labels[l + 1] = Len(e.code)]
  ELSE [e EXCEPT !.failed = TRUE]

Rel(e, r) == e.labels[r.label + 1] - (r.patch + 4)

\* The conditions under which resolve_labels patches r; it gives up at the
\* first relocation that fails one.
Resolvable(e, r) ==
  /\ IsLabel(e, r.label) /\ e.labels[r.label + 1] # Unbound
  /\ r.patch + 4 <= Len(e.code)
  /\ Rel(e, r) \in -(RelMax + 1)..RelMax

\* A displacement as four bytes, least significant first, two's complement.
Rel32(d) == <<d % 256, (d \div 256) % 256, (d \div 65536) % 256, (d \div 16777216) % 256>>

Patched(e) ==
  [j \in 1..Len(e.code) |->
     LET covering == {k \in 1..Len(e.relocs) :
                        j - 1 - e.relocs[k].patch \in 0..3}
     IN IF covering = {} THEN e.code[j]
        ELSE LET k == CHOOSE k \in covering : \A h \in covering : h <= k
             IN Rel32(Rel(e, e.relocs[k]))[j - e.relocs[k].patch]]

Resolves(e) ==
  /\ ~e.failed /\ e.capacity > 0
  /\ \A k \in 1..Len(e.relocs) : Resolvable(e, e.relocs[k])
-------------------------------------------------------------------------------
\* The constructor: reset, then a first page.
Constructed(mapped) ==
  [failed |-> ~mapped, capacity |-> IF mapped THEN PageSize ELSE 0,
   code |-> <<>>, labels |-> <<>>, relocs |-> <<>>]

Fresh(mapped) ==
  /\ enc' = Constructed(mapped) /\ denied' = ~mapped
  /\ text' = <<>> /\ place' = <<>> /\ image' = NotYet

Init ==
  /\ \E mapped \in BOOLEAN : enc = Constructed(mapped) /\ denied = ~mapped
  /\ text = <<>> /\ place = <<>> /\ image = NotYet

\* History: fewer than the n bytes asked for got into the buffer.
Lost(n) == Len(enc'.code) < Len(enc.code) + n

Placed(l) == l < Len(place) /\ place[l + 1] # Unbound

Compiling == image = NotYet /\ Len(text) < MaxCode

\* What the compiler may hold as a label: one that was issued, or the answer
\* of a new_label that failed.
Held == 0..(Len(enc.labels) - 1) \cup
        (IF denied /\ Len(enc.labels) = kMaxLabels THEN {kInvalidLabel} ELSE {})

Emit(data, mapped) ==
  /\ Compiling
  /\ enc' = Put(enc, data, mapped)
  /\ text' = text \o [i \in 1..Len(data) |-> [b |-> data[i]]]
  /\ denied' = (denied \/ Lost(Len(data)))
  /\ UNCHANGED <<place, image>>

Branch(opcode, l, m) ==
  /\ Compiling
  /\ enc' = Jump(enc, opcode, l, m)
  /\ text' = text \o [i \in 1..Len(opcode) |-> [b |-> opcode[i]]]
                  \o [i \in 1..4 |-> [to |-> l, i |-> i - 1]]
  /\ denied' = (denied \/ Lost(Len(opcode) + 4) \/ Len(enc.relocs) = kMaxRelocs)
  /\ UNCHANGED <<place, image>>

NewLabel ==
  /\ Compiling
  /\ enc' = WithLabel(enc)
  /\ place' = IF Len(enc.labels) < kMaxLabels THEN Append(place, Unbound) ELSE place
  /\ denied' = (denied \/ Len(enc.labels) = kMaxLabels)
  /\ UNCHANGED <<text, image>>

BindLabel(l) ==
  /\ Compiling
  /\ enc' = Bound(enc, l)
  /\ place' = IF l < Len(place) THEN [place EXCEPT ![l + 1] = Len(text)] ELSE place
  /\ UNCHANGED <<text, denied, image>>

reset ==
  /\ image = NotYet
  /\ enc' = [enc EXCEPT !.failed = FALSE, !.code = <<>>, !.labels = <<>>, !.relocs = <<>>]
  /\ text' = <<>> /\ place' = <<>> /\ denied' = FALSE
  /\ UNCHANGED image

\* Seeded fault: one page for every function.
MapSizeOnePage(n) == PageSize

\* The mapping is sized to the code that was generated.
MapSize(n) == RoundUp(n)

\* The end of compile_function: resolve, refuse an empty or failed buffer, map
\* and copy.
Finish(mapped) ==
  /\ image = NotYet
  /\ image' = IF Resolves(enc) /\ enc.code # <<>> /\ mapped
              THEN [kind |-> "code", code |-> Patched(enc), size |-> MapSize(Len(enc.code))]
              ELSE Null
  /\ denied' = (denied \/ ~mapped)
  /\ UNCHANGED <<enc, text, place>>

\* The next function has an encoder of its own.
NextFunction(mapped) == image # NotYet /\ Fresh(mapped)

Next ==
  \/ \E n \in EmitSizes, mapped \in BOOLEAN : Emit([i \in 1..n |-> 144], mapped)
  \/ \E opcode \in BranchOpcodes, l \in Held, m \in [1..3 -> BOOLEAN] : Branch(opcode, l, m)
  \/ NewLabel
  \/ \E l \in Held : ~Placed(l) /\ BindLabel(l)   \* the lowerer binds a label once
  \/ reset
  \/ \E mapped \in BOOLEAN : Finish(mapped) \/ NextFunction(mapped)

Spec == Init /\ [][Next]_vars
-------------------------------------------------------------------------------

\* No byte is ever written past the end of the mapping, whatever mix of emission
\* sizes, growth and refused growth came before (ensure_capacity).
NoOverrun == Len(enc.code) <= enc.capacity

IsBranch(j) == "to" \in DOMAIN text[j]

\* Where the branch field that text[j] belongs to must jump: from the end of the
\* field to the place of its label.
Distance(j) == place[text[j].to + 1] - (j + 3 - text[j].i)

\* Code that compile_function hands out is exactly the program asked for, every
\* branch leading to where its label was bound: no refused growth, full table
\* or unbound label lets a truncated or unpatched buffer through
\* ("Emitted code must be discarded when this is set", ana_encoder.h).
LinkedAsAsked ==
  image.kind = "code" =>
    /\ Len(image.code) = Len(text)
    /\ \A j \in 1..Len(text) :
         image.code[j] = IF IsBranch(j) THEN Rel32(Distance(j))[text[j].i + 1]
                         ELSE text[j].b
    /\ \A j \in 1..Len(text) : IsBranch(j) => Placed(text[j].to)

\* The mapping holds all of the code copied into it (the memcpy at the end of
\* compile_function stays inside map_sz), however many pages the code takes.
ImageHoldsCode ==
  image.kind = "code" => Len(image.code) <= image.size /\ image.size % PageSize = 0

\* A function is refused only for a reason: memory or a table entry was denied,
\* it is empty, or some branch has no target or one out of reach.  Nothing the
\* encoder does on the way makes a good function fail.
RefusedForCause ==
  image = Null =>
    \/ denied
    \/ text = <<>>
    \/ \E j \in 1..Len(text) :
         IsBranch(j) /\ (Placed(text[j].to) => Distance(j) \notin -(RelMax + 1)..RelMax)
===============================================================================

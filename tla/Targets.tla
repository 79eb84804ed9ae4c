------------------------------- MODULE Targets --------------------------------
(***************************************************************************)
(* compile_function of the AArch64, 32-bit ARM and RISC-V backends         *)
(* (src/src/backend/{aarch64,armv7,rv64}_backend.cpp): a first pass over   *)
(* the function measures where its blocks begin, a second one emits the    *)
(* code with the branches resolved, both interning the string constants    *)
(* in the runtime's pool.  The words are then decoded and executed by the  *)
(* processor of module Machines, beside the virtual function itself.       *)
(***************************************************************************)
EXTENDS JitStringPool, Machines, SequencesExt

CONSTANTS
  Functions,   \* the functions to compile: [isa, blocks]
  MaxLabels,   \* entries of the label table (128 in the code)
  Capacity,    \* words the AArch64 encoder holds (16384 in the code)
  Memory,      \* what the kernel may grant during a pass: [chunk, table]
  Outcomes,    \* outcomes of the branches of a run
  alloc_obj_helper, popcnt_fn,   \* the helpers' addresses
  VFuel, Fuel  \* steps of a run: virtual instructions, machine words

A == INSTANCE AArch64
R == INSTANCE Armv7
V == INSTANCE Rv64

VARIABLES
  fn,        \* the function: its target and its blocks
  pool,      \* the runtime's string pool
  labels,    \* label_offsets: << <<label, word offset>>, ... >>
  measured,  \* the label table as the first pass left it
  code,      \* the words of the second pass
  phase,     \* "new", "measured", "emitted", "ran"
  ran        \* the two runs: the machine's and the virtual function's

vars == <<fn, pool, labels, measured, code, phase, ran>>
-------------------------------------------------------------------------------
\* A label is <<leading dot, name, trailing colon>>; both marks are ignored.
streq_impl(a, b) == a[2] = b[2]

record_label(tab, label, word_off) ==
  LET same == {k \in DOMAIN tab : streq_impl(tab[k][1], label)}
  IN  IF same # {} THEN [tab EXCEPT ![Min(same)][2] = word_off]
      ELSE IF Len(tab) < MaxLabels THEN Append(tab, <<label, word_off>>)
      ELSE tab
get_label_offset(tab, label) ==
  LET same == {k \in DOMAIN tab : streq_impl(tab[k][1], label)}
  IN  IF same # {} THEN tab[Min(same)][2] ELSE 0

\* Per target: what the switch appends, and the parts around it.
Lower(isa, i) == CASE isa = "a64" -> A!lower(i) [] isa = "arm" -> R!lower(i)
                   [] isa = "rv64" -> V!lower(i)
Literal(isa, i, a) == CASE isa = "a64" -> A!const_string(i, a) [] isa = "arm" -> R!const_string(i, a)
                        [] isa = "rv64" -> V!const_string(i, a)
IfSetup(isa, i) == CASE isa = "a64" -> A!if_setup(i) [] isa = "arm" -> R!if_setup(i)
                     [] isa = "rv64" -> V!if_setup(i)
IfBranch(isa, i, d) == CASE isa = "a64" -> A!if_branch(i, d) [] isa = "arm" -> R!if_branch(i, d)
                         [] isa = "rv64" -> V!if_branch(i, d)
Goto(isa, d) == CASE isa = "a64" -> A!goto(d) [] isa = "arm" -> R!goto(d) [] isa = "rv64" -> V!goto(d)
Prologue(isa) == CASE isa = "a64" -> A!prologue [] isa = "arm" -> R!prologue
                   [] isa = "rv64" -> V!prologue
Slot(isa, r) == CASE isa = "a64" -> A!slot(r) [] isa = "arm" -> R!slot(r) [] isa = "rv64" -> V!slot(r)
Frame(isa) == CASE isa = "a64" -> 16 + 320 [] isa = "arm" -> 8 + 256 [] isa = "rv64" -> 16 + 256

\* emit32: the AArch64 encoder drops what exceeds its buffer, the others grow.
emit32(isa, c, ws) ==
  IF isa = "a64" /\ Len(c) + Len(ws) > Capacity THEN SubSeq(c \o ws, 1, Capacity) ELSE c \o ws

IfOps == {"IF_GE", "IF_LT", "IF_EQ", "IF_NE"}
\* From the branch about to be emitted to its target.
Distance(acc, label, pass2, placeholder) ==
  IF pass2 THEN get_label_offset(acc.labels, label) - Len(acc.code) ELSE placeholder

\* One instruction appended to acc = [code, labels, pool].
emit_insn(isa, acc, i, pass2, mem) ==
  CASE i.op = "CONST_STRING" ->
         LET r == get_or_intern(acc.pool, i.string_val, mem)
         IN  [acc EXCEPT !.pool = r.pool,
                         !.code = emit32(isa, @, Literal(isa, i, Address(r.ptr)))]
    [] i.op \in IfOps ->
         LET ready == [acc EXCEPT !.code = emit32(isa, @, IfSetup(isa, i))]
         IN  [ready EXCEPT !.code =
                emit32(isa, @, IfBranch(isa, i, Distance(ready, i.target, pass2, 2)))]
    [] i.op = "GOTO" ->
         [acc EXCEPT !.code = emit32(isa, @, Goto(isa, Distance(acc, i.target, pass2, -5)))]
    [] OTHER -> [acc EXCEPT !.code = emit32(isa, @, Lower(isa, i))]

\* emit_code: the prologue, then the blocks in order.
emit_code(isa, blocks, tab, p, pass2, mem) ==
  LET block(acc, b) ==
        FoldLeft(LAMBDA x, i : emit_insn(isa, x, i, pass2, mem),
                 [acc EXCEPT !.labels = record_label(@, b.label, Len(acc.code))],
                 b.insns)
  IN  FoldLeft(LAMBDA x, b : block(x, b),
               [code |-> emit32(isa, << >>, Prologue(isa)), labels |-> tab, pool |-> p],
               blocks)
-------------------------------------------------------------------------------
\* What the virtual function does.
Wide(isa, c) == IF isa = "arm" THEN Low32(c) ELSE c
Computes == [ADD |-> "add", SUB |-> "sub", MUL |-> "mul", DIV |-> "div", AND |-> "and",
             OR |-> "or", XOR |-> "xor", SHL |-> "shl", SHR |-> "shr", USHR |-> "ushr"]
VStart(f, regs, outcomes) ==
  [v |-> [r \in regs |-> IF r[1] = "p" THEN <<"in", Abi[f.isa].a0 + r[2]>>
                         ELSE <<"stack", Slot(f.isa, r) - Frame(f.isa)>>],
   block |-> 1, k |-> 1, gets |-> 0, calls |-> 0, out |-> << >>, outcomes |-> outcomes,
   state |-> "running", result |-> <<"void">>]

VStep(f, s) ==
  LET isa == f.isa
      b == f.blocks[s.block]
      i == b.insns[s.k]
      Value(o) == IF o.kind = "CONST_INT" THEN Wide(isa, o.const_val) ELSE s.v[o.reg]
      \* the next instruction, in the next block after the last one
      on == IF s.k < Len(b.insns) THEN [s EXCEPT !.k = @ + 1]
            ELSE [s EXCEPT !.block = @ + 1, !.k = 1]
      jump == [s EXCEPT !.block = Min({n \in DOMAIN f.blocks :
                                         streq_impl(f.blocks[n].label, i.target)}), !.k = 1]
      set(t, x) == [t EXCEPT !.v = [@ EXCEPT ![i.dest] = x]]
      call(t, g, args) == [Out(t, <<"call", g, args, 0>>) EXCEPT !.calls = @ + 1]
      loaded(t, a) == [Out(t, <<"load", a>>) EXCEPT !.gets = @ + 1]
      got(n) == <<"got", s.gets + n>>
      a == Addr(s.v[i.base], i.offset)
  IN  CASE i.op = "MOVE" -> set(on, Value(i.src1))
        [] i.op \in DOMAIN Computes ->
             set(on, Term(Computes[i.op], Value(i.src1), Value(i.src2)))
        [] i.op = "NEG" -> set(on, Term("sub", Zero, Value(i.src1)))
        [] i.op = "BTS" ->
             set(on, Term("or", Value(i.src1), Term("shl", Small(1), Value(i.src2))))
        [] i.op = "BTR" -> set(on, <<"clear", Value(i.src1), Value(i.src2)>>)
        [] i.op = "LOAD_MEM" -> set(loaded(on, a), got(1))
        [] i.op = "STORE_MEM" -> Out(on, <<"store", a, Value(i.src1)>>)
        [] i.op = "ATOMIC_ADD" ->
             Out(on, <<"atomic add", a, Value(i.src1)>>)
        [] i.op = "POPCOUNT" ->
             set(call(on, popcnt_fn, <<Value(i.src1)>>), <<"result", s.calls + 1>>)
        [] i.op = "CALL_VIRT" ->
             LET l == loaded(loaded(on, Addr(Value(i.src1), 0)),
                             Addr(got(1), i.vtable_slot * Abi[isa].word))
                 c == call(l, got(2), <<Value(i.src1)>>)
             IN  IF i.keeps THEN set(c, <<"result", s.calls + 1>>) ELSE c
        [] i.op = "NEW_INSTANCE" ->
             set(call(on, alloc_obj_helper,
                      <<Small(IF i.class.size > 0 THEN i.class.size + 16 ELSE 32),
                        i.class.vtable, Small(1)>>), <<"result", s.calls + 1>>)
        [] i.op = "CONST_STRING" -> set(on, <<"string", i.string_val>>)
        [] i.op = "STR_LEN" -> set(on, Small(i.string_len))
        [] i.op \in IfOps ->
             IF s.outcomes = << >> THEN [s EXCEPT !.state = "stopped"]
             ELSE [Out(IF Head(s.outcomes) THEN jump ELSE on,
                       <<i.op, Value(i.src1), Value(i.src2)>>) EXCEPT !.outcomes = Tail(@)]
        [] i.op = "GOTO" -> jump
        [] i.op = "RETURN_VAL" -> [s EXCEPT !.state = "returned", !.result = Value(i.src1)]
        [] i.op = "RETURN_VOID" -> [s EXCEPT !.state = "returned"]
        [] OTHER -> on
RECURSIVE VRun(_, _, _)
VRun(f, s, fuel) == IF s.state # "running" \/ fuel = 0 THEN s ELSE VRun(f, VStep(f, s), fuel - 1)
-------------------------------------------------------------------------------
InsnsOf(f) == UNION {Range(b.insns) : b \in Range(f.blocks)}
\* The registers a function names.
RegsOf(f) ==
  LET in(i, field) == IF field \in DOMAIN i /\ i[field].kind = "REGISTER" THEN {i[field].reg} ELSE {}
      named(i, field) == IF field \in DOMAIN i THEN {i[field]} ELSE {}
  IN  UNION {in(i, "src1") \cup in(i, "src2") \cup named(i, "dest") \cup named(i, "base") : i \in InsnsOf(f)}

\* The parameters the prologue stores.
StoredParams == [a64 |-> 8, arm |-> 4, rv64 |-> 8]
\* A slot is chosen by some bits of a register's index: this function names no
\* two registers of one slot, and no parameter that was not stored.
SlotsApart(f) ==
  /\ \A r, q \in RegsOf(f) : Slot(f.isa, r) = Slot(f.isa, q) => r = q
  /\ \A r \in RegsOf(f) : r[1] = "p" => r[2] < StoredParams[f.isa]

Init == /\ fn \in Functions
        /\ pool = NewPool
        /\ labels = << >> /\ measured = << >> /\ code = << >>
        /\ phase = "new" /\ ran = << >>

\* Pass 1: only the label offsets (and the pool) outlive it.
pass1 == /\ phase = "new"
         /\ \E mem \in Memory :
              LET e == emit_code(fn.isa, fn.blocks, labels, pool, FALSE, mem)
              IN  labels' = e.labels /\ measured' = e.labels /\ pool' = e.pool
         /\ phase' = "measured"
         /\ UNCHANGED <<fn, code, ran>>
\* Pass 2: emits the code again, into the executable copy.
pass2 == /\ phase = "measured"
         /\ \E mem \in Memory :
              LET e == emit_code(fn.isa, fn.blocks, labels, pool, TRUE, mem)
              IN  labels' = e.labels /\ code' = e.code /\ pool' = e.pool
         /\ phase' = "emitted"
         /\ UNCHANGED <<fn, measured, ran>>
\* The function is called.
execute == /\ phase = "emitted"
           /\ \E o \in Outcomes :
                ran' = [machine |-> RunCode(fn.isa, code, alloc_obj_helper, Start(fn.isa, o), Fuel),
                        virtual |-> VRun(fn, VStart(fn, RegsOf(fn), o), VFuel)]
           /\ phase' = "ran"
           /\ UNCHANGED <<fn, pool, labels, measured, code>>
\* The same function is compiled again, with the pool as it is.
again == /\ phase = "ran"
         /\ phase' = "new" /\ ran' = << >> /\ labels' = << >> /\ measured' = << >> /\ code' = << >>
         /\ UNCHANGED <<fn, pool>>

Next == pass1 \/ pass2 \/ execute \/ again
Spec == Init /\ [][Next]_vars
-------------------------------------------------------------------------------
M == ran.machine
W == ran.virtual
Returned == phase = "ran" /\ W.state = "returned"
\* A machine word that stands for a virtual value.
Stands(x, v) ==
  IF v[1] = "string"
  THEN \E p \in DOMAIN pool.bytes : pool.bytes[p] = v[2] /\ x = Wide(fn.isa, Address(p))
  ELSE x = v

\* The generated code does outside of the function what the virtual function
\* does, in that order and with the same values: every load, store, call (the
\* stack aligned) and comparison; and it returns exactly when the function does.
\* Of functions whose registers have slots of their own, and without an atomic
\* addition, which AArch64 lowers to a load, an addition and a store
\* (aarch64_backend.cpp:465-473).
SameTrace ==
  phase = "ran" /\ SlotsApart(fn) /\ (\A i \in InsnsOf(fn) : i.op # "ATOMIC_ADD") =>
    /\ IsPrefix(W.out, M.out) \/ IsPrefix(M.out, W.out)
    /\ M.state # "undefined"
    /\ W.state = "returned" <=> M.state = "returned"
    /\ Returned => /\ M.out = W.out
                   /\ W.result # <<"void">> => Stands(M.reg[Abi[fn.isa].a0], W.result)

\* When the function returns, the stack slot of every virtual register it names
\* holds the register's value: no instruction's code touches another's slot.
\* Of functions whose registers have slots of their own (the index is masked,
\* rv64_backend.cpp:293,306).
SlotsAgree ==
  Returned /\ SlotsApart(fn) =>
              \A r \in RegsOf(fn) :
                Stands(Peek(M, Slot(fn.isa, r) - Frame(fn.isa)), W.v[r])

\* The caller gets back its stack pointer, frame pointer, return address and
\* callee-saved registers (those the backend uses as scratch excepted).
Scratch == [a64 |-> {}, arm |-> {8, 9}, rv64 |-> {}]
CallerRestored ==
  Returned => /\ M.reg[Abi[fn.isa].sp] = <<"sp", 0>>
              /\ M.to = <<"in", Abi[fn.isa].lr>>
              /\ \A r \in Abi[fn.isa].saved \ Scratch[fn.isa] : M.reg[r] = <<"in", r>>

\* The second pass puts every block where the first one measured it, so forward
\* branches (resolved from the first pass) and backward ones (from the second)
\* agree.
BlocksStay == phase \in {"emitted", "ran"} => labels = measured
===============================================================================

------------------------------- MODULE Optimiser ------------------------------
(***************************************************************************)
(* The passes of src/src/optimizer/ana_ssa.cpp in the order of             *)
(* optimize_function, and reorder_basic_blocks of pgo_profiler.cpp, as     *)
(* operators on the blocks of a function.  run_stream_analysis and         *)
(* run_licm only count and are left out.                                   *)
(***************************************************************************)
EXTENDS Ast

CONSTANT MaxKnown    \* entries of known_strings, 64 in the code

OnInsns(f, T(_)) == [b \in 1..Len(f) |-> [f[b] EXCEPT !.insns = T(@)]]
Each(f, T(_))    == OnInsns(f, LAMBDA is : [k \in 1..Len(is) |-> T(is[k])])
AllInsns(f)      == FlattenSeq([b \in 1..Len(f) |-> f[b].insns])
Mentions(f, P(_)) == \E k \in 1..Len(AllInsns(f)) : P(AllInsns(f)[k])

\* The length recorded for a register, 0 for none (no source has an empty string).
Known(known, r) ==
  LET k == SelectInSeq(known, LAMBDA e : e.reg = r) IN IF k = 0 THEN 0 ELSE known[k].len

\* One instruction of run_length_folding; acc.known are the strings met so far.
FoldLength(acc, i) ==
  LET own == i.str # ""
      n   == IF own THEN Len(i.str) ELSE Known(acc.known, i.src1.reg) IN
  CASE i.op = "CONST_STRING" /\ i.dest.kind = "REGISTER" ->
         [insns |-> Append(acc.insns, i),
          known |-> IF Len(acc.known) < MaxKnown
                    THEN Append(acc.known, [reg |-> i.dest.reg, len |-> Len(i.str)])
                    ELSE acc.known]
    [] i.op = "STR_LEN" /\ n # 0 ->
         [acc EXCEPT !.insns =
            Append(@, [i EXCEPT !.op = "MOVE_CONST", !.src1 = make_const(n)])]
    [] OTHER -> [acc EXCEPT !.insns = Append(@, i)]

run_length_folding(f) ==
  LET block(acc, b) ==
        LET a == FoldLeft(FoldLength, [insns |-> << >>, known |-> acc.known], b.insns)
        IN [blocks |-> Append(acc.blocks, [b EXCEPT !.insns = a.insns]), known |-> a.known]
  IN FoldLeft(block, [blocks |-> << >>, known |-> << >>], f).blocks

\* An object escapes through a store of its address, or through the dest of a
\* return.  One that does not is replaced by 0.
Escapes(f, r) ==
  Mentions(f, LAMBDA i :
    \/ i.op = "RETURN_VAL" /\ i.dest.kind = "REGISTER" /\ i.dest.reg = r
    \/ i.op = "STORE_MEM" /\ i.src1.kind = "REGISTER" /\ i.src1.reg = r)

run_escape_analysis(f) ==
  Each(f, LAMBDA i :
    IF i.op = "NEW_INSTANCE" /\ ~ Escapes(f, i.dest.reg)
    THEN [i EXCEPT !.op = "MOVE_CONST", !.src1 = make_const(0)] ELSE i)

run_autovectorizer(f) ==
  Each(f, LAMBDA i : IF i.op = "ADD_VECTOR_I32X4" THEN [i EXCEPT !.op = "ADD_VECTOR_I32X8"] ELSE i)

SelfMove(i) == i.op = "MOVE" /\ i.dest.kind = "REGISTER" /\ i.src1 = make_reg(i.dest.reg)
run_mem2reg(f) == OnInsns(f, LAMBDA is : SelectSeq(is, LAMBDA i : ~ SelfMove(i)))

\* Seeded fault: only the first operand is compared.
CongruentFirst(i, j) == i.op = j.op /\ i.src1 = j.src1

\* The same operation on the same operands: kind and register are compared, and
\* the register shares its bytes with the constant.
Congruent(i, j) == i.op = j.op /\ i.src1 = j.src1 /\ i.src2 = j.src2

\* Value numbering in a block: what repeats instruction k becomes a move of its
\* result, for k from the first to the last.
GvnFrom(is, k) ==
  IF is[k].op \notin {"ADD_I64", "SUB_I64"} THEN is
  ELSE [m \in 1..Len(is) |->
          IF m > k /\ Congruent(is[k], is[m])
          THEN [is[m] EXCEPT !.op = "MOVE", !.src1 = is[k].dest, !.src2.kind = "NONE"]
          ELSE is[m]]
run_gvn(f) == OnInsns(f, LAMBDA is : FoldLeft(GvnFrom, is, [k \in 1..Len(is) |-> k]))

Passes == << "run_length_folding", "run_escape_analysis", "run_autovectorizer", "run_mem2reg",
             "run_gvn" >>
optimize(f, pass) ==
  CASE pass = "run_length_folding" -> run_length_folding(f)
    [] pass = "run_escape_analysis" -> run_escape_analysis(f)
    [] pass = "run_autovectorizer" -> run_autovectorizer(f)
    [] pass = "run_mem2reg" -> run_mem2reg(f)
    [] pass = "run_gvn" -> run_gvn(f)

\* A label of more than four characters that begins with err; here the one that does.
Cold(label) == label = "error1"

\* The first cold block after the entry moves to the tail.
reorder_basic_blocks(f) ==
  LET k == SelectInSeq(Tail(f), LAMBDA b : Cold(b.label)) IN
  IF k = 0 THEN f ELSE Append(RemoveAt(f, k + 1), f[k + 1])
-------------------------------------------------------------------------------
Ends(b) == \E k \in 1..Len(b.insns) : b.insns[k].op \in Leaves

\* The functions the passes are right for: every register is assigned once and
\* no parameter is, a new object is stored somewhere or not used at all, no
\* 128-bit vectors, and control neither falls into nor out of a cold block.
OnceAssigned(f) ==
  LET is == SelectSeq(AllInsns(f), LAMBDA i : i.dest.kind = "REGISTER" /\ ~ SelfMove(i))
  IN /\ \A m \in 1..Len(is) : is[m].dest.reg[1] = "v"
     /\ \A m, n \in 1..Len(is) : m # n => is[m].dest.reg # is[n].dest.reg

Uses(i, r) == r \in {i.src1.reg, i.src2.reg} \/ (i.dest.kind = "MEM_OFFSET" /\ i.dest.reg = r)

InScope(f) ==
  /\ OnceAssigned(f)
  /\ \A k \in 1..Len(AllInsns(f)) : LET i == AllInsns(f)[k] IN
       /\ i.op # "ADD_VECTOR_I32X4"
       /\ i.op = "NEW_INSTANCE" =>
            Escapes(f, i.dest.reg) \/ ~ Mentions(f, LAMBDA j : Uses(j, i.dest.reg))
  /\ \A k \in 2..Len(f) : Cold(f[k].label) => Ends(f[k - 1]) /\ Ends(f[k]) /\ Ends(Last(f))
===============================================================================

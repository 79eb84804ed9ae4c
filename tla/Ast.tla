--------------------------------- MODULE Ast ----------------------------------
(***************************************************************************)
(* Functions as the parser hands them on (src/src/frontend/ana_ast.h):     *)
(* blocks of instructions over registers, constants and memory operands,   *)
(* and what running such a function means.  Values are terms, so that two  *)
(* functions have the same meaning only if they do the same whatever the   *)
(* arguments and the memory hold.  A register is <<"p", i>> or <<"v", i>>. *)
(***************************************************************************)
EXTENDS Integers, SequencesExt

CONSTANT MaxJumps    \* bound: branches taken or passed in one run

NoReg          == <<"none", 0>>
None           == [kind |-> "NONE", reg |-> NoReg, val |-> 0]
make_reg(r)    == [kind |-> "REGISTER", reg |-> r, val |-> 0]
make_const(n)  == [kind |-> "CONST_INT", reg |-> NoReg, val |-> n]
make_mem(r, n) == [kind |-> "MEM_OFFSET", reg |-> r, val |-> n]

\* A fresh Instruction; "" stands for a null string.
Insn(op) == [op |-> op, dest |-> None, src1 |-> None, src2 |-> None,
             slot |-> 0, label |-> "", str |-> ""]
Block(label, insns) == [label |-> label, insns |-> insns]

ArithOps  == {"ADD_I64", "SUB_I64", "MUL_I64", "DIV_I64", "AND_I64", "OR_I64", "XOR_I64",
              "ADD_I32", "SUB_I32", "MUL_I32", "DIV_I32", "AND_I32", "OR_I32", "XOR_I32",
              "SHL_I32", "SHL_I64", "SHR_I32", "SHR_I64", "USHR_I32", "USHR_I64", "BTS_I64", "BTR_I64",
              "ADD_FLOAT_32", "ADD_FLOAT_64", "SUB_FLOAT_64", "MUL_FLOAT_64", "DIV_FLOAT_64",
              "ADD_VECTOR_I32X4", "SUB_VECTOR_I32X4"}
UnaryOps  == {"NEG_I32", "NEG_I64", "POPCOUNT_I64", "LZCNT_I64"}
IfOps     == {"IF_EQ", "IF_NE", "IF_LT", "IF_GE"}
IfZeroOps == {"IF_Z", "IF_NZ"}
AtomicOps == {"ATOMIC_XCHG_I64", "ATOMIC_ADD_I64", "ATOMIC_AND_I64", "ATOMIC_OR_I64"}
CallOps   == {"CALL_VIRT", "CALL_VIRT_FAST"}
Returns   == {"RETURN_VAL", "RETURN_VOID"}
Leaves    == Returns \cup {"GOTO"}
\* What other threads, the memory or another function take part in.
Effects   == AtomicOps \cup CallOps
               \cup {"LOAD_MEM", "STORE_MEM", "ATOMIC_CAS_I64", "BIND_VTABLE", "FENCE"}
-------------------------------------------------------------------------------
Num(n) == <<"int", n>>

Value(s, o) ==
  CASE o.kind \in {"REGISTER", "MEM_OFFSET"} -> s.regs[o.reg]
    [] o.kind = "CONST_INT" -> Num(o.val)
    [] o.kind = "NONE" -> <<"none">>

Apply(op, x, y) ==
  CASE op = "ADD_I64" /\ x[1] = "int" /\ y[1] = "int" -> Num(x[2] + y[2])
    [] op = "SUB_I64" /\ x[1] = "int" /\ y[1] = "int" -> Num(x[2] - y[2])
    [] op = "DIV_I64" /\ y = Num(0) -> Num(0)
    [] OTHER -> <<op, x, y>>

\* What an instruction without effect leaves in its destination.
Result(s, i) ==
  LET x == Value(s, i.src1)  y == Value(s, i.src2) IN
  CASE i.op \in {"MOVE", "MOVE_CONST"} -> x
    [] i.op = "CONST_STRING" -> <<"str", i.str>>
    [] i.op = "STR_LEN" -> IF i.str # "" THEN Num(Len(i.str))
                           ELSE IF x[1] = "str" THEN Num(Len(x[2])) ELSE <<"len", x>>
    [] i.op = "NEW_INSTANCE" -> <<"obj", i.dest.reg>>
    [] OTHER -> Apply(i.op, x, y)

\* What the outside sees of an instruction.
Event(s, i) ==
  <<i.op, IF i.dest.kind = "MEM_OFFSET" \/ i.op \in {"ATOMIC_CAS_I64", "BIND_VTABLE"}
          THEN Value(s, i.dest) ELSE <<"none">>,
    Value(s, i.src1), Value(s, i.src2), i.dest.val, i.src1.val, i.slot>>

Start(regs) == [b |-> 1, k |-> 1, regs |-> regs, jumps |-> 0, trace |-> << >>,
                blind |-> FALSE, state |-> "running", result |-> <<"none">>]

BlockOf(f, label) == SelectInSeq(f, LAMBDA b : b.label = label)

Jump(f, s, label) == [s EXCEPT !.b = BlockOf(f, label), !.k = 1]

\* One instruction, or the passage into the next block.  taken[j] says how the
\* j-th branch goes; `blind' notes the length of what was never a string.
RunStep(f, taken, s) ==
  IF s.b > Len(f) THEN [s EXCEPT !.state = "returned"]
  ELSE IF s.k > Len(f[s.b].insns) THEN [s EXCEPT !.b = @ + 1, !.k = 1]
  ELSE LET i == f[s.b].insns[s.k]
           n == [s EXCEPT !.k = @ + 1]
           saw == Append(s.trace, Event(s, i))
           last == s.jumps = MaxJumps IN
  CASE i.op \in Returns -> [s EXCEPT !.state = "returned", !.result = Value(s, i.src1)]
    [] i.op = "GOTO" -> IF last THEN [s EXCEPT !.state = "cut"]
                        ELSE [Jump(f, s, i.label) EXCEPT !.jumps = @ + 1]
    [] i.op \in IfOps \cup IfZeroOps ->
         IF last THEN [s EXCEPT !.state = "cut"]
         ELSE [(IF taken[s.jumps + 1] THEN Jump(f, s, i.label) ELSE n)
                 EXCEPT !.jumps = @ + 1, !.trace = saw]
    [] i.op \in Effects ->
         [n EXCEPT !.trace = saw,
                   !.regs = IF i.dest.kind = "REGISTER" /\ i.op # "BIND_VTABLE"
                            THEN [@ EXCEPT ![i.dest.reg] = <<"res", Len(saw)>>] ELSE @]
    [] OTHER -> [n EXCEPT !.regs = [@ EXCEPT ![i.dest.reg] = Result(s, i)],
                          !.blind = @ \/ Result(s, i)[1] = "len"]

RECURSIVE Run(_, _, _)
Run(f, taken, s) == IF s.state # "running" THEN s ELSE Run(f, taken, RunStep(f, taken, s))

\* The state after n instructions.
RECURSIVE After(_, _, _)
After(f, n, s) ==
  IF s.state # "running" THEN s
  ELSE LET here == s.b <= Len(f) /\ s.k <= Len(f[s.b].insns) IN
       IF here /\ n = 0 THEN s
       ELSE After(f, IF here THEN n - 1 ELSE n, RunStep(f, << >>, s))

Outcomes == [1..MaxJumps -> BOOLEAN]
Meaning(f, taken, regs) ==
  LET s == Run(f, taken, Start(regs))
  IN [trace |-> s.trace, state |-> s.state, result |-> s.result, blind |-> s.blind]
===============================================================================

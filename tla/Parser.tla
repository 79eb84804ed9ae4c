-------------------------------- MODULE Parser --------------------------------
(***************************************************************************)
(* Functions in src/src/frontend/ana_parser.cpp, from the tokens of the    *)
(* lexer to blocks of instructions: parse_program's loop, parse_function,  *)
(* parse_basic_block, parse_instruction with the operands of every opcode, *)
(* the folding of constants and the cut after a block's first leave.       *)
(* Errors are latched and parsing goes on; only the answer tells.  A token *)
(* is <<type>> or <<type, value>>; the lexer turns `name:' into one label  *)
(* token.  Classes are in ClassLayout, the words of folding in Arith.      *)
(***************************************************************************)
EXTENDS Ast

EOF      == <<"eof">>
ERROR    == <<"error">>
Cur(p)   == IF p.toks = << >> THEN EOF ELSE p.toks[1]
Is(p, t) == Cur(p)[1] = t

\* A parse: the tokens from current_tok_ on, had_error_, the instruction being read.
Parse(toks) == [toks |-> toks, err |-> toks # << >> /\ toks[1] = ERROR, insn |-> Insn("NONE")]

\* Parser::advance latches an unreadable token as it comes up.
advance(p) ==
  IF p.toks = << >> THEN p
  ELSE [p EXCEPT !.toks = Tail(@), !.err = @ \/ (Len(p.toks) > 1 /\ p.toks[2] = ERROR)]

match(p, t)  == IF Is(p, t) THEN advance(p) ELSE p
expect(p, t) == IF Is(p, t) THEN advance(p) ELSE [p EXCEPT !.err = TRUE]

SetOperand(p, f, o) == [p EXCEPT !.insn[f] = o]
-------------------------------------------------------------------------------
\* The pieces of an operand list; f names the operand that is filled.
TakeReg(p, f) == IF Is(p, "reg") THEN advance(SetOperand(p, f, make_reg(Cur(p)[2]))) ELSE p
TakeInt(p, f) == IF Is(p, "int") THEN advance(SetOperand(p, f, make_const(Cur(p)[2]))) ELSE p
TakeRegOrInt(p, f) == IF Is(p, "reg") THEN TakeReg(p, f) ELSE TakeInt(p, f)
TakeRegComma(p, f) == IF Is(p, "reg") THEN expect(TakeReg(p, f), ",") ELSE p
TakeLabel(p) ==
  IF Is(p, "id") \/ Is(p, "label") THEN advance([p EXCEPT !.insn.label = Cur(p)[2]]) ELSE p
TakeString(p) == IF Is(p, "str") THEN advance([p EXCEPT !.insn.str = Cur(p)[2]]) ELSE p
TakeSlot(p) == IF Is(p, "int") THEN advance([p EXCEPT !.insn.slot = Cur(p)[2]]) ELSE p
TakeHint(p) == IF Is(p, "likely") \/ Is(p, "unlikely") THEN advance(p) ELSE p

\* [base + offset]: the token after the bracket is taken for the base whatever
\* it is, and one that is no register has none to give.
TakeMem(p, f) ==
  IF ~ Is(p, "[") THEN p
  ELSE LET b    == advance(p)
           base == IF Is(b, "reg") THEN Cur(b)[2] ELSE <<"garbage", 0>>
           q    == advance(b)
           off  == IF Is(q, "+") THEN advance(q) ELSE q
           n    == IF Is(q, "+") /\ Is(off, "int") THEN Cur(off)[2] ELSE 0
           r    == IF Is(q, "+") THEN advance(off) ELSE q
       IN SetOperand(expect(r, "]"), f, make_mem(base, n))
TakeMemComma(p, f) == IF Is(p, "[") THEN expect(TakeMem(p, f), ",") ELSE p

\* Seeded fault: a truncated operand list is accepted.
ArithUnchecked(p) ==
  LET b == TakeRegOrInt(TakeRegComma(p, "dest"), "src1")
  IN IF Is(b, ",") THEN TakeRegOrInt(advance(b), "src2") ELSE b

Arith(p) ==
  LET a == TakeRegComma(p, "dest")
      b == TakeRegOrInt(a, "src1")
      whole == Is(p, "reg") /\ (Is(a, "reg") \/ Is(a, "int"))
      c == [b EXCEPT !.err = @ \/ ~ whole]
  IN IF Is(c, ",") THEN TakeRegOrInt(advance(c), "src2") ELSE c

Store(p) ==
  IF Is(p, "reg")
  THEN LET a == expect(advance(p), ",")
       IN IF Is(a, "[") THEN SetOperand(TakeMem(a, "dest"), "src1", make_reg(Cur(p)[2])) ELSE a
  ELSE IF Is(p, "[") THEN TakeRegOrInt(TakeMemComma(p, "dest"), "src1") ELSE p

Branch(p) ==
  LET a == TakeRegOrInt(TakeRegComma(TakeHint(p), "src1"), "src2")
  IN IF Is(a, ",") THEN TakeLabel(advance(a)) ELSE a
BranchZero(p) ==
  LET a == TakeReg(TakeHint(p), "src1") IN IF Is(a, ",") THEN TakeLabel(advance(a)) ELSE a

Call(p) ==
  LET a == TakeSlot(TakeRegComma(p, "src1")) IN IF Is(a, "->") THEN TakeReg(advance(a), "dest") ELSE a

Operands(op, p) ==
  CASE op \in ArithOps -> Arith(p)
    [] op \in UnaryOps -> TakeRegOrInt(TakeRegComma(p, "dest"), "src1")
    [] op = "CONST_STRING" -> TakeString(TakeRegComma(p, "dest"))
    [] op = "STR_LEN" -> LET a == TakeRegComma(p, "dest")
                         IN IF Is(a, "reg") THEN TakeReg(a, "src1") ELSE TakeString(a)
    [] op = "GOTO" -> TakeLabel(p)
    [] op \in IfOps -> Branch(p)
    [] op \in IfZeroOps -> BranchZero(p)
    [] op = "ATOMIC_CAS_I64" -> TakeReg(TakeMemComma(TakeRegComma(p, "dest"), "src1"), "src2")
    [] op \in AtomicOps -> TakeRegOrInt(TakeMemComma(p, "dest"), "src1")
    [] op = "NEW_INSTANCE" -> TakeLabel(TakeRegComma(p, "dest"))
    [] op \in {"MOVE_CONST", "BIND_VTABLE"} -> TakeInt(TakeRegComma(p, "dest"), "src1")
    [] op = "MOVE" -> TakeReg(TakeRegComma(p, "dest"), "src1")
    [] op = "LOAD_MEM" -> TakeMem(TakeRegComma(p, "dest"), "src1")
    [] op = "STORE_MEM" -> Store(p)
    [] op \in CallOps -> Call(p)
    [] op = "RETURN_VAL" -> TakeRegOrInt(p, "src1")
    [] OTHER -> p

parse_instruction(p) ==
  LET op == Cur(p)[2] IN Operands(op, advance([p EXCEPT !.insn = Insn(op)]))

\* Folding: two constants become one.  Arith has the words of every opcode; here
\* the two that the sources fold.
optimize_instruction(i) ==
  LET v == Apply(i.op, Num(i.src1.val), Num(i.src2.val)) IN
  IF /\ i.src1.kind = "CONST_INT" /\ i.src2.kind = "CONST_INT"
     /\ i.op \in {"ADD_I64", "SUB_I64"}
  THEN [i EXCEPT !.op = "MOVE_CONST", !.src1 = make_const(v[2]), !.src2 = make_const(0)]
  ELSE i

\* Nothing follows the first leave of a block.
apply_dce(insns) ==
  LET k == SelectInSeq(insns, LAMBDA i : i.op \in Leaves)
  IN IF k = 0 THEN insns ELSE SubSeq(insns, 1, k)
-------------------------------------------------------------------------------
\* One parameter of a header, `p0 : i64'.  Written without the blank, `p0:' is a
\* label token and is passed over: the parameter is not counted.
Param(p) ==
  IF Is(p, "reg") \/ Is(p, "id")
  THEN match(advance(expect(advance(p), ":")), ",")
  ELSE advance(p)

RECURSIVE Params(_, _)
Params(p, n) ==
  IF Is(p, ")") \/ Is(p, "eof") THEN [p |-> p, n |-> n]
  ELSE Params(Param(p), IF Is(p, "reg") \/ Is(p, "id") THEN n + 1 ELSE n)

\* From .fn up to the return type; a header without a name is no function.
Header(p) ==
  LET a == expect(p, ".fn") IN
  IF ~ Is(a, "id") THEN [p |-> a, named |-> FALSE, params |-> 0]
  ELSE LET b == Params(expect(advance(a), "("), 0)
           c == expect(b.p, ")")
           d == IF Is(c, "->") THEN advance(advance(c)) ELSE c
       IN [p |-> d, named |-> TRUE, params |-> b.n]
===============================================================================

------------------------------ MODULE MCFrontend ------------------------------
(***************************************************************************)
(* The frontend, one part at a time: functions (Frontend) with an entry    *)
(* block of up to three instructions, a second block that may be cold or   *)
(* empty and an exit that shows every register, or, for damaged texts, of  *)
(* one instruction; classes (ClassLayout); and the arena (Arena) both      *)
(* parse into.  `part' says which one moves.                               *)
(***************************************************************************)
EXTENDS Frontend, ClassLayout, Arena

VARIABLE part

Kind(x) == IF x[1] = "int" THEN make_const(x[2]) ELSE make_reg(x)
I3(op, d, x, y) == [Insn(op) EXCEPT !.dest = make_reg(d), !.src1 = Kind(x), !.src2 = Kind(y)]
I2(op, d, x)    == [Insn(op) EXCEPT !.dest = make_reg(d), !.src1 = Kind(x)]
Lit(op, d, s)   == [Insn(op) EXCEPT !.dest = make_reg(d), !.str = s]
Ld(d, b, n)     == [Insn("LOAD_MEM") EXCEPT !.dest = make_reg(d), !.src1 = make_mem(b, n)]
St(b, n, x)     == [Insn("STORE_MEM") EXCEPT !.dest = make_mem(b, n), !.src1 = Kind(x)]
If(op, x, y, l) == [Insn(op) EXCEPT !.src1 = Kind(x), !.src2 = Kind(y), !.label = l]
To(l)           == [Insn("GOTO") EXCEPT !.label = l]
Ret(x)          == [Insn("RETURN_VAL") EXCEPT !.src1 = Kind(x)]
New(d)          == [Insn("NEW_INSTANCE") EXCEPT !.dest = make_reg(d), !.label = "C"]
p0 == <<"p", 0>>   p1 == <<"p", 1>>
v0 == <<"v", 0>>   v1 == <<"v", 1>>   v2 == <<"v", 2>>   v3 == <<"v", 3>>
N(n) == <<"int", n>>

Heads == {I3("ADD_I64", v0, p0, p1), I3("SUB_I64", v0, N(3), p1), Lit("CONST_STRING", v0, "ab"),
          New(v0), I2("MOVE_CONST", v0, N(MinInt)), Ld(v0, p0, 8)}
Middles ==
  {I3("ADD_I64", v1, p0, p1), I3("SUB_I64", v1, p0, p1), I3("ADD_I64", v1, N(3), N(4)),
   I3("SUB_I64", v1, N(3), p1), I3("ADD_I64", v1, p0, v0), I3("ADD_I64", p0, v0, p1),
   I2("STR_LEN", v1, v0),
   Lit("STR_LEN", v1, "xyz"), Lit("CONST_STRING", v1, "c"), I2("MOVE", v1, v0), I2("MOVE", p0, p0),
   I2("MOVE_CONST", v1, N(-1)), I3("DIV_I64", v1, v0, p1), St(p0, 8, v0), St(v0, 0, N(5)),
   If("IF_EQ", v0, p1, "exit"), [If("IF_NZ", p0, p0, "exit") EXCEPT !.src2 = None]}
Odd ==
  {I2("NEG_I64", v1, v0), Insn("FENCE"), I2("BIND_VTABLE", v0, N(64)), To("exit"), Ret(v0),
   [I3("ATOMIC_CAS_I64", v0, p0, p1) EXCEPT !.src1 = make_mem(p0, 8)],
   [St(p0, 8, v0) EXCEPT !.op = "ATOMIC_ADD_I64"],
   [Insn("CALL_VIRT") EXCEPT !.src1 = make_reg(p0), !.slot = 2, !.dest = make_reg(v1)],
   I3("ADD_VECTOR_I32X4", v1, p0, p1), I3("ADD_I32", v1, p0, p1), Insn("RETURN_VOID"),
   I3("SHR_I64", v1, p0, N(3)), I3("BTS_I64", v1, v0, N(1)), I3("SUB_FLOAT_64", v1, p0, p1)}
Ends3 == {<< >>, <<I3("ADD_I64", v2, p0, p1)>>, <<I3("SUB_I64", v2, N(3), p1)>>,
          <<I2("STR_LEN", v2, v1)>>, <<I3("DIV_I64", v2, v0, v1)>>, <<To("exit"), I2("MOVE", v2, p0)>>}
Seconds == {Block("error1", <<I3("ADD_I64", v3, p0, p1), Ret(v3)>>), Block("error1", << >>),
            Block("L1", <<I2("STR_LEN", v3, v0), To("exit")>>), Block("L1", <<I2("MOVE", v3, v2)>>)}
Exit == Block("exit", <<St(p1, 0, v2), St(p1, 8, v3), Ret(v1)>>)
Leave == Block("exit", <<I3("SUB_I64", p1, v2, v1), Ret(v1)>>)

Longer ==
  {<<Block("entry", <<h, m>> \o e), s, Exit>> :
     h \in Heads, m \in Middles, e \in Ends3, s \in Seconds}
Straight ==
  {<<Block("entry", <<h, m>> \o e), Block("L1", s), Leave>> :
     h \in Heads, m \in Middles, e \in Ends3, s \in {<< >>, <<I3("ADD_I64", v3, p0, v1)>>}}
Unusual ==
  {<<Block("entry", <<h, If("IF_EQ", v0, p1, "error1"), To("exit")>>), s, Exit>> :
     h \in Heads, s \in {t \in Seconds : t.label = "error1"}}
Single ==
  {<<Block("entry", <<i>>), Block("exit", <<Ret(v1)>>)>> : i \in Heads \cup Middles \cup Odd}
MCWritten == Longer \cup Straight \cup Unusual \cup Single
MCRequests == {<<3, 1>>, <<5, 4>>, <<8, 8>>, <<20, 8>>, <<9, 32>>, <<0, 4>>, <<4, 3>>, <<90, 4>>}
-------------------------------------------------------------------------------
partvars == <<vars, part, classvars, arenavars>>

PartInit ==
  /\ ClassInit /\ ArenaInit
  /\ \/ part = "functions" /\ Init
     \/ /\ part \in {"classes", "arena"}
        /\ written = << >> /\ source = << >> /\ parse = Parse(<< >>) /\ phase = "program"
        /\ fn = NoFn /\ passes = 0 /\ dbg = NoDbg

PartNext ==
  \/ part = "functions" /\ Next /\ UNCHANGED <<part, classvars, arenavars>>
  \/ part = "classes" /\ ClassNext /\ UNCHANGED <<part, vars, arenavars>>
  \/ part = "arena" /\ ArenaNext /\ UNCHANGED <<part, vars, classvars>>

PartSpec == PartInit /\ [][PartNext]_partvars
===============================================================================

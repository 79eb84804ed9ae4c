------------------------------- MODULE Debugger -------------------------------
(***************************************************************************)
(* The interpreter of src/src/debugger/ana_debugger.cpp: its registers,    *)
(* execute_single_instruction, step, breakpoints and continue_execution.   *)
(* It steps through the blocks in the order of the text; branches have no  *)
(* effect on it.  A debugger is a record: program, block and instruction   *)
(* (0 for the null pointer), registers, line, breakpoints, is_finished_.   *)
(***************************************************************************)
EXTENDS Ast

CONSTANTS
  NumParams, NumLocals,    \* sizes of params_ and registers_: 8 and 32 in the code
  MaxBreakpoints           \* size of breakpoints_: 64 in the code

Places == ({"p"} \X (0..(NumParams - 1))) \cup ({"v"} \X (0..(NumLocals - 1)))
MinInt == -8               \* the least word; -8 stands for INT64_MIN

First(f, b) == IF b > Len(f) \/ f[b].insns = << >> THEN 0 ELSE 1

\* load_program_from_source, set_param for every parameter.
Load(f) ==
  [code |-> f, b |-> 1, k |-> First(f, 1), line |-> 1, finished |-> FALSE, trapped |-> FALSE,
   bps |-> << >>, hit |-> FALSE,
   regs |-> [r \in Places |-> IF r[1] = "p" THEN <<"in", r[2]>> ELSE Num(0)]]

Place(r) == IF r[1] = "p" THEN <<"p", r[2] % NumParams>> ELSE <<"v", r[2] % NumLocals>>

\* A constant is read from src1 whichever operand it is; a register there shows
\* its bits.
eval_operand(d, i, o) ==
  CASE o.kind = "CONST_INT" -> IF i.src1.kind = "CONST_INT" THEN Num(i.src1.val)
                               ELSE <<"bits", i.src1.reg>>
    [] o.kind = "REGISTER" -> d.regs[Place(o.reg)]
    [] OTHER -> Num(0)

\* Seeded fault: a result goes to registers_ whatever its register.
StoreLocal(d, r, v) == [d EXCEPT !.regs = [@ EXCEPT ![<<"v", r[2] % NumLocals>>] = v]]

store_result(d, r, v) == [d EXCEPT !.regs = [@ EXCEPT ![Place(r)] = v]]

\* r2 != 0 ? r1 / r2 : 0; the least word by -1 traps.
Quotient(d, i, x, y) ==
  IF x = Num(MinInt) /\ y = Num(-1) THEN [d EXCEPT !.trapped = TRUE]
  ELSE store_result(d, i.dest.reg, Apply("DIV_I64", x, y))

\* The /32 opcodes are computed like the 64-bit ones.
Wide(op) == CASE op = "ADD_I32" -> "ADD_I64" [] op = "SUB_I32" -> "SUB_I64"
              [] op = "MUL_I32" -> "MUL_I64" [] op = "DIV_I32" -> "DIV_I64" [] OTHER -> op
Computed == {"ADD_I64", "SUB_I64", "MUL_I64", "AND_I64", "OR_I64", "XOR_I64"}

execute_single_instruction(d, i) ==
  LET x == eval_operand(d, i, i.src1)
      y == eval_operand(d, i, i.src2)
      op == Wide(i.op) IN
  CASE i.op \in {"MOVE", "MOVE_CONST"} -> store_result(d, i.dest.reg, x)
    [] op \in Computed -> store_result(d, i.dest.reg, Apply(op, x, y))
    [] op = "DIV_I64" -> Quotient(d, i, x, y)
    [] i.op = "RETURN_VAL" -> [d EXCEPT !.regs = [@ EXCEPT ![<<"v", 0>>] = x], !.finished = TRUE]
    [] i.op = "RETURN_VOID" -> [d EXCEPT !.finished = TRUE]
    [] OTHER -> d

Stopped(d) == d.finished \/ d.k = 0

\* Where a step leads: on in the block, to the next block, or to the end.
NextInsn(d) ==
  CASE d.k < Len(d.code[d.b].insns) -> [d EXCEPT !.k = @ + 1]
    [] d.k = Len(d.code[d.b].insns) /\ d.b < Len(d.code) ->
         [d EXCEPT !.b = @ + 1, !.k = First(d.code, d.b + 1)]
    [] OTHER -> [d EXCEPT !.finished = TRUE, !.k = 0]

step(d) ==
  IF Stopped(d) THEN d
  ELSE LET e == execute_single_instruction(d, d.code[d.b].insns[d.k])
       IN IF e.trapped THEN e ELSE NextInsn([e EXCEPT !.line = @ + 1])

check_breakpoint_hit(d) ==
  \E n \in 1..Len(d.bps) : d.bps[n].label = d.code[d.b].label \/ d.bps[n].line = d.line

RECURSIVE continue_execution(_)
continue_execution(d) ==
  IF Stopped(d) \/ d.trapped THEN [d EXCEPT !.hit = FALSE]
  ELSE IF check_breakpoint_hit(d) THEN [d EXCEPT !.hit = TRUE]
  ELSE continue_execution(step(d))

\* set_breakpoint_label and set_breakpoint_line: beyond the table nothing happens.
SetBreakpoint(d, bp) ==
  IF Len(d.bps) < MaxBreakpoints THEN [d EXCEPT !.bps = Append(@, bp)] ELSE d
set_breakpoint_label(d, label) == SetBreakpoint(d, [label |-> label, line |-> 0])
set_breakpoint_line(d, line)   == SetBreakpoint(d, [label |-> "", line |-> line])
===============================================================================

------------------------------- MODULE Frontend -------------------------------
(***************************************************************************)
(* From a text to what is made of it: Parser reads one source with one     *)
(* function, and the program it answers with goes through the passes of    *)
(* Optimiser or is stepped through by Debugger.  A source is what someone  *)
(* wrote, `written', as the tokens the lexer gives for it, either intact   *)
(* or with one token lost or unreadable.                                   *)
(***************************************************************************)
EXTENDS Parser, Optimiser, Debugger

CONSTANTS
  Written,     \* the functions written, as blocks
  Damaged,     \* those of them whose text may be damaged
  BreakLabels, BreakLines   \* bound: breakpoints that may be set

VARIABLES
  written,   \* what the text was to say
  source,    \* the text
  parse,     \* the parser
  phase,     \* "program", "function", "block"; then "refused" or "parsed"; then
             \* "optimised", "reordered" or "debugged"
  fn,        \* the function parsed, with its passes so far
  passes,    \* passes run on it
  dbg        \* the debugger

vars == <<written, source, parse, phase, fn, passes, dbg>>
-------------------------------------------------------------------------------
\* What is written for an operand and for an instruction.
Shown(o) ==
  CASE o.kind = "NONE" -> << >>
    [] o.kind = "REGISTER" -> << <<"reg", o.reg>> >>
    [] o.kind = "CONST_INT" -> << <<"int", o.val>> >>
    [] o.kind = "MEM_OFFSET" ->
         IF o.val = 0 THEN << <<"[">>, <<"reg", o.reg>>, <<"]">> >>
         ELSE << <<"[">>, <<"reg", o.reg>>, <<"+">>, <<"int", o.val>>, <<"]">> >>
Listed(parts) ==
  LET some == SelectSeq(parts, LAMBDA p : p # << >>)
  IN FlattenSeq([k \in 1..Len(some) |-> IF k = 1 THEN some[k] ELSE << <<",">> >> \o some[k]])
Named(l)  == IF l = "" THEN << >> ELSE << <<"id", l>> >>
Quoted(s) == IF s = "" THEN << >> ELSE << <<"str", s>> >>

\* reversed: a store that names the word before the place.  Slot 0 is what a call
\* without a slot gets.
InsnText(i, reversed) ==
  << <<"op", i.op>> >> \o
  CASE i.op \in CallOps -> Listed(<<Shown(i.src1), IF i.slot = 0 THEN << >> ELSE << <<"int", i.slot>> >> >>)
                             \o (IF i.dest = None THEN << >> ELSE << <<"->">> >> \o Shown(i.dest))
    [] i.op = "STORE_MEM" /\ reversed /\ i.src1.kind = "REGISTER" ->
         Listed(<<Shown(i.src1), Shown(i.dest)>>)
    [] i.op \in IfOps -> << <<"likely">> >> \o Listed(<<Shown(i.src1), Shown(i.src2), Named(i.label)>>)
    [] OTHER -> Listed(<<Shown(i.dest), Shown(i.src1), Shown(i.src2), Named(i.label), Quoted(i.str)>>)
BlockText(b, reversed) ==
  (IF b.label = "entry" THEN << >> ELSE << <<"label", b.label>> >>)
    \o FlattenSeq([k \in 1..Len(b.insns) |-> InsnText(b.insns[k], reversed)])
Text(f, reversed) ==
  << <<".fn">>, <<"id", "f">>, <<"(">>, <<"label", "p0">>, <<"type", "i64">>, <<",">>,
     <<"reg", <<"p", 1>> >>, <<":">>, <<"type", "i64">>, <<")">>, <<"->">>, <<"type", "i64">>,
     <<".registers">>, <<"int", 4>> >>
    \o FlattenSeq([b \in 1..Len(f) |-> BlockText(f[b], reversed)]) \o << <<".end_fn">> >>

\* One token lost, or unreadable to the lexer.
Damages(t) == {RemoveAt(t, k) : k \in 1..Len(t)} \cup {[t EXCEPT ![k] = ERROR] : k \in 1..Len(t)}

NoFn  == [there |-> FALSE, params |-> 0, locals |-> 0, blocks |-> << >>]
NoDbg == Load(<<Block("entry", << >>)>>)

Init ==
  /\ written \in Written
  /\ \E reversed \in BOOLEAN : LET t == Text(written, reversed) IN
       /\ reversed => written \in Damaged
       /\ source \in {t} \cup (IF written \in Damaged THEN Damages(t) ELSE {})
  /\ parse = Parse(source) /\ phase = "program"
  /\ fn = NoFn /\ passes = 0 /\ dbg = NoDbg

Stay == UNCHANGED <<written, source, passes, dbg>>
-------------------------------------------------------------------------------
parse_function ==
  /\ phase = "program" /\ Is(parse, ".fn")
  /\ LET h == Header(parse)
     IN /\ parse' = h.p
        /\ phase' = IF h.named THEN "function" ELSE "program"
        /\ fn' = IF h.named THEN [NoFn EXCEPT !.there = TRUE, !.params = h.params] ELSE fn
  /\ Stay

\* Anything else between functions is passed over.
skip_token ==
  /\ phase = "program" /\ ~ Is(parse, ".fn") /\ ~ Is(parse, "eof")
  /\ parse' = advance(parse)
  /\ UNCHANGED <<phase, fn>> /\ Stay

AtEnd == Is(parse, ".end_fn") \/ Is(parse, "eof")

registers ==
  /\ phase = "function" /\ Is(parse, ".registers")
  /\ LET a == advance(parse)
     IN /\ parse' = match(a, "int")
        /\ fn' = IF Is(a, "int") THEN [fn EXCEPT !.locals = Cur(a)[2]] ELSE fn
  /\ UNCHANGED phase /\ Stay

begin_block ==
  /\ phase = "function" /\ ~ AtEnd /\ ~ Is(parse, ".registers")
  /\ fn' = [fn EXCEPT !.blocks =
              Append(@, Block(IF Is(parse, "label") THEN Cur(parse)[2] ELSE "entry", << >>))]
  /\ parse' = match(parse, "label")
  /\ phase' = "block" /\ Stay

\* An instruction of the block, or a token that is none.
in_block ==
  /\ phase = "block" /\ ~ AtEnd /\ ~ Is(parse, "label")
  /\ LET p == parse_instruction(parse) IN
     IF Is(parse, "op")
     THEN /\ parse' = p
          /\ fn' = [fn EXCEPT !.blocks[Len(fn.blocks)].insns = Append(@, optimize_instruction(p.insn))]
     ELSE parse' = advance(parse) /\ UNCHANGED fn
  /\ UNCHANGED phase /\ Stay

end_block ==
  /\ phase = "block" /\ (AtEnd \/ Is(parse, "label"))
  /\ fn' = [fn EXCEPT !.blocks[Len(fn.blocks)].insns = apply_dce(@)]
  /\ phase' = "function" /\ UNCHANGED parse /\ Stay

end_function ==
  /\ phase = "function" /\ AtEnd
  /\ parse' = expect(parse, ".end_fn")
  /\ phase' = "program" /\ UNCHANGED fn /\ Stay

\* parse_program returns, with nullptr if an error was latched.
parse_program ==
  /\ phase = "program" /\ Is(parse, "eof")
  /\ phase' = IF parse.err THEN "refused" ELSE "parsed"
  /\ UNCHANGED <<parse, fn>> /\ Stay
-------------------------------------------------------------------------------
Intact == \E reversed \in BOOLEAN : source = Text(written, reversed)
Ready  == Intact /\ fn.there /\ fn.blocks # << >>

optimize_function ==
  /\ Ready /\ phase \in {"parsed", "optimised"} /\ passes < Len(Passes)
  /\ fn' = [fn EXCEPT !.blocks = optimize(@, Passes[passes + 1])]
  /\ passes' = passes + 1 /\ phase' = "optimised"
  /\ UNCHANGED <<written, source, parse, dbg>>

reorder ==
  /\ Ready /\ phase \in {"parsed", "optimised"} /\ passes \in {0, Len(Passes)}
  /\ fn' = [fn EXCEPT !.blocks = reorder_basic_blocks(@)]
  /\ phase' = "reordered"
  /\ UNCHANGED <<written, source, parse, passes, dbg>>

debug ==
  /\ Ready /\ phase = "parsed"
  /\ \E label \in {""} \cup BreakLabels, line \in {0} \cup BreakLines :
       LET l == Load(fn.blocks)
           m == IF label = "" THEN l ELSE set_breakpoint_label(l, label)
       IN dbg' = IF line = 0 THEN m ELSE set_breakpoint_line(m, line)
  /\ phase' = "debugged"
  /\ UNCHANGED <<written, source, parse, fn, passes>>

Debugging(d) ==
  /\ phase = "debugged" /\ ~ Stopped(dbg) /\ ~ dbg.trapped
  /\ dbg' = d
  /\ UNCHANGED <<written, source, parse, phase, fn, passes>>
debug_step     == Debugging(step(dbg))
debug_continue == Debugging(continue_execution(dbg))

Next ==
  \/ parse_function \/ skip_token \/ registers \/ begin_block \/ in_block \/ end_block
  \/ end_function \/ parse_program
  \/ optimize_function \/ reorder
  \/ debug \/ debug_step \/ debug_continue

Spec == Init /\ [][Next]_vars
-------------------------------------------------------------------------------
RegsOf(local(_)) ==
  [r \in Places |-> IF r[1] = "p" THEN <<"in", r[2]>> ELSE local(r)]

\* An intact function means after parsing, folding and the cut of dead code, after
\* every pass of optimize_function and after reorder_basic_blocks what it meant as
\* written: the same accesses, calls and comparisons in the same order, the same
\* result, whichever way its branches go.  The passes are held to it only for the
\* functions of InScope, and lengths only of registers that hold a string.
KeepsMeaning ==
  (/\ Intact /\ phase \in {"parsed", "optimised", "reordered"}
   /\ phase # "parsed" => InScope(written)) =>
     \A taken \in Outcomes :
       LET regs == RegsOf(LAMBDA r : <<"unset", r[2]>>)
           was  == Meaning(written, taken, regs)
       IN was.blind \/ Meaning(fn.blocks, taken, regs) = was

\* The words of a text; a name is the same name with a colon and without.
Plain(toks) ==
  LET words == SelectSeq(toks, LAMBDA t : Len(t) = 2 /\ t[1] # "type")
  IN [k \in 1..Len(words) |-> IF words[k][1] = "label" THEN <<"id", words[k][2]>> ELSE words[k]]
Found(pos, big, t) ==
  LET k == SelectInSeq(SubSeq(big, pos, Len(big)), LAMBDA u : u = t)
  IN IF k = 0 THEN Len(big) + 2 ELSE pos + k

Folded(i) == i.op = "MOVE_CONST" /\ i.src2.kind = "CONST_INT"

\* "Never hand back a partially-parsed program as if it were valid"
\* (parse_program): of a text with one token lost or unreadable an accepted
\* program says nothing but folded constants that the text does not say in its
\* order,
\* no arithmetic instruction lacks its destination or first operand ("Reject it
\* instead", parse_instruction), and an unreadable token is never passed over.
AcceptedAsWritten ==
  (phase = "parsed" /\ fn.there) =>
    /\ \A k \in 1..Len(source) : source[k] # ERROR
    /\ \A k \in 1..Len(AllInsns(fn.blocks)) : LET i == AllInsns(fn.blocks)[k] IN
         i.op \in ArithOps => i.dest.kind = "REGISTER" /\ i.src1.kind \in {"REGISTER", "CONST_INT"}
    /\ \E reversed \in BOOLEAN :
         LET kept == OnInsns(fn.blocks, LAMBDA is : SelectSeq(is, LAMBDA i : ~ Folded(i)))
             said == Plain(FlattenSeq([b \in 1..Len(kept) |-> BlockText(kept[b], reversed)]))
             text == Plain(source)
         IN FoldLeft(LAMBDA pos, t : Found(pos, text, t), 1, said) <= Len(text) + 1

\* At every stop of the debugger the registers it shows are those the code has
\* computed so far, and it is finished when the code has returned: for functions
\* without branches that keep to the opcodes it interprets, to constants as first
\* operands, and to the registers it has.
Interpreted(i) ==
  /\ i.op \in Computed \cup Returns \cup {"MOVE", "MOVE_CONST", "DIV_I64"}
  /\ i.src2.kind = "CONST_INT" => i.op = "MOVE_CONST"
DebuggerAgrees ==
  (/\ phase = "debugged"
   /\ \A k \in 1..Len(AllInsns(fn.blocks)) : Interpreted(AllInsns(fn.blocks)[k])) =>
     LET s == After(fn.blocks, dbg.line - 1, Start(RegsOf(LAMBDA r : Num(0))))
     IN \/ dbg.trapped
        \/ /\ dbg.regs = IF s.result = <<"none">> THEN s.regs
                         ELSE [s.regs EXCEPT ![<<"v", 0>>] = s.result]
           /\ dbg.finished => s.state = "returned"
===============================================================================

------------------------------- MODULE Machines -------------------------------
(***************************************************************************)
(* What the processors do with the words the backends emit: the subset of  *)
(* the AArch64, 32-bit ARM and RV64 instruction sets that the backends     *)
(* use, from the architecture manuals (external to the repository).  Words *)
(* are decoded to one small set of instructions, and executed on symbolic  *)
(* values: an address on the stack, a constant, the content of a register  *)
(* at entry, or a term.  Anything not in the subset is undefined.          *)
(***************************************************************************)
EXTENDS Words, TLC

Range2(hi, lo) == lo..hi
Undefined == [op |-> "undefined"]
Insn3(f, d, n, m) == [op |-> "alu", f |-> f, d |-> d, n |-> n, m |-> m]
CondName(c) == CASE c = 0 -> "IF_EQ" [] c = 1 -> "IF_NE" [] c = 10 -> "IF_GE"
                 [] c = 11 -> "IF_LT" [] OTHER -> "other"
-------------------------------------------------------------------------------
\* AArch64.  Register 31 is XZR, or SP where the instruction says so (32 here).
A64Alu == [add |-> Hex(\h8B00, 0), sub |-> Hex(\hCB00, 0), mul |-> Hex(\h9B00, \h7C00),
           div |-> Hex(\h9AC0, \h0C00), and |-> Hex(\h8A00, 0), or |-> Hex(\hAA00, 0),
           xor |-> Hex(\hCA00, 0), shl |-> Hex(\h9AC0, \h2000), ushr |-> Hex(\h9AC0, \h2400),
           cmp |-> Hex(\hEB00, 0)]
A64Three == Range2(31, 21) \cup Range2(15, 10)
A64Sp(r) == IF r = 31 THEN 32 ELSE r
A64Decode(w) ==
  LET d == Num(w, 0, 5)
      n == Num(w, 5, 5)
      m == Num(w, 16, 5)
      alu == {f \in DOMAIN A64Alu : w \cap A64Three = A64Alu[f]}
      chunk == Num(w, 21, 2)
  IN  CASE alu \ {"cmp"} # {} -> Insn3(CHOOSE f \in alu : TRUE, d, n, m)
        [] alu = {"cmp"} /\ d = 31 -> [op |-> "cmp", n |-> n, m |-> m]
        [] Matches(w, Range2(31, 21), Hex(\hD280, 0)) ->
             [op |-> "li", d |-> d, v |-> Num(w, 5, 16)]
        [] Matches(w, Range2(31, 23), Hex(\hF280, 0)) ->
             [op |-> "movk", d |-> d, k |-> chunk, v |-> Num(w, 5, 16)]
        [] Matches(w, Range2(31, 22), Hex(\hF900, 0)) ->
             [op |-> "st", s |-> d, n |-> A64Sp(n), off |-> 8 * Num(w, 10, 12)]
        [] Matches(w, Range2(31, 22), Hex(\hF940, 0)) ->
             [op |-> "ld", d |-> d, n |-> A64Sp(n), off |-> 8 * Num(w, 10, 12)]
        [] Matches(w, Range2(31, 21) \cup {10, 11}, Hex(\hF800, 0)) ->
             [op |-> "st", s |-> d, n |-> A64Sp(n), off |-> SNum(w, 12, 9)]
        [] Matches(w, Range2(31, 21) \cup {10, 11}, Hex(\hF840, 0)) ->
             [op |-> "ld", d |-> d, n |-> A64Sp(n), off |-> SNum(w, 12, 9)]
        [] Matches(w, Range2(31, 22), Hex(\h9100, 0)) ->
             [op |-> "addi", d |-> A64Sp(d), n |-> A64Sp(n), imm |-> Num(w, 10, 12)]
        [] Matches(w, Range2(31, 22), Hex(\hD100, 0)) ->
             [op |-> "addi", d |-> A64Sp(d), n |-> A64Sp(n), imm |-> -Num(w, 10, 12)]
        [] w = Hex(\hA9BF, \h7BFD) -> [op |-> "push", a |-> 29, b |-> 30]
        [] w = Hex(\hA8C1, \h7BFD) -> [op |-> "pop", a |-> 29, b |-> 30]
        [] Matches(w, Range2(31, 10) \cup Range2(4, 0), Hex(\hD63F, 0)) -> [op |-> "call", n |-> n]
        [] Matches(w, Range2(31, 10) \cup Range2(4, 0), Hex(\hD65F, 0)) -> [op |-> "ret", n |-> n]
        [] Matches(w, Range2(31, 24) \cup {4}, Hex(\h5400, 0)) ->
             [op |-> "bcc", cond |-> CondName(Num(w, 0, 4)), delta |-> SNum(w, 5, 19)]
        [] Matches(w, Range2(31, 26), Hex(\h1400, 0)) ->
             [op |-> "jump", delta |-> SNum(w, 0, 26)]
        [] OTHER -> Undefined
-------------------------------------------------------------------------------
\* 32-bit ARM, A32 encoding, unconditional except for branches.
ArmAlu == [add |-> Hex(\hE080, 0), sub |-> Hex(\hE040, 0), and |-> Hex(\hE000, 0),
           or |-> Hex(\hE180, 0), xor |-> Hex(\hE020, 0)]
ArmThree == Range2(31, 20) \cup Range2(11, 4)
ArmImm16(w) == 4096 * Num(w, 16, 4) + Num(w, 0, 12)
ArmDecode(w) ==
  LET lo == Num(w, 0, 4)
      hi == Num(w, 16, 4)
      d  == Num(w, 12, 4)
      rs == Num(w, 8, 4)
      alu == {f \in DOMAIN ArmAlu : w \cap ArmThree = ArmAlu[f]}
      top == Range2(31, 20)
      shifted == top \cup Range2(19, 16) \cup Range2(7, 4)
  IN  CASE alu # {} -> Insn3(CHOOSE f \in alu : TRUE, d, hi, lo)
        [] Matches(w, ArmThree \cup Range2(15, 12), Hex(\hE150, 0)) ->
             [op |-> "cmp", n |-> hi, m |-> lo]
        [] Matches(w, ArmThree \cup Range2(19, 16), Hex(\hE1A0, 0)) ->
             [op |-> "addi", d |-> d, n |-> lo, imm |-> 0]
        [] Matches(w, top \cup Range2(15, 12) \cup Range2(7, 4), Hex(\hE000, \h0090)) ->
             Insn3("mul", hi, lo, rs)
        [] Matches(w, top \cup Range2(15, 12) \cup Range2(7, 4), Hex(\hE710, \hF010)) ->
             Insn3("div", hi, lo, rs)
        [] Matches(w, shifted, Hex(\hE1A0, \h0010)) -> Insn3("shl", d, lo, rs)
        [] Matches(w, shifted, Hex(\hE1A0, \h0030)) -> Insn3("ushr", d, lo, rs)
        [] Matches(w, top, Hex(\hE300, 0)) -> [op |-> "li", d |-> d, v |-> ArmImm16(w)]
        [] Matches(w, top, Hex(\hE340, 0)) -> [op |-> "movk", d |-> d, k |-> 1, v |-> ArmImm16(w)]
        [] Matches(w, top, Hex(\hE580, 0)) -> [op |-> "st", s |-> d, n |-> hi, off |-> Num(w, 0, 12)]
        [] Matches(w, top, Hex(\hE590, 0)) -> [op |-> "ld", d |-> d, n |-> hi, off |-> Num(w, 0, 12)]
        [] Matches(w, top \cup Range2(11, 8), Hex(\hE240, 0)) ->
             [op |-> "addi", d |-> d, n |-> hi, imm |-> -Num(w, 0, 8)]
        [] Matches(w, top \cup Range2(11, 8), Hex(\hE280, 0)) ->
             [op |-> "addi", d |-> d, n |-> hi, imm |-> Num(w, 0, 8)]
        [] w = Hex(\hE92D, \h4800) -> [op |-> "push", a |-> 11, b |-> 14]
        [] w = Hex(\hE8BD, \h8800) -> [op |-> "pop", a |-> 11, b |-> 15]
        [] Matches(w, Range2(31, 4), Hex(\hE12F, \hFF30)) -> [op |-> "call", n |-> lo]
        [] Matches(w, Range2(31, 24), Hex(\hEA00, 0)) ->
             [op |-> "jump", delta |-> SNum(w, 0, 24) + 2]
        [] Matches(w, Range2(27, 24), Hex(\h0A00, 0)) ->
             [op |-> "bcc", cond |-> CondName(Num(w, 28, 4)), delta |-> SNum(w, 0, 24) + 2]
        [] OTHER -> Undefined
-------------------------------------------------------------------------------
\* RV64IM.
RvAlu == (<<0, 0>> :> "add") @@ (<<32, 0>> :> "sub") @@ (<<1, 0>> :> "mul")
           @@ (<<1, 4>> :> "div") @@ (<<0, 7>> :> "and") @@ (<<0, 6>> :> "or")
           @@ (<<0, 4>> :> "xor") @@ (<<0, 1>> :> "shl") @@ (<<0, 5>> :> "ushr")
RvCond == (0 :> "IF_EQ") @@ (1 :> "IF_NE") @@ (4 :> "IF_LT") @@ (5 :> "IF_GE")
RvDecode(w) ==
  LET opcode == Num(w, 0, 7)
      d  == Num(w, 7, 5)
      f3 == Num(w, 12, 3)
      n  == Num(w, 15, 5)
      m  == Num(w, 20, 5)
      f7 == Num(w, 25, 7)
      immI == SNum(w, 20, 12)
      branch == Signed(4096 * Num(w, 31, 1) + 2048 * Num(w, 7, 1) + 32 * Num(w, 25, 6)
                         + 2 * Num(w, 8, 4), 13)
      jump == Signed(1048576 * Num(w, 31, 1) + 4096 * Num(w, 12, 8) + 2048 * Num(w, 20, 1)
                       + 2 * Num(w, 21, 10), 21)
  IN  CASE opcode = \h33 /\ <<f7, f3>> \in DOMAIN RvAlu -> Insn3(RvAlu[<<f7, f3>>], d, n, m)
        [] opcode = \h13 /\ f3 = 0 -> [op |-> "addi", d |-> d, n |-> n, imm |-> immI]
        [] opcode = \h03 /\ f3 = 3 -> [op |-> "ld", d |-> d, n |-> n, off |-> immI]
        [] opcode = \h23 /\ f3 = 3 -> [op |-> "st", s |-> m, n |-> n, off |-> Signed(32 * f7 + d, 12)]
        [] opcode = \h37 -> [op |-> "lui", d |-> d, v |-> Num(w, 12, 20)]
        [] opcode = \h67 /\ f3 = 0 /\ d = 1 /\ immI = 0 -> [op |-> "call", n |-> n]
        [] opcode = \h67 /\ f3 = 0 /\ d = 0 /\ immI = 0 -> [op |-> "ret", n |-> n]
        [] opcode = \h63 /\ f3 \in DOMAIN RvCond /\ branch % 4 = 0 ->
             [op |-> "br", cond |-> RvCond[f3], n |-> n, m |-> m, delta |-> branch \div 4]
        [] opcode = \h6F /\ d = 0 /\ jump % 4 = 0 -> [op |-> "jump", delta |-> jump \div 4]
        [] OTHER -> Undefined
-------------------------------------------------------------------------------
\* The calling conventions: stack pointer, return address, zero register,
\* first argument (and result), number of argument registers, registers that
\* belong to the caller, bytes in a word, alignment of the stack at a call.
Abi ==
  [a64  |-> [sp |-> 32, lr |-> 30, zero |-> 31, a0 |-> 0, args |-> 8,
             saved |-> 19..29, word |-> 8, align |-> 16],
   arm  |-> [sp |-> 13, lr |-> 14, zero |-> 99, a0 |-> 0, args |-> 4,
             saved |-> 4..11, word |-> 4, align |-> 8],
   rv64 |-> [sp |-> 2, lr |-> 1, zero |-> 0, a0 |-> 10, args |-> 8,
             saved |-> {8, 9} \cup 18..27, word |-> 8, align |-> 16]]
Decode(isa, w) == CASE isa = "a64" -> A64Decode(w) [] isa = "arm" -> ArmDecode(w)
                    [] isa = "rv64" -> RvDecode(w)

\* Arithmetic on symbolic values: exact where the stack pointer is involved,
\* a term otherwise.
Number(c) == c[2] + 65536 * c[3]
Term(f, a, b) ==
  CASE f = "add" /\ a[1] = "sp" /\ b[1] = "const" -> <<"sp", a[2] + Number(b)>>
    [] f = "sub" /\ a[1] = "sp" /\ b[1] = "const" -> <<"sp", a[2] - Number(b)>>
    [] f = "or" /\ a = Zero -> b
    [] OTHER -> <<f, a, b>>
AddImm(a, n) ==
  CASE a[1] = "sp" -> <<"sp", a[2] + n>>
    [] a[1] = "const" -> Plus(a, n)
    [] OTHER -> IF n = 0 THEN a ELSE <<"add", a, Small(n)>>
\* An address as a base and a distance.
RECURSIVE Addr(_, _)
Addr(a, n) == IF a[1] = "add" /\ a[3][1] = "const" THEN Addr(a[2], n + Number(a[3]))
              ELSE <<a, n>>

\* A machine at the entry of a function, with the outcomes its branches will
\* have.  What it does outside of its registers and stack is written to out.
Start(isa, outcomes) ==
  [reg |-> [r \in 0..32 |-> IF r = Abi[isa].sp THEN <<"sp", 0>> ELSE <<"in", r>>],
   mem |-> [a \in {} |-> Zero], flags |-> <<Zero, Zero>>, pc |-> 1, gets |-> 0, calls |-> 0,
   out |-> << >>, outcomes |-> outcomes, state |-> "running", to |-> Zero]

Get(isa, s, r) == IF r = Abi[isa].zero THEN Zero ELSE s.reg[r]
Set(isa, s, r, v) == IF r = Abi[isa].zero THEN s ELSE [s EXCEPT !.reg = [@ EXCEPT ![r] = v]]
Peek(s, a) == IF a \in DOMAIN s.mem THEN s.mem[a] ELSE <<"stack", a>>
Poke(s, a, v) == [s EXCEPT !.mem = [x \in DOMAIN @ \cup {a} |-> IF x = a THEN v ELSE @[x]]]
Out(s, e) == [s EXCEPT !.out = Append(@, e)]
Advance(s) == [s EXCEPT !.pc = @ + 1]
Return(s, v) == [s EXCEPT !.state = "returned", !.to = v]

\* The callee may change every register that is not the caller's.
CallTo(isa, s, alloc, f) ==
  LET abi == Abi[isa]
      arg(k) == s.reg[abi.a0 + k]
      args == IF f = alloc THEN <<arg(0), arg(1), arg(2)>> ELSE <<arg(0)>>
      k == s.calls + 1
  IN  [Out(s, <<"call", f, args, s.reg[abi.sp][2] % abi.align>>) EXCEPT
        !.reg = [r \in 0..32 |-> IF r \in abi.saved \cup {abi.sp} THEN @[r]
                                  ELSE IF r = abi.a0 THEN <<"result", k>> ELSE <<"junk", k>>],
        !.calls = k]
\* A branch on a comparison: taken as the next outcome says.
BranchOn(s, cond, a, b, delta) ==
  IF s.outcomes = << >> THEN [s EXCEPT !.state = "stopped"]
  ELSE [Out(s, <<cond, a, b>>) EXCEPT
         !.pc = IF Head(s.outcomes) THEN @ + delta ELSE @ + 1,
         !.outcomes = Tail(@)]

Execute(isa, s, alloc, i) ==
  LET R(r) == Get(isa, s, r)
      word == Abi[isa].word
      sp == Abi[isa].sp
      top == s.reg[sp][2]
  IN  CASE i.op = "alu"  -> Advance(Set(isa, s, i.d, Term(i.f, R(i.n), R(i.m))))
        [] i.op = "li"   -> Advance(Set(isa, s, i.d, Small(i.v)))
        [] i.op = "movk" -> Advance(Set(isa, s, i.d, [R(i.d) EXCEPT ![i.k + 2] = i.v]))
        [] i.op = "lui"  ->
             Advance(Set(isa, s, i.d,
               LET u == IF i.v >= 524288 THEN 65535 ELSE 0
               IN  Const((i.v % 16) * 4096, i.v \div 16, u, u)))
        [] i.op = "addi" -> Advance(Set(isa, s, i.d, AddImm(R(i.n), i.imm)))
        [] i.op = "ld"   ->
             IF R(i.n)[1] = "sp" THEN Advance(Set(isa, s, i.d, Peek(s, R(i.n)[2] + i.off)))
             ELSE Advance(Set(isa, [Out(s, <<"load", Addr(R(i.n), i.off)>>) EXCEPT !.gets = @ + 1],
                              i.d, <<"got", s.gets + 1>>))
        [] i.op = "st"   ->
             IF R(i.n)[1] = "sp" THEN Advance(Poke(s, R(i.n)[2] + i.off, R(i.s)))
             ELSE Advance(Out(s, <<"store", Addr(R(i.n), i.off), R(i.s)>>))
        [] i.op = "push" ->
             Advance(Set(isa, Poke(Poke(s, top - 2 * word, R(i.a)), top - word, R(i.b)),
                         sp, <<"sp", top - 2 * word>>))
        [] i.op = "pop"  ->
             LET t == Set(isa, Set(isa, s, i.a, Peek(s, top)), sp, <<"sp", top + 2 * word>>)
             IN  IF isa = "arm" /\ i.b = 15 THEN Return(t, Peek(s, top + word))
                 ELSE Advance(Set(isa, t, i.b, Peek(s, top + word)))
        [] i.op = "call" -> Advance(CallTo(isa, s, alloc, R(i.n)))
        [] i.op = "cmp"  -> Advance([s EXCEPT !.flags = <<R(i.n), R(i.m)>>])
        [] i.op = "bcc"  -> BranchOn(s, i.cond, s.flags[1], s.flags[2], i.delta)
        [] i.op = "br"   -> BranchOn(s, i.cond, R(i.n), R(i.m), i.delta)
        [] i.op = "jump" -> [s EXCEPT !.pc = @ + i.delta]
        [] i.op = "ret"  -> Return(s, R(i.n))
        [] OTHER -> [s EXCEPT !.state = "undefined"]

\* At most fuel words of the code are executed.
RECURSIVE RunCode(_, _, _, _, _)
RunCode(isa, code, alloc, s, fuel) ==
  IF s.state # "running" \/ fuel = 0 THEN s
  ELSE IF s.pc \notin DOMAIN code THEN [s EXCEPT !.state = "undefined"]
  ELSE RunCode(isa, code, alloc, Execute(isa, s, alloc, Decode(isa, code[s.pc])), fuel - 1)
===============================================================================

----------------------------- MODULE X86Encodings -----------------------------
(***************************************************************************)
(* What the processor reads in the bytes that the emitters of X86Forms     *)
(* write.  The decoder follows the instruction set reference for the       *)
(* opcodes in use: prefix, REX (or VEX, or EVEX), opcode, ModRM, SIB,      *)
(* displacement, immediate.  The emitters do not look at the buffer, so it *)
(* is enough to emit one instruction at a time.                            *)
(***************************************************************************)
EXTENDS X86Forms

CONSTANTS
  Gpr, Xmm,     \* register numbers
  Disps, Imms,  \* displacements and immediates
  Imm64s        \* 64-bit immediates, as bytes

VARIABLES
  code,   \* the bytes emitted
  asked   \* history: the instruction the compiler asked for

vars == <<code, asked>>

Insn(op, w, args) == [op |-> op, w |-> w, args |-> args]
Reg(n)       == <<"reg", n>>
At(b, disp)  == <<"mem", b, disp>>
Rip(disp)    == <<"rip", disp>>
Imm(v)       == <<"imm", v>>
CL           == <<"cl">>
-------------------------------------------------------------------------------
(* The decoder. *)

Signed8(b) == IF b < 128 THEN b ELSE b - 256
\* Four bytes of c from position i as a signed integer.
Signed32(c, i) ==
  c[i] + 256 * c[i+1] + 65536 * c[i+2] + 16777216 * Signed8(c[i+3])

\* The r/m operand of the ModRM byte at i: the operand and where it ends.  b is
\* the high bit of its register; an EVEX displacement byte counts in units of n.
RmAt(c, i, b, n) ==
  LET mod  == c[i] \div 64
      rm   == c[i] % 8
      sib  == rm = 4
      base == 8 * b + (IF sib THEN c[i+1] % 8 ELSE rm)
      d    == IF sib THEN i + 2 ELSE i + 1
  IN IF mod = 3 THEN [arg |-> Reg(8 * b + rm), end |-> i + 1]
     ELSE IF sib /\ (c[i+1] \div 8) % 8 # 4 THEN [arg |-> <<"indexed">>, end |-> d]
     ELSE IF mod = 0 /\ rm = 5 THEN [arg |-> Rip(Signed32(c, d)), end |-> d + 4]
     ELSE IF mod = 0 THEN [arg |-> At(base, 0), end |-> d]
     ELSE IF mod = 1 THEN [arg |-> At(base, n * Signed8(c[d])), end |-> d + 1]
     ELSE [arg |-> At(base, Signed32(c, d)), end |-> d + 4]

\* Opcodes without 0F: the mnemonic and the shape of the operands, a mnemonic
\* per digit of the reg field where there is a group.
Row(op, shape) == [op |-> [digit \in 0..7 |-> op], shape |-> shape]
Grp(ops, shape) == [op |-> [digit \in 0..7 |-> ops[digit + 1]], shape |-> shape]
Group1 == <<"add", "or", "adc", "sbb", "and", "sub", "xor", "cmp">>
Group2 == <<"rol", "ror", "rcl", "rcr", "shl", "shr", "sal", "sar">>
Group3 == <<"test", "?", "not", "neg", "mul", "imul", "div", "idiv">>
Group5 == <<"inc", "dec", "call", "callf", "jmp", "jmpf", "push", "?">>
Group8 == <<"?", "?", "?", "?", "bt", "bts", "btr", "btc">>

OneByte(opcode, locked) ==
  CASE opcode = \h01 -> Row(IF locked THEN "lock add" ELSE "add", "mr")
    [] opcode = \h09 -> Row(IF locked THEN "lock or" ELSE "or", "mr")
    [] opcode = \h21 -> Row(IF locked THEN "lock and" ELSE "and", "mr")
    [] opcode = \h29 -> Row("sub", "mr")   [] opcode = \h31 -> Row("xor", "mr")
    [] opcode = \h39 -> Row("cmp", "mr")   [] opcode = \h85 -> Row("test", "mr")
    [] opcode = \h87 -> Row("xchg", "mr")  [] opcode = \h89 -> Row("mov", "mr")
    [] opcode = \h63 -> Row("movsxd", "rm") [] opcode = \h8B -> Row("mov", "rm")
    [] opcode = \h8D -> Row("lea", "rm")
    [] opcode = \h69 -> Row("imul", "rm32") [] opcode = \h6B -> Row("imul", "rm8")
    [] opcode = \h81 -> Grp(Group1, "m32") [] opcode = \h83 -> Grp(Group1, "m8")
    [] opcode = \hC1 -> Grp(Group2, "m8")  [] opcode = \hD1 -> Grp(Group2, "m1")
    [] opcode = \hD3 -> Grp(Group2, "mcl") [] opcode = \hC7 -> Row("mov", "m32")
    [] opcode = \hF7 -> Grp(Group3, "m")   [] opcode = \hFF -> Grp(Group5, "m")
    [] opcode \in \h50..\h57 -> Row("push", "o")
    [] opcode \in \h58..\h5F -> Row("pop", "o")
    [] opcode \in \hB8..\hBF -> Row("mov", "o64")
    [] opcode = \h99 -> Row("cdq", "none") [] opcode = \hC3 -> Row("ret", "none")
    [] opcode = \hE8 -> Row("call", "d32")

\* Opcodes after 0F; the prefix chooses among instructions, and for AE whether
\* the operand is memory.
TwoByte(opcode, pre) ==
  CASE opcode = \h18 -> Grp(<<"prefetchnta", "prefetcht0", "prefetcht1", "prefetcht2",
                             "?", "?", "?", "?">>, "m")
    [] opcode = \hAB -> Row("bts", "mr")   [] opcode = \hB3 -> Row("btr", "mr")
    [] opcode = \hAF -> Row("imul", "rm")  [] opcode = \hBA -> Grp(Group8, "m8")
    [] opcode = \hB1 -> Row(IF pre = \hF0 THEN "lock cmpxchg" ELSE "cmpxchg", "mr")
    [] opcode = \hB8 /\ pre = \hF3 -> Row("popcnt", "rm")
    [] opcode = \hBD /\ pre = \hF3 -> Row("lzcnt", "rm")
    [] opcode = \hAE -> Grp(<<"fxsave", "fxrstor", "ldmxcsr", "stmxcsr", "xsave", "lfence",
                             "mfence", "clflush, sfence">>, "ae")
    [] opcode = \h10 -> Row(IF pre = \hF3 THEN "movss" ELSE "movsd", "rm")
    [] opcode = \h11 -> Row(IF pre = \hF3 THEN "movss" ELSE "movsd", "mr")
    [] opcode = \h58 -> Row(IF pre = \hF3 THEN "addss" ELSE "addsd", "rm")
    [] opcode = \h59 -> Row("mulsd", "rm") [] opcode = \h5C -> Row("subsd", "rm")
    [] opcode = \h5E -> Row("divsd", "rm") [] opcode = \h5F -> Row("maxsd", "rm")
    [] opcode = \h6F -> Row("movdqu", "rm") [] opcode = \h7F -> Row("movdqu", "mr")
    [] opcode = \hE7 -> Row("movntdq", "mr")
    [] opcode = \hFA -> Row("psubd", "rm") [] opcode = \hFE -> Row("paddd", "rm")

\* The operands of shape s whose opcode is at i, and the position after them.
Operands(s, c, i, w, r, b) ==
  LET rm  == RmAt(c, i + 1, b, 1)
      reg == Reg(8 * r + ((c[i+1] \div 8) % 8))
      low == Reg(8 * b + (c[i] % 8))
  IN CASE s = "mr"   -> [args |-> <<rm.arg, reg>>, end |-> rm.end]
       [] s = "rm"   -> [args |-> <<reg, rm.arg>>, end |-> rm.end]
       [] s = "rm8"  -> [args |-> <<reg, rm.arg, Imm(Signed8(c[rm.end]))>>, end |-> rm.end + 1]
       [] s = "rm32" -> [args |-> <<reg, rm.arg, Imm(Signed32(c, rm.end))>>, end |-> rm.end + 4]
       [] s = "m8"   -> [args |-> <<rm.arg, Imm(Signed8(c[rm.end]))>>, end |-> rm.end + 1]
       [] s = "m32"  -> [args |-> <<rm.arg, Imm(Signed32(c, rm.end))>>, end |-> rm.end + 4]
       [] s = "m1"   -> [args |-> <<rm.arg, Imm(1)>>, end |-> rm.end]
       [] s = "mcl"  -> [args |-> <<rm.arg, CL>>, end |-> rm.end]
       [] s = "m"    -> [args |-> <<rm.arg>>, end |-> rm.end]
       [] s = "ae"   -> [args |-> IF rm.arg[1] = "mem" THEN <<rm.arg>> ELSE << >>, end |-> rm.end]
       [] s = "o"    -> [args |-> <<low>>, end |-> i + 1]
       [] s = "o64"  -> [args |-> <<low, Imm(SubSeq(c, i + 1, i + 8))>>, end |-> i + 9]
       [] s = "d32"  -> [args |-> <<Imm(Signed32(c, i + 1))>>, end |-> i + 5]
       [] s = "none" -> [args |-> << >>, end |-> i + 1]

\* An instruction without VEX or EVEX, and the position after it.
Legacy(c) ==
  LET pre == IF c[1] \in {\hF0, \hF2, \hF3, \h66} THEN c[1] ELSE 0
      i   == IF pre = 0 THEN 1 ELSE 2
      rex == IF c[i] \in 64..79 THEN c[i] - 64 ELSE 0
      j   == IF c[i] \in 64..79 THEN i + 1 ELSE i
      k   == IF c[j] = \h0F THEN j + 1 ELSE j
      row == IF k > j THEN TwoByte(c[k], pre) ELSE OneByte(c[k], pre = \hF0)
      w   == rex \div 8
      arg == Operands(row.shape, c, k, w, (rex \div 4) % 2, rex % 2)
      digit == (c[k+1] \div 8) % 8
  IN [insn |-> Insn(row.op[digit], IF w = 1 THEN 64 ELSE 32, arg.args), end |-> arg.end]

\* VEX and EVEX: p is the position of the opcode.
Vector(c, p, w, n) ==
  LET r   == 1 - c[2] \div 128
      b   == 1 - ((c[2] \div 32) % 2)
      map == IF w = 256 THEN c[2] % 32 ELSE c[2] % 4
      pp  == c[3] % 4
      v   == 15 - ((c[3] \div 8) % 16)
      rm  == RmAt(c, p + 1, b, n)
      reg == Reg(8 * r + ((c[p+1] \div 8) % 8))
      key == <<map, pp, c[p]>>
      three(op) == Insn(op, w, <<reg, Reg(v), rm.arg>>)
      insn == CASE key = <<1, 1, \hFE>> -> three("vpaddd")
                [] key = <<2, 1, \h40>> -> three("vpmulld")
                [] key = <<1, 2, \h6F>> /\ v = 0 -> Insn("vmovdqu", w, <<reg, rm.arg>>)
                [] key = <<1, 2, \h7F>> /\ v = 0 -> Insn("vmovdqu", w, <<rm.arg, reg>>)
                [] key = <<1, 1, \hE7>> /\ v = 0 -> Insn("vmovntdq", w, <<rm.arg, reg>>)
                [] OTHER -> Insn("undefined", w, << >>)
  IN [insn |-> insn, end |-> rm.end]

Decode(c) ==
  IF c[1] = \hC4 THEN Vector(c, 4, IF (c[3] \div 4) % 2 = 1 THEN 256 ELSE 128, 1)
  ELSE IF c[1] = \h62 /\ (c[2] \div 16) % 2 = 1 /\ c[4] = 72 THEN Vector(c, 5, 512, 64)
  ELSE Legacy(c)
-------------------------------------------------------------------------------
(* The compiler asks for one instruction. *)

Nothing == Insn("none", 0, << >>)
Init == code = << >> /\ asked = Nothing

Emit(bytes, op, w, args) ==
  /\ asked = Nothing
  /\ code' = bytes /\ asked' = Insn(op, w, args)

Binary ==
  \E d, s \in Gpr :
    \/ Emit(mov_reg_reg(d, s), "mov", 64, <<Reg(d), Reg(s)>>)
    \/ Emit(add_reg_reg(d, s), "add", 64, <<Reg(d), Reg(s)>>)
    \/ Emit(sub_reg_reg(d, s), "sub", 64, <<Reg(d), Reg(s)>>)
    \/ Emit(imul_reg_reg(d, s), "imul", 64, <<Reg(d), Reg(s)>>)
    \/ Emit(and_reg_reg(d, s), "and", 64, <<Reg(d), Reg(s)>>)
    \/ Emit(or_reg_reg(d, s), "or", 64, <<Reg(d), Reg(s)>>)
    \/ Emit(xor_reg_reg(d, s), "xor", 64, <<Reg(d), Reg(s)>>)
    \/ Emit(bts_reg_reg(d, s), "bts", 64, <<Reg(d), Reg(s)>>)
    \/ Emit(btr_reg_reg(d, s), "btr", 64, <<Reg(d), Reg(s)>>)
    \/ Emit(popcnt_reg_reg(d, s), "popcnt", 64, <<Reg(d), Reg(s)>>)
    \/ Emit(lzcnt_reg_reg(d, s), "lzcnt", 64, <<Reg(d), Reg(s)>>)
    \/ Emit(cmp_reg_reg(d, s), "cmp", 64, <<Reg(d), Reg(s)>>)
    \/ Emit(test_reg_reg(d, s), "test", 64, <<Reg(d), Reg(s)>>)
    \/ Emit(movsxd_reg_reg(d, s), "movsxd", 64, <<Reg(d), Reg(s)>>)
    \/ Emit(movzxd_reg_reg(d, s), "mov", 32, <<Reg(d), Reg(s)>>)
    \/ \E v \in Imms : Emit(imul_reg_imm32(d, s, v), "imul", 64, <<Reg(d), Reg(s), Imm(v)>>)

WithImmediate ==
  \E d \in Gpr :
    \/ \E v \in Imms :
         \/ Emit(mov_reg_imm32(d, v), "mov", 64, <<Reg(d), Imm(v)>>)
         \/ Emit(add_reg_imm32(d, v), "add", 64, <<Reg(d), Imm(v)>>)
         \/ Emit(sub_reg_imm32(d, v), "sub", 64, <<Reg(d), Imm(v)>>)
         \/ Emit(and_reg_imm32(d, v), "and", 64, <<Reg(d), Imm(v)>>)
         \/ Emit(or_reg_imm32(d, v), "or", 64, <<Reg(d), Imm(v)>>)
         \/ Emit(xor_reg_imm32(d, v), "xor", 64, <<Reg(d), Imm(v)>>)
         \/ Emit(cmp_reg_imm32(d, v), "cmp", 64, <<Reg(d), Imm(v)>>)
         \/ Emit(lea_reg_rip_disp32(d, v), "lea", 64, <<Reg(d), Rip(v)>>)
    \/ \E n \in {0, 1, 2, 63} :
         \/ Emit(shl_reg_imm8(d, n), "shl", 64, <<Reg(d), Imm(n)>>)
         \/ Emit(sar_reg_imm8(d, n), "sar", 64, <<Reg(d), Imm(n)>>)
         \/ Emit(shr_reg_imm8(d, n), "shr", 64, <<Reg(d), Imm(n)>>)
         \/ Emit(bts_reg_imm8(d, n), "bts", 64, <<Reg(d), Imm(n)>>)
         \/ Emit(btr_reg_imm8(d, n), "btr", 64, <<Reg(d), Imm(n)>>)
    \/ \E v \in Imm64s : Emit(mov_reg_imm64(d, v), "mov", 64, <<Reg(d), Imm(v)>>)

OneRegister ==
  \/ \E r \in Gpr :
       \/ Emit(shl_reg_cl(r), "shl", 64, <<Reg(r), CL>>)
       \/ Emit(sar_reg_cl(r), "sar", 64, <<Reg(r), CL>>)
       \/ Emit(shr_reg_cl(r), "shr", 64, <<Reg(r), CL>>)
       \/ Emit(call_reg(r), "call", 32, <<Reg(r)>>)
       \/ Emit(push_reg(r), "push", 32, <<Reg(r)>>)
       \/ Emit(pop_reg(r), "pop", 32, <<Reg(r)>>)
       \/ Emit(idiv_reg(r), "idiv", 64, <<Reg(r)>>)
       \/ Emit(idiv_reg32(r), "idiv", 32, <<Reg(r)>>)
  \/ \E v \in Imms : Emit(call_rel32_disp(v), "call", 32, <<Imm(v)>>)
  \/ Emit(ret, "ret", 32, << >>)
  \/ Emit(cqo, "cdq", 64, << >>)
  \/ Emit(cdq, "cdq", 32, << >>)
  \/ Emit(mfence, "mfence", 32, << >>)
  \/ Emit(sfence, "clflush, sfence", 32, << >>)

Memory ==
  \E b \in Gpr, x \in Disps :
    \/ \E r \in Gpr :
         \/ Emit(mov_reg_mem(r, b, x), "mov", 64, <<Reg(r), At(b, x)>>)
         \/ Emit(mov_mem_reg(b, x, r), "mov", 64, <<At(b, x), Reg(r)>>)
         \/ Emit(add_mem_reg(b, x, r), "add", 64, <<At(b, x), Reg(r)>>)
         \/ Emit(xchg_mem_reg(b, x, r), "xchg", 64, <<At(b, x), Reg(r)>>)
         \/ Emit(lock_cmpxchg_mem_reg(b, x, r), "lock cmpxchg", 64, <<At(b, x), Reg(r)>>)
         \/ Emit(lock_add_mem_reg(b, x, r), "lock add", 64, <<At(b, x), Reg(r)>>)
         \/ Emit(lock_and_mem_reg(b, x, r), "lock and", 64, <<At(b, x), Reg(r)>>)
         \/ Emit(lock_or_mem_reg(b, x, r), "lock or", 64, <<At(b, x), Reg(r)>>)
    \/ Emit(clflush(b, x), "clflush, sfence", 32, <<At(b, x)>>)
    \/ Emit(prefetcht0(b, x), "prefetcht0", 32, <<At(b, x)>>)

VectorMemory ==
  \E b \in Gpr, x \in Disps, r \in Xmm :
    \/ Emit(movss_xmm_mem(r, b, x), "movss", 32, <<Reg(r), At(b, x)>>)
    \/ Emit(movss_mem_xmm(b, x, r), "movss", 32, <<At(b, x), Reg(r)>>)
    \/ Emit(movsd_xmm_mem(r, b, x), "movsd", 32, <<Reg(r), At(b, x)>>)
    \/ Emit(movsd_mem_xmm(b, x, r), "movsd", 32, <<At(b, x), Reg(r)>>)
    \/ Emit(movdqu_xmm_mem(r, b, x), "movdqu", 32, <<Reg(r), At(b, x)>>)
    \/ Emit(movdqu_mem_xmm(b, x, r), "movdqu", 32, <<At(b, x), Reg(r)>>)
    \/ Emit(movntdq_mem_xmm(b, x, r), "movntdq", 32, <<At(b, x), Reg(r)>>)
    \/ Emit(vmovdqu_ymm_mem(r, b, x), "vmovdqu", 256, <<Reg(r), At(b, x)>>)
    \/ Emit(vmovdqu_mem_ymm(b, x, r), "vmovdqu", 256, <<At(b, x), Reg(r)>>)
    \/ Emit(vmovntdq_ymm_mem(b, x, r), "vmovntdq", 256, <<At(b, x), Reg(r)>>)

\* 512-bit accesses at displacements S.
ZmmMemory(S) ==
  \E b \in Gpr, x \in S, r \in Xmm :
    \/ Emit(vmovdqu_zmm_mem(r, b, x), "vmovdqu", 512, <<Reg(r), At(b, x)>>)
    \/ Emit(vmovdqu_mem_zmm(b, x, r), "vmovdqu", 512, <<At(b, x), Reg(r)>>)
    \/ Emit(vmovntdq_zmm_mem(b, x, r), "vmovntdq", 512, <<At(b, x), Reg(r)>>)

VectorBinary ==
  \E d, s \in Xmm :
    \/ Emit(addss_xmm_xmm(d, s), "addss", 32, <<Reg(d), Reg(s)>>)
    \/ Emit(addsd_xmm_xmm(d, s), "addsd", 32, <<Reg(d), Reg(s)>>)
    \/ Emit(subsd_xmm_xmm(d, s), "subsd", 32, <<Reg(d), Reg(s)>>)
    \/ Emit(paddd_xmm_xmm(d, s), "paddd", 32, <<Reg(d), Reg(s)>>)
    \/ Emit(psubd_xmm_xmm(d, s), "psubd", 32, <<Reg(d), Reg(s)>>)
    \/ \E v \in Xmm :
         \/ Emit(vpaddd_ymm_ymm(d, v, s), "vpaddd", 256, <<Reg(d), Reg(v), Reg(s)>>)
         \/ Emit(vpaddd_zmm_zmm(d, v, s), "vpaddd", 512, <<Reg(d), Reg(v), Reg(s)>>)
         \/ Emit(vpmulld_ymm_ymm(d, v, s), "vpmulld", 256, <<Reg(d), Reg(v), Reg(s)>>)

ScalarProduct ==
  \E d, s \in Xmm :
    \/ Emit(mulsd_xmm_xmm(d, s), "mulsd", 32, <<Reg(d), Reg(s)>>)
    \/ Emit(divsd_xmm_xmm(d, s), "divsd", 32, <<Reg(d), Reg(s)>>)

reset == asked # Nothing /\ code' = << >> /\ asked' = Nothing

\* The lowerer uses 512-bit accesses at displacement 0 only: a displacement of
\* one byte would be read in units of 64.
Next ==
  \/ Binary \/ WithImmediate \/ OneRegister \/ Memory \/ VectorMemory
  \/ ZmmMemory(Disps \ ((-128..127) \ {0})) \/ VectorBinary \/ reset

Spec == Init /\ [][Next]_vars

\* With the two emitters whose opcodes are those of other instructions, and
\* with 512-bit accesses at every displacement.
ScalarSpec == Init /\ [][Next \/ ScalarProduct]_vars
ZmmSpec    == Init /\ [][Next \/ ZmmMemory(Disps)]_vars
-------------------------------------------------------------------------------
\* The bytes after the instruction: more than the decoder may look at.
Beyond == [i \in 1..9 |-> 0]

\* The processor executes what the compiler asked for: the bytes of an emitter
\* decode to that instruction, with its width, its registers, the displacement
\* from the base and the whole immediate, and not a byte more or less.  No base
\* register falls into an encoding with another meaning (RBP and R13 without a
\* displacement, RSP and R12 without an SIB byte), no value is cut by a short
\* form.  A move to itself may be left out.
DecodesAsAsked ==
  asked # Nothing =>
    IF code = << >> THEN asked.op = "mov" /\ asked.w = 64 /\ asked.args[1] = asked.args[2]
    ELSE Decode(code \o Beyond) = [insn |-> asked, end |-> Len(code) + 1]
===============================================================================

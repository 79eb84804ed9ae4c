------------------------------- MODULE X86Forms -------------------------------
(***************************************************************************)
(* The instruction emitters of src/src/backend/ana_encoder.cpp: one        *)
(* operator per emitter, giving the bytes it appends to the code buffer.   *)
(* Registers are their numbers, 0..15; displacements and 32-bit immediates *)
(* are integers, a 64-bit immediate is its eight bytes.                    *)
(***************************************************************************)
EXTENDS Integers, Sequences

Byte8(v)  == <<v % 256>>
Byte32(v) == [i \in 1..4 |-> (v \div 256^(i - 1)) % 256]

Bit(b) == IF b THEN 1 ELSE 0
\* The fourth bit of a register number, and the other three.
High(r) == r \div 8
Low3(r) == r % 8

\* emit_rex; no emitter uses an index register.
Rex(w, reg, base) ==
  IF w \/ reg >= 8 \/ base >= 8
  THEN <<64 + 8 * Bit(w) + 4 * High(reg) + High(base)>> ELSE << >>

emit_modrm(mod, reg, rm) == <<64 * mod + 8 * Low3(reg) + Low3(rm)>>

\* Seeded fault: RBP and R13 are taken for bases like the others.
MemAnyBase(reg, base, disp) ==
  LET sib == IF Low3(base) = 4 THEN <<36>> ELSE << >>
  IN IF disp = 0 THEN emit_modrm(0, reg, base) \o sib
     ELSE IF disp \in -128..127 THEN emit_modrm(1, reg, base) \o sib \o Byte8(disp)
     ELSE emit_modrm(2, reg, base) \o sib \o Byte32(disp)
\* The memory operand [base + disp], written out again in every emitter that
\* takes one.
Mem(reg, base, disp) ==
  LET sib == IF Low3(base) = 4 THEN <<36>> ELSE << >>
  IN IF disp = 0 /\ Low3(base) # 5 THEN emit_modrm(0, reg, base) \o sib
     ELSE IF disp \in -128..127 THEN emit_modrm(1, reg, base) \o sib \o Byte8(disp)
     ELSE emit_modrm(2, reg, base) \o sib \o Byte32(disp)

\* op r/m64, r64 on two registers, and on memory.
RmReg(opcode, rm, reg)  == Rex(TRUE, reg, rm) \o opcode \o emit_modrm(3, reg, rm)
MemReg(opcode, b, disp, reg) == Rex(TRUE, reg, b) \o opcode \o Mem(reg, b, disp)
\* Group opcodes: the digit stands in the reg field.
Group(opcode, digit, rm) == Rex(TRUE, 0, rm) \o opcode \o emit_modrm(3, digit, rm)

\* ADD, OR, AND, SUB, XOR, CMP with an immediate: a byte where it fits.
GroupImm(digit, rm, imm) ==
  IF imm \in -128..127 THEN Group(<<131>>, digit, rm) \o Byte8(imm)
  ELSE Group(<<129>>, digit, rm) \o Byte32(imm)
ShiftImm(digit, rm, imm) ==
  IF imm = 1 THEN Group(<<209>>, digit, rm) ELSE Group(<<193>>, digit, rm) \o Byte8(imm)
-------------------------------------------------------------------------------
(* General registers. *)

mov_reg_reg(d, s)          == IF d = s THEN << >> ELSE RmReg(<<\h89>>, d, s)
mov_reg_imm64(d, bytes)    == Rex(TRUE, 0, d) \o <<\hB8 + Low3(d)>> \o bytes
mov_reg_imm32(d, imm)      == Group(<<\hC7>>, 0, d) \o Byte32(imm)
mov_reg_mem(d, b, disp)    == MemReg(<<\h8B>>, b, disp, d)
mov_mem_reg(b, disp, s)    == MemReg(<<\h89>>, b, disp, s)
add_reg_reg(d, s)          == RmReg(<<\h01>>, d, s)
add_reg_imm32(d, imm)      == GroupImm(0, d, imm)
add_mem_reg(b, disp, s)    == MemReg(<<\h01>>, b, disp, s)
sub_reg_reg(d, s)          == RmReg(<<\h29>>, d, s)
sub_reg_imm32(d, imm)      == GroupImm(5, d, imm)
imul_reg_reg(d, s)         == RmReg(<<\h0F, \hAF>>, s, d)
imul_reg_imm32(d, s, imm)  ==
  IF imm \in -128..127 THEN RmReg(<<\h6B>>, s, d) \o Byte8(imm)
  ELSE RmReg(<<\h69>>, s, d) \o Byte32(imm)
and_reg_reg(d, s)          == RmReg(<<\h21>>, d, s)
and_reg_imm32(d, imm)      == GroupImm(4, d, imm)
or_reg_reg(d, s)           == RmReg(<<\h09>>, d, s)
or_reg_imm32(d, imm)       == GroupImm(1, d, imm)
xor_reg_reg(d, s)          == RmReg(<<\h31>>, d, s)
xor_reg_imm32(d, imm)      == GroupImm(6, d, imm)
shl_reg_cl(d)              == Group(<<\hD3>>, 4, d)
shl_reg_imm8(d, imm)       == ShiftImm(4, d, imm)
sar_reg_cl(d)              == Group(<<\hD3>>, 7, d)
sar_reg_imm8(d, imm)       == ShiftImm(7, d, imm)
shr_reg_cl(d)              == Group(<<\hD3>>, 5, d)
shr_reg_imm8(d, imm)       == ShiftImm(5, d, imm)
bts_reg_reg(d, s)          == RmReg(<<\h0F, \hAB>>, d, s)
bts_reg_imm8(d, imm)       == Group(<<\h0F, \hBA>>, 5, d) \o Byte8(imm)
btr_reg_reg(d, s)          == RmReg(<<\h0F, \hB3>>, d, s)
btr_reg_imm8(d, imm)       == Group(<<\h0F, \hBA>>, 6, d) \o Byte8(imm)
popcnt_reg_reg(d, s)       == <<\hF3>> \o RmReg(<<\h0F, \hB8>>, s, d)
lzcnt_reg_reg(d, s)        == <<\hF3>> \o RmReg(<<\h0F, \hBD>>, s, d)
cmp_reg_reg(s1, s2)        == RmReg(<<\h39>>, s1, s2)
cmp_reg_imm32(s1, imm)     == GroupImm(7, s1, imm)
test_reg_reg(s1, s2)       == RmReg(<<\h85>>, s1, s2)
call_reg(t)                == Rex(FALSE, 0, t) \o <<\hFF>> \o emit_modrm(3, 2, t)
call_rel32_disp(disp)      == <<\hE8>> \o Byte32(disp)
push_reg(r)                == (IF r >= 8 THEN <<\h41>> ELSE << >>) \o <<\h50 + Low3(r)>>
pop_reg(r)                 == (IF r >= 8 THEN <<\h41>> ELSE << >>) \o <<\h58 + Low3(r)>>
ret                        == <<\hC3>>
cqo                        == <<\h48, \h99>>
idiv_reg(r)                == Rex(TRUE, 7, r) \o <<\hF7>> \o emit_modrm(3, 7, r)
lea_reg_rip_disp32(d, disp) == Rex(TRUE, d, 0) \o <<\h8D>> \o emit_modrm(0, d, 5) \o Byte32(disp)
movsxd_reg_reg(d, s)       == RmReg(<<\h63>>, s, d)
movzxd_reg_reg(d, s)       == Rex(FALSE, d, s) \o <<\h8B>> \o emit_modrm(3, d, s)
cdq                        == <<\h99>>
idiv_reg32(s)              == Rex(FALSE, 7, s) \o <<\hF7>> \o emit_modrm(3, 7, s)
-------------------------------------------------------------------------------
(* Memory shared with other threads, and the caches. *)

lock_cmpxchg_mem_reg(b, disp, s) == <<\hF0>> \o MemReg(<<\h0F, \hB1>>, b, disp, s)
xchg_mem_reg(b, disp, s)         == MemReg(<<\h87>>, b, disp, s)
lock_add_mem_reg(b, disp, s)     == <<\hF0>> \o MemReg(<<\h01>>, b, disp, s)
lock_and_mem_reg(b, disp, s)     == <<\hF0>> \o MemReg(<<\h21>>, b, disp, s)
lock_or_mem_reg(b, disp, s)      == <<\hF0>> \o MemReg(<<\h09>>, b, disp, s)
mfence                           == <<\h0F, \hAE, \hF0>>
clflush(b, disp)                 == Rex(FALSE, 0, b) \o <<\h0F, \hAE>> \o Mem(7, b, disp)
sfence                           == <<\h0F, \hAE, \hF8>>
prefetcht0(b, disp)              == Rex(FALSE, 1, b) \o <<\h0F, \h18>> \o Mem(1, b, disp)
-------------------------------------------------------------------------------
(* Scalar and vector registers. *)

Sse(prefix, opcode, reg, rm) ==
  prefix \o Rex(FALSE, reg, rm) \o <<\h0F, opcode>> \o emit_modrm(3, reg, rm)
SseMem(prefix, opcode, reg, b, disp) ==
  prefix \o Rex(FALSE, reg, b) \o <<\h0F, opcode>> \o Mem(reg, b, disp)

addss_xmm_xmm(d, s) == Sse(<<\hF3>>, \h58, d, s)
addsd_xmm_xmm(d, s) == Sse(<<\hF2>>, \h58, d, s)
subsd_xmm_xmm(d, s) == Sse(<<\hF2>>, \h5C, d, s)
mulsd_xmm_xmm(d, s) == Sse(<<\hF2>>, \h5E, d, s)
divsd_xmm_xmm(d, s) == Sse(<<\hF2>>, \h5F, d, s)
paddd_xmm_xmm(d, s) == Sse(<<\h66>>, \hFE, d, s)
psubd_xmm_xmm(d, s) == Sse(<<\h66>>, \hFA, d, s)
movss_xmm_mem(d, b, disp)  == SseMem(<<\hF3>>, \h10, d, b, disp)
movss_mem_xmm(b, disp, s)  == SseMem(<<\hF3>>, \h11, s, b, disp)
movsd_xmm_mem(d, b, disp)  == SseMem(<<\hF2>>, \h10, d, b, disp)
movsd_mem_xmm(b, disp, s)  == SseMem(<<\hF2>>, \h11, s, b, disp)
movdqu_xmm_mem(d, b, disp) == SseMem(<<\hF3>>, \h6F, d, b, disp)
movdqu_mem_xmm(b, disp, s) == SseMem(<<\hF3>>, \h7F, s, b, disp)
movntdq_mem_xmm(b, disp, s) == SseMem(<<\h66>>, \hE7, s, b, disp)

\* emit_vex3 with W = 0, X = 0 and 256 bits: R, X, B and vvvv are inverted.
Vex3(map, pp, vvvv, r, b) ==
  <<\hC4, 128 * (1 - r) + 64 + 32 * (1 - b) + map, 8 * (15 - vvvv) + 4 + pp>>
\* emit_evex with W = 0, X = 0, 512 bits and no mask: R' and V' are set.
Evex(mm, pp, vvvv, r, b) ==
  <<\h62, 128 * (1 - r) + 64 + 32 * (1 - b) + 16 + mm, 8 * (15 - vvvv) + 4 + pp, 64 + 8>>

vpaddd_ymm_ymm(d, s1, s2)  == Vex3(1, 1, s1, High(d), High(s2)) \o <<\hFE>> \o emit_modrm(3, d, s2)
vpaddd_zmm_zmm(d, s1, s2)  == Evex(1, 1, s1, High(d), High(s2)) \o <<\hFE>> \o emit_modrm(3, d, s2)
vpmulld_ymm_ymm(d, s1, s2) == Vex3(2, 1, s1, High(d), High(s2)) \o <<\h40>> \o emit_modrm(3, d, s2)
vmovdqu_ymm_mem(d, b, disp)  == Vex3(1, 2, 0, High(d), High(b)) \o <<\h6F>> \o Mem(d, b, disp)
vmovdqu_mem_ymm(b, disp, s)  == Vex3(1, 2, 0, High(s), High(b)) \o <<\h7F>> \o Mem(s, b, disp)
vmovdqu_zmm_mem(d, b, disp)  == Evex(1, 2, 0, High(d), High(b)) \o <<\h6F>> \o Mem(d, b, disp)
vmovdqu_mem_zmm(b, disp, s)  == Evex(1, 2, 0, High(s), High(b)) \o <<\h7F>> \o Mem(s, b, disp)
vmovntdq_ymm_mem(b, disp, s) == Vex3(1, 1, 0, High(s), High(b)) \o <<\hE7>> \o Mem(s, b, disp)
vmovntdq_zmm_mem(b, disp, s) == Evex(1, 1, 0, High(s), High(b)) \o <<\hE7>> \o Mem(s, b, disp)
===============================================================================

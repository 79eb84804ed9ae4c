------------------------------- MODULE AArch64 --------------------------------
(***************************************************************************)
(* The AArch64 backend (src/src/backend/aarch64_backend.cpp): what every   *)
(* emitter of AArch64Encoder appends, and what emit_code of                *)
(* AArch64Backend::compile_function appends for every opcode.  Code is a   *)
(* sequence of words.  A branch is given its distance in words.            *)
(***************************************************************************)
EXTENDS Words

LOCAL X0  == 0
LOCAL X9  == 9
LOCAL X10 == 10
LOCAL X11 == 11
LOCAL X16 == 16
LOCAL SP  == 31
LOCAL XZR == 31

LOCAL Three(base, rd, rn, rm) ==
  <<Hex(base[1], base[2]) \cup Field(rm, 16, 5) \cup Field(rn, 5, 5) \cup Field(rd, 0, 5)>>
LOCAL At(base, imm, rn, rt) ==
  <<Hex(base, 0) \cup imm \cup Field(rn, 5, 5) \cup Field(rt, 0, 5)>>

add_reg_reg(rd, rn, rm)  == Three(<<\h8B00, \h0000>>, rd, rn, rm)
sub_reg_reg(rd, rn, rm)  == Three(<<\hCB00, \h0000>>, rd, rn, rm)
mul_reg_reg(rd, rn, rm)  == Three(<<\h9B00, \h7C00>>, rd, rn, rm)
sdiv_reg_reg(rd, rn, rm) == Three(<<\h9AC0, \h0C00>>, rd, rn, rm)
and_reg_reg(rd, rn, rm)  == Three(<<\h8A00, \h0000>>, rd, rn, rm)
orr_reg_reg(rd, rn, rm)  == Three(<<\hAA00, \h0000>>, rd, rn, rm)
eor_reg_reg(rd, rn, rm)  == Three(<<\hCA00, \h0000>>, rd, rn, rm)
lsl_reg_reg(rd, rn, rm)  == Three(<<\h9AC0, \h2000>>, rd, rn, rm)
lsr_reg_reg(rd, rn, rm)  == Three(<<\h9AC0, \h2400>>, rd, rn, rm)

\* MOVZ, then a MOVK for every further chunk that is not zero.
mov_reg_imm64(rd, c) ==
  LET chunk(high, k) == <<Hex(high, 0) \cup Field(c[k], 5, 16) \cup Field(rd, 0, 5)>>
      movk(high, k)  == IF c[k] # 0 THEN chunk(high, k) ELSE << >>
  IN  chunk(\hD280, 2) \o movk(\hF2A0, 3) \o movk(\hF2C0, 4) \o movk(\hF2E0, 5)
mov_reg_reg(rd, rm) == orr_reg_reg(rd, XZR, rm)

\* Scaled, unscaled, or through X16.
LOCAL Access(scaled, unscaled, rt, rn, offset) ==
  CASE offset % 8 = 0 /\ offset <= 32760 -> At(scaled, Field(offset \div 8, 10, 12), rn, rt)
    [] offset < 256 /\ offset % 8 # 0    -> At(unscaled, Field(offset, 12, 9), rn, rt)
    [] OTHER -> mov_reg_imm64(X16, Small(offset)) \o add_reg_reg(X16, rn, X16)
                  \o At(scaled, {}, X16, rt)
str_reg_mem(rt, rn, offset) == Access(\hF900, \hF800, rt, rn, offset)
ldr_reg_mem(rt, rn, offset) == Access(\hF940, \hF840, rt, rn, offset)

push_fp_lr == <<Hex(\hA9BF, \h7BFD)>>
pop_fp_lr  == <<Hex(\hA8C1, \h7BFD)>>
mov_fp_sp  == <<Hex(\h9100, \h07FD)>>
sub_sp_imm32(imm) == <<Hex(\hD100, \h03FF) \cup Field(imm, 10, 12)>>
add_sp_imm32(imm) == <<Hex(\h9100, \h03FF) \cup Field(imm, 10, 12)>>
blr(rn)             == <<Hex(\hD63F, 0) \cup Field(rn, 5, 5)>>
cmp_reg_reg(rn, rm) == <<Hex(\hEB00, \h001F) \cup Field(rm, 16, 5) \cup Field(rn, 5, 5)>>
b_cond(cond, words) == <<Hex(\h5400, 0) \cup Field(words, 5, 19) \cup Field(cond, 0, 4)>>
b_uncond(words)     == <<Hex(\h1400, 0) \cup Field(words, 0, 26)>>
ret                 == <<Hex(\hD65F, \h03C0)>>
-------------------------------------------------------------------------------
\* The frame, and the eight argument registers stored into it.
prologue ==
  LET saved[i \in 0..8] == IF i = 0 THEN << >> ELSE saved[i - 1] \o
                             str_reg_mem(X0 + (i - 1), SP, 256 + (i - 1) * 8)
  IN  push_fp_lr \o mov_fp_sp \o sub_sp_imm32(320) \o saved[8]
epilogue == add_sp_imm32(320) \o pop_fp_lr \o ret

\* Where a virtual register lives, from SP; r = <<"p" or "v", index>>.
slot(r) == IF r[1] = "p" THEN 256 + (r[2] % 8) * 8 ELSE (r[2] % 32) * 8
load_op(o, scratch) == IF o.kind = "CONST_INT" THEN mov_reg_imm64(scratch, o.const_val)
                       ELSE ldr_reg_mem(scratch, SP, slot(o.reg))
\* Seeded fault: parameters are stored with the locals.
store_reg_among_locals(r, src) == str_reg_mem(src, SP, (r[2] % 32) * 8)
store_reg(r, src) == str_reg_mem(src, SP, slot(r))
LOCAL load(r, scratch) == ldr_reg_mem(scratch, SP, slot(r))

LOCAL Both(i) == load_op(i.src1, X9) \o load_op(i.src2, X10)
\* MOVE_CONST and MOVE.
moves(i) == load_op(i.src1, X9) \o store_reg(i.dest, X9)
\* The opcodes that compute; SHR and USHR share a case.
arithmetic(i) ==
  (CASE i.op = "ADD" -> Both(i) \o add_reg_reg(X9, X9, X10)
     [] i.op = "SUB" -> Both(i) \o sub_reg_reg(X9, X9, X10)
     [] i.op = "NEG" -> load_op(i.src1, X9) \o sub_reg_reg(X9, XZR, X9)
     [] i.op = "MUL" -> Both(i) \o mul_reg_reg(X9, X9, X10)
     [] i.op = "DIV" -> Both(i) \o sdiv_reg_reg(X9, X9, X10)
     [] i.op = "AND" -> Both(i) \o and_reg_reg(X9, X9, X10)
     [] i.op = "OR"  -> Both(i) \o orr_reg_reg(X9, X9, X10)
     [] i.op = "XOR" -> Both(i) \o eor_reg_reg(X9, X9, X10)
     [] i.op = "SHL" -> Both(i) \o lsl_reg_reg(X9, X9, X10)
     [] i.op \in {"SHR", "USHR"} -> Both(i) \o lsr_reg_reg(X9, X9, X10))
  \o store_reg(i.dest, X9)
\* BTS and BTR: the bit is made in X11.
bit_ops(i) ==
  Both(i) \o mov_reg_imm64(X11, Small(1)) \o lsl_reg_reg(X11, X11, X10)
    \o (IF i.op = "BTS" THEN orr_reg_reg(X9, X9, X11) ELSE eor_reg_reg(X9, X9, X11))
    \o store_reg(i.dest, X9)
load_mem(i)   == load(i.base, X9) \o ldr_reg_mem(X10, X9, i.offset) \o store_reg(i.dest, X10)
store_mem(i)  == load(i.base, X9) \o load_op(i.src1, X10) \o str_reg_mem(X10, X9, i.offset)
atomic_add(i) ==
  load(i.base, X9) \o load_op(i.src1, X10) \o ldr_reg_mem(X11, X9, i.offset)
    \o add_reg_reg(X11, X11, X10) \o str_reg_mem(X11, X9, i.offset)
popcount(i) == load_op(i.src1, X0) \o mov_reg_imm64(X16, i.helper) \o blr(X16)
                 \o store_reg(i.dest, X0)
call_virt(i) ==
  load_op(i.src1, X0) \o ldr_reg_mem(X9, X0, 0) \o ldr_reg_mem(X10, X9, i.vtable_slot * 8)
    \o blr(X10) \o (IF i.keeps THEN store_reg(i.dest, X0) ELSE << >>)
\* i.class = [size, vtable], or size 0 and no table for a class not found.
new_instance(i) ==
  mov_reg_imm64(0, Small(IF i.class.size > 0 THEN i.class.size + 16 ELSE 32))
    \o mov_reg_imm64(1, i.class.vtable) \o mov_reg_imm64(2, Small(1))
    \o mov_reg_imm64(X16, i.helper) \o blr(X16) \o store_reg(i.dest, X0)
const_string(i, str_ptr) == mov_reg_imm64(X9, str_ptr) \o store_reg(i.dest, X9)
str_len(i) == mov_reg_imm64(X9, Small(i.string_len)) \o store_reg(i.dest, X9)
\* What precedes a conditional branch, and the branch; delta(at) is the
\* distance from the word at which it stands.
if_setup(i) == Both(i) \o cmp_reg_reg(X9, X10)
if_branch(i, delta) ==
  b_cond(CASE i.op = "IF_GE" -> 10 [] i.op = "IF_LT" -> 11 [] i.op = "IF_EQ" -> 0
           [] i.op = "IF_NE" -> 1, delta)
goto(delta) == b_uncond(delta)
return_val(i) == load_op(i.src1, X0) \o epilogue
return_void   == epilogue
\* The switch over opcodes, branches excepted; other opcodes emit nothing.
lower(i) ==
  CASE i.op = "MOVE"       -> moves(i)
    [] i.op \in {"ADD", "SUB", "NEG", "MUL", "DIV", "AND", "OR", "XOR", "SHL", "SHR", "USHR"}
                           -> arithmetic(i)
    [] i.op \in {"BTS", "BTR"} -> bit_ops(i)
    [] i.op = "ATOMIC_ADD"   -> atomic_add(i)
    [] i.op = "LOAD_MEM"     -> load_mem(i)
    [] i.op = "STORE_MEM"    -> store_mem(i)
    [] i.op = "POPCOUNT"     -> popcount(i)
    [] i.op = "CALL_VIRT"    -> call_virt(i)
    [] i.op = "NEW_INSTANCE" -> new_instance(i)
    [] i.op = "STR_LEN"      -> str_len(i)
    [] i.op = "RETURN_VAL"   -> return_val(i)
    [] i.op = "RETURN_VOID"  -> return_void
    [] OTHER -> << >>
===============================================================================

--------------------------------- MODULE Rv64 ---------------------------------
(***************************************************************************)
(* The RISC-V backend (src/src/backend/rv64_backend.cpp), laid out as      *)
(* module AArch64: the emitters of Rv64Encoder, then what emit_code of     *)
(* Rv64Backend::compile_function appends for every opcode.                 *)
(***************************************************************************)
EXTENDS Words

LOCAL ZERO == 0
LOCAL RA == 1
LOCAL SP == 2
LOCAL T0 == 5
LOCAL T1 == 6
LOCAL FP == 8
LOCAL A0 == 10

encode_r(funct7, rs2, rs1, funct3, rd, opcode) ==
  <<Field(funct7, 25, 7) \cup Field(rs2, 20, 5) \cup Field(rs1, 15, 5)
      \cup Field(funct3, 12, 3) \cup Field(rd, 7, 5) \cup Field(opcode, 0, 7)>>
encode_i(imm12, rs1, funct3, rd, opcode) ==
  <<Field(imm12, 20, 12) \cup Field(rs1, 15, 5) \cup Field(funct3, 12, 3)
      \cup Field(rd, 7, 5) \cup Field(opcode, 0, 7)>>
encode_s(imm12, rs2, rs1, funct3, opcode) ==
  <<Field(imm12 \div 32, 25, 7) \cup Field(rs2, 20, 5) \cup Field(rs1, 15, 5)
      \cup Field(funct3, 12, 3) \cup Field(imm12, 7, 5) \cup Field(opcode, 0, 7)>>
encode_b(offset, rs1, rs2, funct3, opcode) ==
  <<Field(offset \div 4096, 31, 1) \cup Field(offset \div 32, 25, 6)
      \cup Field(rs2, 20, 5) \cup Field(rs1, 15, 5) \cup Field(funct3, 12, 3)
      \cup Field(offset \div 2, 8, 4) \cup Field(offset \div 2048, 7, 1)
      \cup Field(opcode, 0, 7)>>
encode_u(imm20, rd, opcode) ==
  <<Field(imm20, 12, 20) \cup Field(rd, 7, 5) \cup Field(opcode, 0, 7)>>
encode_j(offset, rd, opcode) ==
  <<Field(offset \div 1048576, 31, 1) \cup Field(offset \div 2, 21, 10)
      \cup Field(offset \div 2048, 20, 1) \cup Field(offset \div 4096, 12, 8)
      \cup Field(rd, 7, 5) \cup Field(opcode, 0, 7)>>

add_reg_reg(rd, rs1, rs2) == encode_r(\h00, rs2, rs1, 0, rd, \h33)
sub_reg_reg(rd, rs1, rs2) == encode_r(\h20, rs2, rs1, 0, rd, \h33)
mul_reg_reg(rd, rs1, rs2) == encode_r(\h01, rs2, rs1, 0, rd, \h33)
div_reg_reg(rd, rs1, rs2) == encode_r(\h01, rs2, rs1, 4, rd, \h33)
and_reg_reg(rd, rs1, rs2) == encode_r(\h00, rs2, rs1, 7, rd, \h33)
or_reg_reg(rd, rs1, rs2)  == encode_r(\h00, rs2, rs1, 6, rd, \h33)
xor_reg_reg(rd, rs1, rs2) == encode_r(\h00, rs2, rs1, 4, rd, \h33)
sll_reg_reg(rd, rs1, rs2) == encode_r(\h00, rs2, rs1, 1, rd, \h33)
srl_reg_reg(rd, rs1, rs2) == encode_r(\h00, rs2, rs1, 5, rd, \h33)
addi_reg_imm(rd, rs1, imm12)  == encode_i(imm12, rs1, 0, rd, \h13)
ld_reg_mem(rd, rs1, offset)   == encode_i(offset, rs1, 3, rd, \h03)
jalr_reg(rd, rs1, offset)     == encode_i(offset, rs1, 0, rd, \h67)
sd_reg_mem(rs2, rs1, offset)  == encode_s(offset, rs2, rs1, 3, \h23)
lui_reg_imm20(rd, imm20)      == encode_u(imm20, rd, \h37)
beq_reg_reg(rs1, rs2, offset) == encode_b(offset, rs1, rs2, 0, \h63)
bne_reg_reg(rs1, rs2, offset) == encode_b(offset, rs1, rs2, 1, \h63)
blt_reg_reg(rs1, rs2, offset) == encode_b(offset, rs1, rs2, 4, \h63)
bge_reg_reg(rs1, rs2, offset) == encode_b(offset, rs1, rs2, 5, \h63)
jal_reg(rd, offset)           == encode_j(offset, rd, \h6F)

\* LUI of the upper twenty bits, rounded for the signed ADDI that follows
\* when the lower twelve are not zero.
mov_reg_imm64(rd, c) ==
  LET up   == Plus(c, 2048)
      hi20 == up[2] \div 4096 + 16 * up[3]
      lo12 == Signed(c[2] % 4096, 12)
  IN  lui_reg_imm20(rd, hi20) \o
      (IF lo12 # 0 \/ c = Zero THEN addi_reg_imm(rd, rd, lo12) ELSE << >>)
mov_reg_reg(rd, rs1) == addi_reg_imm(rd, rs1, 0)
push_fp_ra == addi_reg_imm(SP, SP, -16) \o sd_reg_mem(RA, SP, 8) \o sd_reg_mem(FP, SP, 0)
                \o mov_reg_reg(FP, SP)
\* Seeded fault: the stack pointer is not moved past the saved pair.
pop_fp_ra_only == ld_reg_mem(FP, SP, 0) \o ld_reg_mem(RA, SP, 8)
pop_fp_ra == ld_reg_mem(FP, SP, 0) \o ld_reg_mem(RA, SP, 8) \o addi_reg_imm(SP, SP, 16)
ret == jalr_reg(ZERO, RA, 0)
-------------------------------------------------------------------------------
\* The frame, and the eight argument registers stored into it.
prologue ==
  LET saved[i \in 0..8] == IF i = 0 THEN << >> ELSE saved[i - 1] \o
                             sd_reg_mem(A0 + (i - 1), SP, 192 + (i - 1) * 8)
  IN  push_fp_ra \o addi_reg_imm(SP, SP, -256) \o saved[8]
epilogue == addi_reg_imm(SP, SP, 256) \o pop_fp_ra \o ret

\* index & 23 keeps bits 0, 1, 2 and 4 of the index.
slot(r) == IF r[1] = "p" THEN 192 + (r[2] % 8) * 8
           ELSE ((r[2] % 8) + 16 * ((r[2] \div 16) % 2)) * 8
load_op(o, scratch) == IF o.kind = "CONST_INT" THEN mov_reg_imm64(scratch, o.const_val)
                       ELSE ld_reg_mem(scratch, SP, slot(o.reg))
store_reg(r, src) == sd_reg_mem(src, SP, slot(r))
LOCAL load(r, scratch) == ld_reg_mem(scratch, SP, slot(r))

LOCAL Both(i) == load_op(i.src1, T0) \o load_op(i.src2, T1)
moves(i) == load_op(i.src1, T0) \o store_reg(i.dest, T0)
arithmetic(i) ==
  (CASE i.op = "ADD" -> Both(i) \o add_reg_reg(T0, T0, T1)
     [] i.op = "SUB" -> Both(i) \o sub_reg_reg(T0, T0, T1)
     [] i.op = "NEG" -> load_op(i.src1, T0) \o sub_reg_reg(T0, ZERO, T0)
     [] i.op = "MUL" -> Both(i) \o mul_reg_reg(T0, T0, T1)
     [] i.op = "DIV" -> Both(i) \o div_reg_reg(T0, T0, T1)
     [] i.op = "AND" -> Both(i) \o and_reg_reg(T0, T0, T1)
     [] i.op = "OR"  -> Both(i) \o or_reg_reg(T0, T0, T1)
     [] i.op = "XOR" -> Both(i) \o xor_reg_reg(T0, T0, T1)
     [] i.op = "SHL" -> Both(i) \o sll_reg_reg(T0, T0, T1)
     [] i.op \in {"SHR", "USHR"} -> Both(i) \o srl_reg_reg(T0, T0, T1))
  \o store_reg(i.dest, T0)
popcount(i) == load_op(i.src1, A0) \o mov_reg_imm64(T0, i.helper) \o jalr_reg(RA, T0, 0)
                 \o store_reg(i.dest, A0)
load_mem(i)  == load(i.base, T0) \o ld_reg_mem(T1, T0, i.offset) \o store_reg(i.dest, T1)
store_mem(i) == load(i.base, T0) \o load_op(i.src1, T1) \o sd_reg_mem(T1, T0, i.offset)
call_virt(i) ==
  load_op(i.src1, A0) \o ld_reg_mem(T0, A0, 0) \o ld_reg_mem(T1, T0, i.vtable_slot * 8)
    \o jalr_reg(RA, T1, 0) \o (IF i.keeps THEN store_reg(i.dest, A0) ELSE << >>)
new_instance(i) ==
  mov_reg_imm64(A0, Small(IF i.class.size > 0 THEN i.class.size + 16 ELSE 32))
    \o mov_reg_imm64(A0 + 1, i.class.vtable) \o mov_reg_imm64(A0 + 2, Small(1))
    \o mov_reg_imm64(T0, i.helper) \o jalr_reg(RA, T0, 0) \o store_reg(i.dest, A0)
const_string(i, str_ptr) == mov_reg_imm64(T0, str_ptr) \o store_reg(i.dest, T0)
str_len(i) == mov_reg_imm64(T0, Small(i.string_len)) \o store_reg(i.dest, T0)
\* Distances are in bytes here.
if_setup(i) == Both(i)
if_branch(i, delta) ==
  CASE i.op = "IF_EQ" -> beq_reg_reg(T0, T1, 4 * delta)
    [] i.op = "IF_NE" -> bne_reg_reg(T0, T1, 4 * delta)
    [] i.op = "IF_LT" -> blt_reg_reg(T0, T1, 4 * delta)
    [] i.op = "IF_GE" -> bge_reg_reg(T0, T1, 4 * delta)
goto(delta) == jal_reg(ZERO, 4 * delta)
return_val(i) == load_op(i.src1, A0) \o epilogue
return_void   == epilogue
\* The switch over opcodes, branches excepted; other opcodes emit nothing.
lower(i) ==
  CASE i.op = "MOVE"       -> moves(i)
    [] i.op \in {"ADD", "SUB", "NEG", "MUL", "DIV", "AND", "OR", "XOR", "SHL", "SHR", "USHR"}
                           -> arithmetic(i)
    [] i.op = "LOAD_MEM"     -> load_mem(i)
    [] i.op = "STORE_MEM"    -> store_mem(i)
    [] i.op = "POPCOUNT"     -> popcount(i)
    [] i.op = "CALL_VIRT"    -> call_virt(i)
    [] i.op = "NEW_INSTANCE" -> new_instance(i)
    [] i.op = "STR_LEN"      -> str_len(i)
    [] i.op = "RETURN_VAL"   -> return_val(i)
    [] i.op = "RETURN_VOID"  -> return_void
    [] OTHER -> << >>
===============================================================================

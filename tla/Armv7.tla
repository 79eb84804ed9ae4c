-------------------------------- MODULE Armv7 ---------------------------------
(***************************************************************************)
(* The 32-bit ARM backend (src/src/backend/armv7_backend.cpp), laid out as *)
(* module AArch64: the emitters of Armv7Encoder, then what emit_code of    *)
(* Armv7Backend::compile_function appends for every opcode.                *)
(***************************************************************************)
EXTENDS Words

LOCAL R0 == 0
LOCAL R8 == 8
LOCAL R9 == 9
LOCAL IP == 12
LOCAL SP == 13

\* Rn at bit 16, Rd at bit 12, Rm at bit 0; and the forms that put Rd at 16.
LOCAL Three(base, rd, rn, rm) ==
  <<Hex(base, 0) \cup Field(rn, 16, 4) \cup Field(rd, 12, 4) \cup Field(rm, 0, 4)>>
LOCAL Product(base, rd, rn, rm) ==
  <<base \cup Field(rd, 16, 4) \cup Field(rm, 8, 4) \cup Field(rn, 0, 4)>>
LOCAL Shift(low, rd, rn, rm) ==
  <<Hex(\hE1A0, low) \cup Field(rn, 16, 4) \cup Field(rd, 12, 4) \cup Field(rm, 8, 4)>>

add_reg_reg(rd, rn, rm)  == Three(\hE080, rd, rn, rm)
sub_reg_reg(rd, rn, rm)  == Three(\hE040, rd, rn, rm)
mul_reg_reg(rd, rn, rm)  == Product(Hex(\hE000, \h0090), rd, rn, rm)
sdiv_reg_reg(rd, rn, rm) == Product(Hex(\hE710, \hF010), rd, rn, rm)
and_reg_reg(rd, rn, rm)  == Three(\hE000, rd, rn, rm)
orr_reg_reg(rd, rn, rm)  == Three(\hE180, rd, rn, rm)
eor_reg_reg(rd, rn, rm)  == Three(\hE020, rd, rn, rm)
lsl_reg_reg(rd, rn, rm)  == Shift(\h0010, rd, rn, rm)
lsr_reg_reg(rd, rn, rm)  == Shift(\h0030, rd, rn, rm)

\* MOVW, then MOVT when the upper half is not zero.
mov_reg_imm32(rd, c) ==
  LET half(base, x) == <<Hex(base, 0) \cup Field(x \div 4096, 16, 4)
                           \cup Field(rd, 12, 4) \cup Field(x, 0, 12)>>
  IN  half(\hE300, c[2]) \o (IF c[3] # 0 THEN half(\hE340, c[3]) ELSE << >>)
mov_reg_reg(rd, rm) == Three(\hE1A0, rd, 0, rm)

\* The offset in twelve bits, or through IP.
LOCAL Access(base, rt, rn, offset) ==
  IF offset <= 4095
  THEN <<Hex(base, 0) \cup Field(rn, 16, 4) \cup Field(rt, 12, 4) \cup Field(offset, 0, 12)>>
  ELSE mov_reg_imm32(IP, Small(offset)) \o add_reg_reg(IP, rn, IP)
         \o <<Hex(base, 0) \cup Field(IP, 16, 4) \cup Field(rt, 12, 4)>>
str_reg_mem(rt, rn, offset) == Access(\hE580, rt, rn, offset)
ldr_reg_mem(rt, rn, offset) == Access(\hE590, rt, rn, offset)

push_fp_lr == <<Hex(\hE92D, \h4800)>>
pop_fp_pc  == <<Hex(\hE8BD, \h8800)>>
mov_fp_sp  == <<Hex(\hE1A0, \hB00D)>>
sub_sp_imm32(imm) == IF imm <= 255 THEN <<Hex(\hE24D, \hD000) \cup Field(imm, 0, 8)>>
                     ELSE mov_reg_imm32(IP, Small(imm)) \o sub_reg_reg(SP, SP, IP)
add_sp_imm32(imm) == IF imm <= 255 THEN <<Hex(\hE28D, \hD000) \cup Field(imm, 0, 8)>>
                     ELSE mov_reg_imm32(IP, Small(imm)) \o add_reg_reg(SP, SP, IP)
blr(rn)             == <<Hex(\hE12F, \hFF30) \cup Field(rn, 0, 4)>>
cmp_reg_reg(rn, rm) == <<Hex(\hE150, 0) \cup Field(rn, 16, 4) \cup Field(rm, 0, 4)>>
\* The distance is from the instruction after the next one.
b_cond(cond, words) == <<Field(cond, 28, 4) \cup Hex(\h0A00, 0) \cup Field(words - 2, 0, 24)>>
b_uncond(words)     == <<Hex(\hEA00, 0) \cup Field(words - 2, 0, 24)>>
-------------------------------------------------------------------------------
\* The frame, and the four argument registers stored into it.
prologue ==
  LET saved[i \in 0..4] == IF i = 0 THEN << >> ELSE saved[i - 1] \o
                             str_reg_mem(R0 + (i - 1), SP, 128 + (i - 1) * 4)
  IN  push_fp_lr \o mov_fp_sp \o sub_sp_imm32(256) \o saved[4]
epilogue == add_sp_imm32(256) \o pop_fp_pc

slot(r) == IF r[1] = "p" THEN 128 + (r[2] % 4) * 4 ELSE (r[2] % 32) * 4
load_op(o, scratch) == IF o.kind = "CONST_INT" THEN mov_reg_imm32(scratch, o.const_val)
                       ELSE ldr_reg_mem(scratch, SP, slot(o.reg))
store_reg(r, src) == str_reg_mem(src, SP, slot(r))
LOCAL load(r, scratch) == ldr_reg_mem(scratch, SP, slot(r))

LOCAL Both(i) == load_op(i.src1, R8) \o load_op(i.src2, R9)
moves(i) == load_op(i.src1, R8) \o store_reg(i.dest, R8)
arithmetic(i) ==
  (CASE i.op = "ADD" -> Both(i) \o add_reg_reg(R8, R8, R9)
     [] i.op = "SUB" -> Both(i) \o sub_reg_reg(R8, R8, R9)
     [] i.op = "NEG" -> load_op(i.src1, R8) \o mov_reg_imm32(R9, Zero)
                          \o sub_reg_reg(R8, R9, R8)
     [] i.op = "MUL" -> Both(i) \o mul_reg_reg(R8, R8, R9)
     [] i.op = "DIV" -> Both(i) \o sdiv_reg_reg(R8, R8, R9)
     [] i.op = "AND" -> Both(i) \o and_reg_reg(R8, R8, R9)
     [] i.op = "OR"  -> Both(i) \o orr_reg_reg(R8, R8, R9)
     [] i.op = "XOR" -> Both(i) \o eor_reg_reg(R8, R8, R9)
     [] i.op = "SHL" -> Both(i) \o lsl_reg_reg(R8, R8, R9)
     [] i.op \in {"SHR", "USHR"} -> Both(i) \o lsr_reg_reg(R8, R8, R9))
  \o store_reg(i.dest, R8)
popcount(i) == load_op(i.src1, R0) \o mov_reg_imm32(IP, i.helper) \o blr(IP)
                 \o store_reg(i.dest, R0)
load_mem(i)  == load(i.base, R8) \o ldr_reg_mem(R9, R8, i.offset) \o store_reg(i.dest, R9)
store_mem(i) == load(i.base, R8) \o load_op(i.src1, R9) \o str_reg_mem(R9, R8, i.offset)
\* Seeded fault: vtable slots of eight bytes, as on the 64-bit targets.
call_virt_wide(i) ==
  load_op(i.src1, R0) \o ldr_reg_mem(R8, R0, 0) \o ldr_reg_mem(R9, R8, i.vtable_slot * 8)
    \o blr(R9) \o (IF i.keeps THEN store_reg(i.dest, R0) ELSE << >>)
call_virt(i) ==
  load_op(i.src1, R0) \o ldr_reg_mem(R8, R0, 0) \o ldr_reg_mem(R9, R8, i.vtable_slot * 4)
    \o blr(R9) \o (IF i.keeps THEN store_reg(i.dest, R0) ELSE << >>)
new_instance(i) ==
  mov_reg_imm32(0, Small(IF i.class.size > 0 THEN i.class.size + 16 ELSE 32))
    \o mov_reg_imm32(1, i.class.vtable) \o mov_reg_imm32(2, Small(1))
    \o mov_reg_imm32(IP, i.helper) \o blr(IP) \o store_reg(i.dest, R0)
const_string(i, str_ptr) == mov_reg_imm32(R8, str_ptr) \o store_reg(i.dest, R8)
str_len(i) == mov_reg_imm32(R8, Small(i.string_len)) \o store_reg(i.dest, R8)
if_setup(i) == Both(i) \o cmp_reg_reg(R8, R9)
if_branch(i, delta) ==
  b_cond(CASE i.op = "IF_GE" -> 10 [] i.op = "IF_LT" -> 11 [] i.op = "IF_EQ" -> 0
           [] i.op = "IF_NE" -> 1, delta)
goto(delta) == b_uncond(delta)
return_val(i) == load_op(i.src1, R0) \o epilogue
return_void   == epilogue
\* The switch over opcodes, branches excepted; other opcodes emit nothing.
lower(i) ==
  CASE i.op = "MOVE"       -> moves(i)
    [] i.op \in {"ADD", "SUB", "NEG", "MUL", "DIV", "AND", "OR", "XOR", "SHL", "SHR", "USHR"}
                           -> arithmetic(i)
    [] i.op = "LOAD_MEM"     -> load_mem(i)
    [] i.op = "STORE_MEM"    -> store_mem(i)
    [] i.op = "POPCOUNT"     -> popcount(i)
    [] i.op = "CALL_VIRT"    -> call_virt(i)
    [] i.op = "NEW_INSTANCE" -> new_instance(i)
    [] i.op = "STR_LEN"      -> str_len(i)
    [] i.op = "RETURN_VAL"   -> return_val(i)
    [] i.op = "RETURN_VOID"  -> return_void
    [] OTHER -> << >>
===============================================================================

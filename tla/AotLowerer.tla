------------------------------ MODULE AotLowerer ------------------------------
(***************************************************************************)
(* The code AnaLowerer::compile_to_elf generates for each instruction      *)
(* (src/src/backend/ana_lowerer.cpp:806), ahead of time.  It repeats the   *)
(* switch of compile_function with cases of its own.  A case whose emitter *)
(* calls are those of the JIT is defined by the JIT's operator; the others *)
(* are written out.  Opcodes without a case emit nothing.                  *)
(***************************************************************************)
EXTENDS Lowerer

CONSTANTS
  AotAluOps,    \* ADD_I64 and SUB_I64
  AotLogicOps   \* AND, OR, XOR of either width

ASSUME AotConstants ==
  \A op \in AotAluOps \cup AotLogicOps : \A a, b \in Val : Alu(op, a, b) \in Val

VARIABLE aot    \* whether the functions were compiled ahead of time

avars == <<vreg, meant, fr, m, seen, aot>>
-------------------------------------------------------------------------------
\* The prologue only makes the frame: the slots of the preserved registers
\* hold garbage, like every slot that is no parameter's.
aot_enter(lc, pc, args, g) ==
  /\ ~ Runs /\ seen = NoEffect /\ meant = NoEffect
  /\ LET reg  == [r \in Regs |-> IF \E i \in 0..(pc-1) : get_param_raw_reg(i) = r
                                 THEN args[CHOOSE i \in 0..(pc-1) : get_param_raw_reg(i) = r]
                                 ELSE m.reg[r]]
         x    == [reg |-> reg, slot |-> SaveParams(reg, [k \in Frame(lc, pc) |-> g], lc, pc)]
     IN /\ m' = Settle(x)
        /\ vreg' = [r \in Homed(lc, pc) |-> IF r.type = "PARAM" THEN args[r.index]
                                            ELSE At(x, get_reg_loc(lc, pc, r))]
  /\ fr' = [lc |-> lc, pc |-> pc]
  /\ seen' = NoEffect /\ meant' = NoEffect

\* ADD_I64, SUB_I64: the destination takes the first operand, then the second
\* is applied, wherever it is; constants are loaded whole.
aot_add_sub(op, d, a, b) ==
  LET dst == DestReg(d, "RCX")
      x1  == load_operand(load_operand(m, a, "RCX"), b, "R11")
      x2  == mov(x1, dst, OperandReg(a, "RCX"))
      x3  == SetReg(x2, dst, Alu(op, x2.reg[dst], x2.reg[OperandReg(b, "R11")]))
  IN Ready /\ VBinary(op, d, a, b) /\ Steps(store_operand(x3, d, dst), NoEffect)

aot_logic(op, d, a, b) == alu(op, d, a, b)
aot_mul(d, a, b)       == mul(d, a, b)
aot_div(d, a, b)       == div(d, a, b)
aot_shl(d, a, b)       == shift("shl", d, a, b)
aot_shr(d, a, b)       == shift("shr", d, a, b)
aot_ushr(d, a, b)      == shift("ushr", d, a, b)
aot_move_const(d, c)   == move_const(d, c)
\* CONST_STRING, LOAD_FN_PTR: LEA of an address the linker fills in.
aot_lea(d, address)    == move_const(d, address)
aot_move(d, r)         == move(d, r)
aot_load_mem(d, base, v) == load_mem(d, base, v)
aot_store_mem(base, a)   == store_mem(base, a)
aot_atomic_add(base, a)  == atomic_rmw("add", base, a)
\* The object comes from src1 and the table from src2, as in the JIT.
aot_bind_vtable(d, c)    == bind_vtable(d, c)

\* Calls: CALL_EXTERN passes no arguments and calls through the linker;
\* NEW_INSTANCE calls tlab_allocate with size, no table and class 1.
aot_call_virt(this)          == call_virt(this)
aot_call_virt_to(d, this, v) == call_virt_to(d, this, v)
aot_call_extern(d, v) ==
  /\ Ready /\ VNew(d, v)
  /\ Steps(store_operand(Called(m, v), d, "RAX"), Request(Aligned))
aot_new_instance(d, v) ==
  LET x == SetReg(SetReg(SetReg(m, "RDI", Junk), "RSI", 0), "RDX", 1)
  IN /\ Ready /\ VNew(d, v)
     /\ Steps(store_operand(Called(x, v), d, "RAX"), Request(Aligned))

aot_if_cmp(op, r, b) == if_cmp(op, r, b)
\* IF_Z, IF_NZ: TEST of the register with itself.
aot_if_zero(r) ==
  LET x == load_operand(m, RegOp(r), "RAX")
      v == x.reg[OperandReg(RegOp(r), "RAX")]
  IN Ready /\ VIf("z", RegOp(r), RegOp(r)) /\ Steps(x, Branch(Alu("z", v, v)))

\* The epilogues are the JIT's: they restore what the prologue did not save.
aot_return_val(a) == return_val(a)
aot_return_void   == return_void
-------------------------------------------------------------------------------
AotEnter ==
  \E lc \in 1..kMaxLocals, pc \in 0..MaxParams, g \in Val :
    pc <= 6 /\ \E args \in [0..(pc-1) -> Val] : aot_enter(lc, pc, args, g)

\* A second operand that lives in the destination's register is overwritten
\* before ADD or SUB reads it.
Apart(d, a, b) == InReg(d) /\ b = RegOp(d) => a = b

AotRegisters ==
  \E d \in Homes :
    \/ \E a, b \in Sources :
         \/ \E op \in AotAluOps : Apart(d, a, b) /\ aot_add_sub(op, d, a, b)
         \/ \E op \in AotLogicOps : Encodable(b) /\ aot_logic(op, d, a, b)
         \/ aot_mul(d, a, b)
         \/ aot_div(d, a, b)
         \/ "shl" \in ShiftOps /\ aot_shl(d, a, b)
         \/ "shr" \in ShiftOps /\ aot_shr(d, a, b)
         \/ "ushr" \in ShiftOps /\ aot_ushr(d, a, b)
    \/ \E c \in Val : aot_move_const(d, c) \/ aot_lea(d, c)
    \/ \E r \in Homes : aot_move(d, r)

AotMemory ==
  \/ \E base \in Homes, a \in Sources : aot_store_mem(base, a) \/ aot_atomic_add(base, a)
  \/ \E d, base \in Homes, v \in Val : aot_load_mem(d, base, v)

AotCalls ==
  \/ \E this \in Homes :
       aot_call_virt(this) \/ \E d \in Homes, v \in Val : aot_call_virt_to(d, this, v)
  \/ \E d \in Homes, v \in Val : aot_call_extern(d, v) \/ aot_new_instance(d, v)

AotControl ==
  \/ \E op \in CondOps \ {"z"}, r \in Homes, b \in Sources : Encodable(b) /\ aot_if_cmp(op, r, b)
  \/ \E r \in Homes : aot_if_zero(r)
  \/ \E a \in Sources : aot_return_val(a)
  \/ aot_return_void

AotNext == Observe \/ AotEnter \/ AotRegisters \/ AotMemory \/ AotCalls \/ AotControl

BothInit == Init /\ aot \in BOOLEAN
BothNext == \/ ~ aot /\ Next /\ UNCHANGED aot
            \/ aot /\ AotNext /\ UNCHANGED aot
BothSpec == BothInit /\ [][BothNext]_avars
\* Ahead of time only.
AotSpec == Init /\ aot = TRUE /\ [][BothNext]_avars
\* In memory only, with one of the forms that Next leaves out.
JitInit  == Init /\ aot = FALSE
XchgSpec == JitInit /\ [][(Next \/ Exchange) /\ UNCHANGED aot]_avars
CasSpec  == JitInit /\ [][(Next \/ PlainCas) /\ UNCHANGED aot]_avars
ImmSpec  == JitInit /\ [][(Next \/ AnyConstant) /\ UNCHANGED aot]_avars
BindSpec == JitInit /\ [][(Next \/ BindVtable) /\ UNCHANGED aot]_avars
-------------------------------------------------------------------------------
\* What CallerPreserved says, for code compiled in memory: a function returns
\* with RBX, R12 and R13 as its caller left them (ana_regalloc.h:38).
JitCallerPreserved == ~ aot => CallerPreserved
===============================================================================

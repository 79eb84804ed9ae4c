------------------------------- MODULE Lowerer --------------------------------
(***************************************************************************)
(* AnaLowerer::compile_function (src/src/backend/ana_lowerer.cpp) for      *)
(* x86-64.  The code generated for a virtual instruction is modelled by    *)
(* its execution: every enc-> call is a transformer of the machine m, and  *)
(* an action composes the ones its case of the switch emits.  Each action  *)
(* runs the virtual instruction (module VirtualCode) beside its code.      *)
(*                                                                         *)
(* Between two instructions the scratch registers are Junk: the compiler   *)
(* keeps nothing there, and code that read one it had not written would    *)
(* read Junk.                                                              *)
(***************************************************************************)
EXTENDS FrameLayout, VirtualCode

CONSTANTS
  Junk,      \* what is left in a scratch register
  Caller,    \* the caller's values of the callee-saved registers
  Imm(_),    \* the word an instruction with a 32-bit immediate makes of a constant
  AluOps,    \* add, sub, and, or, xor of either width
  ShiftOps, BitOps, UnaryOps, RmwOps, CondOps

Scratch == {"RAX", "RCX", "RDX", "RSI", "RDI", "R8", "R9", "R11"}
Saved   == {"RBX", "R12", "R13"}
Regs    == Scratch \cup Saved
Word    == Val \cup {Junk}
Ops     == AluOps \cup ShiftOps \cup BitOps \cup UnaryOps \cup CondOps
             \cup {"neg", "mul", "div"}

ASSUME LowererConstants ==
  /\ Junk \notin Val
  /\ Caller \in [Saved -> Val]
  /\ \A op \in Ops : \A a, b \in Val : Alu(op, a, b) \in Val

VARIABLES
  fr,    \* the counts [lc, pc] of the running function; lc = 0: none runs
  m,     \* the machine: registers m.reg, frame slots m.slot
  seen   \* the effect the generated code had

vars == <<vreg, meant, fr, m, seen>>
-------------------------------------------------------------------------------
Loc(r)    == get_reg_loc(fr.lc, fr.pc, r)
InReg(r)  == Loc(r).kind = "PHYSICAL_REG"
Homes     == Homed(fr.lc, fr.pc)
Sources   == {RegOp(r) : r \in Homes} \cup {ConstOp(c) : c \in Val}
Frame(lc, pc) == 1..(stack_frame_size(lc, pc) \div 8)
\* rsp = rbp - frame size at every call, and rbp is aligned.
Aligned   == stack_frame_size(fr.lc, fr.pc) % 16 = 0

SetReg(x, d, v)  == [x EXCEPT !.reg = [x.reg EXCEPT ![d] = v]]
SetSlot(x, k, v) == [x EXCEPT !.slot = [x.slot EXCEPT ![k] = v]]
mov(x, d, s)     == SetReg(x, d, x.reg[s])

\* Scratch registers after an instruction, and after the callee of a call.
Settle(x) == [x EXCEPT !.reg = [r \in Regs |-> IF r \in Scratch THEN Junk ELSE x.reg[r]]]

\* A constant that ADD, SUB, AND, OR, XOR and CMP can encode.
Encodable(o) == o.kind = "CONST_INT" => Imm(o.const_val) = o.const_val

\* load_operand: the register the operand is in, and the machine after the load.
OperandReg(o, scratch) ==
  IF o.kind = "REGISTER" /\ InReg(o.reg) THEN Loc(o.reg).phys_reg ELSE scratch
load_operand(x, o, scratch) ==
  IF o.kind = "CONST_INT" THEN SetReg(x, scratch, o.const_val)
  ELSE IF InReg(o.reg) THEN x
  ELSE SetReg(x, scratch, x.slot[Loc(o.reg).slot])
\* load_operand into a fixed register.
fetch(x, o, r) == mov(load_operand(x, o, r), r, OperandReg(o, r))

DestReg(d, scratch) == IF InReg(d) THEN Loc(d).phys_reg ELSE scratch
store_operand(x, d, src) ==
  IF InReg(d) THEN mov(x, Loc(d).phys_reg, src)
              ELSE SetSlot(x, Loc(d).slot, x.reg[src])

\* An instruction starts when the effect of the one before has been observed.
Runs == fr.lc > 0
Ready == Runs /\ seen = NoEffect /\ meant = NoEffect
Steps(x, e) == m' = Settle(x) /\ seen' = e /\ UNCHANGED fr
-------------------------------------------------------------------------------
(* The frame. *)

\* The prologue: preserve the callee-saved registers in use, then the incoming
\* parameters.  Other slots hold garbage g.
SaveRegs(reg, lc, pc, g) ==
  [k \in Frame(lc, pc) |-> IF k \in SavedSlots(lc) THEN reg[saved_reg(k - 1)] ELSE g]
SaveParams(reg, slot, lc, pc) ==
  [k \in DOMAIN slot |->
     IF \E i \in 0..(pc-1) : get_param_loc(lc, pc, i).slot = k
     THEN reg[get_param_raw_reg(CHOOSE i \in 0..(pc-1) : get_param_loc(lc, pc, i).slot = k)]
     ELSE slot[k]]

\* What a register's home contains.
At(x, loc) == IF loc.kind = "PHYSICAL_REG" THEN x.reg[loc.phys_reg] ELSE x.slot[loc.slot]

\* A call of a compiled function; a local nobody has set holds what is there.
Enter(lc, pc, args, g) ==
  /\ ~ Runs /\ seen = NoEffect /\ meant = NoEffect
  /\ LET reg  == [r \in Regs |-> IF \E i \in 0..(pc-1) : get_param_raw_reg(i) = r
                                 THEN args[CHOOSE i \in 0..(pc-1) : get_param_raw_reg(i) = r]
                                 ELSE m.reg[r]]
         slot == SaveParams(reg, SaveRegs(reg, lc, pc, g), lc, pc)
         x    == [reg |-> reg, slot |-> slot]
     IN /\ m' = Settle(x)
        /\ vreg' = [r \in Homed(lc, pc) |-> IF r.type = "PARAM" THEN args[r.index]
                                            ELSE At(x, get_reg_loc(lc, pc, r))]
  /\ fr' = [lc |-> lc, pc |-> pc]
  /\ seen' = NoEffect /\ meant' = NoEffect

\* Seeded fault: the epilogue only drops the frame.
LeaveWithoutRestore(x) == [reg |-> x.reg, slot |-> << >>]
\* The epilogue restores the preserved registers and drops the frame.
Leave(x) ==
  [reg |-> [r \in Regs |-> IF \E i \in 0..(saved_reg_count(fr.lc)-1) : saved_reg(i) = r
                           THEN x.slot[CHOOSE k \in SavedSlots(fr.lc) : saved_reg(k-1) = r]
                           ELSE x.reg[r]],
   slot |-> << >>]

return_val(a) ==
  LET x == fetch(m, a, "RAX")
  IN /\ Ready /\ VReturn(a)
     /\ m' = Settle(Leave(x)) /\ seen' = Returned(x.reg["RAX"])
     /\ fr' = [lc |-> 0, pc |-> 0]

return_void ==
  /\ Ready /\ VReturnVoid
  /\ m' = Settle(Leave(m)) /\ seen' = NoEffect
  /\ fr' = [lc |-> 0, pc |-> 0]
-------------------------------------------------------------------------------
(* Arithmetic. *)

\* Seeded fault: the second operand is not copied aside.
AluWithoutCopy(op, d, a, b) ==
  LET dst  == DestReg(d, "RCX")
      x1   == load_operand(load_operand(m, b, "R11"), a, "RCX")
      x3   == mov(x1, dst, OperandReg(a, "RCX"))
      rhs  == IF b.kind = "CONST_INT" THEN Imm(b.const_val) ELSE x3.reg[OperandReg(b, "R11")]
      x4   == SetReg(x3, dst, Alu(op, x3.reg[dst], rhs))
  IN Ready /\ VBinary(op, d, a, b) /\ Steps(store_operand(x4, d, dst), NoEffect)

\* ADD, SUB, AND, OR, XOR: a second operand that lives in the destination is
\* copied aside before the destination is overwritten.
alu(op, d, a, b) ==
  LET dst  == DestReg(d, "RCX")
      s2   == OperandReg(b, "R11")
      x1   == load_operand(load_operand(m, b, "R11"), a, "RCX")
      clash == dst = s2 /\ s2 # "R11" /\ b.kind # "CONST_INT"
      x2   == IF clash THEN mov(x1, "R11", s2) ELSE x1
      x3   == mov(x2, dst, OperandReg(a, "RCX"))
      rhs  == IF b.kind = "CONST_INT" THEN Imm(b.const_val)
              ELSE x3.reg[IF clash THEN "R11" ELSE s2]
      x4   == SetReg(x3, dst, Alu(op, x3.reg[dst], rhs))
  IN Ready /\ VBinary(op, d, a, b) /\ Steps(store_operand(x4, d, dst), NoEffect)

neg(d, a) ==
  LET dst == DestReg(d, "RCX")
      s1  == OperandReg(a, "RCX")
      x1  == load_operand(m, a, "RCX")
      x2  == mov(SetReg(x1, "R11", Alu("neg", x1.reg[s1], x1.reg[s1])), dst, "R11")
  IN Ready /\ VUnary("neg", d, a) /\ Steps(store_operand(x2, d, dst), NoEffect)

mul(d, a, b) ==
  LET dst == DestReg(d, "RCX")
      x1  == load_operand(fetch(m, b, "R11"), a, "RCX")
      x2  == mov(x1, dst, OperandReg(a, "RCX"))
      x3  == SetReg(x2, dst, Alu("mul", x2.reg[dst], x2.reg["R11"]))
  IN Ready /\ VBinary("mul", d, a, b) /\ Steps(store_operand(x3, d, dst), NoEffect)

\* The quotient comes out in RAX; RDX, which IDIV overwrites, is pushed and popped.
div(d, a, b) ==
  LET dst == DestReg(d, "RAX")
      x1  == fetch(fetch(m, b, "R11"), a, "RAX")
      x2  == SetReg(SetReg(x1, "RDX", Junk), "RAX", Alu("div", x1.reg["RAX"], x1.reg["R11"]))
      x3  == store_operand(mov(x2, dst, "RAX"), d, dst)
  IN Ready /\ VBinary("div", d, a, b) /\ Steps(SetReg(x3, "RDX", m.reg["RDX"]), NoEffect)

\* SHL, SHR, USHR: the count goes through CL.
shift(op, d, a, b) ==
  LET dst == DestReg(d, "RAX")
      x1  == load_operand(fetch(m, b, "RCX"), a, "RAX")
      x2  == mov(x1, dst, OperandReg(a, "RAX"))
      n   == IF b.kind = "CONST_INT" THEN b.const_val ELSE x2.reg["RCX"]
      x3  == SetReg(x2, dst, Alu(op, x2.reg[dst], n))
  IN Ready /\ VBinary(op, d, a, b) /\ Steps(store_operand(x3, d, dst), NoEffect)

\* BTS, BTR: the bit number is loaded after the destination was written.
bit(op, d, a, b) ==
  LET dst == DestReg(d, "RAX")
      x1  == mov(load_operand(m, a, "RAX"), dst, OperandReg(a, "RAX"))
      x2  == IF b.kind = "CONST_INT" THEN x1 ELSE load_operand(x1, b, "R11")
      n   == IF b.kind = "CONST_INT" THEN b.const_val ELSE x2.reg[OperandReg(b, "R11")]
      x3  == SetReg(x2, dst, Alu(op, x2.reg[dst], n))
  IN Ready /\ VBinary(op, d, a, b) /\ Steps(store_operand(x3, d, dst), NoEffect)

\* POPCNT, LZCNT.
unary(op, d, a) ==
  LET dst == DestReg(d, "RAX")
      s1  == OperandReg(a, "RAX")
      x1  == load_operand(m, a, "RAX")
      x2  == SetReg(x1, dst, Alu(op, x1.reg[s1], x1.reg[s1]))
  IN Ready /\ VUnary(op, d, a) /\ Steps(store_operand(x2, d, dst), NoEffect)

\* MOVE_CONST; CONST_STRING and STR_LEN load a constant the same way.
move_const(d, c) ==
  LET dst == DestReg(d, "RCX")
  IN /\ Ready /\ VMove(d, ConstOp(c))
     /\ Steps(store_operand(SetReg(m, dst, c), d, dst), NoEffect)

move(d, r) ==
  /\ Ready /\ VMove(d, RegOp(r))
  /\ Steps(store_operand(load_operand(m, RegOp(r), "RAX"), d, OperandReg(RegOp(r), "RAX")),
           NoEffect)
-------------------------------------------------------------------------------
(* Memory.  v is the word found there. *)

load_mem(d, base, v) ==
  LET dst == DestReg(d, "RAX")
      x1  == load_operand(m, RegOp(base), "RAX")
      adr == x1.reg[OperandReg(RegOp(base), "RAX")]
  IN /\ Ready /\ VLoad(d, base, v)
     /\ Steps(store_operand(SetReg(x1, dst, v), d, dst), Load(adr))

\* Seeded fault: value and base share a scratch register.
StoreThroughOneScratch(base, a) ==
  LET x == load_operand(load_operand(m, RegOp(base), "RAX"), a, "RAX")
  IN /\ Ready /\ VStore(base, a)
     /\ Steps(x, Store(x.reg[OperandReg(RegOp(base), "RAX")], x.reg[OperandReg(a, "RAX")]))
store_mem(base, a) ==
  LET x == load_operand(load_operand(m, RegOp(base), "RAX"), a, "R11")
  IN /\ Ready /\ VStore(base, a)
     /\ Steps(x, Store(x.reg[OperandReg(RegOp(base), "RAX")], x.reg[OperandReg(a, "R11")]))

\* The parser leaves the object in dest and the constant in src1; the lowerer
\* takes the object from src1 and the table from src2, which is empty (0).
bind_vtable(d, c) ==
  LET x == SetReg(load_operand(m, ConstOp(c), "RAX"), "R11", 0)
  IN Ready /\ VBind(d, c) /\ Steps(x, Store(x.reg["RAX"], x.reg["R11"]))

atomic_cas(d, base, n, v) ==
  LET x1 == load_operand(m, RegOp(base), "RDI")
      x2 == fetch(fetch(x1, RegOp(n), "RSI"), RegOp(d), "RAX")
      adr == x2.reg[OperandReg(RegOp(base), "RDI")]
  IN /\ Ready /\ VCas(d, base, n, v)
     /\ Steps(store_operand(SetReg(x2, "RAX", v), d, "RAX"),
              Cas(adr, x2.reg["RAX"], x2.reg["RSI"]))

\* Without a destination nothing loads the comparand.
atomic_cas_plain(base, n) ==
  LET x == fetch(load_operand(m, RegOp(base), "RDI"), RegOp(n), "RSI")
      e == Cas(x.reg[OperandReg(RegOp(base), "RDI")], x.reg["RAX"], x.reg["RSI"])
  IN Ready /\ Does(e) /\ Steps(x, e)

\* XCHG writes the word found to the register that holds the operand.
atomic_xchg(base, a, v) ==
  LET x == load_operand(load_operand(m, RegOp(base), "RDI"), a, "RAX")
      s == OperandReg(a, "RAX")
  IN /\ Ready
     /\ IF a.kind = "REGISTER" THEN VXchg(base, a.reg, v) ELSE VRmw("xchg", base, a)
     /\ Steps(SetReg(x, s, v), Rmw("xchg", x.reg[OperandReg(RegOp(base), "RDI")], x.reg[s]))

atomic_rmw(op, base, a) ==
  LET x == load_operand(load_operand(m, RegOp(base), "RDI"), a, "RAX")
  IN /\ Ready /\ VRmw(op, base, a)
     /\ Steps(x, Rmw(op, x.reg[OperandReg(RegOp(base), "RDI")], x.reg[OperandReg(a, "RAX")]))

\* Floating-point and vector instructions work on memory through three bases.
simd(d, a, b) ==
  LET x1 == load_operand(load_operand(m, RegOp(a), "RDI"), RegOp(b), "RSI")
      x2 == load_operand(x1, RegOp(d), "RAX")
  IN /\ Ready /\ VSimd(d, a, b)
     /\ Steps(x2, Simd(x1.reg[OperandReg(RegOp(a), "RDI")], x1.reg[OperandReg(RegOp(b), "RSI")],
                       x2.reg[OperandReg(RegOp(d), "RAX")]))
-------------------------------------------------------------------------------
(* Calls.  The callee keeps the callee-saved registers and the frame, leaves  *)
(* its result in RAX and may leave anything in the other registers.           *)

Called(x, v) == SetReg(Settle(x), "RAX", v)

call_virt(this) ==
  LET x == fetch(m, RegOp(this), "RDI")
  IN Ready /\ VCall(this) /\ Steps(Settle(x), Call(x.reg["RDI"], Aligned))

call_virt_to(d, this, v) ==
  LET x == fetch(m, RegOp(this), "RDI")
  IN /\ Ready /\ VCallTo(d, this, v)
     /\ Steps(store_operand(Called(x, v), d, "RAX"), Call(x.reg["RDI"], Aligned))

new_instance(d, v) ==
  /\ Ready /\ VNew(d, v)
  /\ Steps(store_operand(Called(m, v), d, "RAX"), Request(Aligned))

\* The parser gives SINK_MEM no operand, so RDI is whatever it was.
sink_mem == Ready /\ VSink /\ Steps(Settle(m), Sunk(Aligned))
-------------------------------------------------------------------------------
(* Branches: which way the comparison sends the program. *)

if_cmp(op, r, b) ==
  LET x1 == load_operand(m, RegOp(r), "RAX")
      x2 == IF b.kind = "CONST_INT" THEN x1 ELSE load_operand(x1, b, "R11")
      rhs == IF b.kind = "CONST_INT" THEN Imm(b.const_val) ELSE x2.reg[OperandReg(b, "R11")]
  IN /\ Ready /\ VIf(op, RegOp(r), b)
     /\ Steps(x2, Branch(Alu(op, x2.reg[OperandReg(RegOp(r), "RAX")], rhs)))
-------------------------------------------------------------------------------
Init ==
  /\ fr = [lc |-> 0, pc |-> 0]
  /\ m = [reg |-> [r \in Regs |-> IF r \in Saved THEN Caller[r] ELSE Junk], slot |-> << >>]
  /\ vreg = << >> /\ meant = NoEffect /\ seen = NoEffect

\* Parameters beyond the sixth are not passed in registers.
Frames ==
  \E lc \in 1..kMaxLocals, pc \in 0..MaxParams, g \in Val :
    pc <= 6 /\ \E args \in [0..(pc-1) -> Val] : Enter(lc, pc, args, g)

Registers ==
  \E d \in Homes :
    \/ \E a, b \in Sources :
         \/ \E op \in AluOps : Encodable(b) /\ alu(op, d, a, b)
         \/ mul(d, a, b)
         \/ div(d, a, b)
         \/ \E op \in ShiftOps : shift(op, d, a, b)
         \/ \E op \in BitOps : (InReg(d) => b # RegOp(d)) /\ bit(op, d, a, b)
    \/ \E a \in Sources : neg(d, a) \/ \E op \in UnaryOps : unary(op, d, a)
    \/ \E c \in Val : move_const(d, c)
    \/ \E r \in Homes : move(d, r)

Memory ==
  \/ \E base \in Homes, a \in Sources :
       \/ store_mem(base, a)
       \/ \E op \in RmwOps : atomic_rmw(op, base, a)
       \/ \E v \in Val : (a.kind = "REGISTER" => InReg(a.reg)) /\ atomic_xchg(base, a, v)
  \/ \E d, base \in Homes, v \in Val :
       \/ load_mem(d, base, v)
       \/ \E n \in Homes : atomic_cas(d, base, n, v)
  \/ \E d, a, b \in Homes : simd(d, a, b)

Calls ==
  \/ \E this \in Homes : call_virt(this) \/ \E d \in Homes, v \in Val : call_virt_to(d, this, v)
  \/ \E d \in Homes, v \in Val : new_instance(d, v)
  \/ sink_mem

Control ==
  \/ \E op \in CondOps, r \in Homes, b \in Sources : Encodable(b) /\ if_cmp(op, r, b)
  \/ \E a \in Sources : return_val(a)
  \/ return_void

\* Memory, the callee or the caller observes the effect.
Observe ==
  /\ seen # NoEffect \/ meant # NoEffect
  /\ seen' = NoEffect /\ meant' = NoEffect
  /\ UNCHANGED <<vreg, fr, m>>

Next == Observe \/ Frames \/ Registers \/ Memory \/ Calls \/ Control

Spec == Init /\ [][Next]_vars

\* Four forms left out of Next; AotLowerer has a specification with each.
Exchange    == \E base, r \in Homes, v \in Val : atomic_xchg(base, RegOp(r), v)
PlainCas    == \E base, n \in Homes : atomic_cas_plain(base, n)
AnyConstant == \E op \in AluOps, d \in Homes, a, b \in Sources : alu(op, d, a, b)
BindVtable  == \E d \in Homes, c \in Val : bind_vtable(d, c)
-------------------------------------------------------------------------------
TypeOK ==
  /\ fr \in [lc : 0..kMaxLocals, pc : 0..MaxParams]
  /\ Runs => vreg \in [Homes -> Val] /\ m.slot \in [Frame(fr.lc, fr.pc) -> Val]
  /\ DOMAIN m.reg = Regs /\ \A r \in Saved : m.reg[r] \in Val

\* After every instruction, whatever registers it shares and wherever they
\* live, each virtual register's home holds the register's value: no operand is
\* overwritten before its last use and nothing leaks into another's home.
Agree == Runs => \A r \in Homes : At(m, Loc(r)) = vreg[r]

\* The generated code reads and writes memory, branches, calls and returns as
\* the virtual instruction says, with the stack aligned at every call.
SameEffect == seen = meant

\* When a compiled function has returned, its caller finds RBX, R12 and R13 as
\* they were: "the prologue must preserve them and the epilogue must restore
\* them" (ana_regalloc.h).
CallerPreserved == ~ Runs => \A r \in Saved : m.reg[r] = Caller[r]

\* "Semantics: dest supplies the expected value and receives the value that was
\* in memory" (ana_lowerer.cpp:682): a compare-exchange never compares with
\* "whatever RAX happened to hold".
ComparandLoaded == seen.what = "cas" => seen.expected # Junk
===============================================================================

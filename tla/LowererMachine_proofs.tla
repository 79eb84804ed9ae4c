------------------------ MODULE LowererMachine_proofs -------------------------
(*****************************************************************************)
(* What the invariant of Lowerer says of the machine, and what the pieces of *)
(* generated code that all instructions share (loads, stores, results) do to *)
(* it: they change scratch registers and one home, and nothing else. Every   *)
(* instruction between registers keeps the invariant, compiled in memory or  *)
(* ahead of time.                                                            *)
(*****************************************************************************)
EXTENDS AotLowerer, FrameLayout_proofs

\* The time each prover has for a leaf.
USE SMTT(30), ZenonT(30)

\* A machine in the frame of the running function.
Machine(x) ==
  /\ x = [reg |-> x.reg, slot |-> x.slot]
  /\ x.reg \in [Regs -> Word]
  /\ x.slot \in [Frame(fr.lc, fr.pc) -> Val]

\* What a function compiled in memory preserves for its caller.
Kept ==
  ~ aot =>
  /\ \A k \in SavedSlots(fr.lc) : m.slot[k] = Caller[saved_reg(k - 1)]
  /\ \A i \in 0..2 : i >= saved_reg_count(fr.lc) => m.reg[saved_reg(i)] = Caller[saved_reg(i)]

\* Between two instructions of a running function.
Inside ==
  /\ Machine(m) /\ \A r \in Saved : m.reg[r] \in Val
  /\ vreg \in [Homes -> Val]
  /\ Agree /\ Kept

\* Between two calls.
Outside ==
  /\ m = [reg |-> m.reg, slot |-> m.slot] /\ m.reg \in [Regs -> Word]
  /\ \A r \in Saved : m.reg[r] \in Val /\ (~ aot => m.reg[r] = Caller[r])

LInv ==
  /\ fr \in [lc : 0..kMaxLocals, pc : 0..MaxParams]
  /\ SameEffect
  /\ IF Runs THEN Inside ELSE Outside

\* x differs from m in scratch registers only.
Like(x) ==
  /\ Machine(x) /\ x.slot = m.slot
  /\ \A r \in Saved : x.reg[r] = m.reg[r]

\* x differs from m in scratch registers and in the home of d only.
Only(x, d) ==
  /\ Machine(x)
  /\ \A r \in Saved : r # Loc(d).phys_reg => x.reg[r] = m.reg[r]
  /\ \A r \in Saved : x.reg[r] \in Val
  /\ \A k \in Frame(fr.lc, fr.pc) : k # Loc(d).slot => x.slot[k] = m.slot[k]
-------------------------------------------------------------------------------
\* Writing a register leaves the other registers and the frame alone.
LEMMA SetRegFacts ==
  ASSUME NEW x, Machine(x), NEW r \in Regs, NEW v \in Word
  PROVE  LET y == SetReg(x, r, v)
         IN /\ Machine(y) /\ y.slot = x.slot /\ y.reg[r] = v
            /\ \A q \in Regs \ {r} : y.reg[q] = x.reg[q]
<1> DEFINE y == SetReg(x, r, v)
<1>1. y = [reg |-> [x.reg EXCEPT ![r] = v], slot |-> x.slot]
  BY DEF SetReg, Machine
<1> QED BY <1>1 DEF Machine

\* The same of a register already written.
Put(x, r, v, y) ==
  /\ Machine(y) /\ y.slot = x.slot /\ y.reg[r] = v
  /\ \A q \in Regs \ {r} : y.reg[q] = x.reg[q]

LEMMA Puts ==
  ASSUME NEW x, Machine(x), NEW r \in Regs, NEW v \in Word
  PROVE  Put(x, r, v, SetReg(x, r, v))
BY SetRegFacts DEF Put

\* Writing a slot leaves the other slots and the registers alone.
LEMMA SetSlotFacts ==
  ASSUME NEW x, Machine(x), NEW k \in Frame(fr.lc, fr.pc), NEW v \in Val
  PROVE  LET y == SetSlot(x, k, v)
         IN /\ Machine(y) /\ y.reg = x.reg /\ y.slot[k] = v
            /\ \A j \in Frame(fr.lc, fr.pc) \ {k} : y.slot[j] = x.slot[j]
<1> DEFINE y == SetSlot(x, k, v)
<1>1. y = [reg |-> x.reg, slot |-> [x.slot EXCEPT ![k] = v]]
  BY DEF SetSlot, Machine
<1> QED BY <1>1 DEF Machine

\* Forgetting the scratch registers keeps the preserved ones and the frame.
LEMMA SettleFacts ==
  ASSUME NEW x, Machine(x)
  PROVE  LET y == Settle(x)
         IN /\ Machine(y) /\ y.slot = x.slot
            /\ \A r \in Saved : y.reg[r] = x.reg[r]
<1> DEFINE y == Settle(x)
<1>1. y = [reg |-> [r \in Regs |-> IF r \in Scratch THEN Junk ELSE x.reg[r]], slot |-> x.slot]
  BY DEF Settle, Machine
<1>2. \A r \in Saved : r \in Regs /\ r \notin Scratch
  BY DEF Regs, Saved, Scratch
<1> QED BY <1>1, <1>2 DEF Machine, Word

\* Where a register of the function lives: in a preserved register, or in a
\* slot of the frame that is none of the preserved ones.
LEMMA HomeOf ==
  ASSUME fr \in [lc : 0..kMaxLocals, pc : 0..MaxParams], NEW r \in Homes
  PROVE  /\ \/ InReg(r) /\ Loc(r).phys_reg \in Saved /\ Loc(r).slot = 0
               /\ \E i \in 0..2 : i < saved_reg_count(fr.lc) /\ Loc(r).phys_reg = saved_reg(i)
            \/ /\ ~ InReg(r) /\ Loc(r).phys_reg = "NONE"
               /\ Loc(r).slot \in Frame(fr.lc, fr.pc) \ SavedSlots(fr.lc)
         /\ \A q \in Homes : q # r => /\ InReg(q) => Loc(q).phys_reg # Loc(r).phys_reg
                                      /\ ~ InReg(q) => Loc(q).slot # Loc(r).slot
<1>1. fr.lc \in Nat /\ fr.pc \in Nat
  BY FrameConstants
<1>2. \A a : /\ Spill(a).kind = "STACK_SPILL" /\ Spill(a).slot = a /\ Spill(a).phys_reg = "NONE"
             /\ Phys(a).kind = "PHYSICAL_REG" /\ Phys(a).slot = 0 /\ Phys(a).phys_reg = a
  BY DEF Spill, Phys
<1>3. \A i \in 0..2 : saved_reg(i) \in Saved
  BY DEF saved_reg, Saved
<1>4. ASSUME NEW q \in Homes
      PROVE  \/ InReg(q) /\ Loc(q) = Phys(Loc(q).phys_reg) /\ Loc(q).phys_reg \in Saved
                /\ \E i \in 0..2 : i < saved_reg_count(fr.lc) /\ Loc(q).phys_reg = saved_reg(i)
             \/ ~ InReg(q) /\ Loc(q) = Spill(Loc(q).slot)
                /\ Loc(q).slot \in Frame(fr.lc, fr.pc) \ SavedSlots(fr.lc)
  <2>1. q \in Homed(fr.lc, fr.pc)
    BY DEF Homes
  <2>2. CASE get_reg_loc(fr.lc, fr.pc, q).kind = "STACK_SPILL"
    <3>1. Loc(q) = Spill(Loc(q).slot)
      BY <1>1, <1>2, <2>1, <2>2, LocOfHomed DEF Loc
    <3> QED BY <3>1, <1>1, <1>2, <2>1, <2>2, SpillInFrame DEF Loc, InReg, Frame
  <2>3. CASE get_reg_loc(fr.lc, fr.pc, q).kind # "STACK_SPILL"
    <3>1. q.type = "LOCAL" /\ q.index \in 0..2 /\ q.index < fr.lc /\ q.index < kNumAllocatableRegs
          /\ Loc(q) = Phys(saved_reg(q.index))
      BY <1>1, <1>2, <2>1, <2>3, LocOfHomed DEF Loc
    <3>2. q.index < saved_reg_count(fr.lc)
      BY <3>1, <1>1, FrameConstants DEF saved_reg_count
    <3> QED BY <3>1, <3>2, <1>2, <1>3 DEF InReg
  <2> QED BY <2>2, <2>3
<1>5. ASSUME NEW q \in Homes, q # r
      PROVE  /\ InReg(q) => Loc(q).phys_reg # Loc(r).phys_reg
             /\ ~ InReg(q) => Loc(q).slot # Loc(r).slot
  <2>1. Loc(q) # Loc(r)
    BY <1>1, <1>5, LocInjective DEF Loc, Homes
  <2>2. \A s \in Saved : s # "NONE"
    BY DEF Saved
  <2>3. 0 \notin Frame(fr.lc, fr.pc)
    BY DEF Frame
  <2> QED BY <2>1, <2>2, <2>3, <1>2, <1>4
<1> QED BY <1>2, <1>4, <1>5

\* Loading an operand puts its value in the register load_operand names and
\* touches nothing but the scratch register.
LEMMA LoadFacts ==
  ASSUME fr \in [lc : 0..kMaxLocals, pc : 0..MaxParams], Runs, Inside,
         NEW x, Like(x), NEW o \in Sources, NEW s \in Scratch
  PROVE  LET y == load_operand(x, o, s)
         IN /\ Like(y) /\ y.reg[OperandReg(o, s)] = Value(o) /\ Value(o) \in Val
            /\ OperandReg(o, s) \in Saved \cup {s}
            /\ \A q \in Regs \ {s} : y.reg[q] = x.reg[q]
<1> DEFINE y == load_operand(x, o, s)
<1>0. s \in Regs /\ s \notin Saved /\ Saved \subseteq Regs /\ Val \subseteq Word
  BY DEF Regs, Saved, Scratch, Word
<1>1. CASE o.kind = "CONST_INT"
  <2>1. o.const_val \in Val
    BY <1>1 DEF Sources, RegOp, ConstOp
  <2>2. y = SetReg(x, s, o.const_val) /\ OperandReg(o, s) = s /\ Value(o) = o.const_val
    BY <1>1 DEF load_operand, OperandReg, Value
  <2> QED BY <2>1, <2>2, <1>0, SetRegFacts DEF Like
<1>2. CASE o.kind # "CONST_INT"
  <2>1. o.kind = "REGISTER" /\ o.reg \in Homes
    BY <1>2 DEF Sources, RegOp, ConstOp
  <2>2. Value(o) = vreg[o.reg] /\ Value(o) \in Val /\ At(m, Loc(o.reg)) = Value(o)
    BY <1>2, <2>1 DEF Value, Inside, Agree
  <2>3. CASE InReg(o.reg)
    <3>1. y = x /\ OperandReg(o, s) = Loc(o.reg).phys_reg
      BY <1>2, <2>1, <2>3 DEF load_operand, OperandReg
    <3>2. Loc(o.reg).phys_reg \in Saved
      BY <2>1, <2>3, HomeOf
    <3> QED BY <3>1, <3>2, <2>2, <2>3 DEF Like, At, InReg
  <2>4. CASE ~ InReg(o.reg)
    <3>1. y = SetReg(x, s, x.slot[Loc(o.reg).slot]) /\ OperandReg(o, s) = s
      BY <1>2, <2>1, <2>4 DEF load_operand, OperandReg
    <3>2. x.slot[Loc(o.reg).slot] = Value(o)
      BY <2>2, <2>4 DEF Like, At, InReg
    <3> QED BY <3>1, <3>2, <2>2, <1>0, SetRegFacts DEF Like
  <2> QED BY <2>3, <2>4
<1> QED BY <1>1, <1>2

\* load_operand followed by a move into the scratch register itself.
LEMMA FetchFacts ==
  ASSUME fr \in [lc : 0..kMaxLocals, pc : 0..MaxParams], Runs, Inside,
         NEW x, Like(x), NEW o \in Sources, NEW s \in Scratch
  PROVE  LET y == fetch(x, o, s)
         IN /\ Like(y) /\ y.reg[s] = Value(o) /\ Value(o) \in Val
            /\ \A q \in Regs \ {s} : y.reg[q] = x.reg[q]
<1> DEFINE y == load_operand(x, o, s)
           z == fetch(x, o, s)
<1>1. /\ Like(y) /\ y.reg[OperandReg(o, s)] = Value(o) /\ Value(o) \in Val
      /\ \A q \in Regs \ {s} : y.reg[q] = x.reg[q]
  BY LoadFacts
<1>2. z = SetReg(y, s, Value(o))
  BY <1>1 DEF fetch, mov
<1>3. s \in Regs /\ s \notin Saved /\ Saved \subseteq Regs /\ Value(o) \in Word
  BY <1>1 DEF Regs, Saved, Scratch, Word
<1> HIDE DEF y, z
<1>4. Machine(y)
  BY <1>1 DEF Like
<1>5. /\ Machine(z) /\ z.slot = y.slot /\ z.reg[s] = Value(o)
      /\ \A q \in Regs \ {s} : z.reg[q] = y.reg[q]
  BY <1>2, <1>3, <1>4, SetRegFacts
<1>6. Like(z)
  BY <1>1, <1>3, <1>5 DEF Like
<1> QED BY <1>1, <1>5, <1>6 DEF z

\* A machine that differs in scratch registers differs in d's home at most.
LEMMA LikeOnly ==
  ASSUME Inside, NEW x, Like(x), NEW d
  PROVE  Only(x, d)
BY DEF Like, Only, Inside

\* Writing the register the result goes to.
LEMMA SetDest ==
  ASSUME fr \in [lc : 0..kMaxLocals, pc : 0..MaxParams], NEW d \in Homes, NEW x, Only(x, d),
         NEW s \in Scratch, NEW v \in Val
  PROVE  LET dst == DestReg(d, s)
             y == SetReg(x, dst, v)
         IN /\ Only(y, d) /\ y.reg[dst] = v /\ dst \in Regs
            /\ \A q \in Regs \ {dst} : y.reg[q] = x.reg[q]
<1> DEFINE dst == DestReg(d, s)
           y == SetReg(x, dst, v)
<1>1. \/ InReg(d) /\ dst = Loc(d).phys_reg /\ dst \in Saved
      \/ ~ InReg(d) /\ dst = s
  BY HomeOf DEF DestReg
<1>2. dst \in Regs /\ v \in Word /\ Saved \subseteq Regs /\ s \notin Saved
  BY <1>1 DEF Regs, Word, Saved, Scratch
<1> HIDE DEF dst
<1>3. Machine(x)
  BY DEF Only
<1>4. /\ Machine(y) /\ y.slot = x.slot /\ y.reg[dst] = v
      /\ \A q \in Regs \ {dst} : y.reg[q] = x.reg[q]
  BY <1>2, <1>3, SetRegFacts
<1> HIDE DEF y
<1>5. Only(y, d)
  BY <1>1, <1>2, <1>4 DEF Only
<1> QED BY <1>2, <1>4, <1>5 DEF y, dst

\* store_operand brings a value home.
LEMMA StoreFacts ==
  ASSUME fr \in [lc : 0..kMaxLocals, pc : 0..MaxParams], NEW d \in Homes, NEW x, Only(x, d),
         NEW src \in Regs, x.reg[src] \in Val
  PROVE  LET y == store_operand(x, d, src)
         IN /\ Only(y, d) /\ At(y, Loc(d)) = x.reg[src]
            /\ \A q \in Scratch : y.reg[q] = x.reg[q]
<1> DEFINE y == store_operand(x, d, src)
           v == x.reg[src]
<1>0. Machine(x) /\ v \in Word /\ Saved \subseteq Regs
      /\ Scratch \subseteq Regs /\ Scratch \cap Saved = {}
  BY DEF Only, Word, Regs, Saved, Scratch
<1>1. CASE InReg(d)
  <2>1. y = SetReg(x, Loc(d).phys_reg, v) /\ Loc(d).phys_reg \in Saved
    BY <1>1, HomeOf DEF store_operand, mov
  <2>2. /\ Machine(y) /\ y.slot = x.slot /\ y.reg[Loc(d).phys_reg] = v
        /\ \A q \in Regs \ {Loc(d).phys_reg} : y.reg[q] = x.reg[q]
    BY <1>0, <2>1, SetRegFacts
  <2> HIDE DEF y
  <2>3. Only(y, d)
    BY <1>0, <2>1, <2>2 DEF Only
  <2>4. At(y, Loc(d)) = v /\ \A q \in Scratch : y.reg[q] = x.reg[q]
    BY <1>0, <1>1, <2>1, <2>2 DEF At, InReg
  <2> QED BY <2>3, <2>4 DEF y
<1>2. CASE ~ InReg(d)
  <2>1. y = SetSlot(x, Loc(d).slot, v) /\ Loc(d).slot \in Frame(fr.lc, fr.pc)
    BY <1>2, HomeOf DEF store_operand
  <2>2. /\ Machine(y) /\ y.reg = x.reg /\ y.slot[Loc(d).slot] = v
        /\ \A j \in Frame(fr.lc, fr.pc) \ {Loc(d).slot} : y.slot[j] = x.slot[j]
    BY <1>0, <2>1, SetSlotFacts
  <2> HIDE DEF y
  <2>3. Only(y, d)
    BY <1>0, <2>1, <2>2 DEF Only
  <2>4. At(y, Loc(d)) = v /\ \A q \in Scratch : y.reg[q] = x.reg[q]
    BY <1>0, <1>2, <2>1, <2>2 DEF At, InReg
  <2> QED BY <2>3, <2>4 DEF y
<1> QED BY <1>1, <1>2
-------------------------------------------------------------------------------
\* An instruction that leaves its result in the home of d, and nothing else
\* anywhere, keeps the invariant.
LEMMA SetsInv ==
  ASSUME LInv, UNCHANGED aot, Runs, NEW d \in Homes, NEW v \in Val, NEW e, NEW x,
         Only(x, d), At(x, Loc(d)) = v, Sets(d, v, e), Steps(x, e)
  PROVE  LInv'
<1>1. /\ fr' = fr /\ m' = Settle(x) /\ seen' = e /\ meant' = e
      /\ vreg' = [vreg EXCEPT ![d] = v] /\ fr \in [lc : 0..kMaxLocals, pc : 0..MaxParams] /\ Inside
  BY DEF Sets, Steps, LInv
<1>2. Homes' = Homes /\ Runs' /\ (\A r : Loc(r)' = Loc(r)) /\ (\A r : InReg(r)' = InReg(r))
  BY <1>1 DEF Homes, Runs, Loc, InReg
<1>3. /\ Machine(m') /\ m'.slot = x.slot /\ \A r \in Saved : m'.reg[r] = x.reg[r]
  BY <1>1, SettleFacts DEF Only
<1>4. Machine(m)'
  BY <1>1, <1>3 DEF Machine
<1>5. \A r \in Saved : m'.reg[r] \in Val
  BY <1>3 DEF Only
<1>6. vreg' \in [Homes -> Val]
  BY <1>1 DEF Inside
<1>7. ASSUME NEW r \in Homes
      PROVE  At(m', Loc(r)) = vreg'[r]
  <2>1. At(m', Loc(r)) = At(x, Loc(r))
    BY <1>1, <1>3, HomeOf DEF At, InReg
  <2>2. CASE r = d
    BY <2>1, <2>2, <1>1, <1>6 DEF Inside
  <2>3. CASE r # d
    <3>1. vreg'[r] = vreg[r] /\ At(m, Loc(r)) = vreg[r]
      BY <2>3, <1>1 DEF Inside, Agree
    <3>2. CASE InReg(r)
      <4>1. Loc(r).phys_reg \in Saved /\ Loc(r).phys_reg # Loc(d).phys_reg
        BY <3>2, <2>3, <1>1, HomeOf
      <4> QED BY <4>1, <3>1, <3>2, <2>1 DEF Only, At, InReg
    <3>3. CASE ~ InReg(r)
      <4>1. Loc(r).slot \in Frame(fr.lc, fr.pc) /\ Loc(r).slot # Loc(d).slot
        BY <3>3, <2>3, <1>1, HomeOf
      <4> QED BY <4>1, <3>1, <3>3, <2>1 DEF Only, At, InReg
    <3> QED BY <3>2, <3>3
  <2> QED BY <2>2, <2>3
<1>8. Agree'
  BY <1>1, <1>2, <1>7 DEF Agree, At
<1>9. Kept'
  <2>0. /\ saved_reg_count(fr.lc) \in 0..3 /\ saved_reg_count(fr.lc) <= fr.lc
        /\ stack_frame_size(fr.lc, fr.pc) \div 8 \in Nat /\ fr.lc \in Nat /\ fr.pc \in Nat
        /\ fr.lc + fr.pc <= stack_frame_size(fr.lc, fr.pc) \div 8
    <3>1. fr.lc \in Nat /\ fr.pc \in Nat
      BY <1>1, FrameConstants
    <3> QED BY <3>1, LayoutFacts, Zenon
  <2>1. ASSUME NEW k \in SavedSlots(fr.lc)
        PROVE  m'.slot[k] = m.slot[k]
    <3>1. k # Loc(d).slot
      <4>1. k # 0
        BY <2>0 DEF SavedSlots
      <4> QED BY <4>1, <1>1, HomeOf
    <3>2. k \in Frame(fr.lc, fr.pc)
      BY <2>0 DEF SavedSlots, Frame
    <3> QED BY <3>1, <3>2, <1>3 DEF Only
  <2>2. ASSUME NEW i \in 0..2, i >= saved_reg_count(fr.lc)
        PROVE  m'.reg[saved_reg(i)] = m.reg[saved_reg(i)]
    <3>1. saved_reg(i) \in Saved /\ saved_reg(i) # "NONE"
      BY DEF saved_reg, Saved
    <3>2. ASSUME NEW j \in 0..2, j < saved_reg_count(fr.lc)
          PROVE  saved_reg(i) # saved_reg(j)
      <4>1. i # j
        BY <2>0, <2>2, <3>2
      <4> QED BY <4>1, SavedRegsDiffer
    <3>3. saved_reg(i) # Loc(d).phys_reg
      BY <3>1, <3>2, <1>1, HomeOf
    <3> QED BY <3>1, <3>3, <1>3 DEF Only
  <2> QED BY <2>1, <2>2, <1>1 DEF Kept, Inside
<1> QED BY <1>1, <1>2, <1>4, <1>5, <1>6, <1>8, <1>9 DEF LInv, Inside, SameEffect

\* An instruction without a result keeps it.
LEMMA DoesInv ==
  ASSUME LInv, UNCHANGED aot, Runs, NEW e, NEW x, Like(x), Does(e), Steps(x, e)
  PROVE  LInv'
<1>1. /\ fr' = fr /\ m' = Settle(x) /\ seen' = e /\ meant' = e /\ vreg' = vreg
      /\ fr \in [lc : 0..kMaxLocals, pc : 0..MaxParams] /\ Inside
  BY DEF Does, Steps, LInv
<1>2. Homes' = Homes /\ Runs' /\ (\A r : Loc(r)' = Loc(r))
  BY <1>1 DEF Homes, Runs, Loc
<1>3. /\ Machine(m') /\ m'.slot = m.slot /\ \A r \in Saved : m'.reg[r] = m.reg[r]
  BY <1>1, SettleFacts DEF Like
<1>4. Machine(m)'
  BY <1>1, <1>3 DEF Machine
<1>5. ASSUME NEW r \in Homes
      PROVE  At(m', Loc(r)) = vreg'[r]
  BY <1>1, <1>3, HomeOf DEF At, InReg, Inside, Agree
<1>6. Agree'
  BY <1>1, <1>2, <1>5 DEF Agree, At
<1>7. Kept'
  <2>1. \A i \in 0..2 : saved_reg(i) \in Saved
    BY DEF saved_reg, Saved
  <2> QED BY <2>1, <1>1, <1>3 DEF Kept, Inside
<1> QED BY <1>1, <1>2, <1>3, <1>4, <1>6, <1>7 DEF LInv, Inside, SameEffect
-------------------------------------------------------------------------------
\* The scratch registers that instructions name.
LEMMA ScratchNames ==
  /\ "RAX" \in Scratch /\ "RCX" \in Scratch /\ "RDX" \in Scratch
  /\ "RSI" \in Scratch /\ "RDI" \in Scratch /\ "R11" \in Scratch
BY DEF Scratch

\* Scratch and preserved registers are apart; every value is a word.
LEMMA RegisterNames ==
  /\ Saved \subseteq Regs /\ Scratch \subseteq Regs /\ Scratch \cap Saved = {}
  /\ "RAX" \in Scratch /\ "RCX" \in Scratch /\ "RDX" \in Scratch
  /\ "RSI" \in Scratch /\ "RDI" \in Scratch /\ "R11" \in Scratch
  /\ Val \subseteq Word /\ Junk \in Word
BY DEF Saved, Scratch, Regs, Word

\* The operations of either compiler, all of which yield words.
AllOps == Ops \cup AotAluOps \cup AotLogicOps
LEMMA AluTotal == \A op \in AllOps : \A a, b \in Val : Alu(op, a, b) \in Val
BY LowererConstants, AotConstants DEF AllOps

\* What an instruction finds.
LEMMA AtStart ==
  ASSUME LInv, Ready
  PROVE  fr \in [lc : 0..kMaxLocals, pc : 0..MaxParams] /\ Runs /\ Inside /\ Like(m)
BY DEF LInv, Ready, Inside, Like

\* Its operands.
LEMMA Operands ==
  /\ \A r \in Homes : RegOp(r) \in Sources /\ Value(RegOp(r)) = vreg[r]
  /\ \A c \in Val : ConstOp(c) \in Sources /\ Value(ConstOp(c)) = c
BY Zenon DEF Sources, RegOp, ConstOp, Value

\* The loads of a running instruction.
LEMMA Loads ==
  ASSUME LInv, Ready, NEW x, Like(x), NEW o \in Sources, NEW s \in Scratch
  PROVE  LET y == load_operand(x, o, s)
         IN /\ Like(y) /\ y.reg[OperandReg(o, s)] = Value(o) /\ Value(o) \in Val
            /\ OperandReg(o, s) \in Saved \cup {s}
            /\ \A q \in Regs \ {s} : y.reg[q] = x.reg[q]
BY AtStart, LoadFacts

Brought(x, o, s, y) ==
  /\ Like(y) /\ y.reg[OperandReg(o, s)] = Value(o) /\ Value(o) \in Val
  /\ OperandReg(o, s) \in Saved \cup {s}
  /\ \A q \in Regs \ {s} : y.reg[q] = x.reg[q]

LEMMA Brings ==
  ASSUME LInv, Ready, NEW x, Like(x), NEW o \in Sources, NEW s \in Scratch
  PROVE  Brought(x, o, s, load_operand(x, o, s))
BY Loads DEF Brought

\* The result register, written.
Written(x, d, s, v, y) ==
  /\ Only(y, d) /\ y.reg[DestReg(d, s)] = v /\ DestReg(d, s) \in Regs
  /\ \A q \in Regs \ {DestReg(d, s)} : y.reg[q] = x.reg[q]

LEMMA Writes ==
  ASSUME fr \in [lc : 0..kMaxLocals, pc : 0..MaxParams], NEW d \in Homes, NEW x, Only(x, d),
         NEW s \in Scratch, NEW v \in Val
  PROVE  Written(x, d, s, v, SetReg(x, DestReg(d, s), v))
BY SetDest DEF Written

\* And those into a given register.
LEMMA Fetches ==
  ASSUME LInv, Ready, NEW x, Like(x), NEW o \in Sources, NEW s \in Scratch
  PROVE  LET y == fetch(x, o, s)
         IN /\ Like(y) /\ y.reg[s] = Value(o) /\ Value(o) \in Val
            /\ \A q \in Regs \ {s} : y.reg[q] = x.reg[q]
BY AtStart, FetchFacts

\* A scratch register may be overwritten at any time.
LEMMA SetScratch ==
  ASSUME NEW x, Like(x), NEW s \in Scratch, NEW v \in Word
  PROVE  LET y == SetReg(x, s, v)
         IN /\ Like(y) /\ y.reg[s] = v
            /\ \A q \in Regs \ {s} : y.reg[q] = x.reg[q]
<1> DEFINE y == SetReg(x, s, v)
<1>1. /\ Machine(y) /\ y.slot = x.slot /\ y.reg[s] = v
      /\ \A q \in Regs \ {s} : y.reg[q] = x.reg[q]
  BY SetRegFacts, RegisterNames DEF Like
<1> HIDE DEF y
<1>2. Like(y)
  BY <1>1, RegisterNames DEF Like
<1> QED BY <1>1, <1>2 DEF y

Over(x, s, v, y) ==
  /\ Like(y) /\ y.reg[s] = v
  /\ \A q \in Regs \ {s} : y.reg[q] = x.reg[q]

LEMMA Overwrites ==
  ASSUME NEW x, Like(x), NEW s \in Scratch, NEW v \in Word
  PROVE  Over(x, s, v, SetReg(x, s, v))
BY SetScratch DEF Over

\* The end of an instruction that has its result in register src.
LEMMA StoredInv ==
  ASSUME LInv, UNCHANGED aot, Ready, NEW d \in Homes, NEW x, Only(x, d), NEW src \in Regs,
         NEW v \in Val, x.reg[src] = v, NEW e,
         Sets(d, v, e), Steps(store_operand(x, d, src), e)
  PROVE  LInv'
<1>1. Only(store_operand(x, d, src), d) /\ At(store_operand(x, d, src), Loc(d)) = v
  BY AtStart, StoreFacts
<1> QED BY <1>1, AtStart, SetsInv

\* The end of an instruction that computes into the destination register.
LEMMA ResultInv ==
  ASSUME LInv, UNCHANGED aot, Ready, NEW d \in Homes, NEW x, Only(x, d), NEW s \in Scratch,
         NEW v \in Val, NEW e, Sets(d, v, e),
         Steps(store_operand(SetReg(x, DestReg(d, s), v), d, DestReg(d, s)), e)
  PROVE  LInv'
<1> DEFINE y == SetReg(x, DestReg(d, s), v)
<1>1. Only(y, d) /\ y.reg[DestReg(d, s)] = v /\ DestReg(d, s) \in Regs
  BY AtStart, SetDest
<1> HIDE DEF y
<1>2. Steps(store_operand(y, d, DestReg(d, s)), e)
  BY DEF y
<1> QED BY <1>1, <1>2, StoredInv

\* The register that takes a result is preserved or the scratch one given.
LEMMA DestRegIs ==
  ASSUME LInv, Ready, NEW d \in Homes, NEW s \in Scratch
  PROVE  /\ DestReg(d, s) \in Saved \cup {s}
         /\ InReg(d) => DestReg(d, s) = Loc(d).phys_reg
BY AtStart, HomeOf DEF DestReg
-------------------------------------------------------------------------------
\* ADD, SUB, AND, OR, XOR, with any operands shared with the destination.
LEMMA AluInv ==
  ASSUME LInv, UNCHANGED aot,
         NEW op \in AllOps, NEW d \in Homes, NEW a \in Sources, NEW b \in Sources,
         Encodable(b), alu(op, d, a, b)
  PROVE  LInv'
<1> DEFINE dst == DestReg(d, "RCX")
           s2  == OperandReg(b, "R11")
           s1  == OperandReg(a, "RCX")
           x0  == load_operand(m, b, "R11")
           x1  == load_operand(x0, a, "RCX")
           clash == dst = s2 /\ s2 # "R11" /\ b.kind # "CONST_INT"
           x2  == IF clash THEN mov(x1, "R11", s2) ELSE x1
           x3  == mov(x2, dst, s1)
           rhs == IF b.kind = "CONST_INT" THEN Imm(b.const_val)
                  ELSE x3.reg[IF clash THEN "R11" ELSE s2]
           x4  == SetReg(x3, dst, Alu(op, x3.reg[dst], rhs))
<1>1. Ready /\ VBinary(op, d, a, b) /\ Steps(store_operand(x4, d, dst), NoEffect)
  BY Zenon DEF alu
<1>0. Ready /\ LInv /\ fr \in [lc : 0..kMaxLocals, pc : 0..MaxParams]
  BY <1>1, AtStart, Zenon
<1>2. Like(x0) /\ x0.reg[s2] = Value(b) /\ Value(b) \in Val /\ s2 \in Saved \cup {"R11"}
  <2>1. "R11" \in Scratch
    BY ScratchNames
  <2>2. Brought(m, b, "R11", x0)
    BY <1>0, AtStart, <2>1, Brings, Zenon
  <2> QED BY <2>2, Zenon DEF Brought
<1>3. /\ Like(x1) /\ x1.reg[s1] = Value(a) /\ Value(a) \in Val /\ s1 \in Saved \cup {"RCX"}
      /\ \A q \in Regs \ {"RCX"} : x1.reg[q] = x0.reg[q]
  <2> HIDE DEF x0
  <2>1. Like(x0) /\ "RCX" \in Scratch
    BY <1>2, RegisterNames
  <2>2. Brought(x0, a, "RCX", x1)
    BY <1>0, <2>1, Brings, Zenon
  <2> QED BY <2>2, Zenon DEF Brought
<1>4. dst \in Saved \cup {"RCX"}
  BY <1>0, DestRegIs, RegisterNames
<1> HIDE DEF x0, x1, dst, s1, s2
<1>5. x1.reg[s2] = Value(b)
  BY <1>2, <1>3, RegisterNames
<1>6. /\ Like(x2) /\ x2.reg[s1] = Value(a) /\ x2.reg[s2] = Value(b)
      /\ clash => x2.reg["R11"] = Value(b)
  <2>1. CASE clash
    <3>1. x2 = SetReg(x1, "R11", Value(b))
      BY <2>1, <1>5 DEF mov
    <3> HIDE DEF x2, clash
    <3>2. Value(b) \in Word /\ Like(x1) /\ "R11" \in Scratch
      BY <1>2, <1>3, RegisterNames
    <3>3. Like(x2) /\ x2.reg["R11"] = Value(b)
      BY <3>1, <3>2, SetScratch
    <3>4. \A q \in Regs \ {"R11"} : x2.reg[q] = x1.reg[q]
      BY <3>1, <3>2, SetScratch
    <3> QED BY <3>3, <3>4, <1>2, <1>3, <1>5, RegisterNames
  <2>2. CASE ~ clash
    BY <2>2, <1>3, <1>5
  <2> QED BY <2>1, <2>2, Zenon
<1>7. x3 = SetReg(x2, dst, Value(a)) /\ Only(x2, d)
  BY <1>0, <1>6, LikeOnly, AtStart DEF mov
<1> HIDE DEF x2, x3, clash
<1>8. /\ Only(x3, d) /\ x3.reg[dst] = Value(a)
      /\ \A q \in Regs \ {dst} : x3.reg[q] = x2.reg[q]
  <2>1. "RCX" \in Scratch
    BY ScratchNames
  <2>2. Written(x2, d, "RCX", Value(a), x3)
    BY <1>0, <1>3, <1>7, <2>1, Writes, Zenon DEF dst
  <2> QED BY <2>2, Zenon DEF Written, dst
<1>9. rhs = Value(b)
  <2>1. CASE b.kind = "CONST_INT"
    BY <2>1 DEF Value, Encodable
  <2>2. CASE clash
    BY <2>2, <1>4, <1>6, <1>8, RegisterNames DEF clash
  <2>3. CASE b.kind # "CONST_INT" /\ ~ clash
    <3>1. s2 # dst
      BY <2>3, <1>4, RegisterNames DEF clash
    <3> QED BY <3>1, <2>3, <1>2, <1>6, <1>8, RegisterNames
  <2> QED BY <2>1, <2>2, <2>3
<1> DEFINE v == Alu(op, Value(a), Value(b))
<1>10. x4 = SetReg(x3, dst, v) /\ Sets(d, v, NoEffect) /\ v \in Val
  BY <1>1, <1>2, <1>3, <1>8, <1>9, AluTotal, Zenon DEF VBinary
<1> HIDE DEF x4, v, rhs
<1> QED BY <1>1, <1>8, <1>10, ResultInv, RegisterNames DEF dst
\* The last two moves of a two-operand instruction: the first operand into the
\* destination register, the result over it.  The second operand is elsewhere.
LEMMA ComputeInv ==
  ASSUME LInv, UNCHANGED aot,
         Ready, NEW op \in AllOps, NEW d \in Homes, NEW a \in Sources, NEW b \in Sources,
         Value(a) \in Val, Value(b) \in Val,
         NEW s \in Scratch, NEW x, Like(x), NEW n,
         LET y == SetReg(x, DestReg(d, s), Value(a))
             z == SetReg(y, DestReg(d, s), Alu(op, y.reg[DestReg(d, s)], n))
         IN Steps(store_operand(z, d, DestReg(d, s)), NoEffect),
         n = Value(b), VBinary(op, d, a, b)
  PROVE  LInv'
<1> DEFINE dst == DestReg(d, s)
           y == SetReg(x, dst, Value(a))
           v == Alu(op, Value(a), Value(b))
<1>1. Only(x, d) /\ fr \in [lc : 0..kMaxLocals, pc : 0..MaxParams]
  BY AtStart, LikeOnly
<1>2. Only(y, d) /\ y.reg[dst] = Value(a)
  BY <1>1, SetDest
<1>3. v \in Val /\ Sets(d, v, NoEffect)
  BY AluTotal, Zenon DEF VBinary
<1>4. Steps(store_operand(SetReg(y, dst, v), d, dst), NoEffect)
  BY <1>2
<1> HIDE DEF y, v
<1> QED BY <1>2, <1>3, <1>4, ResultInv

\* ADD and SUB ahead of time: no copy is made aside, so the second operand must not
\* be overwritten by the first unless it is the first.
LEMMA AotAddSubInv ==
  ASSUME LInv, UNCHANGED aot, NEW op \in AllOps, NEW d \in Homes, NEW a \in Sources,
         NEW b \in Sources, Apart(d, a, b), aot_add_sub(op, d, a, b)
  PROVE  LInv'
<1> DEFINE dst == DestReg(d, "RCX")
           s1  == OperandReg(a, "RCX")
           s2  == OperandReg(b, "R11")
           x0  == load_operand(m, a, "RCX")
           x1  == load_operand(x0, b, "R11")
           x2  == mov(x1, dst, s1)
           x3  == SetReg(x2, dst, Alu(op, x2.reg[dst], x2.reg[s2]))
<1>1. VBinary(op, d, a, b) /\ Steps(store_operand(x3, d, dst), NoEffect)
  BY DEF aot_add_sub
<1>0. LInv /\ Ready /\ Like(m) /\ fr \in [lc : 0..kMaxLocals, pc : 0..MaxParams]
  BY AtStart DEF aot_add_sub
<1>2. Like(x0) /\ x0.reg[s1] = Value(a) /\ Value(a) \in Val /\ s1 \in Saved \cup {"RCX"}
  <2>1. "RCX" \in Scratch
    BY ScratchNames
  <2> QED BY <1>0, <2>1, Loads, Zenon
<1> HIDE DEF x0
<1>3. Like(x1) /\ x1.reg[s2] = Value(b) /\ Value(b) \in Val /\ s2 \in Saved \cup {"R11"}
  <2>1. "R11" \in Scratch
    BY ScratchNames
  <2>2. Brought(x0, b, "R11", x1)
    BY <1>0, <1>2, <2>1, Brings, Zenon
  <2> QED BY <2>2, Zenon DEF Brought
<1>4. \A q \in Regs \ {"R11"} : x1.reg[q] = x0.reg[q]
  <2>1. "R11" \in Scratch
    BY ScratchNames
  <2>2. Brought(x0, b, "R11", x1)
    BY <1>0, <1>2, <2>1, Brings, Zenon
  <2> QED BY <2>2, Zenon DEF Brought
<1> HIDE DEF x1
<1>5. dst \in Saved \cup {"RCX"}
  BY <1>0, DestRegIs, ScratchNames
<1>6. x1.reg[s1] = Value(a)
  <2> HIDE DEF s1
  <2> QED BY <1>2, <1>4, RegisterNames
<1>7. x2 = SetReg(x1, dst, Value(a)) /\ Only(x1, d)
  BY <1>0, <1>3, <1>6, LikeOnly, AtStart DEF mov
<1> HIDE DEF x2
<1>8. x2.reg[dst] = Value(a) /\ \A q \in Regs \ {dst} : x2.reg[q] = x1.reg[q]
  <2>1. "RCX" \in Scratch
    BY ScratchNames
  <2>2. Written(x1, d, "RCX", Value(a), x2)
    BY <1>0, <1>2, <1>7, <2>1, Writes, Zenon
  <2> QED BY <2>2, Zenon DEF Written
<1>9. x2.reg[s2] = Value(b)
  <2>1. CASE s2 # dst
    <3> HIDE DEF s2, dst
    <3> QED BY <2>1, <1>3, <1>8, RegisterNames
  <2>2. CASE s2 = dst
    <3>1. s2 \in Saved /\ s2 # "R11" /\ dst # "RCX"
      <4> HIDE DEF s2, dst
      <4> QED BY <2>2, <1>3, <1>5, RegisterNames
    <3>2. b.kind = "REGISTER" /\ InReg(b.reg) /\ s2 = Loc(b.reg).phys_reg
      BY <3>1 DEF OperandReg
    <3>3. InReg(d) /\ dst = Loc(d).phys_reg
      BY <3>1 DEF DestReg
    <3>4. b.reg \in Homes /\ b = RegOp(b.reg)
      BY <3>2 DEF Sources, RegOp, ConstOp
    <3>5. b.reg = d
      <4> HIDE DEF s2, dst
      <4> QED BY <1>0, <2>2, <3>2, <3>3, <3>4, HomeOf, Zenon
    <3>6. a = b
      BY <3>3, <3>4, <3>5 DEF Apart
    <3> HIDE DEF s2, dst
    <3> QED BY <2>2, <3>6, <1>8
  <2> QED BY <2>1, <2>2
<1> QED BY <1>0, <1>1, <1>2, <1>3, <1>7, <1>9, ComputeInv, ScratchNames, Zenon

\* MUL.
LEMMA MulInv ==
  ASSUME LInv, UNCHANGED aot,
         NEW d \in Homes, NEW a \in Sources, NEW b \in Sources, mul(d, a, b)
  PROVE  LInv'
<1> DEFINE dst == DestReg(d, "RCX")
           x0  == fetch(m, b, "R11")
           x1  == load_operand(x0, a, "RCX")
           s1  == OperandReg(a, "RCX")
           x2  == mov(x1, dst, s1)
           x3  == SetReg(x2, dst, Alu("mul", x2.reg[dst], x2.reg["R11"]))
<1>1. VBinary("mul", d, a, b) /\ Steps(store_operand(x3, d, dst), NoEffect)
  BY Zenon DEF mul
<1>0. LInv /\ Ready /\ Like(m) /\ fr \in [lc : 0..kMaxLocals, pc : 0..MaxParams]
  BY AtStart DEF mul
<1>2. Like(x0) /\ x0.reg["R11"] = Value(b)
  BY <1>0, Fetches, ScratchNames
<1>3. Value(b) \in Val
  BY <1>0, Loads, ScratchNames
<1> HIDE DEF x0
<1>4. Like(x1) /\ x1.reg[s1] = Value(a) /\ Value(a) \in Val
  <2>1. "RCX" \in Scratch
    BY ScratchNames
  <2>2. Brought(x0, a, "RCX", x1)
    BY <1>0, <1>2, <2>1, Brings, Zenon
  <2> QED BY <2>2, Zenon DEF Brought
<1>5. \A q \in Regs \ {"RCX"} : x1.reg[q] = x0.reg[q]
  <2>1. "RCX" \in Scratch
    BY ScratchNames
  <2>2. Brought(x0, a, "RCX", x1)
    BY <1>0, <1>2, <2>1, Brings, Zenon
  <2> QED BY <2>2, Zenon DEF Brought
<1> HIDE DEF x1
<1>6. x2 = SetReg(x1, dst, Value(a)) /\ Only(x1, d) /\ dst \in Saved \cup {"RCX"}
  BY <1>0, <1>4, LikeOnly, AtStart, DestRegIs, ScratchNames DEF mov
<1> HIDE DEF x2
<1>7. \A q \in Regs \ {dst} : x2.reg[q] = x1.reg[q]
  <2>1. "RCX" \in Scratch
    BY ScratchNames
  <2>2. Written(x1, d, "RCX", Value(a), x2)
    BY <1>0, <1>4, <1>6, <2>1, Writes, Zenon
  <2> QED BY <2>2, Zenon DEF Written
<1>8. x2.reg["R11"] = Value(b)
  <2> HIDE DEF dst
  <2> QED BY <1>2, <1>5, <1>6, <1>7, RegisterNames
<1>9. "mul" \in AllOps
  BY DEF AllOps, Ops
<1> QED BY <1>0, <1>1, <1>3, <1>4, <1>6, <1>8, <1>9, ComputeInv, ScratchNames, Zenon

\* SHL, SHR, USHR: the count travels through RCX.
LEMMA ShiftInv ==
  ASSUME LInv, UNCHANGED aot,
         NEW op \in AllOps, NEW d \in Homes, NEW a \in Sources, NEW b \in Sources,
         shift(op, d, a, b)
  PROVE  LInv'
<1> DEFINE dst == DestReg(d, "RAX")
           x0  == fetch(m, b, "RCX")
           x1  == load_operand(x0, a, "RAX")
           s1  == OperandReg(a, "RAX")
           x2  == mov(x1, dst, s1)
           n   == IF b.kind = "CONST_INT" THEN b.const_val ELSE x2.reg["RCX"]
           x3  == SetReg(x2, dst, Alu(op, x2.reg[dst], n))
<1>1. VBinary(op, d, a, b) /\ Steps(store_operand(x3, d, dst), NoEffect)
  BY Zenon DEF shift
<1>0. LInv /\ Ready /\ Like(m) /\ fr \in [lc : 0..kMaxLocals, pc : 0..MaxParams]
  BY AtStart, Zenon DEF shift
<1>2. Like(x0) /\ x0.reg["RCX"] = Value(b)
  BY <1>0, Fetches, ScratchNames
<1>3. Value(b) \in Val
  BY <1>0, Loads, ScratchNames
<1> HIDE DEF x0
<1>4. Like(x1) /\ x1.reg[s1] = Value(a) /\ Value(a) \in Val
  <2>1. "RAX" \in Scratch
    BY ScratchNames
  <2>2. Brought(x0, a, "RAX", x1)
    BY <1>0, <1>2, <2>1, Brings, Zenon
  <2> QED BY <2>2, Zenon DEF Brought
<1>5. \A q \in Regs \ {"RAX"} : x1.reg[q] = x0.reg[q]
  <2>1. "RAX" \in Scratch
    BY ScratchNames
  <2>2. Brought(x0, a, "RAX", x1)
    BY <1>0, <1>2, <2>1, Brings, Zenon
  <2> QED BY <2>2, Zenon DEF Brought
<1> HIDE DEF x1
<1>6. x2 = SetReg(x1, dst, Value(a)) /\ Only(x1, d) /\ dst \in Saved \cup {"RAX"}
  BY <1>0, <1>4, LikeOnly, AtStart, DestRegIs, ScratchNames DEF mov
<1> HIDE DEF x2
<1>7. \A q \in Regs \ {dst} : x2.reg[q] = x1.reg[q]
  <2>1. "RAX" \in Scratch
    BY ScratchNames
  <2>2. Written(x1, d, "RAX", Value(a), x2)
    BY <1>0, <1>4, <1>6, <2>1, Writes, Zenon
  <2> QED BY <2>2, Zenon DEF Written
<1>8. x2.reg["RCX"] = Value(b)
  <2> HIDE DEF dst
  <2> QED BY <1>2, <1>5, <1>6, <1>7, RegisterNames
<1>9. n = Value(b)
  BY <1>8 DEF Value
<1> HIDE DEF n
<1> QED BY <1>0, <1>1, <1>3, <1>4, <1>6, <1>9, ComputeInv, ScratchNames, Zenon

\* A scratch register may be overwritten while d's home differs.
LEMMA OnlyScratch ==
  ASSUME fr \in [lc : 0..kMaxLocals, pc : 0..MaxParams], NEW d \in Homes, NEW x, Only(x, d),
         NEW s \in Scratch, NEW v \in Word
  PROVE  Only(SetReg(x, s, v), d) /\ At(SetReg(x, s, v), Loc(d)) = At(x, Loc(d))
<1> DEFINE y == SetReg(x, s, v)
<1>1. Machine(x) /\ s \in Regs
  BY RegisterNames DEF Only
<1>2. Machine(y) /\ y.slot = x.slot
  BY <1>1, SetRegFacts
<1>3. \A q \in Regs \ {s} : y.reg[q] = x.reg[q]
  BY <1>1, SetRegFacts
<1> HIDE DEF y
<1>4. \A q \in Saved : y.reg[q] = x.reg[q]
  BY <1>3, RegisterNames
<1>5. Only(y, d)
  BY <1>2, <1>4 DEF Only
<1>6. At(y, Loc(d)) = At(x, Loc(d))
  BY <1>2, <1>4, HomeOf DEF At, InReg
<1> QED BY <1>5, <1>6 DEF y

\* DIV: RAX, RDX and R11 are used up.
LEMMA DivInv ==
  ASSUME LInv, UNCHANGED aot,
         NEW d \in Homes, NEW a \in Sources, NEW b \in Sources, div(d, a, b)
  PROVE  LInv'
<1> DEFINE dst == DestReg(d, "RAX")
           x0  == fetch(m, b, "R11")
           x1  == fetch(x0, a, "RAX")
           y   == SetReg(x1, "RDX", Junk)
           x2  == SetReg(y, "RAX", Alu("div", x1.reg["RAX"], x1.reg["R11"]))
           z   == mov(x2, dst, "RAX")
           x3  == store_operand(z, d, dst)
           v   == Alu("div", Value(a), Value(b))
<1>1. VBinary("div", d, a, b) /\ Steps(SetReg(x3, "RDX", m.reg["RDX"]), NoEffect)
  BY Zenon DEF div
<1>0. LInv /\ Ready /\ Like(m) /\ fr \in [lc : 0..kMaxLocals, pc : 0..MaxParams]
  BY AtStart, Zenon DEF div
<1>2. Like(x0) /\ x0.reg["R11"] = Value(b)
  BY <1>0, Fetches, ScratchNames
<1>3. Value(a) \in Val /\ Value(b) \in Val
  BY <1>0, Loads, ScratchNames
<1> HIDE DEF x0
<1>4. Like(x1) /\ x1.reg["RAX"] = Value(a)
  BY <1>0, <1>2, Fetches, ScratchNames
<1>5. \A q \in Regs \ {"RAX"} : x1.reg[q] = x0.reg[q]
  BY <1>0, <1>2, Fetches, ScratchNames
<1> HIDE DEF x1
<1>6. x1.reg["R11"] = Value(b)
  BY <1>2, <1>5, RegisterNames
<1>7. "div" \in AllOps
  BY DEF AllOps, Ops
<1>8. v \in Val /\ v \in Word /\ Sets(d, v, NoEffect)
  BY <1>1, <1>3, <1>7, AluTotal, RegisterNames, Zenon DEF VBinary
<1>9. Junk \in Word
  BY RegisterNames
<1>10. Like(y)
  BY <1>4, <1>9, SetScratch, ScratchNames
<1> HIDE DEF y
<1>11. x2 = SetReg(y, "RAX", v)
  BY <1>4, <1>6
<1> HIDE DEF x2, v
<1>12. Like(x2) /\ x2.reg["RAX"] = v
  <2>1. v \in Word /\ "RAX" \in Scratch
    BY <1>8, ScratchNames
  <2> QED BY <2>1, <1>10, <1>11, SetScratch
<1>13. z = SetReg(x2, dst, v) /\ Only(x2, d)
  BY <1>0, <1>12, LikeOnly, AtStart DEF mov
<1> HIDE DEF z
<1>14. Only(z, d) /\ z.reg[dst] = v /\ dst \in Regs
  BY <1>0, <1>8, <1>13, SetDest, ScratchNames
<1> HIDE DEF dst
<1>15. Only(x3, d) /\ At(x3, Loc(d)) = v
  BY <1>0, <1>8, <1>14, StoreFacts
<1> HIDE DEF x3
<1>16. m.reg["RDX"] \in Word
  <2>1. m.reg \in [Regs -> Word] /\ "RDX" \in Regs
    BY <1>0, RegisterNames DEF Like, Machine
  <2> QED BY <2>1
<1>17. /\ Only(SetReg(x3, "RDX", m.reg["RDX"]), d)
       /\ At(SetReg(x3, "RDX", m.reg["RDX"]), Loc(d)) = v
  BY <1>0, <1>15, <1>16, AtStart, OnlyScratch, ScratchNames
<1> QED BY <1>0, <1>1, <1>8, <1>17, AtStart, SetsInv, Zenon
\* z holds v in dst and what r holds in the operand's register.
Loaded(z, d, r, dst, v) ==
  Only(z, d) /\ z.reg[OperandReg(RegOp(r), "R11")] = vreg[r] /\ z.reg[dst] = v

\* bit loads its second operand after it wrote the destination register: the
\* operand must not live there.
LEMMA LateLoad ==
  ASSUME LInv, Ready, NEW d \in Homes, NEW r \in Homes, InReg(d) => r # d,
         NEW x, Like(x), NEW v \in Val, NEW dst, dst = DestReg(d, "RAX"),
         NEW y, y = SetReg(x, dst, v), NEW z, z = load_operand(y, RegOp(r), "R11")
  PROVE  Loaded(z, d, r, dst, v)
<1>0. fr \in [lc : 0..kMaxLocals, pc : 0..MaxParams] /\ Only(x, d) /\ Inside /\ Runs
  BY AtStart, LikeOnly
<1>1. Only(y, d) /\ y.reg[dst] = v
  BY <1>0, SetDest, ScratchNames
<1>2. \A q \in Regs \ {dst} : y.reg[q] = x.reg[q]
  BY <1>0, SetDest, ScratchNames
<1>3. dst \in Saved \cup {"RAX"} /\ (InReg(d) => dst = Loc(d).phys_reg) /\ (~ InReg(d) => dst = "RAX")
  BY DestRegIs, ScratchNames DEF DestReg
<1>4. y.slot = m.slot
  <2>1. Machine(x) /\ dst \in Regs /\ v \in Word
    BY <1>0, <1>3, RegisterNames DEF Only
  <2>2. y.slot = x.slot
    BY <2>1, SetRegFacts
  <2> QED BY <2>2 DEF Like
<1>5. At(m, Loc(r)) = vreg[r] /\ vreg[r] \in Val
  BY <1>0 DEF Inside, Agree
<1>6. RegOp(r).kind = "REGISTER" /\ RegOp(r).reg = r /\ RegOp(r).kind # "CONST_INT"
  BY DEF RegOp
<1>7. CASE InReg(r)
  <2>1. z = y /\ OperandReg(RegOp(r), "R11") = Loc(r).phys_reg
    BY <1>6, <1>7 DEF load_operand, OperandReg
  <2>2. Loc(r).phys_reg \in Saved
    BY <1>0, <1>7, HomeOf
  <2>3. Loc(r).phys_reg # dst
    <3>1. CASE InReg(d)
      BY <3>1, <1>0, <1>3, <1>7, HomeOf
    <3>2. CASE ~ InReg(d)
      BY <3>2, <1>3, <2>2, RegisterNames
    <3> QED BY <3>1, <3>2
  <2>4. y.reg[Loc(r).phys_reg] = m.reg[Loc(r).phys_reg]
    BY <2>2, <2>3, <1>2, RegisterNames DEF Like
  <2>5. m.reg[Loc(r).phys_reg] = vreg[r]
    BY <1>5, <1>7 DEF At, InReg
  <2> QED BY <2>1, <2>4, <2>5, <1>1, Zenon DEF Loaded
<1>8. CASE ~ InReg(r)
  <2>1. z = SetReg(y, "R11", vreg[r]) /\ OperandReg(RegOp(r), "R11") = "R11"
    BY <1>4, <1>5, <1>6, <1>8 DEF load_operand, OperandReg, At, InReg
  <2>2. vreg[r] \in Word /\ Machine(y) /\ "R11" \in Regs
    BY <1>1, <1>5, RegisterNames, Zenon DEF Only
  <2>3. Only(z, d)
    BY <1>0, <1>1, <2>1, <2>2, OnlyScratch, ScratchNames
  <2>4. z.reg["R11"] = vreg[r]
    <3>1. Put(y, "R11", vreg[r], z)
      BY <2>1, <2>2, Puts, Zenon
    <3> QED BY <3>1, Zenon DEF Put
  <2>5. \A q \in Regs \ {"R11"} : z.reg[q] = y.reg[q]
    <3>1. Put(y, "R11", vreg[r], z)
      BY <2>1, <2>2, Puts, Zenon
    <3> QED BY <3>1, Zenon DEF Put
  <2>6. z.reg[dst] = v
    BY <2>5, <1>1, <1>3, RegisterNames
  <2> QED BY <2>1, <2>3, <2>4, <2>6, Zenon DEF Loaded
<1> QED BY <1>7, <1>8, Zenon

\* BTS and BTR, whose bit number is loaded after the destination is written.
LEMMA BitInv ==
  ASSUME LInv, UNCHANGED aot,
         NEW op \in AllOps, NEW d \in Homes, NEW a \in Sources, NEW b \in Sources,
         InReg(d) => b # RegOp(d), bit(op, d, a, b)
  PROVE  LInv'
<1> DEFINE dst == DestReg(d, "RAX")
           x0  == load_operand(m, a, "RAX")
           x1  == mov(x0, dst, OperandReg(a, "RAX"))
           x2  == IF b.kind = "CONST_INT" THEN x1 ELSE load_operand(x1, b, "R11")
           n   == IF b.kind = "CONST_INT" THEN b.const_val ELSE x2.reg[OperandReg(b, "R11")]
           x3  == SetReg(x2, dst, Alu(op, x2.reg[dst], n))
           v   == Alu(op, Value(a), Value(b))
<1>1. VBinary(op, d, a, b) /\ Steps(store_operand(x3, d, dst), NoEffect)
  BY Zenon DEF bit
<1>0. LInv /\ Ready /\ Like(m) /\ fr \in [lc : 0..kMaxLocals, pc : 0..MaxParams]
  BY AtStart, Zenon DEF bit
<1>2. Value(a) \in Val /\ Value(b) \in Val
  BY <1>0, Loads, ScratchNames, Zenon
<1>3. Like(x0) /\ x0.reg[OperandReg(a, "RAX")] = Value(a)
  <2>1. "RAX" \in Scratch
    BY ScratchNames
  <2> QED BY <1>0, <2>1, Loads, Zenon
<1> HIDE DEF x0
<1>4. x1 = SetReg(x0, dst, Value(a)) /\ Only(x0, d)
  BY <1>0, <1>3, LikeOnly, AtStart DEF mov
<1> HIDE DEF x1
<1>5. Only(x2, d) /\ x2.reg[dst] = Value(a) /\ n = Value(b)
  <2>1. CASE b.kind = "CONST_INT"
    <3>1. x2 = x1 /\ n = Value(b)
      BY <2>1 DEF Value
    <3>2. Only(x1, d) /\ x1.reg[dst] = Value(a)
      <4>1. Value(a) \in Val /\ "RAX" \in Scratch /\ x1 = SetReg(x0, DestReg(d, "RAX"), Value(a))
            /\ Only(x0, d)
        BY <1>2, <1>4, ScratchNames
      <4> QED BY <1>0, <4>1, SetDest
    <3> HIDE DEF x2, n
    <3> QED BY <3>1, <3>2, Zenon
  <2>2. CASE b.kind # "CONST_INT"
    <3>1. PICK r \in Homes : b = RegOp(r)
      BY <2>2 DEF Sources, ConstOp
    <3>2. InReg(d) => r # d
      BY <3>1
    <3>3. x2 = load_operand(x1, RegOp(r), "R11") /\ n = x2.reg[OperandReg(RegOp(r), "R11")]
          /\ Value(b) = vreg[r]
      BY <2>2, <3>1 DEF Value, RegOp
    <3> HIDE DEF x2, n
    <3> HIDE DEF dst
    <3>4. Only(x2, d) /\ n = vreg[r] /\ x2.reg[dst] = Value(a)
      <4>1. Value(a) \in Val /\ Like(x0) /\ x1 = SetReg(x0, dst, Value(a))
        BY <1>2, <1>3, <1>4
      <4>2. dst = DestReg(d, "RAX")
        BY DEF dst
      <4>3. x2 = load_operand(x1, RegOp(r), "R11")
        BY <3>3
      <4>4. Loaded(x2, d, r, dst, Value(a))
        BY <1>0, <3>2, <4>1, <4>2, <4>3, LateLoad, Zenon
      <4> QED BY <3>3, <4>4, Zenon DEF Loaded
    <3> QED BY <3>3, <3>4, Zenon
  <2> QED BY <2>1, <2>2, Zenon
<1> HIDE DEF x2, n
<1>6. v \in Val /\ Sets(d, v, NoEffect) /\ x3 = SetReg(x2, dst, v)
  BY <1>1, <1>2, <1>5, AluTotal, Zenon DEF VBinary
<1> HIDE DEF x3, v
<1> QED BY <1>0, <1>1, <1>5, <1>6, ResultInv, ScratchNames

\* NEG.
LEMMA NegInv ==
  ASSUME LInv, UNCHANGED aot, NEW d \in Homes, NEW a \in Sources, neg(d, a)
  PROVE  LInv'
<1> DEFINE dst == DestReg(d, "RCX")
           s1  == OperandReg(a, "RCX")
           x1  == load_operand(m, a, "RCX")
           y   == SetReg(x1, "R11", Alu("neg", x1.reg[s1], x1.reg[s1]))
           v   == Alu("neg", Value(a), Value(a))
<1>1. VUnary("neg", d, a) /\ Steps(store_operand(mov(y, dst, "R11"), d, dst), NoEffect)
  BY DEF neg
<1>0. LInv /\ Ready /\ Like(m)
  BY AtStart DEF neg
<1>2. Like(x1) /\ x1.reg[s1] = Value(a) /\ Value(a) \in Val
  BY <1>0, Loads, ScratchNames
<1>3. "neg" \in AllOps
  BY DEF AllOps, Ops
<1>4. v \in Val /\ v \in Word /\ Sets(d, v, NoEffect)
  BY <1>1, <1>2, <1>3, AluTotal, RegisterNames, Zenon DEF VUnary
<1> HIDE DEF x1
<1>5. y = SetReg(x1, "R11", v)
  BY <1>2
<1> HIDE DEF y, v
<1>6. Like(y) /\ y.reg["R11"] = v
  <2>1. v \in Word /\ "R11" \in Scratch
    BY <1>4, ScratchNames
  <2>2. Over(x1, "R11", v, y)
    BY <2>1, <1>2, <1>5, Overwrites, Zenon
  <2> QED BY <2>2, Zenon DEF Over
<1>7. Only(y, d) /\ mov(y, dst, "R11") = SetReg(y, dst, v)
  BY <1>0, <1>6, AtStart, LikeOnly DEF mov
<1> QED BY <1>0, <1>1, <1>4, <1>7, ResultInv, ScratchNames

\* POPCNT and LZCNT.
LEMMA UnaryInv ==
  ASSUME LInv, UNCHANGED aot,
         NEW op \in AllOps, NEW d \in Homes, NEW a \in Sources, unary(op, d, a)
  PROVE  LInv'
<1> DEFINE dst == DestReg(d, "RAX")
           s1  == OperandReg(a, "RAX")
           x1  == load_operand(m, a, "RAX")
           v   == Alu(op, Value(a), Value(a))
<1>1. VUnary(op, d, a)
      /\ Steps(store_operand(SetReg(x1, dst, Alu(op, x1.reg[s1], x1.reg[s1])), d, dst), NoEffect)
  BY DEF unary
<1>0. LInv /\ Ready /\ Like(m)
  BY AtStart DEF unary
<1>2. Like(x1) /\ x1.reg[s1] = Value(a) /\ Value(a) \in Val
  BY <1>0, Loads, ScratchNames
<1>3. v \in Val /\ Sets(d, v, NoEffect)
  BY <1>1, <1>2, AluTotal, Zenon DEF VUnary
<1> HIDE DEF x1
<1>4. Only(x1, d) /\ Steps(store_operand(SetReg(x1, dst, v), d, dst), NoEffect)
  BY <1>0, <1>1, <1>2, AtStart, LikeOnly, Zenon
<1> HIDE DEF v
<1> QED BY <1>0, <1>3, <1>4, ResultInv, ScratchNames

\* MOVE_CONST.
LEMMA MoveConstInv ==
  ASSUME LInv, UNCHANGED aot, NEW d \in Homes, NEW c \in Val, move_const(d, c)
  PROVE  LInv'
<1>0. LInv /\ Ready /\ Like(m) /\ Only(m, d) /\ Value(ConstOp(c)) = c
  BY AtStart, Operands, LikeOnly DEF move_const
<1>1. /\ Sets(d, c, NoEffect)
      /\ Steps(store_operand(SetReg(m, DestReg(d, "RCX"), c), d, DestReg(d, "RCX")), NoEffect)
  BY <1>0 DEF move_const, VMove
<1> QED BY <1>0, <1>1, ResultInv, ScratchNames

\* MOVE.
LEMMA MoveInv ==
  ASSUME LInv, UNCHANGED aot, NEW d \in Homes, NEW r \in Homes, move(d, r)
  PROVE  LInv'
<1> DEFINE x == load_operand(m, RegOp(r), "RAX")
           s == OperandReg(RegOp(r), "RAX")
<1>0. LInv /\ Ready /\ Like(m) /\ RegOp(r) \in Sources
  BY AtStart, Operands DEF move
<1>1. Sets(d, Value(RegOp(r)), NoEffect) /\ Steps(store_operand(x, d, s), NoEffect)
  BY DEF move, VMove
<1>2. Like(x) /\ x.reg[s] = Value(RegOp(r)) /\ Value(RegOp(r)) \in Val /\ s \in Saved \cup {"RAX"}
  BY <1>0, Loads, ScratchNames
<1>3. s \in Regs
  BY <1>2, RegisterNames
<1> HIDE DEF x, s
<1>4. Only(x, d)
  BY <1>0, <1>2, AtStart, LikeOnly
<1> QED BY <1>0, <1>1, <1>2, <1>3, <1>4, StoredInv, Zenon
-------------------------------------------------------------------------------
\* LOAD_MEM.
LEMMA LoadMemInv ==
  ASSUME LInv, UNCHANGED aot,
         NEW d \in Homes, NEW base \in Homes, NEW v \in Val, load_mem(d, base, v)
  PROVE  LInv'
<1> DEFINE dst == DestReg(d, "RAX")
           x1  == load_operand(m, RegOp(base), "RAX")
           adr == x1.reg[OperandReg(RegOp(base), "RAX")]
<1>0. LInv /\ Ready /\ Like(m) /\ RegOp(base) \in Sources /\ Value(RegOp(base)) = vreg[base]
  BY AtStart, Operands DEF load_mem
<1>1. Sets(d, v, Load(vreg[base])) /\ Steps(store_operand(SetReg(x1, dst, v), d, dst), Load(adr))
  BY Zenon DEF load_mem, VLoad
<1>2. Like(x1) /\ adr = vreg[base]
  <2>1. Like(x1) /\ adr = Value(RegOp(base))
    <3>1. "RAX" \in Scratch
      BY ScratchNames
    <3> QED BY <1>0, <3>1, Loads
  <2> QED BY <1>0, <2>1
<1> HIDE DEF x1, adr
<1>3. Only(x1, d)
  BY <1>0, <1>2, AtStart, LikeOnly
<1> DEFINE e == Load(vreg[base])
<1>4. Sets(d, v, e) /\ Steps(store_operand(SetReg(x1, dst, v), d, dst), e)
  BY <1>1, <1>2
<1> HIDE DEF e
<1> QED BY <1>0, <1>3, <1>4, ResultInv, ScratchNames
===============================================================================

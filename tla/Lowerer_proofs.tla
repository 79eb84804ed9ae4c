--------------------------- MODULE Lowerer_proofs -----------------------------
(*****************************************************************************)
(* The code of both compilers follows the virtual code, for every            *)
(* arithmetic, every set of words and every number of locals and parameters: *)
(* instructions on memory, calls, branches, prologue and epilogue, and the   *)
(* theorems.                                                                 *)
(*****************************************************************************)
EXTENDS LowererMachine_proofs

\* The time each prover has for a leaf.
USE SMTT(30), ZenonT(30)

\* Two operands in two scratch registers: the second load leaves the first alone.
LEMMA TwoLoads ==
  ASSUME LInv, Ready, NEW a \in Sources, NEW b \in Sources,
         NEW s \in Scratch, NEW t \in Scratch, s # t, NEW x, Like(x)
  PROVE  LET y == load_operand(load_operand(x, a, s), b, t)
         IN /\ Like(y) /\ y.reg[OperandReg(a, s)] = Value(a)
            /\ y.reg[OperandReg(b, t)] = Value(b)
            /\ Value(a) \in Val /\ Value(b) \in Val
<1> DEFINE x0 == load_operand(x, a, s)
           y == load_operand(x0, b, t)
<1>1. Like(x0) /\ x0.reg[OperandReg(a, s)] = Value(a) /\ Value(a) \in Val
  BY Loads
<1>2. OperandReg(a, s) \in Saved \cup {s}
  BY Loads
<1> HIDE DEF x0
<1>3. Like(y) /\ y.reg[OperandReg(b, t)] = Value(b) /\ Value(b) \in Val
  BY <1>1, Loads
<1>4. \A q \in Regs \ {t} : y.reg[q] = x0.reg[q]
  BY <1>1, Loads
<1> HIDE DEF y
<1>5. OperandReg(a, s) \in Regs \ {t}
  BY <1>2, RegisterNames
<1> QED BY <1>1, <1>3, <1>4, <1>5 DEF y, x0

\* STORE_MEM.
LEMMA StoreMemInv ==
  ASSUME LInv, UNCHANGED aot, NEW base \in Homes, NEW a \in Sources, store_mem(base, a)
  PROVE  LInv'
<1> DEFINE x == load_operand(load_operand(m, RegOp(base), "RAX"), a, "R11")
           e == Store(vreg[base], Value(a))
<1>0. LInv /\ Ready /\ Runs /\ Like(m) /\ RegOp(base) \in Sources /\ Value(RegOp(base)) = vreg[base]
  BY AtStart, Operands DEF store_mem
<1>1. Does(e) /\ Steps(x, Store(x.reg[OperandReg(RegOp(base), "RAX")], x.reg[OperandReg(a, "R11")]))
  BY DEF store_mem, VStore
<1>2. Like(x) /\ x.reg[OperandReg(RegOp(base), "RAX")] = vreg[base] /\ x.reg[OperandReg(a, "R11")] = Value(a)
  <2>1. /\ Like(x) /\ x.reg[OperandReg(RegOp(base), "RAX")] = Value(RegOp(base))
        /\ x.reg[OperandReg(a, "R11")] = Value(a)
    BY <1>0, TwoLoads, ScratchNames
  <2> QED BY <1>0, <2>1
<1> HIDE DEF x
<1>3. Does(e) /\ Steps(x, e)
  BY <1>1, <1>2
<1> HIDE DEF e
<1> QED BY <1>0, <1>2, <1>3, DoesInv

\* The atomic instructions without a result.
LEMMA RmwInv ==
  ASSUME LInv, UNCHANGED aot,
         NEW op, NEW base \in Homes, NEW a \in Sources, atomic_rmw(op, base, a)
  PROVE  LInv'
<1> DEFINE x == load_operand(load_operand(m, RegOp(base), "RDI"), a, "RAX")
           e == Rmw(op, vreg[base], Value(a))
<1>0. LInv /\ Ready /\ Runs /\ Like(m) /\ RegOp(base) \in Sources /\ Value(RegOp(base)) = vreg[base]
  BY AtStart, Operands DEF atomic_rmw
<1>1. Does(e) /\ Steps(x, Rmw(op, x.reg[OperandReg(RegOp(base), "RDI")], x.reg[OperandReg(a, "RAX")]))
  BY DEF atomic_rmw, VRmw
<1>2. Like(x) /\ x.reg[OperandReg(RegOp(base), "RDI")] = vreg[base] /\ x.reg[OperandReg(a, "RAX")] = Value(a)
  <2>1. /\ Like(x) /\ x.reg[OperandReg(RegOp(base), "RDI")] = Value(RegOp(base))
        /\ x.reg[OperandReg(a, "RAX")] = Value(a)
    BY <1>0, TwoLoads, ScratchNames
  <2> QED BY <1>0, <2>1
<1> HIDE DEF x
<1>3. Does(e) /\ Steps(x, e)
  BY <1>1, <1>2
<1> HIDE DEF e
<1> QED BY <1>0, <1>2, <1>3, DoesInv

\* An exchange with a register that has a machine register, or with a constant.
LEMMA XchgInv ==
  ASSUME LInv, UNCHANGED aot, NEW base \in Homes, NEW a \in Sources, NEW v \in Val,
         a.kind = "REGISTER" => InReg(a.reg), atomic_xchg(base, a, v)
  PROVE  LInv'
<1> DEFINE x == load_operand(load_operand(m, RegOp(base), "RDI"), a, "RAX")
           s == OperandReg(a, "RAX")
           e == Rmw("xchg", vreg[base], Value(a))
<1>0. LInv /\ Ready /\ Runs /\ Like(m) /\ RegOp(base) \in Sources /\ Value(RegOp(base)) = vreg[base]
      /\ fr \in [lc : 0..kMaxLocals, pc : 0..MaxParams]
  BY AtStart, Operands DEF atomic_xchg
<1>1. /\ Steps(SetReg(x, s, v), Rmw("xchg", x.reg[OperandReg(RegOp(base), "RDI")], x.reg[s]))
      /\ IF a.kind = "REGISTER" THEN VXchg(base, a.reg, v) ELSE VRmw("xchg", base, a)
  BY DEF atomic_xchg
<1>2. Like(x) /\ x.reg[OperandReg(RegOp(base), "RDI")] = vreg[base] /\ x.reg[s] = Value(a)
  <2>1. /\ Like(x) /\ x.reg[OperandReg(RegOp(base), "RDI")] = Value(RegOp(base))
        /\ x.reg[s] = Value(a)
    BY <1>0, TwoLoads, ScratchNames
  <2> QED BY <1>0, <2>1
<1> HIDE DEF x
<1>3. Steps(SetReg(x, s, v), e)
  BY <1>1, <1>2
<1>4. CASE a.kind = "REGISTER"
  <2>1. a.reg \in Homes /\ Value(a) = vreg[a.reg]
    BY <1>4 DEF Sources, RegOp, ConstOp, Value
  <2>2. Sets(a.reg, v, e)
    BY <1>1, <1>4, <2>1 DEF VXchg
  <2>3. InReg(a.reg) /\ s = DestReg(a.reg, "RAX") /\ s = Loc(a.reg).phys_reg
    BY <1>4 DEF OperandReg, DestReg
  <2>4. Only(x, a.reg)
    BY <1>0, <1>2, AtStart, LikeOnly
  <2> DEFINE y == SetReg(x, s, v)
  <2>5. Only(y, a.reg) /\ y.reg[s] = v
    <3>1. "RAX" \in Scratch
      BY ScratchNames
    <3> QED BY <1>0, <2>1, <2>3, <2>4, <3>1, SetDest
  <2> HIDE DEF y, e
  <2>6. At(y, Loc(a.reg)) = v
    BY <2>3, <2>5 DEF At, InReg
  <2>7. Steps(y, e)
    BY <1>3 DEF y
  <2> QED BY <1>0, <2>1, <2>2, <2>5, <2>6, <2>7, SetsInv
<1>5. CASE a.kind # "REGISTER"
  <2>1. s = "RAX" /\ v \in Word /\ "RAX" \in Scratch
    BY <1>5, RegisterNames DEF OperandReg
  <2>2. Like(SetReg(x, s, v))
    BY <1>2, <2>1, SetScratch
  <2>3. Does(e)
    BY <1>1, <1>5 DEF VRmw
  <2> HIDE DEF e, s
  <2> QED BY <1>0, <1>3, <2>2, <2>3, DoesInv
<1> QED BY <1>4, <1>5

\* ATOMIC_CAS with a destination.
LEMMA CasInv ==
  ASSUME LInv, UNCHANGED aot,
         NEW d \in Homes, NEW base \in Homes, NEW n \in Homes, NEW v \in Val,
         atomic_cas(d, base, n, v)
  PROVE  LInv'
<1> DEFINE x0 == load_operand(m, RegOp(base), "RDI")
           b  == OperandReg(RegOp(base), "RDI")
           x1 == fetch(x0, RegOp(n), "RSI")
           x2 == fetch(x1, RegOp(d), "RAX")
           e  == Cas(vreg[base], vreg[d], vreg[n])
<1>0. LInv /\ Ready /\ Like(m)
  BY AtStart DEF atomic_cas
<1>1. \A r \in Homes : RegOp(r) \in Sources /\ Value(RegOp(r)) = vreg[r]
  BY Operands
<1>2. /\ Sets(d, v, e)
      /\ Steps(store_operand(SetReg(x2, "RAX", v), d, "RAX"), Cas(x2.reg[b], x2.reg["RAX"], x2.reg["RSI"]))
  BY DEF atomic_cas, VCas
<1>3. Like(x0) /\ x0.reg[b] = Value(RegOp(base)) /\ b \in Saved \cup {"RDI"}
  BY <1>0, <1>1, Loads, ScratchNames
<1> HIDE DEF x0, b
<1>4. Like(x1) /\ x1.reg["RSI"] = Value(RegOp(n))
  BY <1>0, <1>1, <1>3, Fetches, ScratchNames
<1>5. \A q \in Regs \ {"RSI"} : x1.reg[q] = x0.reg[q]
  BY <1>0, <1>1, <1>3, Fetches, ScratchNames
<1> HIDE DEF x1
<1>6. Like(x2) /\ x2.reg["RAX"] = Value(RegOp(d))
  BY <1>0, <1>1, <1>4, Fetches, ScratchNames
<1>7. \A q \in Regs \ {"RAX"} : x2.reg[q] = x1.reg[q]
  BY <1>0, <1>1, <1>4, Fetches, ScratchNames
<1> HIDE DEF x2
<1>8. b \in Regs \ {"RSI", "RAX"} /\ "RSI" \in Regs \ {"RAX"} /\ "RAX" \in Regs
  BY <1>3, RegisterNames
<1>9. x2.reg[b] = vreg[base] /\ x2.reg["RAX"] = vreg[d] /\ x2.reg["RSI"] = vreg[n]
  BY <1>1, <1>3, <1>4, <1>5, <1>6, <1>7, <1>8
<1> DEFINE y == SetReg(x2, "RAX", v)
<1>10. Sets(d, v, e) /\ Steps(store_operand(y, d, "RAX"), e)
  BY <1>2, <1>9
<1>11. Like(y) /\ y.reg["RAX"] = v
  <2>1. v \in Word /\ "RAX" \in Scratch
    BY RegisterNames
  <2> QED BY <2>1, <1>6, SetScratch
<1> HIDE DEF y, e
<1>12. Only(y, d)
  BY <1>0, <1>11, AtStart, LikeOnly
<1> QED BY <1>0, <1>8, <1>10, <1>11, <1>12, StoredInv

\* Floating-point and vector instructions on memory.
LEMMA SimdInv ==
  ASSUME LInv, UNCHANGED aot,
         NEW d \in Homes, NEW a \in Homes, NEW b \in Homes, simd(d, a, b)
  PROVE  LInv'
<1> DEFINE x1 == load_operand(load_operand(m, RegOp(a), "RDI"), RegOp(b), "RSI")
           x2 == load_operand(x1, RegOp(d), "RAX")
           e  == Simd(vreg[a], vreg[b], vreg[d])
<1>0. LInv /\ Ready /\ Runs /\ Like(m)
  BY AtStart DEF simd
<1>1. \A r \in Homes : RegOp(r) \in Sources /\ Value(RegOp(r)) = vreg[r]
  BY Operands
<1>2. Does(e) /\ Steps(x2, Simd(x1.reg[OperandReg(RegOp(a), "RDI")],
                                x1.reg[OperandReg(RegOp(b), "RSI")],
                                x2.reg[OperandReg(RegOp(d), "RAX")]))
  BY DEF simd, VSimd
<1>3. /\ Like(x1) /\ x1.reg[OperandReg(RegOp(a), "RDI")] = Value(RegOp(a))
      /\ x1.reg[OperandReg(RegOp(b), "RSI")] = Value(RegOp(b))
  BY <1>0, <1>1, TwoLoads, ScratchNames
<1> HIDE DEF x1
<1>4. Like(x2) /\ x2.reg[OperandReg(RegOp(d), "RAX")] = Value(RegOp(d))
  BY <1>0, <1>1, <1>3, Loads, ScratchNames
<1> HIDE DEF x2
<1>5. Steps(x2, e)
  BY <1>1, <1>2, <1>3, <1>4
<1> HIDE DEF e
<1> QED BY <1>0, <1>2, <1>4, <1>5, DoesInv
-------------------------------------------------------------------------------
\* The stack is aligned at every call: the frame is a multiple of 16 bytes.
LEMMA CallAligned ==
  ASSUME LInv
  PROVE  Aligned = TRUE
<1>1. fr.lc \in Nat /\ fr.pc \in Nat
  BY FrameConstants DEF LInv
<1>2. Aligned
  BY <1>1, FrameAligned DEF Aligned
<1> QED BY <1>2 DEF Aligned

\* Forgetting the scratch registers is a change of scratch registers.
LEMMA SettleLike ==
  ASSUME NEW x, Like(x)
  PROVE  Like(Settle(x))
BY SettleFacts DEF Like

\* CALL_VIRT whose result is dropped.
LEMMA CallVirtInv ==
  ASSUME LInv, UNCHANGED aot, NEW this \in Homes, call_virt(this)
  PROVE  LInv'
<1> DEFINE x == fetch(m, RegOp(this), "RDI")
           e == Call(vreg[this], TRUE)
<1>0. LInv /\ Ready /\ Runs /\ Like(m) /\ RegOp(this) \in Sources /\ Value(RegOp(this)) = vreg[this]
  BY AtStart, Operands DEF call_virt
<1>1. Does(e) /\ Steps(Settle(x), Call(x.reg["RDI"], Aligned))
  BY Zenon DEF call_virt, VCall
<1>2. Like(x) /\ x.reg["RDI"] = Value(RegOp(this))
  <2>1. LInv /\ Ready /\ Like(m) /\ RegOp(this) \in Sources /\ "RDI" \in Scratch
    BY <1>0, ScratchNames
  <2> QED BY <2>1, Fetches
<1> HIDE DEF x
<1>3. Like(Settle(x)) /\ Steps(Settle(x), e)
  BY <1>0, <1>1, <1>2, CallAligned, SettleLike, Zenon
<1> HIDE DEF e
<1> QED BY <1>0, <1>1, <1>3, DoesInv

\* A call with a result, from any state the arguments left.
LEMMA CalledInv ==
  ASSUME LInv, UNCHANGED aot, Ready, NEW d \in Homes, NEW v \in Val, NEW x, Like(x), NEW e,
         Sets(d, v, e), Steps(store_operand(Called(x, v), d, "RAX"), e)
  PROVE  LInv'
<1> DEFINE z == Settle(x)
           y == SetReg(z, "RAX", v)
<1>1. Like(z)
  BY SettleLike
<1>2. Called(x, v) = y
  BY DEF Called
<1> HIDE DEF z
<1>3. v \in Word /\ "RAX" \in Scratch /\ "RAX" \in Regs
  BY RegisterNames
<1>4. Like(y) /\ y.reg["RAX"] = v
  BY <1>1, <1>3, SetScratch
<1> HIDE DEF y
<1>5. Only(y, d)
  BY <1>4, AtStart, LikeOnly
<1>6. Steps(store_operand(y, d, "RAX"), e)
  BY <1>2
<1> QED BY <1>3, <1>4, <1>5, <1>6, StoredInv

\* CALL_VIRT with a destination.
LEMMA CallVirtToInv ==
  ASSUME LInv, UNCHANGED aot,
         NEW d \in Homes, NEW this \in Homes, NEW v \in Val, call_virt_to(d, this, v)
  PROVE  LInv'
<1> DEFINE x == fetch(m, RegOp(this), "RDI")
           e == Call(vreg[this], TRUE)
<1>0. LInv /\ Ready /\ Runs /\ Like(m) /\ RegOp(this) \in Sources /\ Value(RegOp(this)) = vreg[this]
  BY AtStart, Operands DEF call_virt_to
<1>1. Sets(d, v, e) /\ Steps(store_operand(Called(x, v), d, "RAX"), Call(x.reg["RDI"], Aligned))
  BY Zenon DEF call_virt_to, VCallTo
<1>2. Like(x) /\ x.reg["RDI"] = Value(RegOp(this))
  <2>1. LInv /\ Ready /\ Like(m) /\ RegOp(this) \in Sources /\ "RDI" \in Scratch
    BY <1>0, ScratchNames
  <2> QED BY <2>1, Fetches
<1> HIDE DEF x
<1>3. Steps(store_operand(Called(x, v), d, "RAX"), e)
  BY <1>0, <1>1, <1>2, CallAligned, Zenon
<1> HIDE DEF e
<1> QED BY <1>0, <1>1, <1>2, <1>3, CalledInv

\* NEW_INSTANCE.
LEMMA NewInstanceInv ==
  ASSUME LInv, UNCHANGED aot, NEW d \in Homes, NEW v \in Val, new_instance(d, v)
  PROVE  LInv'
<1> DEFINE e == Request(TRUE)
<1>0. LInv /\ Ready /\ Like(m)
  BY AtStart DEF new_instance
<1>1. Sets(d, v, e) /\ Steps(store_operand(Called(m, v), d, "RAX"), Request(Aligned))
  BY Zenon DEF new_instance, VNew
<1>2. Steps(store_operand(Called(m, v), d, "RAX"), e)
  BY <1>1, CallAligned, Zenon
<1> HIDE DEF e
<1> QED BY <1>0, <1>1, <1>2, CalledInv

\* SINK_MEM.
LEMMA SinkMemInv ==
  ASSUME LInv, UNCHANGED aot, sink_mem
  PROVE  LInv'
<1> DEFINE e == Sunk(TRUE)
<1>0. LInv /\ Runs /\ Like(m)
  BY AtStart DEF sink_mem
<1>1. Does(e) /\ Steps(Settle(m), e) /\ Like(Settle(m))
  BY <1>0, CallAligned, SettleLike, Zenon DEF sink_mem, VSink
<1> HIDE DEF e
<1> QED BY <1>0, <1>1, DoesInv

\* The conditional branches.
LEMMA IfCmpInv ==
  ASSUME LInv, UNCHANGED aot,
         NEW op, NEW r \in Homes, NEW b \in Sources, Encodable(b), if_cmp(op, r, b)
  PROVE  LInv'
<1> DEFINE x1  == load_operand(m, RegOp(r), "RAX")
           x2  == IF b.kind = "CONST_INT" THEN x1 ELSE load_operand(x1, b, "R11")
           rhs == IF b.kind = "CONST_INT" THEN Imm(b.const_val) ELSE x2.reg[OperandReg(b, "R11")]
           lhs == x2.reg[OperandReg(RegOp(r), "RAX")]
           e   == Branch(Alu(op, Value(RegOp(r)), Value(b)))
<1>0. LInv /\ Ready /\ Runs /\ Like(m) /\ RegOp(r) \in Sources
  BY AtStart, Operands DEF if_cmp
<1>1. Does(e) /\ Steps(x2, Branch(Alu(op, lhs, rhs)))
  BY DEF if_cmp, VIf
<1>2. Like(x2) /\ lhs = Value(RegOp(r)) /\ rhs = Value(b)
  <2>1. CASE b.kind = "CONST_INT"
    <3>1. x2 = x1 /\ rhs = Value(b)
      BY <2>1 DEF Value, Encodable
    <3>2. Like(x1) /\ x1.reg[OperandReg(RegOp(r), "RAX")] = Value(RegOp(r))
      BY <1>0, Loads, ScratchNames
    <3> QED BY <3>1, <3>2
  <2>2. CASE b.kind # "CONST_INT"
    <3>1. x2 = load_operand(x1, b, "R11") /\ rhs = x2.reg[OperandReg(b, "R11")]
      BY <2>2
    <3> HIDE DEF x2, rhs
    <3> QED BY <1>0, <3>1, TwoLoads, ScratchNames
  <2> QED BY <2>1, <2>2
<1> HIDE DEF x2, lhs, rhs
<1>3. Steps(x2, e)
  BY <1>1, <1>2
<1> HIDE DEF e
<1> QED BY <1>0, <1>1, <1>2, <1>3, DoesInv

\* Ahead of time NEW_INSTANCE loads three argument registers.
LEMMA AotNewInstanceInv ==
  ASSUME LInv, UNCHANGED aot, NEW d \in Homes, NEW v \in Val, aot_new_instance(d, v)
  PROVE  LInv'
<1> DEFINE e == Request(TRUE)
           x == SetReg(SetReg(SetReg(m, "RDI", Junk), "RSI", 0), "RDX", 1)
<1>0. LInv /\ Ready /\ Like(m)
  BY AtStart DEF aot_new_instance
<1>1. Sets(d, v, e) /\ Steps(store_operand(Called(x, v), d, "RAX"), Request(Aligned))
  BY Zenon DEF aot_new_instance, VNew
<1>2. Steps(store_operand(Called(m, v), d, "RAX"), e)
  <2>1. Settle(x) = Settle(m)
    BY <1>0, RegisterNames, Zenon DEF Settle, SetReg, Like, Machine
  <2> QED BY <1>1, <2>1, CallAligned, Zenon DEF Called
<1> HIDE DEF e
<1> QED BY <1>0, <1>1, <1>2, CalledInv

\* CALL_EXTERN ahead of time.
LEMMA AotCallExternInv ==
  ASSUME LInv, UNCHANGED aot, NEW d \in Homes, NEW v \in Val, aot_call_extern(d, v)
  PROVE  LInv'
<1>1. new_instance(d, v)
  BY DEF aot_call_extern, new_instance
<1> QED BY <1>1, NewInstanceInv

\* IF_Z and IF_NZ ahead of time.
LEMMA AotIfZeroInv ==
  ASSUME LInv, UNCHANGED aot, NEW r \in Homes, aot_if_zero(r)
  PROVE  LInv'
<1> DEFINE x == load_operand(m, RegOp(r), "RAX")
           v == x.reg[OperandReg(RegOp(r), "RAX")]
           e == Branch(Alu("z", Value(RegOp(r)), Value(RegOp(r))))
<1>0. LInv /\ Ready /\ Runs /\ Like(m) /\ RegOp(r) \in Sources
  BY AtStart, Operands DEF aot_if_zero
<1>1. Does(e) /\ Steps(x, Branch(Alu("z", v, v)))
  BY DEF aot_if_zero, VIf
<1>2. Like(x) /\ v = Value(RegOp(r))
  BY <1>0, Loads, ScratchNames
<1> HIDE DEF x, v
<1>3. Steps(x, e)
  BY <1>1, <1>2
<1> HIDE DEF e
<1> QED BY <1>0, <1>1, <1>2, <1>3, DoesInv
-------------------------------------------------------------------------------
\* The epilogue gives the caller its registers back.
LEMMA LeaveFacts ==
  ASSUME LInv, Ready, NEW x, Like(x)
  PROVE  LET y == Leave(x)
         IN /\ y = [reg |-> y.reg, slot |-> y.slot] /\ y.reg \in [Regs -> Word]
            /\ \A r \in Saved : y.reg[r] \in Val /\ (~ aot => y.reg[r] = Caller[r])
<1> DEFINE y == Leave(x)
           Held(r) == \E i \in 0..(saved_reg_count(fr.lc)-1) : saved_reg(i) = r
           Slot(r) == CHOOSE k \in SavedSlots(fr.lc) : saved_reg(k-1) = r
<1>1. y = [reg |-> [r \in Regs |-> IF Held(r) THEN x.slot[Slot(r)] ELSE x.reg[r]], slot |-> << >>]
  BY DEF Leave
<1>2. Inside /\ fr.lc \in Nat /\ fr.pc \in Nat
  BY AtStart, FrameConstants
<1>3. /\ saved_reg_count(fr.lc) \in 0..3 /\ saved_reg_count(fr.lc) <= fr.lc
      /\ stack_frame_size(fr.lc, fr.pc) \div 8 \in Nat
      /\ fr.lc + fr.pc <= stack_frame_size(fr.lc, fr.pc) \div 8
  BY <1>2, LayoutFacts, Zenon
<1>4. ASSUME NEW r \in Regs, Held(r)
      PROVE  x.slot[Slot(r)] \in Val /\ (~ aot => x.slot[Slot(r)] = Caller[r])
  <2>1. PICK i \in 0..(saved_reg_count(fr.lc)-1) : saved_reg(i) = r
    BY <1>4
  <2>2. i + 1 \in SavedSlots(fr.lc) /\ (i + 1) - 1 = i
    BY <1>3 DEF SavedSlots
  <2>3. Slot(r) \in SavedSlots(fr.lc) /\ saved_reg(Slot(r) - 1) = r
    BY <2>1, <2>2
  <2>4. Slot(r) \in Frame(fr.lc, fr.pc)
    BY <1>2, <1>3, <2>3 DEF SavedSlots, Frame
  <2> HIDE DEF Slot
  <2>5. x.slot[Slot(r)] = m.slot[Slot(r)] /\ (~ aot => m.slot[Slot(r)] = Caller[r])
    BY <1>2, <2>3 DEF Like, Inside, Kept
  <2>6. m.slot[Slot(r)] \in Val
    BY <1>2, <2>4 DEF Inside, Machine
  <2> QED BY <2>5, <2>6
<1>5. x.reg \in [Regs -> Word]
  BY DEF Like, Machine
<1>6. ASSUME NEW r \in Saved
      PROVE  y.reg[r] \in Val /\ (~ aot => y.reg[r] = Caller[r])
  <2>1. r \in Regs
    BY RegisterNames
  <2>2. CASE Held(r)
    BY <1>1, <1>4, <2>1, <2>2
  <2>3. CASE ~ Held(r)
    <3>1. PICK i \in 0..2 : r = saved_reg(i)
      <4>1. saved_reg(0) = "RBX" /\ saved_reg(1) = "R12" /\ saved_reg(2) = "R13"
        BY DEF saved_reg
      <4> QED BY <4>1 DEF Saved
    <3>2. i >= saved_reg_count(fr.lc)
      BY <1>3, <2>3, <3>1
    <3>3. m.reg[r] \in Val /\ (~ aot => m.reg[r] = Caller[r])
      BY <1>2, <3>1, <3>2 DEF Inside, Kept
    <3> QED BY <1>1, <2>1, <2>3, <3>3 DEF Like
  <2> QED BY <2>2, <2>3
<1>7. \A r \in Regs : (IF Held(r) THEN x.slot[Slot(r)] ELSE x.reg[r]) \in Word
  BY <1>4, <1>5, RegisterNames
<1> HIDE DEF Held, Slot
<1>8. y = [reg |-> y.reg, slot |-> y.slot] /\ y.reg \in [Regs -> Word]
  BY <1>1, <1>7
<1> QED BY <1>6, <1>8 DEF y

\* Leaving the function gives the caller its registers back.
LEMMA ReturnInv ==
  ASSUME LInv, UNCHANGED aot, Ready, NEW x, Like(x), m' = Settle(Leave(x)), seen' = meant',
         fr' = [lc |-> 0, pc |-> 0]
  PROVE  LInv'
<1> DEFINE y == Leave(x)
<1>1. y = [reg |-> y.reg, slot |-> y.slot] /\ y.reg \in [Regs -> Word]
  BY LeaveFacts
<1>2. \A r \in Saved : y.reg[r] \in Val /\ (~ aot => y.reg[r] = Caller[r])
  BY LeaveFacts
<1> HIDE DEF y
<1>3. m' = [reg |-> [r \in Regs |-> IF r \in Scratch THEN Junk ELSE y.reg[r]], slot |-> y.slot]
  BY <1>1 DEF y, Settle
<1>4. m'.reg \in [Regs -> Word] /\ m' = [reg |-> m'.reg, slot |-> m'.slot]
  BY <1>1, <1>3, RegisterNames
<1>5. ASSUME NEW r \in Saved
      PROVE  m'.reg[r] \in Val /\ (~ aot => m'.reg[r] = Caller[r])
  <2>1. r \in Regs /\ r \notin Scratch
    BY RegisterNames
  <2> QED BY <1>2, <1>3, <2>1
<1>6. ~ Runs' /\ fr' \in [lc : 0..kMaxLocals, pc : 0..MaxParams]
  BY FrameConstants DEF Runs
<1> QED BY <1>4, <1>5, <1>6 DEF LInv, Outside, SameEffect

\* RETURN_VAL.
LEMMA ReturnValInv ==
  ASSUME LInv, UNCHANGED aot, NEW a \in Sources, return_val(a)
  PROVE  LInv'
<1> DEFINE x == fetch(m, a, "RAX")
<1>0. LInv /\ Ready /\ Like(m) /\ "RAX" \in Scratch
  BY AtStart, ScratchNames DEF return_val
<1>1. Like(x) /\ x.reg["RAX"] = Value(a)
  BY <1>0, Fetches
<1>2. /\ m' = Settle(Leave(x)) /\ seen' = Returned(x.reg["RAX"]) /\ meant' = Returned(Value(a))
      /\ fr' = [lc |-> 0, pc |-> 0]
  BY DEF return_val, VReturn
<1> HIDE DEF x
<1> QED BY <1>0, <1>1, <1>2, ReturnInv

\* RETURN_VOID.
LEMMA ReturnVoidInv ==
  ASSUME LInv, UNCHANGED aot, return_void
  PROVE  LInv'
<1>0. LInv /\ Ready /\ Like(m)
  BY AtStart DEF return_void
<1> QED BY <1>0, ReturnInv DEF return_void, VReturnVoid
\* The six registers that pass parameters are different scratch registers.
LEMMA RawRegs ==
  /\ \A i \in 0..5 : get_param_raw_reg(i) \in Scratch
  /\ \A i, j \in 0..5 : get_param_raw_reg(i) = get_param_raw_reg(j) => i = j
<1>1. /\ get_param_raw_reg(0) = "RDI" /\ get_param_raw_reg(1) = "RSI" /\ get_param_raw_reg(2) = "RDX"
      /\ get_param_raw_reg(3) = "RCX" /\ get_param_raw_reg(4) = "R8" /\ get_param_raw_reg(5) = "R9"
  BY DEF get_param_raw_reg
<1>2. \A i \in 0..5 : i = 0 \/ i = 1 \/ i = 2 \/ i = 3 \/ i = 4 \/ i = 5
  OBVIOUS
<1>3. \A i \in 0..5 : get_param_raw_reg(i) \in Scratch
  BY <1>1, <1>2 DEF Scratch
<1>4. ASSUME NEW i \in 0..5, NEW j \in 0..5, i # j
      PROVE  get_param_raw_reg(i) # get_param_raw_reg(j)
  BY <1>1, <1>2, <1>4
<1> QED BY <1>3, <1>4

\* The registers when a function with arguments args is called.
Passed(pc, args) ==
  [r \in Regs |-> IF \E i \in 0..(pc-1) : get_param_raw_reg(i) = r
                  THEN args[CHOOSE i \in 0..(pc-1) : get_param_raw_reg(i) = r]
                  ELSE m.reg[r]]

\* Each argument is in its register, the preserved registers are the caller's.
LEMMA PassedFacts ==
  ASSUME m.reg \in [Regs -> Word], NEW pc \in 0..6, NEW args \in [0..(pc-1) -> Val]
  PROVE  /\ Passed(pc, args) \in [Regs -> Word]
         /\ \A i \in 0..(pc-1) : Passed(pc, args)[get_param_raw_reg(i)] = args[i]
         /\ \A r \in Saved : Passed(pc, args)[r] = m.reg[r]
<1> DEFINE P      == 0..(pc-1)
           Arg(r) == CHOOSE i \in P : get_param_raw_reg(i) = r
           reg    == [r \in Regs |-> IF \E i \in P : get_param_raw_reg(i) = r
                                     THEN args[Arg(r)] ELSE m.reg[r]]
<1>1. P \subseteq 0..5
  OBVIOUS
<1>2. \A i \in P : get_param_raw_reg(i) \in Scratch
  BY <1>1, RawRegs
<1>3. \A i, j \in P : get_param_raw_reg(i) = get_param_raw_reg(j) => i = j
  BY <1>1, RawRegs
<1>4. ASSUME NEW i \in P
      PROVE  reg[get_param_raw_reg(i)] = args[i]
  <2>1. get_param_raw_reg(i) \in Regs
    BY <1>2, RegisterNames
  <2>2. Arg(get_param_raw_reg(i)) = i
    BY <1>3
  <2> HIDE DEF Arg
  <2> QED BY <2>1, <2>2
<1>5. \A r \in Saved : reg[r] = m.reg[r]
  BY <1>2, RegisterNames
<1>6. reg \in [Regs -> Word]
  <2>1. ASSUME NEW r \in Regs, \E i \in P : get_param_raw_reg(i) = r
        PROVE  args[Arg(r)] \in Word
    <3>1. Arg(r) \in P
      BY <2>1
    <3> HIDE DEF Arg
    <3> QED BY <3>1, RegisterNames
  <2>2. \A r \in Regs : m.reg[r] \in Word
    OBVIOUS
  <2> HIDE DEF Arg, P
  <2> QED BY <2>1, <2>2
<1>7. Passed(pc, args) = reg
  BY DEF Passed
<1> HIDE DEF reg
<1> QED BY <1>4, <1>5, <1>6, <1>7

\* A prologue that stores the parameters over the slots slot0.
Entered(lc, pc, args, slot0) ==
  LET reg == Passed(pc, args)
      x   == [reg |-> reg, slot |-> SaveParams(reg, slot0, lc, pc)]
  IN /\ ~ Runs /\ fr' = [lc |-> lc, pc |-> pc] /\ seen' = meant' /\ m' = Settle(x)
     /\ vreg' = [r \in Homed(lc, pc) |-> IF r.type = "PARAM" THEN args[r.index]
                                         ELSE At(x, get_reg_loc(lc, pc, r))]

\* Parameters reach their slots; what the other slots hold is the caller's
\* registers, where it must be.
LEMMA EnterInv ==
  ASSUME LInv, UNCHANGED aot, NEW lc \in 1..kMaxLocals, NEW pc \in 0..MaxParams, pc <= 6,
         NEW args \in [0..(pc-1) -> Val], NEW slot0 \in [Frame(lc, pc) -> Val],
         ~ aot => \A k \in SavedSlots(lc) : slot0[k] = Caller[saved_reg(k - 1)],
         Entered(lc, pc, args, slot0)
  PROVE  LInv'
<1> DEFINE P    == 0..(pc-1)
           reg  == Passed(pc, args)
           slot == SaveParams(reg, slot0, lc, pc)
           x    == [reg |-> reg, slot |-> slot]
           F    == Frame(lc, pc)
<1>1. /\ ~ Runs /\ m' = Settle(x) /\ fr' = [lc |-> lc, pc |-> pc] /\ seen' = meant'
      /\ vreg' = [r \in Homed(lc, pc) |-> IF r.type = "PARAM" THEN args[r.index]
                                          ELSE At(x, get_reg_loc(lc, pc, r))]
  BY DEF Entered
<1>2. /\ m.reg \in [Regs -> Word]
      /\ \A r \in Saved : m.reg[r] \in Val /\ (~ aot => m.reg[r] = Caller[r])
  BY <1>1 DEF LInv, Outside
<1>3. lc \in Nat /\ pc \in 0..6 /\ lc > 0
  BY FrameConstants
<1>4. /\ saved_reg_count(lc) \in 0..3 /\ saved_reg_count(lc) <= lc
      /\ saved_reg_count(lc) + SpillCount(lc) = lc
      /\ stack_frame_size(lc, pc) \div 8 \in Nat
      /\ lc + pc <= stack_frame_size(lc, pc) \div 8
  BY <1>3, LayoutFacts
<1>5. reg \in [Regs -> Word] /\ \A i \in P : reg[get_param_raw_reg(i)] = args[i]
  BY <1>2, <1>3, PassedFacts, Zenon
<1>6. \A r \in Saved : reg[r] \in Val /\ (~ aot => reg[r] = Caller[r])
  BY <1>2, <1>3, PassedFacts, Zenon
<1> HIDE DEF reg
<1>7. ASSUME NEW i \in P
       PROVE  get_param_loc(lc, pc, i).slot = lc + 1 + i
  BY <1>3, <1>4 DEF get_param_loc, Spill
<1>8. ASSUME NEW i \in P
       PROVE  lc + 1 + i \in F /\ slot[lc + 1 + i] = args[i]
  <2>1. lc + 1 + i \in F
    BY <1>3, <1>4 DEF Frame
  <2> DEFINE k == lc + 1 + i
             c == CHOOSE j \in P : get_param_loc(lc, pc, j).slot = k
  <2>2. k \in DOMAIN slot0
    BY <2>1
  <2>3. \E j \in P : get_param_loc(lc, pc, j).slot = k
    BY <1>7
  <2>4. c \in P /\ get_param_loc(lc, pc, c).slot = k
    BY <2>3
  <2> HIDE DEF c
  <2>5. c = i
    BY <2>4, <1>3, <1>7
  <2> HIDE DEF k
  <2>6. slot[k] = reg[get_param_raw_reg(c)]
    BY <2>2, <2>3 DEF SaveParams, c
  <2> QED BY <2>1, <2>5, <2>6, <1>5 DEF k
<1>9. ASSUME NEW k \in F, \A i \in P : k # lc + 1 + i
       PROVE  slot[k] = slot0[k]
  <2>1. k \in DOMAIN slot0
    OBVIOUS
  <2> QED BY <2>1, <1>7, <1>9, Zenon DEF SaveParams
<1>10. slot \in [F -> Val]
  <2>1. DOMAIN slot = F /\ slot = [k \in F |-> slot[k]]
    BY DEF SaveParams
  <2>2. ASSUME NEW k \in F
        PROVE  slot[k] \in Val
    <3>1. CASE \E i \in P : k = lc + 1 + i
      BY <3>1, <1>8, Zenon
    <3>2. CASE \A i \in P : k # lc + 1 + i
      BY <3>2, <1>9
    <3> QED BY <3>1, <3>2, Zenon
  <2> HIDE DEF slot
  <2> QED BY <2>1, <2>2
<1>11. ASSUME ~ aot, NEW k \in SavedSlots(lc)
       PROVE  slot[k] = Caller[saved_reg(k - 1)]
  <2>1. k \in F /\ \A i \in P : k # lc + 1 + i
    BY <1>3, <1>4 DEF SavedSlots, Frame
  <2> QED BY <2>1, <1>9, <1>11, Zenon
<1> HIDE DEF slot
<1>12. m' = [reg |-> [r \in Regs |-> IF r \in Scratch THEN Junk ELSE reg[r]], slot |-> slot]
  BY <1>1 DEF Settle
<1>13. /\ m' = [reg |-> m'.reg, slot |-> m'.slot] /\ m'.reg \in [Regs -> Word] /\ m'.slot = slot
  BY <1>5, <1>12, RegisterNames
<1>14. \A r \in Saved : m'.reg[r] = reg[r]
  BY <1>12, RegisterNames
<1>15. \A r \in Saved : m'.reg[r] \in Val
  BY <1>6, <1>14
<1>16. Machine(m)' /\ fr' \in [lc : 0..kMaxLocals, pc : 0..MaxParams] /\ Runs' /\ Homes' = Homed(lc, pc)
  <2>1. fr' = [lc |-> lc, pc |-> pc] /\ fr'.lc = lc /\ fr'.pc = pc
    BY <1>1
  <2>2. fr' \in [lc : 0..kMaxLocals, pc : 0..MaxParams] /\ Runs'
    BY <2>1, <1>3 DEF Runs
  <2>3. Machine(m)'
    BY <2>1, <1>10, <1>13, Zenon DEF Machine
  <2>4. Homes' = Homed(lc, pc)
    BY <2>1, Zenon DEF Homes
  <2> QED BY <2>2, <2>3, <2>4, Zenon
<1>17. ASSUME NEW r \in Homed(lc, pc)
       PROVE  At(m', get_reg_loc(lc, pc, r)) = vreg'[r] /\ vreg'[r] \in Val
  <2> DEFINE loc == get_reg_loc(lc, pc, r)
  <2>0. \A a : /\ Spill(a).kind = "STACK_SPILL" /\ Spill(a).slot = a
               /\ Phys(a).kind = "PHYSICAL_REG" /\ Phys(a).phys_reg = a
    BY DEF Spill, Phys
  <2>1. CASE r.type = "PARAM"
    <3>1. r.index \in P /\ loc = Spill(lc + 1 + r.index)
      BY <2>1, <1>3, LocOfHomed
    <3>2. At(m', loc) = slot[lc + 1 + r.index]
      BY <3>1, <2>0, <1>13 DEF At
    <3>3. vreg'[r] = args[r.index]
      BY <1>1, <2>1
    <3> QED BY <3>1, <3>2, <3>3, <1>8
  <2>2. CASE r.type # "PARAM"
    <3>1. vreg'[r] = At(x, loc)
      BY <1>1, <2>2
    <3>2. CASE r.index < kNumAllocatableRegs
      <4>0. ~ (r.index >= kNumAllocatableRegs)
        BY <3>2, <1>3, LocOfHomed, FrameConstants
      <4>1. r.index \in 0..2 /\ loc = Phys(saved_reg(r.index))
        BY <2>2, <4>0, <1>3, LocOfHomed
      <4>2. saved_reg(r.index) \in Saved
        BY <4>1 DEF saved_reg, Saved
      <4>3. At(x, loc) = reg[saved_reg(r.index)] /\ At(m', loc) = m'.reg[saved_reg(r.index)]
        BY <4>1, <2>0, Zenon DEF At
      <4> QED BY <3>1, <4>2, <4>3, <1>14, <1>15, Zenon
    <3>3. CASE ~ (r.index < kNumAllocatableRegs)
      <4>1. r.index \in Nat /\ r.index < lc /\ loc = Spill(r.index + 1)
        BY <3>3, <2>2, <1>3, LocOfHomed, FrameConstants
      <4>2. r.index + 1 \in F
        BY <4>1, <1>3, <1>4 DEF Frame
      <4>3. At(x, loc) = slot[r.index + 1] /\ At(m', loc) = slot[r.index + 1]
        BY <4>1, <2>0, <1>13 DEF At
      <4> QED BY <3>1, <4>2, <4>3, <1>10, Zenon
    <3> QED BY <3>2, <3>3
  <2> QED BY <2>1, <2>2
<1>18. vreg' \in [Homed(lc, pc) -> Val]
  <2>1. vreg' = [r \in Homed(lc, pc) |-> vreg'[r]]
    BY <1>1
  <2> QED BY <2>1, <1>17
<1>19. Agree'
  BY <1>1, <1>16, <1>17, Zenon DEF Agree, At, Loc
<1>20. Kept'
  <2>1. \A i \in 0..2 : saved_reg(i) \in Saved
    BY DEF saved_reg, Saved
  <2>2. fr'.lc = lc /\ (aot' <=> aot)
    BY <1>1
  <2>3. ASSUME ~ aot', NEW k \in SavedSlots(fr'.lc)
        PROVE  m'.slot[k] = Caller[saved_reg(k - 1)]
    BY <2>2, <2>3, <1>11, <1>13
  <2>4. ASSUME ~ aot', NEW i \in 0..2
        PROVE  m'.reg[saved_reg(i)] = Caller[saved_reg(i)]
    BY <2>1, <2>2, <2>4, <1>6, <1>14
  <2> QED BY <2>3, <2>4 DEF Kept
<1>21. Inside'
  <2>1. Homes' = Homed(lc, pc)
    BY <1>1 DEF Homes
  <2> QED BY <2>1, <1>16, <1>18, <1>19, <1>20, <1>15 DEF Inside
<1> QED BY <1>1, <1>16, <1>21 DEF LInv, SameEffect

\* The JIT's prologue preserves the caller's registers first.
LEMMA JitEnterInv ==
  ASSUME LInv, UNCHANGED aot, NEW lc \in 1..kMaxLocals, NEW pc \in 0..MaxParams, pc <= 6,
         NEW g \in Val, NEW args \in [0..(pc-1) -> Val], Enter(lc, pc, args, g)
  PROVE  LInv'
<1> DEFINE reg   == Passed(pc, args)
           slot0 == SaveRegs(reg, lc, pc, g)
<1>1. ~ Runs /\ Entered(lc, pc, args, slot0)
  BY DEF Enter, Passed, Entered
<1>2. \A r \in Saved : reg[r] \in Val /\ (~ aot => reg[r] = Caller[r])
  <2>1. m.reg \in [Regs -> Word] /\ pc \in 0..6
    BY <1>1, FrameConstants DEF LInv, Outside
  <2>2. \A r \in Saved : m.reg[r] \in Val /\ (~ aot => m.reg[r] = Caller[r])
    BY <1>1 DEF LInv, Outside
  <2> QED BY <2>1, <2>2, PassedFacts, Zenon
<1> HIDE DEF reg
<1>3. lc \in Nat /\ pc \in Nat
  BY FrameConstants
<1>4. SavedSlots(lc) \subseteq 1..3 /\ SavedSlots(lc) \subseteq Frame(lc, pc)
  <2>1. /\ saved_reg_count(lc) \in 0..3 /\ saved_reg_count(lc) <= lc
        /\ stack_frame_size(lc, pc) \div 8 \in Nat
        /\ lc + pc <= stack_frame_size(lc, pc) \div 8
    BY <1>3, LayoutFacts
  <2> QED BY <1>3, <2>1 DEF SavedSlots, Frame
<1>5. ASSUME NEW k \in SavedSlots(lc)
      PROVE  saved_reg(k - 1) \in Saved
  <2>1. k - 1 \in 0..2
    BY <1>4
  <2> QED BY <2>1 DEF saved_reg, Saved
<1>6. slot0 = [k \in Frame(lc, pc) |-> IF k \in SavedSlots(lc) THEN reg[saved_reg(k - 1)] ELSE g]
  BY DEF SaveRegs
<1> HIDE DEF slot0
<1>7. slot0 \in [Frame(lc, pc) -> Val]
  <2>1. \A k \in SavedSlots(lc) : reg[saved_reg(k - 1)] \in Val
    BY <1>2, <1>5
  <2> QED BY <1>6, <2>1
<1>8. ASSUME ~ aot, NEW k \in SavedSlots(lc)
      PROVE  slot0[k] = Caller[saved_reg(k - 1)]
  <2>1. reg[saved_reg(k - 1)] = Caller[saved_reg(k - 1)]
    BY <1>2, <1>5, <1>8
  <2> QED BY <2>1, <1>4, <1>6
<1> QED BY <1>1, <1>7, <1>8, EnterInv

\* The prologue ahead of time does not.
LEMMA AotEnterInv ==
  ASSUME LInv, UNCHANGED aot,
         aot, NEW lc \in 1..kMaxLocals, NEW pc \in 0..MaxParams, pc <= 6,
         NEW g \in Val, NEW args \in [0..(pc-1) -> Val], aot_enter(lc, pc, args, g)
  PROVE  LInv'
<1> DEFINE slot0 == [k \in Frame(lc, pc) |-> g]
<1>1. Entered(lc, pc, args, slot0)
  BY DEF aot_enter, Passed, Entered
<1>2. slot0 \in [Frame(lc, pc) -> Val]
  OBVIOUS
<1> HIDE DEF slot0
<1> QED BY <1>1, <1>2, EnterInv
-------------------------------------------------------------------------------

\* No function runs at first.
LEMMA LInvInit == Init => LInv
<1> SUFFICES ASSUME Init PROVE LInv
  OBVIOUS
<1>1. fr \in [lc : 0..kMaxLocals, pc : 0..MaxParams] /\ ~ Runs
  BY FrameConstants DEF Init, Runs
<1>2. m.reg = [r \in Regs |-> IF r \in Saved THEN Caller[r] ELSE Junk]
      /\ m = [reg |-> m.reg, slot |-> m.slot]
  BY DEF Init
<1>3. \A r \in Saved : Caller[r] \in Word
  BY LowererConstants, RegisterNames
<1>4. m.reg \in [Regs -> Word] /\ \A r \in Saved : m.reg[r] = Caller[r] /\ m.reg[r] \in Val
  BY <1>2, <1>3, RegisterNames, LowererConstants
<1> QED BY <1>1, <1>2, <1>4 DEF LInv, Outside, SameEffect, Init

\* Observing an effect changes no machine state.
LEMMA ObserveInv ==
  ASSUME LInv, UNCHANGED aot, fr' = fr, m' = m, vreg' = vreg, seen' = meant'
  PROVE  LInv'
BY DEF LInv, Inside, Outside, Machine, Kept, Agree, SameEffect, Runs, Homes, Loc

\* Every step of a function compiled in memory keeps the invariant.
LEMMA JitNext ==
  ASSUME LInv, UNCHANGED aot, Next
  PROVE  LInv'
<1>1. CASE Observe
  BY <1>1, ObserveInv DEF Observe
<1>2. CASE Frames
  BY <1>2, JitEnterInv DEF Frames
<1>3. CASE Registers
  <2>1. AluOps \subseteq AllOps /\ ShiftOps \subseteq AllOps /\ BitOps \subseteq AllOps /\ UnaryOps \subseteq AllOps
    BY DEF Ops, AllOps
  <2>2. PICK d \in Homes :
          \/ \E a, b \in Sources :
               \/ \E op \in AluOps : Encodable(b) /\ alu(op, d, a, b)
               \/ mul(d, a, b)
               \/ div(d, a, b)
               \/ \E op \in ShiftOps : shift(op, d, a, b)
               \/ \E op \in BitOps : (InReg(d) => b # RegOp(d)) /\ bit(op, d, a, b)
          \/ \E a \in Sources : neg(d, a) \/ \E op \in UnaryOps : unary(op, d, a)
          \/ \E c \in Val : move_const(d, c)
          \/ \E r \in Homes : move(d, r)
    BY <1>3 DEF Registers
  <2>3. ASSUME NEW a \in Sources, NEW b \in Sources, NEW op \in AllOps,
               \/ Encodable(b) /\ alu(op, d, a, b)
               \/ mul(d, a, b) \/ div(d, a, b) \/ shift(op, d, a, b)
               \/ (InReg(d) => b # RegOp(d)) /\ bit(op, d, a, b)
        PROVE  LInv'
    <3>1. CASE Encodable(b) /\ alu(op, d, a, b)
      BY <3>1, AluInv
    <3>2. CASE mul(d, a, b)
      BY <3>2, MulInv
    <3>3. CASE div(d, a, b)
      BY <3>3, DivInv
    <3>4. CASE shift(op, d, a, b)
      BY <3>4, ShiftInv
    <3>5. CASE (InReg(d) => b # RegOp(d)) /\ bit(op, d, a, b)
      BY <3>5, BitInv
    <3> QED BY <2>3, <3>1, <3>2, <3>3, <3>4, <3>5
  <2>4. "mul" \in AllOps
    BY DEF Ops, AllOps
  <2>5. CASE \E a, b \in Sources :
               \/ \E op \in AluOps : Encodable(b) /\ alu(op, d, a, b)
               \/ mul(d, a, b)
               \/ div(d, a, b)
               \/ \E op \in ShiftOps : shift(op, d, a, b)
               \/ \E op \in BitOps : (InReg(d) => b # RegOp(d)) /\ bit(op, d, a, b)
    BY <2>1, <2>3, <2>4, <2>5, Zenon
  <2>6. CASE \E a \in Sources : neg(d, a) \/ \E op \in UnaryOps : unary(op, d, a)
    BY <2>1, <2>6, NegInv, UnaryInv, Zenon
  <2> QED BY <2>2, <2>5, <2>6, MoveConstInv, MoveInv
<1>4. CASE Memory
  BY <1>4, StoreMemInv, RmwInv, XchgInv, LoadMemInv, CasInv, SimdInv DEF Memory
<1>5. CASE Calls
  BY <1>5, CallVirtInv, CallVirtToInv, NewInstanceInv, SinkMemInv DEF Calls
<1>6. CASE Control
  BY <1>6, IfCmpInv, ReturnValInv, ReturnVoidInv DEF Control
<1> QED BY <1>1, <1>2, <1>3, <1>4, <1>5, <1>6 DEF Next

\* Every step of a function compiled ahead of time does: most of its cases are
\* the JIT's.
LEMMA AotStep ==
  ASSUME LInv, UNCHANGED aot, aot, AotNext
  PROVE  LInv'
<1>1. CASE Observe
  BY <1>1, ObserveInv DEF Observe
<1>2. CASE AotEnter
  BY <1>2, AotEnterInv DEF AotEnter
<1>3. CASE AotRegisters
  <2>1. AotAluOps \subseteq AllOps /\ AotLogicOps \subseteq AllOps
    BY DEF AllOps
  <2>2. ShiftOps \subseteq AllOps
    BY DEF AllOps, Ops
  <2>3. PICK d \in Homes :
          \/ \E a, b \in Sources :
               \/ \E op \in AotAluOps : Apart(d, a, b) /\ aot_add_sub(op, d, a, b)
               \/ \E op \in AotLogicOps : Encodable(b) /\ alu(op, d, a, b)
               \/ mul(d, a, b)
               \/ div(d, a, b)
               \/ \E op \in ShiftOps : shift(op, d, a, b)
          \/ \E c \in Val : move_const(d, c)
          \/ \E r \in Homes : move(d, r)
    BY <1>3 DEF AotRegisters, aot_logic, aot_mul, aot_div, aot_shl, aot_shr, aot_ushr,
                aot_move_const, aot_lea, aot_move
  <2>4. ASSUME NEW a \in Sources, NEW b \in Sources,
               \/ \E op \in AotAluOps : Apart(d, a, b) /\ aot_add_sub(op, d, a, b)
               \/ \E op \in AotLogicOps : Encodable(b) /\ alu(op, d, a, b)
               \/ mul(d, a, b)
               \/ div(d, a, b)
               \/ \E op \in ShiftOps : shift(op, d, a, b)
        PROVE  LInv'
    <3>1. CASE \E op \in AotAluOps : Apart(d, a, b) /\ aot_add_sub(op, d, a, b)
      BY <3>1, <2>1, AotAddSubInv
    <3>2. CASE \E op \in AotLogicOps : Encodable(b) /\ alu(op, d, a, b)
      BY <3>2, <2>1, AluInv
    <3>3. CASE mul(d, a, b) \/ div(d, a, b)
      BY <3>3, MulInv, DivInv
    <3>4. CASE \E op \in ShiftOps : shift(op, d, a, b)
      BY <3>4, <2>2, ShiftInv
    <3> QED BY <2>4, <3>1, <3>2, <3>3, <3>4
  <2> QED BY <2>3, <2>4, MoveConstInv, MoveInv
<1>4. CASE AotMemory
  BY <1>4, StoreMemInv, RmwInv, LoadMemInv
     DEF AotMemory, aot_store_mem, aot_atomic_add, aot_load_mem
<1>5. CASE AotCalls
  BY <1>5, CallVirtInv, CallVirtToInv, AotNewInstanceInv, AotCallExternInv
     DEF AotCalls, aot_call_virt, aot_call_virt_to
<1>6. CASE AotControl
  BY <1>6, IfCmpInv, AotIfZeroInv, ReturnValInv, ReturnVoidInv
     DEF AotControl, aot_if_cmp, aot_return_val, aot_return_void
<1> QED BY <1>1, <1>2, <1>3, <1>4, <1>5, <1>6 DEF AotNext

\* Every step keeps the invariant.
LEMMA LInvNext == LInv /\ [BothNext]_avars => LInv'
<1> SUFFICES ASSUME LInv, [BothNext]_avars PROVE LInv'
  OBVIOUS
<1>1. CASE UNCHANGED avars
  <2>1. fr' = fr /\ m' = m /\ vreg' = vreg /\ seen' = meant' /\ UNCHANGED aot
    BY <1>1 DEF avars, LInv, SameEffect
  <2> QED BY <2>1, ObserveInv
<1> QED BY <1>1, JitNext, AotStep DEF BothNext

\* The invariant is strong enough.
LEMMA LInvImplies == LInv => TypeOK /\ Agree /\ SameEffect /\ JitCallerPreserved
<1> SUFFICES ASSUME LInv PROVE TypeOK /\ Agree /\ SameEffect /\ JitCallerPreserved
  OBVIOUS
<1>1. CASE Runs
  BY <1>1, RegisterNames DEF LInv, Inside, Machine, TypeOK, JitCallerPreserved, CallerPreserved
<1>2. CASE ~ Runs
  BY <1>2 DEF LInv, Outside, TypeOK, Agree, JitCallerPreserved, CallerPreserved
<1> QED BY <1>1, <1>2

\* The invariant holds of the code of both compilers, whatever the words, the
\* arithmetic and the sizes of the functions are.
THEOREM LowererInvariant == BothSpec => []LInv
<1>1. BothInit => LInv
  BY LInvInit DEF BothInit
<1> QED BY <1>1, LInvNext, PTL DEF BothSpec

\* The code either compiler generates keeps every virtual register in its home.
THEOREM LowererSafety == BothSpec => []Agree
BY LowererInvariant, LInvImplies, PTL

\* It has exactly the effects of the virtual instructions, with the stack aligned
\* at every call.
THEOREM LowererEffects == BothSpec => []SameEffect
BY LowererInvariant, LInvImplies, PTL

\* Code compiled in memory returns with the caller's registers as they were.
THEOREM LowererPreserves == BothSpec => []JitCallerPreserved
BY LowererInvariant, LInvImplies, PTL
===============================================================================

-------------------------- MODULE FrameLayout_proofs --------------------------
(***************************************************************************)
(* Facts about the frame layout, for every number of locals and            *)
(* parameters and every size of the allocator's tables.                    *)
(***************************************************************************)
EXTENDS FrameLayout, TLAPS

\* The time each prover has for a leaf.
USE SMTT(30), ZenonT(30)

\* The layout in numbers: which slots there are, and that the frame covers them.
LEMMA LayoutFacts ==
  ASSUME NEW lc \in Nat, NEW pc \in Nat
  PROVE  /\ saved_reg_count(lc) \in 0..3 /\ saved_reg_count(lc) <= lc
         /\ saved_reg_count(lc) <= kNumAllocatableRegs
         /\ kNumAllocatableRegs <= lc => saved_reg_count(lc) = kNumAllocatableRegs
         /\ saved_reg_count(lc) + SpillCount(lc) = lc
         /\ stack_frame_size(lc, pc) \div 8 \in Nat
         /\ lc + pc <= stack_frame_size(lc, pc) \div 8
<1>1. /\ saved_reg_count(lc) \in 0..3 /\ saved_reg_count(lc) <= lc
      /\ saved_reg_count(lc) <= kNumAllocatableRegs
      /\ kNumAllocatableRegs <= lc => saved_reg_count(lc) = kNumAllocatableRegs
  BY FrameConstants DEF saved_reg_count
<1>2. saved_reg_count(lc) + SpillCount(lc) = lc
  BY <1>1 DEF SpillCount
<1>3. stack_frame_size(lc, pc) = (((lc + pc) * 8 + 15) \div 16) * 16
  BY <1>2 DEF stack_frame_size, TotalSlots
<1>4. ASSUME NEW n \in Nat
      PROVE  LET f == ((n * 8 + 15) \div 16) * 16
             IN f \div 8 \in Nat /\ n <= f \div 8
  OBVIOUS
<1> QED BY <1>1, <1>2, <1>3, <1>4

\* The frame is a whole number of 16-byte units.
LEMMA FrameAligned ==
  ASSUME NEW lc \in Nat, NEW pc \in Nat
  PROVE  stack_frame_size(lc, pc) % 16 = 0
<1>1. TotalSlots(lc, pc) = lc + pc
  BY LayoutFacts DEF TotalSlots
<1>2. \A n \in Nat : (((n * 8 + 15) \div 16) * 16) % 16 = 0
  OBVIOUS
<1> QED BY <1>1, <1>2 DEF stack_frame_size

\* Where a register with a home lives.
LEMMA LocOfHomed ==
  ASSUME NEW lc \in Nat, NEW pc \in Nat, NEW r \in Homed(lc, pc)
  PROVE  /\ r = [type |-> r.type, index |-> r.index]
         /\ r.index \in Nat
         /\ \/ /\ r.type = "PARAM" /\ r.index < pc
               /\ get_reg_loc(lc, pc, r) = Spill(lc + 1 + r.index)
            \/ /\ r.type = "LOCAL" /\ r.index < lc /\ r.index < kNumAllocatableRegs
               /\ r.index \in 0..2
               /\ get_reg_loc(lc, pc, r) = Phys(saved_reg(r.index))
            \/ /\ r.type = "LOCAL" /\ r.index < lc /\ r.index >= kNumAllocatableRegs
               /\ get_reg_loc(lc, pc, r) = Spill(r.index + 1)
<1>1. r = [type |-> r.type, index |-> r.index] /\ r.index \in Nat /\ r.type \in {"LOCAL", "PARAM"}
      /\ r.index < (IF r.type = "PARAM" THEN pc ELSE lc)
  BY FrameConstants DEF Homed, Register
<1>2. saved_reg_count(lc) + SpillCount(lc) = lc
      /\ (kNumAllocatableRegs <= lc => saved_reg_count(lc) = kNumAllocatableRegs)
      /\ kNumAllocatableRegs \in 1..3
  BY LayoutFacts, FrameConstants
<1>3. CASE r.type = "PARAM"
  BY <1>1, <1>2, <1>3 DEF get_reg_loc, get_param_loc
<1>4. CASE r.type = "LOCAL" /\ r.index < kNumAllocatableRegs
  BY <1>1, <1>2, <1>4 DEF get_reg_loc, get_local_loc
<1>5. CASE r.type = "LOCAL" /\ r.index >= kNumAllocatableRegs
  <2>1. saved_reg_count(lc) + (r.index - kNumAllocatableRegs) + 1 = r.index + 1
    BY <1>1, <1>2, <1>5
  <2> QED BY <2>1, <1>1, <1>2, <1>5 DEF get_reg_loc, get_local_loc
<1> QED BY <1>1, <1>2, <1>3, <1>4, <1>5

\* The three allocatable registers are different ones.
LEMMA SavedRegsDiffer ==
  ASSUME NEW i \in 0..2, NEW j \in 0..2, saved_reg(i) = saved_reg(j)
  PROVE  i = j
BY DEF saved_reg

\* Two registers with one home are the same register.
LEMMA LocInjective ==
  ASSUME NEW lc \in Nat, NEW pc \in Nat,
         NEW r \in Homed(lc, pc), NEW q \in Homed(lc, pc),
         get_reg_loc(lc, pc, q) = get_reg_loc(lc, pc, r)
  PROVE  q = r
<1>1. \A a, b : (Spill(a) = Spill(b) => a = b) /\ Spill(a) # Phys(b) /\ (Phys(a) = Phys(b) => a = b)
  BY DEF Spill, Phys
<1> DEFINE
      InParam(x) == x.type = "PARAM" /\ x.index < pc /\ get_reg_loc(lc, pc, x) = Spill(lc + 1 + x.index)
      InReg(x) == x.type = "LOCAL" /\ x.index \in 0..2 /\ get_reg_loc(lc, pc, x) = Phys(saved_reg(x.index))
      InSpill(x) == x.type = "LOCAL" /\ x.index < lc /\ get_reg_loc(lc, pc, x) = Spill(x.index + 1)
<1>2. /\ q = [type |-> q.type, index |-> q.index] /\ q.index \in Nat
      /\ InParam(q) \/ InReg(q) \/ InSpill(q)
  BY LocOfHomed
<1>3. /\ r = [type |-> r.type, index |-> r.index] /\ r.index \in Nat
      /\ InParam(r) \/ InReg(r) \/ InSpill(r)
  BY LocOfHomed
<1>4. CASE InReg(q)
  <2>1. InReg(r) /\ saved_reg(q.index) = saved_reg(r.index)
    BY <1>4, <1>3, <1>1
  <2> QED BY <2>1, <1>2, <1>3, <1>4, SavedRegsDiffer
<1>5. CASE InParam(q)
  <2>1. InParam(r) \/ InSpill(r)
    BY <1>5, <1>3, <1>1
  <2>2. ASSUME InSpill(r) PROVE lc + 1 + q.index = r.index + 1
    BY <1>5, <2>2, <1>1, Zenon
  <2>3. ASSUME InParam(r) PROVE lc + 1 + q.index = lc + 1 + r.index
    BY <1>5, <2>3, <1>1, Zenon
  <2>4. q.index = r.index /\ q.type = r.type
    BY <1>5, <1>2, <1>3, <2>1, <2>2, <2>3
  <2> QED BY <2>4, <1>2, <1>3
<1>6. CASE InSpill(q)
  <2>1. InParam(r) \/ InSpill(r)
    BY <1>6, <1>3, <1>1
  <2>2. ASSUME InSpill(r) PROVE q.index + 1 = r.index + 1
    BY <1>6, <2>2, <1>1, Zenon
  <2>3. ASSUME InParam(r) PROVE q.index + 1 = lc + 1 + r.index
    BY <1>6, <2>3, <1>1, Zenon
  <2>4. q.index = r.index /\ q.type = r.type
    BY <1>6, <1>2, <1>3, <2>1, <2>2, <2>3
  <2> QED BY <2>4, <1>2, <1>3
<1> QED BY <1>2, <1>4, <1>5, <1>6

\* A home on the stack is inside the frame and off the saved registers.
LEMMA SpillInFrame ==
  ASSUME NEW lc \in Nat, NEW pc \in Nat, NEW r \in Homed(lc, pc),
         get_reg_loc(lc, pc, r).kind = "STACK_SPILL"
  PROVE  get_reg_loc(lc, pc, r).slot \in (1..(stack_frame_size(lc, pc) \div 8)) \ SavedSlots(lc)
<1>1. \A a : Spill(a).slot = a /\ Phys(a).kind # "STACK_SPILL"
  BY DEF Spill, Phys
<1> QED BY <1>1, LocOfHomed, LayoutFacts, FrameConstants DEF SavedSlots
===============================================================================

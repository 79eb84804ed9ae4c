------------------------------ MODULE FrameLayout -----------------------------
(***************************************************************************)
(* Where the virtual registers of a function live in its x86-64 frame, as  *)
(* AnaRegAlloc (src/src/backend/ana_regalloc.cpp) lays them out from two   *)
(* counts: lc (local_count_) and pc (param_count_).  Displacements are in  *)
(* slots of eight bytes: slot k is [rbp - 8*k].  From rbp downwards come   *)
(* the caller's callee-saved registers, the spilled locals, the parameters.*)
(***************************************************************************)
EXTENDS Integers

CONSTANTS
  kMaxLocals,           \* 1024 in the code
  kNumAllocatableRegs,  \* 3: RBX, R12, R13
  MaxParams,            \* 8, the size of param_locs_
  MaxIndex              \* 2^32 - 1, the greatest register number (an uint32_t)

ASSUME FrameConstants ==
  /\ kMaxLocals \in Nat \ {0} /\ MaxParams \in Nat /\ MaxIndex \in Nat
  /\ kMaxLocals <= MaxIndex /\ MaxParams <= MaxIndex
  /\ kNumAllocatableRegs \in 1..3

Local(i) == [type |-> "LOCAL", index |-> i]
Param(i) == [type |-> "PARAM", index |-> i]
Register == [type : {"LOCAL", "PARAM"}, index : 0..MaxIndex]
-------------------------------------------------------------------------------
saved_reg_count(lc) == IF lc < kNumAllocatableRegs THEN lc ELSE kNumAllocatableRegs
SpillCount(lc) == lc - saved_reg_count(lc)
TotalSlots(lc, pc) == saved_reg_count(lc) + SpillCount(lc) + pc

\* (total_slots * 8 + 15) & ~15, 0 without slots.
stack_frame_size(lc, pc) == ((TotalSlots(lc, pc) * 8 + 15) \div 16) * 16

\* The slot that saved_reg_disp gives the i-th preserved register.
SavedSlots(lc) == 1..saved_reg_count(lc)
saved_reg(i) == <<"RBX", "R12", "R13">>[i + 1]

Phys(r)  == [kind |-> "PHYSICAL_REG", phys_reg |-> r, slot |-> 0]
Spill(k) == [kind |-> "STACK_SPILL", phys_reg |-> "NONE", slot |-> k]

\* What get_local_loc answers for a register that has no home.
ScratchSlot(lc, pc) ==
  Spill(IF stack_frame_size(lc, pc) > 0 THEN stack_frame_size(lc, pc) \div 8 ELSE 1)

\* Seeded fault: the spill counter is advanced after it is used.
SpillFromSavedSlot(lc, pc, i) ==
  IF i >= lc THEN ScratchSlot(lc, pc)
  ELSE IF i < kNumAllocatableRegs THEN Phys(saved_reg(i))
  ELSE Spill(saved_reg_count(lc) + (i - kNumAllocatableRegs))

get_local_loc(lc, pc, i) ==
  IF i >= lc THEN ScratchSlot(lc, pc)
  ELSE IF i < kNumAllocatableRegs THEN Phys(saved_reg(i))
  ELSE Spill(saved_reg_count(lc) + (i - kNumAllocatableRegs) + 1)

\* The fallback of a parameter; its displacement is an int32_t, so this is the
\* slot for numbers below 2^28.
get_param_loc(lc, pc, i) ==
  IF i < pc THEN Spill(saved_reg_count(lc) + SpillCount(lc) + 1 + i)
            ELSE Spill(i + 1)

get_reg_loc(lc, pc, r) ==
  IF r.type = "PARAM" THEN get_param_loc(lc, pc, r.index)
                      ELSE get_local_loc(lc, pc, r.index)

get_param_raw_reg(i) ==
  IF i < 6 THEN <<"RDI", "RSI", "RDX", "RCX", "R8", "R9">>[i + 1] ELSE "RDI"

\* The registers for which allocate_registers has laid out a location.
Homed(lc, pc) ==
  {r \in Register : r.index < (IF r.type = "PARAM" THEN pc ELSE lc)}
===============================================================================

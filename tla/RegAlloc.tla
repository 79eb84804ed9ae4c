------------------------------- MODULE RegAlloc -------------------------------
(***************************************************************************)
(* allocate_registers: a function is parsed operand by operand, then its   *)
(* operands are scanned for the registers they name and the frame is laid  *)
(* out.  Of an instruction only its three operands matter here.            *)
(***************************************************************************)
EXTENDS FrameLayout, FiniteSets

CONSTANT MaxOperands  \* bound: distinct operands of the functions TLC explores

VARIABLES
  local_count,  \* fn->local_count, from .registers (0 when absent)
  param_count,  \* fn->param_count, from the parameter list (0 when empty)
  operands,     \* the operands of all instructions of the function
  phase,        \* "parse" until allocate_registers has run for this function
  counts        \* the allocator's result, the counts lc and pc

vars == <<local_count, param_count, operands, phase, counts>>

Operand == [kind : {"REGISTER", "MEM_OFFSET"}, reg : Register]
-------------------------------------------------------------------------------
Named(type) ==
  {o.reg.index : o \in {p \in operands : p.kind = "REGISTER" /\ p.reg.type = type}}

\* One more than the largest member of S, 0 for none: what the scanning loops
\* leave in max_reg + 1 and in max_param.
IsAbove(n, S) == \A i \in S : i < n
Above(S) ==
  CHOOSE n \in 0..(MaxIndex + 1) :
    IsAbove(n, S) /\ \A k \in 0..(MaxIndex + 1) : IsAbove(k, S) => n <= k

MaxOf(a, b) == IF a > b THEN a ELSE b
MinOf(a, b) == IF a < b THEN a ELSE b

\* A sum of the code, an uint32_t: one more than the greatest index is 0.
Wrapped(n) == n % (MaxIndex + 1)

\* max_reg + 1 wraps after the whole scan.
LocalCount ==
  MinOf(Wrapped(MaxOf(1, MaxOf(local_count, Above(Named("LOCAL"))))), kMaxLocals)

\* op.reg.index + 1 wraps operand by operand: the greatest index counts for nothing.
CountedParams == {i \in Named("PARAM") : Wrapped(i + 1) > 0}

\* Seeded fault: a declared parameter list stops the scan.
DeclaredParamCount ==
  MinOf(IF param_count > 0 THEN param_count ELSE Above(CountedParams), MaxParams)
ParamCount == MinOf(MaxOf(param_count, Above(CountedParams)), MaxParams)

Init ==
  /\ local_count \in 0..MaxIndex /\ param_count \in 0..MaxIndex
  /\ operands = {}
  /\ phase = "parse" /\ counts = [lc |-> 0, pc |-> 0]

\* The parser appends an instruction that has operand o.
AddOperand(o) ==
  /\ phase = "parse"
  /\ operands' = operands \cup {o}
  /\ UNCHANGED <<local_count, param_count, phase, counts>>

allocate_registers ==
  /\ phase = "parse"
  /\ phase' = "allocated"
  /\ counts' = [lc |-> LocalCount, pc |-> ParamCount]
  /\ UNCHANGED <<local_count, param_count, operands>>

\* The next function of the program gets an allocator of its own.
NextFunction ==
  /\ phase = "allocated"
  /\ local_count' \in 0..MaxIndex /\ param_count' \in 0..MaxIndex
  /\ operands' = {}
  /\ phase' = "parse" /\ counts' = [lc |-> 0, pc |-> 0]

Next ==
  \/ \E o \in Operand : AddOperand(o)
  \/ allocate_registers
  \/ NextFunction

Spec == Init /\ [][Next]_vars

\* State constraint, no part of Spec.
FewOperands == Cardinality(operands) <= MaxOperands
-------------------------------------------------------------------------------
Loc(r) == get_reg_loc(counts.lc, counts.pc, r)
FrameSlots == 1..(stack_frame_size(counts.lc, counts.pc) \div 8)
Homes == Homed(counts.lc, counts.pc)

InTables(r) == r.index < (IF r.type = "PARAM" THEN MaxParams ELSE kMaxLocals)
CountWraps(type) == type = "LOCAL" /\ MaxIndex \in Named("LOCAL")

TypeOK ==
  /\ local_count \in 0..MaxIndex /\ param_count \in 0..MaxIndex
  /\ operands \subseteq Operand
  /\ phase \in {"parse", "allocated"}
  /\ counts \in [lc : 0..kMaxLocals, pc : 0..MaxParams]

\* Two registers with a home never share it, and a home on the stack lies
\* inside the frame, off the slots in which the prologue preserves the
\* caller's callee-saved registers.
HomesPrivate ==
  \A r \in Homes :
    /\ \A q \in Homes : Loc(q) = Loc(r) => q = r
    /\ Loc(r).kind = "STACK_SPILL" =>
         Loc(r).slot \in FrameSlots \ SavedSlots(counts.lc)

\* Every register that is itself an operand, with a number inside the tables,
\* has a home of its own, whatever counts the function declares; for locals
\* unless the function names the greatest index of all, whose successor is 0
\* (ana_regalloc.cpp:54).  Registers that are only the base of a memory operand
\* are not scanned (:81): see BaseParamsOffSavedSlots.
RegisterOperandsHaveHomes ==
  phase = "allocated" =>
    \A o \in operands :
      o.kind = "REGISTER" /\ InTables(o.reg) /\ ~ CountWraps(o.reg.type) => o.reg \in Homes

\* "Out-of-range register: point at a reserved scratch slot rather than
\* computing a displacement that collides with a live local."
\* (ana_regalloc.cpp:142)
ScratchSlotIsReserved ==
  phase = "allocated" =>
    \A o \in operands :
      o.reg.type = "LOCAL" /\ o.reg.index >= counts.lc
        => \A r \in Homes : r.type = "LOCAL" => Loc(r) # Loc(o.reg)

\* "Updated `check_p` to inspect `MEM_OFFSET` base registers": no parameter
\* that is the base of a memory operand falls back to the slot of a callee-saved
\* register. (src/README.md:208)
BaseParamsOffSavedSlots ==
  phase = "allocated" =>
    \A o \in operands :
      o.kind = "MEM_OFFSET" /\ o.reg.type = "PARAM"
        => Loc(o.reg).slot \notin SavedSlots(counts.lc)
===============================================================================

SPECIFICATION Spec
CONSTANTS
  kMaxLocals = 4
  kNumAllocatableRegs = 3
  MaxParams = 2
  MaxIndex = 5
  MaxOperands = 3
CONSTRAINT FewOperands
INVARIANT BaseParamsOffSavedSlots

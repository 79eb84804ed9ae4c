SPECIFICATION BothSpec
CONSTANTS
  Junk = Junk
  kMaxLocals = 4
  kNumAllocatableRegs = 3
  MaxParams = 2
  MaxIndex = 4
  Val <- MCVal
  Alu <- MCAlu
  Imm <- MCImm
  Caller <- MCCaller
  AluOps = {"sub"}
  AotAluOps = {"sub"}
  AotLogicOps = {"xor"}
  ShiftOps = {"shl", "shr", "ushr"}
  BitOps = {"bts"}
  UnaryOps = {"popcount"}
  RmwOps = {"add"}
  CondOps = {"lt", "z"}
INVARIANTS
  Agree
  SameEffect
  JitCallerPreserved

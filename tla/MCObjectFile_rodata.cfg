SPECIFICATION Spec
CONSTANTS
  InitialCapacity = 64
  RingSize = 3
  Fds = {1, 2, 3}
  Cuts = {1, 2, 3, 4}
  Jobs = {"x86_64", "aarch64"}
  Functions <- MCFunctions
  Externs <- MCExterns
  Strings <- MCStrings
  CodeSizes = {12}
  Spills = {3}
  ImageSizes = {0, 1, 12, 15, 512}
  MaxAsks = 2
  MaxEntries = 3
  MaxPrint = 5
INVARIANTS
  WrittenAsDeclared
CHECK_DEADLOCK FALSE

SPECIFICATION PartSpec
CONSTANTS
  Written <- MCWritten
  Damaged <- Single
  MaxJumps = 3
  MaxKnown = 1
  NumParams = 2
  NumLocals = 4
  MaxBreakpoints = 2
  BreakLabels = {"exit"}
  BreakLines = {2}
  MaxClasses = 2
  MaxFields = 4
  Page = 16
  ChunkHeader = 4
  DefaultChunk = 16
  Top = 100
  Requests <- MCRequests
  LastPage = 7
  MaxChunks = 2
INVARIANTS
  KeepsMeaning
  AcceptedAsWritten
  DebuggerAgrees
  FieldsApart
  BlocksPrivate
PROPERTIES
  OffsetsKept
CHECK_DEADLOCK FALSE

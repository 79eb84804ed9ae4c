SPECIFICATION BothSpec
CONSTANTS
  PageSize = 8
  kMaxLabels = 2
  kMaxRelocs = 2
  EmitSizes = {1, 8}
  RelMax = 11
  MaxCode = 11
INVARIANTS
  NoOverrun
  LinkedAsAsked
  ImageHoldsCode
  RefusedForCause
  DecodesAsAsked

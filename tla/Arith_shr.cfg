\* Words of 8 bits and halves of 4: every sign-extended half is an operand, and
\* so are words around the edges of the half and the word.
SPECIFICATION Spec
CONSTANTS
  WordBits = 8
  HalfBits = 4
  Operands = {0, 1, 2, 3, 4, 5, 6, 7, 248, 249, 250, 251, 252, 253, 254, 255,
              8, 15, 16, 17, 126, 127, 128, 129, 240, 247}
INVARIANT ShrIsLogical
CHECK_DEADLOCK FALSE

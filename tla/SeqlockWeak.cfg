\* The orders the code asks for, one writer.
SPECIFICATION Spec
CONSTANTS
  Writers = {w1}
  Words = 2
  MaxWrites = 3
  ProgramOrder = FALSE
INVARIANT NoHalfWrittenFrame

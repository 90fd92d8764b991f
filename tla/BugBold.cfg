\* What is on the terminal, when child, fep and clients write to it.
CONSTANTS
  SgrCaps <- MCSgrCaps
  SgrCap <- MCSgrCap
  Cols = 3
  Char <- MCChar
  MaxRows = 4
  Outputs <- MCOutputs
  Texts <- MCTexts
  Attributes <- MCAttributes
  Sizes = {3, 4}
  MaxSteps = 4
SPECIFICATION Spec
INVARIANT BoldStaysBold
\* A history ends after MaxSteps steps.
CHECK_DEADLOCK FALSE

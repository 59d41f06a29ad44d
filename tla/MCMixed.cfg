SPECIFICATION Spec
CONSTANTS
  Texts <- MCTexts
  MaxTokens = 7
  MaxLeaves = 5
INVARIANT StackInBounds
INVARIANT ExpressionAccepted
INVARIANT ValueIsMeaning

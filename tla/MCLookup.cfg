SPECIFICATION FairSpec
CONSTANTS
  Names = {1, 2, 3, 4, 5, 6, 7}
  MaxCount = 5
INVARIANT SearchCorrect
PROPERTY SearchEnds

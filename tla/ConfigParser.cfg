SPECIFICATION FairSpec
CONSTANTS
  Letters = {"a"}
  MaxChars = 4
  MaxMarks = 8
  Texts <- MCTexts
CHECK_DEADLOCK FALSE
INVARIANTS TypeOK StackSafe BlocksFormTree  KeepsTokens
PROPERTY Terminates

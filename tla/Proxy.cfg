SPECIFICATION FairSpec
CONSTANTS
  Urls <- MCUrls
  None = 0
  Webs <- MCWebs
  MaxResponse = 4
INVARIANT RelaysBodies
PROPERTY RequestAnswered
CHECK_DEADLOCK FALSE

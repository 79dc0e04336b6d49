SPECIFICATION FairSpec
CONSTANTS
  MaxStatements = 3
  Configs <- MCConfigs
  Alphabet <- MCAlphabet
  Paths <- MCPaths
  Files <- MCFiles
CHECK_DEADLOCK FALSE
INVARIANTS PortKept  ShortestLocation LocationChecked 
 

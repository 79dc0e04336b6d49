SPECIFICATION FairSpec
CONSTANTS
  Letters = {"a", "b"}
  max_length = 24
  Streams <- MCStreams
CHECK_DEADLOCK FALSE
INVARIANTS TypeOK ParsesRequests SplitReadsAgree ValidHasPath
PROPERTY EveryReadParsed

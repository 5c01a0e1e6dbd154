SPECIFICATION Spec
CONSTANTS
  Depth = 2
  Chunks = 2
  Room = 5
  ReplyOrder <- MCReplyOrder
  ReplySize <- MCReplySize
  Changes = {"io", "mag"}
  Superframe <- MCSuperframe
PROPERTIES
  ImplementsFifo
  Answered
  ChangesReported
  SuperframeGoesOn

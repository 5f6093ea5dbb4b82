CONSTANTS
  Clients = {c1, c2}
  Keys = {k1}
  k1 = k1
  k2 = k2
  Commands <- LiveCommands
  Piped <- LivePiped
  NoClient = NoClient
  NoKey = NoKey
  StreamKeys = {k1}
  MaxLen = 1
  MaxWait = 1
  MaxPipeline = 1
SPECIFICATION LiveSpec
PROPERTIES
  TimedWaitEnds
  PipelineResumes
CHECK_DEADLOCK FALSE

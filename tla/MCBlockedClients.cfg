CONSTANTS
  Clients = {c1, c2}
  Keys = {k1, k2}
  k1 = k1
  k2 = k2
  Commands <- MCCommands
  Piped <- MCPiped
  NoClient = NoClient
  NoKey = NoKey
  StreamKeys = {k1}
  MaxLen = 2
  MaxWait = 1
  MaxPipeline = 1
SPECIFICATION Spec
INVARIANTS
  TypeOK
  TablesAgree
  NoLostWakeup
  AnsweredOnce
  KeepsItsPlace
CHECK_DEADLOCK FALSE
SYMMETRY ClientSymmetry

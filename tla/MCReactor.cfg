\* Two connections, two client slots; the first brings more replies than one writev takes.
CONSTANTS
  FdBase = 4
  SetSize = 7
  MaxClients = 2
  MaxConns = 2
  MaxReq <- TwoThenOne
  ReadMax = 2
  WriteMax = 1
  AcceptMax = 1
  HighWater = 1
SPECIFICATION LiveSpec
INVARIANTS
  TypeOK
  ReplyPipeline
  NoStrandedReplies
  ListsMatchFlags
  SocketsOwned
  HandlerHasClient
PROPERTIES
  QuitFlushesToHost
  RefinesReplyStream
  RequestsAnswered
  DeadPeersReaped
  QuitCloses

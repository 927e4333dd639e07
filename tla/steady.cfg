SPECIFICATION FairSpec
CONSTANTS
  Procs = {"a1", "b"}
  IdOf <- MCIdOf
  Topics = {"news", "sport"}
  Substring <- MCSubstring
  MaxFd = 6
  MaxClients = 2
  MaxTopics = 3
  MaxSubscribers = 3
  MaxUnreceived = 2
  StackFill <- ZeroFill
  Commands <- NewsAndSport
  MaxCommands <- One
  MaxPublish = 2
  After <- NoOrder
  MayExit = {}
  MayStop = FALSE
  EagerUsers = FALSE
  NoProc = NoProc
  NoId = NoId
INVARIANTS NoLoss
PROPERTIES ConnectServed Delivered ServerReturns Serves

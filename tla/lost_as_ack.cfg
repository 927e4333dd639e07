SPECIFICATION Spec
CONSTANTS
  Procs = {"a1"}
  IdOf <- MCIdOf
  Topics = {"news"}
  Substring <- MCSubstring
  MaxFd = 5
  MaxClients = 1
  MaxTopics = 1
  MaxSubscribers = 2
  MaxUnreceived = 2
  StackFill <- ZeroFill
  Commands <- SubUnsubNews
  MaxCommands <- Two
  MaxPublish = 2
  After <- NoOrder
  MayExit = {}
  MayStop = FALSE
  EagerUsers = FALSE
  NoProc = NoProc
  NoId = NoId
INVARIANTS NoLoss

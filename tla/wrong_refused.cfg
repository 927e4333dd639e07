SPECIFICATION Spec
CONSTANTS
  Procs = {"a1", "a2", "b"}
  IdOf <- MCIdOf
  Topics = {"news"}
  Substring <- MCSubstring
  MaxFd = 7
  MaxClients = 2
  MaxTopics = 1
  MaxSubscribers = 2
  MaxUnreceived = 2
  StackFill <- ZeroFill
  Commands <- StoreNews
  MaxCommands <- None
  MaxPublish = 0
  After <- NoOrder
  MayExit = {}
  MayStop = FALSE
  EagerUsers = FALSE
  NoProc = NoProc
  NoId = NoId
INVARIANTS OthersStayConnected

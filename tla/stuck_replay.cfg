SPECIFICATION FairSpec
CONSTANTS
  Procs = {"a1", "a2", "b"}
  IdOf <- MCIdOf
  Topics = {"news"}
  Substring <- MCSubstring
  MaxFd = 7
  MaxClients = 2
  MaxTopics = 2
  MaxSubscribers = 2
  MaxUnreceived = 3
  StackFill <- ZeroFill
  Commands <- StoreNews
  MaxCommands <- FirstOnly
  MaxPublish = 1
  After <- InTurn
  MayExit = {"a1", "a2"}
  MayStop = FALSE
  EagerUsers = FALSE
  NoProc = NoProc
  NoId = NoId
PROPERTIES ConnectServed

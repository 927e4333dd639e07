SPECIFICATION Spec
CONSTANTS
  Procs = {"a1", "a2", "a3"}
  IdOf <- MCIdOf
  Topics = {"news", "sport"}
  Substring <- MCSubstring
  MaxFd = 7
  MaxClients = 1
  MaxTopics = 2
  MaxSubscribers = 2
  MaxUnreceived = 3
  StackFill <- ZeroFill
  Commands <- NewsOrSport
  MaxCommands <- FirstOnly
  MaxPublish = 4
  After <- InTurn
  MayExit = {"a1", "a2"}
  MayStop = FALSE
  EagerUsers = FALSE
  NoProc = NoProc
  NoId = NoId
INVARIANTS RefusesLast NoGap NoLoss StoredOnlyOffline PrintsWanted
PROPERTIES InOrderOnce Implements
CHECK_DEADLOCK FALSE

SPECIFICATION Spec
CONSTANTS
  Procs = {"a1", "a2", "b"}
  IdOf <- MCIdOf
  Topics = {"news", "newsletter"}
  Substring <- MCSubstring
  MaxFd = 7
  MaxClients = 2
  MaxTopics = 2
  MaxSubscribers = 2
  MaxUnreceived = 1
  StackFill <- ZeroFill
  Commands <- SubUnsubNews
  MaxCommands <- FirstAndB
  MaxPublish = 1
  After <- NoOrder
  MayExit = {"a1"}
  MayStop = FALSE
  EagerUsers = TRUE
  NoProc = NoProc
  NoId = NoId
INVARIANTS RegistryIdsUnique TopicNamesUnique StoredOnlyOffline
PROPERTIES EntriesStay
CHECK_DEADLOCK FALSE

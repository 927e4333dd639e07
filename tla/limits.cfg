SPECIFICATION Spec
CONSTANTS
  Procs = {"a1", "b"}
  IdOf <- MCIdOf
  Topics = {"news", "newsletter", "sport"}
  Substring <- MCSubstring
  MaxFd = 5
  MaxClients = 1
  MaxTopics = 2
  MaxSubscribers = 2
  MaxUnreceived = 1
  StackFill <- DirtyFill
  Commands <- SubUnsubNews
  MaxCommands <- Two
  MaxPublish = 2
  After <- NoOrder
  MayExit = {"a1", "b"}
  MayStop = TRUE
  EagerUsers = TRUE
  NoProc = NoProc
  NoId = NoId
INVARIANTS SubscribersResolve HandlerHasWork
CHECK_DEADLOCK FALSE

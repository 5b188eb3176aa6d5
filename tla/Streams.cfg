SPECIFICATION TabSpec
CONSTANTS
  Tabs = {"Logs", "Scrollback", "Server"}
  forwardChanDepth = 1
  Tails = {0, 2}
  MaxLog = 3
  MAX_RECONNECT_ATTEMPTS = 1
  initialTail = 2
  appLogTailLines = 2
  MaxSockets = 2
  e1 = e1  e2 = e2  e3 = e3
  app1 = app1  app2 = app2
  ClusterEvents = {e1, e2, e3}
  Apps = {app1, app2}
  NoApp = NoApp
  Derived <- MCDerived
  Transition <- MCTransition
  appEventLimit = 1
  MaxClock = 2
  r1 = r1  r2 = r2
  Requests = {r1, r2}
  Kinds = {"page", "upload", "public", "watch", "logs"}
  Users = {"alice"}
  Peers = {"ip:1"}
  Environments <- MCEnvironments
  rateLimitBurst = 1
  rateLimitIdleTimeout = 1
  requestTimeout = 1
  shutdownTimeout = 1
  MaxLate = 1
INVARIANTS StreamsTypeOK InOrder OneAuditEntry ScrollbackInOrder
  AtMostTheRate CleanExitCutsNothing
PROPERTIES GoroutinesEnd ConfigSound ShutdownEnds
CHECK_DEADLOCK FALSE

CONSTANTS
  NrModule = 2
  Fibers = {1, 2, 3}
  NoFiber = NoFiber
  SeqNames <- Names
  Categories = {"news"}
  Script <- ProgressScript
  Clients = {c1}
  ExtCalls <- ProgressRequests
  MaxExt = 1
  MayTeardown = TRUE
  ClientIdMod = 4
SPECIFICATION FairSpec
ACTION_CONSTRAINT FirstFree
PROPERTIES SyncRequestsReturn DeferredAreHandled TimedRequestsReturn TeardownEnds UsesEventQueues
CHECK_DEADLOCK FALSE

CONSTANTS
  NrModule = 2
  Fibers = {f1, f2, f3, f4}
  NoFiber = NoFiber
  SeqNames <- Names
  Categories = {"news"}
  Script <- CallsScript
  Clients = {c1}
  ExtCalls <- CallsRequests
  MaxExt = 2
  MayTeardown = FALSE
  ClientIdMod = 4
SPECIFICATION Spec
SYMMETRY FiberSymmetry
CONSTRAINT OneProgram
INVARIANTS TypeOK LockHolderLive NothingStranded LockExclusion ClientGetsOwnReply PendingFibersLive AsyncAccounting NoFiberForgotten
PROPERTIES RequestGetsItsReply AnswersRequests AnswersComeFromCallee CollectsInArrivalOrder

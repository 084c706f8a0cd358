CONSTANTS
  NrModule = 2
  Fibers = {f1, f2, f3}
  NoFiber = NoFiber
  SeqNames <- Names
  Categories = {"news"}
  Script <- HandlerLockScript
  Clients = {c1}
  ExtCalls <- HandlerLockRequests
  MaxExt = 2
  MayTeardown = FALSE
  ClientIdMod = 4
SPECIFICATION Spec
SYMMETRY FiberSymmetry
INVARIANTS LockExclusion

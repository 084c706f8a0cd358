CONSTANTS
  MsPerSec = 2
  NsPerMs = 1
  Posters = {p1}
  Sched = Sched
  Owner = Owner
  NoThread = NoThread
  Events = {e1, e2, e3}
  NULL = NULL
  Fibers = {f1, f2}
  NoFiber = NoFiber
  Timeouts = {1}
  MaxClock <- Horizon
SPECIFICATION FairSpec
INVARIANTS TypeOK ListsHoldWhatWasPosted EventsInOnePlace NoLostWakeup NoTimerOverslept NoTimerEarly
PROPERTIES ImplementsEventQueue PostedIsTaken ExpiredFires StopIsSeen
CHECK_DEADLOCK FALSE

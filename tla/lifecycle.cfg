CONSTANTS
  MaxModule = 3
  Sizes <- Tables
SPECIFICATION FairSpec
INVARIANTS TypeOK MutexesOutliveThreads StopsOnlyWhatWasStarted AllOrNothing NothingLeft
PROPERTIES CallsReturn

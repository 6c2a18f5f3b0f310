\* Three events against a queue of one.  With one worker, the default, a producer waits
\* for room while the only flush hangs; with two, batches are gathered side by side.  One
\* of two Closes has a deadline.
SPECIFICATION EntLiveSpec
CONSTANTS
  e1 = e1
  e2 = e2
  e3 = e3
  w1 = w1
  w2 = w2
  c1 = c1
  c2 = c2
  Event <- ThreeEvents
  Worker <- TwoWorkers
  Pools <- OneOrTwo
  Closer <- TwoClosers
  Bounded <- OneCloser
  QueueSize = 1
  MaxSize = 2
  OnFull <- BothModes
INVARIANTS
  Conserved
  PendingCanBeWritten
  CloseReleases
PROPERTIES
  ImplementsEventLog
  AddReturns
  CloseReturns
  AcceptedIsSettled

SPECIFICATION FairSink
CONSTANTS
  e1 = e1
  e2 = e2
  e3 = e3
  f1 = f1
  f2 = f2
  Finish = Finish
  Events <- MCEvents
  Finishers <- MCFinishers
  WriterCapacity = 1
INVARIANTS
  SessionReadable
  FinishTells
PROPERTIES
  KeepsContract
  EmitReturns
\* A run of the sink ends when everything is answered, or in a crash.
CHECK_DEADLOCK FALSE

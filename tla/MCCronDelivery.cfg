SPECIFICATION FairSpec
CONSTANTS
  channel = channel
  thread = thread
  elsewhere = elsewhere
  None = None
  Calls = {c1, c2}
  OldCalls = {c1}
  Execs = {x1}
  Keys = {k1}
  Routes = {channel, thread, elsewhere}
  Origin = {channel, thread}
  Flat <- Channel
  Fanouts <- Jobs
  MaxEntries = 1
  MaxResets = 1
INVARIANTS WakesWhereShown OncePerExecution
PROPERTIES DeliveryEnds HandedOverIsKept

SPECIFICATION FairInboxSpec
CONSTANTS
  k1 = k1
  None = None
  Keys = {k1}
  Events = {e1, e2}
  KeyOf <- OneKey
  Payloads = {p1}
  Routes = {r1}
  Adapters = {d1}
  Attempts = {a1, a2}
  MaxResets = 0
  MaxFaults = 0
  Slots = 1
PROPERTIES NobodyStarves QueuedIsResolved InjectionIsRecorded DispatchingResolves

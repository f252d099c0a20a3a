SPECIFICATION InboxSpec
CONSTANTS
  k1 = k1
  None = None
  Keys = {k1}
  Events = {e1}
  KeyOf <- OneKey
  Payloads = {p1}
  Routes = {r1, r2}
  Adapters = {d1}
  Attempts = {a1, a2}
  MaxResets = 1
  MaxFaults = 1
  Slots = 2
PROPERTIES UncertainRemainsPending

SPECIFICATION Spec
CONSTANTS
  None = None
  Events = {e1}
  Attempts = {a1, a2, a3}
  Serial = FALSE
  MaxFaults = 0
INVARIANTS DispatchedOnce

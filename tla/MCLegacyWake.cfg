SPECIFICATION Spec
CONSTANTS
  None = None
  Events = {e1}
  Attempts = {a1, a2, a3}
  Serial = TRUE
  MaxFaults = 4
SYMMETRY Interchangeable
INVARIANTS DispatchedOnce InjectedIsNotRetried

SPECIFICATION ObsSpec
CONSTANTS
  k1 = k1
  None = None
  Keys = {k1}
  Events = {e1, e2}
  KeyOf <- OneKey
  Payloads = {p1, p2}
  Routes = {r1}
  Adapters = {d1}
  Attempts = {a1, a2}
  Packages = {q1}
  MaxResets = 1
  MaxFaults = 1
  MaxChanges = 1
SYMMETRY Interchangeable
INVARIANTS OneTurnPerSession TurnMatchesReceipt HandlerIsTheirs RegistrationHolds WrappersAreTakenOff AcceptedIsRecorded
PROPERTIES NoDowngrade

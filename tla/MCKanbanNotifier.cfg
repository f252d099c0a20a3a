SPECIFICATION Spec
CONSTANTS
  Subs = {n}
  Modes = {"wake", "notify+wake", "notify", "marker"}
  MaxEvents = 2
  MaxGens = 2
  MaxResets = 1
  MaxFaults = 1
INVARIANTS AcknowledgedIsDelivered OneAtATime ClaimedIsServed
PROPERTIES NativeIsKept

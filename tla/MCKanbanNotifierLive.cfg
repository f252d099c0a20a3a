SPECIFICATION FairSpec
CONSTANTS
  Subs = {n, m}
  Modes = {"wake", "notify"}
  MaxEvents = 1
  MaxGens = 1
  MaxResets = 0
  MaxFaults = 0
PROPERTIES EventsArrive

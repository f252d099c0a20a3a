SPECIFICATION Spec
CONSTANTS
  Hosts <- KnownHosts
  Wrapped <- Contested
  MaxOthers = 2
  MaxFaults = 2
INVARIANTS NothingLeft ShimIsWhole ModeIsHonest WrappedOnce OkIsDeserved
PROPERTIES OthersStay

SPECIFICATION Spec
CONSTANTS
  MaxCrashes = 2
  MaxOutages = 1
INVARIANTS TypeOK WiringIsWhole
PROPERTY GetsAsFarAsTroveManager

SPECIFICATION HealthFairSpec
CONSTANTS
  Probes = {p1, p2}
  Clients = {c1, c2, c3}
  NoClient = none
  MaxOutages = 2
INVARIANTS
  NoClientLeaks
  UpServicesPass
PROPERTIES
  EveryProbeEnds

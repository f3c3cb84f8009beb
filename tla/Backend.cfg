\* Spawns, the registry, activation, configuration and status; packaging,
\* settling, media runs, delivery, webhooks and level fit.
SPECIFICATION Spec
CONSTANTS
  None = None
  a0 = a0
  b0 = b0
  c0 = c0
  g = g
  global = global
  params = params
  p1 = p1
  p2 = p2
  r1 = r1
  r2 = r2
  r3 = r3
  s1 = s1
  s2 = s2
  a1 = a1
  b1 = b1
  b2 = b2
  d1 = d1
  d2 = d2
  f1 = f1
  f2 = f2
  w1 = w1
  w2 = w2
INVARIANTS
  SpawnsSparing
  DrainedByOne
  ConfigInForce
  StatusTrue
  DeliveryTrue
  LadderFits
PROPERTIES
  RegistryComplete
  PackagingTrue
  SettlingTrue
  MediaTrue
CHECK_DEADLOCK FALSE

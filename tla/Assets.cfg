\* Assets, tiers, ingest, watch folders, stack resolution, quota, provisioning, backends,
\* profiles.
SPECIFICATION Spec
CONSTANTS
  Memory = Memory
  NoName = NoName
  None = None
  Sweeper = Sweeper
  a0 = a0
  b0 = b0
  big = big
  c1 = c1
  c2 = c2
  child = child
  direct = direct
  file = file
  k1 = k1
  k2 = k2
  mother = mother
  n0 = n0
  n1 = n1
  other = other
  p0 = p0
  q0 = q0
  r1 = r1
  r2 = r2
  ren1 = ren1
  ren2 = ren2
  renditions = renditions
  s0 = s0
  small = small
  source = source
  src = src
  t0 = t0
  upload = upload
  w1 = w1
  w2 = w2
  w3 = w3
  w4 = w4
  x = x
INVARIANTS
  TiersHonest
  WatchedOnce
  ProfilesTrue
PROPERTIES
  DocumentsKept
  IngestKept
  RoutedTogether
  QuotaKept
  ProvisionTrue
  BackendsCoherent
CHECK_DEADLOCK FALSE

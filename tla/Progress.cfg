\* What must come to an end, under the fairness of timers, loops and awaited calls.
SPECIFICATION FairSpec
CONSTANTS
  None = None
  Sweeper = Sweeper
  a0 = a0
  a1 = a1
  b0 = b0
  b1 = b1
  b2 = b2
  big = big
  c0 = c0
  c1 = c1
  child = child
  d1 = d1
  f1 = f1
  file = file
  m1 = m1
  m2 = m2
  mother = mother
  n0 = n0
  other = other
  p0 = p0
  p1 = p1
  r1 = r1
  ren1 = ren1
  ren2 = ren2
  renditions = renditions
  s0 = s0
  small = small
  source = source
  src = src
  t0 = t0
  w1 = w1
  w2 = w2
  x = x
PROPERTIES
  BackendSettles
  ConsoleSettles
CHECK_DEADLOCK FALSE

\* A daemon too busy for one ping is replaced with the agents it runs.
SPECIFICATION PoolSpec
CONSTANTS
  Users = {t1, t2}
  Bg = bg
  Daemons = {d1, d2, d3}
  Servers = {x1, x2, x3, x4}
  None = None
  MaxTroubles = 3
SYMMETRY MCSymmetry
CHECK_DEADLOCK FALSE
PROPERTIES
  DeploysKeepAgents

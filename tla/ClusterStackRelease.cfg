CONSTANTS
  c1 = c1
  c2 = c2
  x = x
  y = y
  Clusters = {c1, c2}
  NodeImages = {x, y}
  Needs <- SharedNeeds
  NodeConds = {conds}
  NewNodeConds = conds
  MaxFaults = 1
  MaxEvents = 2
  MaxLag = 1
SPECIFICATION Spec
PROPERTY
  OwnersAreKept
ACTION_CONSTRAINTS
  NoCallFails
  NoneReady
  LateEnqueues

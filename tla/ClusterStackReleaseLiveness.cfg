CONSTANTS
  c1 = c1
  c2 = c2
  x = x
  y = y
  Clusters = {c1}
  NodeImages = {x, y}
  Needs <- BothNeeds
  NodeConds = {conds}
  NewNodeConds = conds
  MaxFaults = 1
  MaxEvents = 1
  MaxLag = 1
SPECIFICATION FairSpec
INVARIANT
  TypeOK
PROPERTIES
  ReadyNodeImagesMakeReady
  UnreadyNodeImageMakesNotReady
  NodeImagesAreOwned
  NothingIsLeaked

CONSTANTS
  x = x
  Clusters = {c1}
  NodeImages = {x}
  Needs <- OneNeed
  Names = {x}
  ImageOf <- OneImage
  MaxImages = 1
  MaxFaults = 1
  MaxLag = 1
SPECIFICATION KeptSpec
INVARIANT ReadyMeansImported
ACTION_CONSTRAINTS
  SharedFaults
  LateEnqueues

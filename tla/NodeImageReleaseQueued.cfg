CONSTANTS
  x = x
  Releases = {r1}
  Names = {x}
  ImageOf <- OneImage
  Hidden = {}
  Unusable = {}
  Owners = {noowners}
  NoOwners = noowners
  ImageImportTimeout = 0
  MaxTime = 0
  MaxImages = 1
  MaxFaults = 1
  MaxLag = 2
SPECIFICATION Spec
INVARIANT
  QueuedIsBeingImported

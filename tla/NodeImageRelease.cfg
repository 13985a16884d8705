CONSTANTS
  x = x
  Releases = {r1}
  Names = {x}
  ImageOf <- OneImage
  Hidden = {}
  Unusable = {}
  Owners = {noowners}
  NoOwners = noowners
  ImageImportTimeout = 0
  MaxTime = 0
  MaxImages = 2
  MaxFaults = 2
  MaxLag = 2
SPECIFICATION Spec
INVARIANTS
  TypeOK
  AtMostOneOwnImage
  CreateIsSafe

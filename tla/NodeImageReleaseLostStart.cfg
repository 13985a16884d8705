CONSTANTS
  x = x
  Releases = {r1}
  Names = {x}
  ImageOf <- OneImage
  Hidden = {}
  Unusable = {}
  Owners = {noowners}
  NoOwners = noowners
  ImageImportTimeout = 1
  MaxTime = 2
  MaxImages = 1
  MaxFaults = 1
  MaxLag = 2
SPECIFICATION Spec
INVARIANT
  ImportTimeIsBounded

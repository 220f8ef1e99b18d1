\* Two overlapping loads and one request at a time.
SPECIFICATION Spec
CONSTANTS
  l1 = l1
  l2 = l2
  p1 = p1
  p2 = p2
  full = full
  stray = stray
  other = other
  Loader <- Loaders
  Bundle <- Bundles
  Pnu <- Parcels
  Region <- RegionOf
  Parts <- BundleParts
  Batches <- StandardBatches
  Refused <- NoFile
  None = None
INVARIANTS
  KnownIsFound
PROPERTIES
  MergesWholeBundle
  StandardConverges
SYMMETRY LoaderSymmetry

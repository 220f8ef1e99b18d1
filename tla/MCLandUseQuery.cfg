\* Two loaders that start, fail and retry at any time, over three bundles; the
\* database may crash between any two statements; requests for a parcel in them
\* and for one that is in none.
SPECIFICATION QuerySpec
CONSTANTS
  l1 = l1
  l2 = l2
  k1 = k1
  k2 = k2
  large = large
  small = small
  stray = stray
  here = here
  near = near
  Loader <- MCLoader
  Key <- MCKey
  Bundle <- MCBundle
  Parts <- MCParts
  Pnu <- MCPnu
  PnuOf <- MCPnuOf
  RegionOf <- MCRegionOf
INVARIANTS
  RetryNotRefused
  NoneMeansNone
PROPERTIES
  NothingOrWhole
  SuccessIsComplete
SYMMETRY LoaderSymmetry

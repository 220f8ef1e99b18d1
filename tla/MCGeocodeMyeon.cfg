SPECIFICATION GeocodeSpec
CONSTANTS
  Address <- Myeon
  Lot <- OnePlot
  Manner = {"official"}
  Alias <- NoAlias
  EndsIn <- Endings
  MaxCandidates = 2
  MaxCopies = 1
INVARIANTS
  KnownIsGeocoded

SPECIFICATION GeocodeSpec
CONSTANTS
  Address <- SameNames
  Lot <- Plots
  Manner <- All
  Alias <- ShortNames
  EndsIn <- Endings
  MaxCandidates = 2
  MaxCopies = 2
INVARIANTS
  KnownIsGeocoded
  ExactIsMeant
  AmbiguousIsTwo

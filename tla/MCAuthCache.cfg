\* One key, two concurrent lookups, a TTL of two instants and two versions of
\* the row: a lookup can be overtaken by a revocation and by another lookup.
SPECIFICATION CacheSpec
CONSTANTS
  Key = {k1}
  Lookup = {l1, l2}
  TTL = 2
  MaxTime = 5
  MaxVersions = 2
INVARIANTS
  AnswerNotStale
  NewKeyUsable
SYMMETRY LookupSymmetry

\* Two migrators of two releases, the newer with a third file, that start,
\* fail and start again at any time.
SPECIFICATION FairSpec
CONSTANTS
  Migrator = {m1, m2}
  File = {1, 2, 3}
  Release = {{1, 2}, {1, 2, 3}}
INVARIANTS
  AppliedOnce
  SuccessIsComplete
PROPERTIES
  InOrder
  MigratorEnds

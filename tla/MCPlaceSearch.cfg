\* Two loads of two overlapping inputs, into a table with and without a unique
\* key, and a backfill of the initials, a row at a time.
SPECIFICATION PlaceSpec
CONSTANTS
  l1 = l1
  l2 = l2
  f1 = f1
  k1 = k1
  k2 = k2
  first = first
  second = second
  han = han
  hwa = hwa
  h = h
  mul = mul
  m = m
  seven = seven
  space = space
  Key <- Keys
  Loader <- TwoLoaders
  Bundle <- BothBundles
  Rows <- BothRows
  Backfill <- OneBackfill
  BatchSize = 1
  MaxLimit = 2
  Syllable <- Syllables
  Digit <- Digits
  Blank = space
  InitialOf <- Initials
  NameOf <- Names
INVARIANTS
  KeyedReloadIdempotent
  OwnInitials
  FoundByName
  FoundByInitials
PROPERTIES
  OldOrNew
  BackfillEnds

\* Two messages over stdin, or over two HTTP requests at a time.
SPECIFICATION Spec
CONSTANTS
  stdin0 = stdin0
  c1 = c1
  c2 = c2
  env = env
  alice = alice
  bob = bob
  empty = empty
  absent = absent
  Stdio = stdin0
  Conn <- Conns
  Message <- Messages
  EnvKey = env
  NoKey = absent
  MaxMessages = 2
  MaxTries = 2
INVARIANTS
  OwnKeyOnly
  CostBounded
  OneAnswerEach
PROPERTIES
  EveryMessageEnds
CHECK_DEADLOCK FALSE

\* Two connections, a billable class and /v1/usage, a cap of one, a channel of
\* one and batches of one; five requests are one more than may overrun the cap.
\* One insert may be committed after it was given up.
SPECIFICATION FairSpec
CONSTANTS
  Class = {geo, usage}
  Meta = {usage}
  MeterBuffer = 1
  FlushMax = 1
  MaxRequests = 5
  MaxLate = 1
  Cap = 1
  Handler = {h1, h2}
INVARIANTS
  CapOverrunBounded
  NotRefusedEarly
  PanicOnlyAfterTimeout
  GracefulExitSettles
PROPERTIES
  SignalStops

\* A channel of one and batches of two: the channel fills while an insert is
\* running, and four requests are one more than channel and batch hold.
\* PostgreSQL may commit an insert of one event after it was given up.
SPECIFICATION ReportSpec
CONSTANTS
  geo0 = geo0
  geo1 = geo1
  meta0 = meta0
  Class <- Classes
  Meta <- MetaClasses
  Minute <- MinuteOf
  MonthLength = 1
  LastMinute = 1
  MeterBuffer = 1
  FlushMax = 2
  MaxRequests = 4
  MaxLate = 1
INVARIANTS
  BilledExactlyOnce
  UnsettledBounded
  ItemsWithinUsed
PROPERTIES
  LedgerSpec
  EventsSettle
  RemainingHonest

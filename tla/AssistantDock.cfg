CONSTANTS
  Threads = {t1, t2}
  Sessions = {s1, s2}
  NoThread = NoThread
  NoSession = NoSession
  MaxActive = 1
  Graces = {TRUE, FALSE}
  MaxMessages = 3
  MaxAsks = 1
  MaxOutages = 1
SPECIFICATION FairSpec
INVARIANTS
  TypeOK
  ChildrenCounted
  ShownIsServed
PROPERTIES
  SlotsReturn
\* The bounds run out: no message, outage or ask is left and every session is over.
CHECK_DEADLOCK FALSE

\* Two pages, queues that overflow, a connection that breaks.
\* Everything may come to rest: the bounds are spent and all events delivered.
CHECK_DEADLOCK FALSE
SPECIFICATION FairSpec
CONSTANTS
  k1 = k1
  k2 = k2
  t1 = t1
  t2 = t2
  u1 = u1
  u2 = u2
  u3 = u3
  Key = {k1, k2}
  Tab = {t1, t2}
  Sub = {u1, u2, u3}
  NotOpen = NotOpen
  Booting = Booting
  Offline = Offline
  Capacity = 2
  WireCapacity = 1
  MaxEvents = 3
  MaxDrops = 1
INVARIANTS
  TypeOK
  NothingMissing
  KeepsNewest
PROPERTIES
  GridNeverGoesBack
  GridCatchesUp

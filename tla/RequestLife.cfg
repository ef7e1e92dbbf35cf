CONSTANTS
  Worker = {w1, w2}
  Request = {r1, r2}
  Fd = {f1, f2}
  NullPtr = null
  Object <- AllObjects
  Slot <- AllSlots
  ExtraConn = 0
  MsgLen = 2
  Room = 1
  MayFail = {"workers", "listen", "reactor"}
  MaxSize = 1
SPECIFICATION FairSpec
INVARIANTS TypeOK ReferencesExact ConnExclusive ConnAlwaysFound RepliesWhole
PROPERTY EveryRequestReleased
CHECK_DEADLOCK FALSE

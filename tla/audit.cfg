\* Two writers boot over rows that predate the chain, and consume one stream.
SPECIFICATION ChainFairSpec
CHECK_DEADLOCK FALSE
CONSTANTS
  NoRow = NoRow
  NoHead = NoHead
  Writers = {"w1", "w2"}
  Legacy <- TwoOld
  Events = {"e1", "e2", "bad"}
  Malformed = {"bad"}
  Kind <- KindOf
  PageSize = 2
  MaxFaults = 1
  Tampering = TRUE
INVARIANTS RecordIsSound
PROPERTIES ImplementsLog EventsRecorded

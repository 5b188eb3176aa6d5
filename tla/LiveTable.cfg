SPECIFICATION TablesSpec
CONSTANTS
  Namespaces = {t1}
  Home = t1
  Apps = {a1, a2}
  Statuses = {ready, failed}
  Absent = Absent
  Changes <- MCChanges
  Chans = {c1, c2}
  NoChan = NoChan
  NoEvent = NoEvent
  Closed = Closed
  replayBufferSize = 1
  eventChannelBuffer = 1
  WireSize = 1
  HeldSize = 1
  MaxEvents = 3
SYMMETRY Symmetry
INVARIANT TableTypeOK
PROPERTY StaleOnlyByNamedLoss

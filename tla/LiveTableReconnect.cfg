SPECIFICATION TableSpec
CONSTANTS
  Namespaces = {t1}
  Home = t1
  Apps = {a1}
  Statuses = {ready, failed}
  Absent = Absent
  Changes <- MCChanges
  Chans = {c1}
  NoChan = NoChan
  NoEvent = NoEvent
  Closed = Closed
  replayBufferSize = 4
  eventChannelBuffer = 1
  WireSize = 1
  HeldSize = 1
  MaxEvents = 3
PROPERTY ReconnectLosesNothing

SPECIFICATION Spec
CONSTANTS
  Namespaces = {t1, t2}
  Changes = {x}
  Chans = {c1, c2}
  NoChan = NoChan
  NoEvent = NoEvent
  Closed = Closed
  replayBufferSize = 2
  eventChannelBuffer = 1
  MaxEvents = 3
SYMMETRY Symmetry
INVARIANT NeverSendsOnClosed

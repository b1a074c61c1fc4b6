CONSTANTS
  unbuf = unbuf
  buf1 = buf1
  stop = stop
  Nil = Nil
  G = {g1, g2, g3}
  Chans = {unbuf, buf1}
  SendChans = {unbuf, buf1}
  Capacity <- MCCapacity
  Stmts <- MixedStmts
  MaxOps = 2
SPECIFICATION SelectSpec
SYMMETRY Goroutines
CHECK_DEADLOCK FALSE
INVARIANTS
  SelectNotForgotten
  ReceivedInOrder
  PanickedSendDeliversNothing

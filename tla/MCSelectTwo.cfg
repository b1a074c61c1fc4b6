CONSTANTS
  unbuf = unbuf
  buf1 = buf1
  stop = stop
  Nil = Nil
  G = {g1, g2, g3}
  Chans = {unbuf, buf1}
  SendChans = {unbuf, buf1}
  Capacity <- MCCapacity
  Stmts <- TwoReceives
  MaxOps = 2
SPECIFICATION SelectSpec
CHECK_DEADLOCK FALSE
INVARIANT
  SelectCommitsOneCase

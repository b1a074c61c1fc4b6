CONSTANTS
  unbuf = unbuf
  buf1 = buf1
  stop = stop
  Nil = Nil
  G = {g1, g2, g3}
  Chans = {unbuf, stop}
  SendChans = {unbuf}
  Capacity <- StopCapacity
  Stmts <- StopStmts
  MaxOps = 2
SPECIFICATION FairSelectSpec
CHECK_DEADLOCK FALSE
INVARIANTS
  NoLoss
  SelectCommitsOneCase
PROPERTY
  ServedSelectEnds

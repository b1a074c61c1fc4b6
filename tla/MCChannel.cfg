CONSTANTS
  unbuf = unbuf
  buf1 = buf1
  G = {g1, g2, g3}
  Chans = {unbuf, buf1}
  SendChans = {unbuf, buf1}
  Capacity <- MCCapacity
  MaxOps = 2
SPECIFICATION FairSpec
CHECK_DEADLOCK FALSE
INVARIANTS
  QueueDiscipline
  NoLostWakeup
  NoLoss
  Rendezvous
PROPERTIES
  ImplementsGoChannel
  ServedContinues

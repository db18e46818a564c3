SPECIFICATION Spec
CONSTANTS
  Word = 8
  Half = 4
  Interval = 2
  MaxPacket = 3
  OwnPort = 3
  Commands <- MCCommands
  MaxReq = 3
  Iface = {eth0, eth1}
  Address = {1, 2}
  MaxMoves = 1
SYMMETRY Symmetry
INVARIANTS
  ConfFollows
  ClientKnows
  AddressTold

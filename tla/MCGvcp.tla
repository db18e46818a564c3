------------------------------- MODULE MCGvcp -------------------------------
(* The requests and the values of the registers for TLC. *)
EXTENDS GvcpControl, TLC

w(a, v) == [at |-> a, data |-> v]
regs(l) == [op |-> "writereg", list |-> l]

(* A write that is refused, protected or unknown after others, values that *)
(* the configuration clamps or cuts, two reads, three names, FORCEIP.      *)
MCCommands ==
  { regs(<<w("heartbeat", 0), w("packetsize", 7)>>),
    regs(<<w("heartbeat", 3), w("ip", 1), w("port", 5)>>),
    regs(<<w("destination", 2), w("destination", 0)>>),
    regs(<<w("port", 5), w("sourceport", 6), w(Unknown, 1)>>),
    [op |-> "readreg", list |-> <<w("heartbeat", 0), w("port", 0)>>],
    [op |-> "readreg", list |-> <<w("actionkey", 0)>>],
    [op |-> "writemem", list |-> <<w("username", 1)>>],
    [op |-> "writemem", list |-> <<w("modelname", 1)>>],
    [op |-> "writemem", list |-> <<w("port", 1)>>],
    [op |-> "forceip", list |-> <<w("ip", 2)>>, address |-> 2] }

(* Nothing tells one interface from another. *)
Symmetry == Permutations(Iface)
=============================================================================

---------------------------- MODULE GvcpControl -----------------------------
(***************************************************************************)
(* The control channel of GigE Vision: GVCP over UDP (csv_gev.c).  The     *)
(* main thread takes one datagram at a time (csv_gvcp_trigger) and runs    *)
(* its handler; a write goes register by register, first into the          *)
(* configuration that the threads work with (csv_gvcp_writereg_effective), *)
(* then into the register itself.  Every second the main thread also       *)
(* brings the registers of the network up to date (csv_ether_refresh).     *)
(*                                                                         *)
(* The client is external: it numbers its requests (nReqId), waits for the *)
(* answer of the last one or gives it up, and may send it again.  The      *)
(* network loses, delays, reorders and duplicates datagrams: whatever was  *)
(* ever sent may arrive at any time, any number of times, or never.        *)
(* Datagrams that the code drops (too short, a wrong key, from itself) are *)
(* lost ones.  Registers stand for their kind; what writing a stream port  *)
(* starts is in GvspStream.  The commands that change nothing (discovery,  *)
(* packet resend, action, XML file) are left out.                          *)
(***************************************************************************)
EXTENDS Naturals, Sequences, FiniteSets

CONSTANTS
  Word,       (* 2^32: the values of a register                             *)
  Half,       (* 2^16: the values of a port                                 *)
  Interval,   (* GVCP_HEARTBEAT_INTERVAL                                    *)
  MaxPacket,  (* GVSP_PACKET_MAX_SIZE                                       *)
  OwnPort,    (* the port that the message channel is bound to at start-up  *)
  Commands,   (* the requests that the client may make                      *)
  MaxReq,     (* bound: the requests made                                   *)
  Iface,      (* the network interfaces                                     *)
  Address,    (* the addresses they may have                                *)
  MaxMoves    (* bound: the changes of the network                          *)

Data == 0..(Word - 1)

(* Readable and writable registers, one of each kind, and the others.      *)
(* Persistent addresses and action groups have no configuration; of the    *)
(* number of streams, that thr_mvs updates, nothing reads it.              *)
ReadWrite ==
  {"heartbeat", "port", "sourceport", "destination", "packetsize", "persistent"}
WriteOnly == {"actionkey"}
ReadOnly == {"ip"}
Register == ReadWrite \cup WriteOnly \cup ReadOnly
Memory == {"username", "modelname"}
Unknown == "unknown"       \* no such address, or one that is not aligned
Place == Register \cup Memory \cup {Unknown}
Configured ==
  {"heartbeat", "port", "sourceport", "destination", "packetsize", "actionkey", "ip"}

Write == [at : Place, data : Data]
Request ==
  [op : {"writereg", "readreg", "writemem"}, list : Seq(Write)]
    \cup [op : {"forceip"}, list : Seq(Write), address : Address]

ASSUME GvcpAssumption ==
  /\ {Word, Half, Interval, MaxPacket, MaxReq, MaxMoves} \subseteq Nat
  /\ 1 < Half /\ Half < Word /\ Interval < Word
  /\ OwnPort \in 0..(Half - 1)
  /\ 1 < MaxPacket /\ MaxPacket <= Half
  /\ Commands \subseteq Request
  /\ \A c \in Commands : c.list # <<>>
  /\ Address \subseteq Data

Idle == [op |-> "none", list |-> <<>>]
NoIface == "none"

VARIABLES
  reg,       \* value (of a memory, a number for what it says) of each place
  conf,      \* gigecfg: the configuration in force
  cmd,       \* the request in rxbuf, Idle when there is none
  id,        \* its nReqId
  i,         \* the loop index of the handler
  out,       \* the values read so far
  sent,      \* the requests the client has made, numbered by their ids
  answers,   \* the answers on the way that the client waits for
  waiting,   \* the client waits for the answer of its last request
  believed,  \* what the client knows of each place, {} if nothing
  newest,    \* history: of each place, the newest request that has written it
  late,      \* history: the places that an older request has written since
  ip, route, \* the addresses of the interfaces, and that of the default route
  seen,      \* ether[].ipaddress, as csv_ether_refresh last saw them
  ifrname,   \* pIFCFG->ifrname: the last interface with the default route
  adopted,   \* history: ifrname took an interface whose address was seen
  moves      \* the changes of the network so far

file == <<reg, conf>>
handler == <<cmd, id, i, out>>
client == <<sent, waiting, believed>>
past == <<newest, late>>
net == <<ip, route, moves>>
ether == <<seen, ifrname, adopted>>
vars == <<file, handler, answers, client, past, net, ether>>

-----------------------------------------------------------------------------
(* The list of registers. *)

Kind(a) == IF a \in Register THEN "reg" ELSE IF a \in Memory THEN "mem" ELSE "none"
Readable(a) == a \notin WriteOnly
Writable(a) == a \in ReadWrite \cup WriteOnly \cup {"username"}

(* csv_gvcp_writereg_effective returns -1.                                 *)
Refused(w) ==
  \/ w.at = "destination" /\ w.data = 0
  \/ w.at = "packetsize" /\ w.data % Half \notin 1..(MaxPacket - 1)

(* What a value is in the configuration: a heartbeat has a least value, a  *)
(* port has 16 bits.                                                       *)
InForce(a, v) ==
  CASE a = "heartbeat" /\ v < Interval -> Interval
    [] a = "port" -> v % Half
    [] OTHER -> v

(* The registers as csv_gev_init enrolls them, from the configuration; then *)
(* it tells the port of the message channel to the register alone.         *)
Enrolled ==
  [a \in Register \cup Memory |->
     CASE a = "heartbeat" -> Interval
       [] a = "packetsize" -> 1
       [] a = "sourceport" -> OwnPort
       [] a = "ip" /\ route # NoIface -> ip[route]
       [] OTHER -> 0]

Init ==
  /\ ip \in [Iface -> Address] /\ route \in Iface \cup {NoIface}
  /\ seen = ip /\ ifrname = route /\ adopted = FALSE /\ moves = 0
  /\ reg = Enrolled
  /\ conf = [a \in Configured |-> IF a = "sourceport" THEN 0 ELSE reg[a]]
  /\ cmd = Idle /\ id = 0 /\ i = 1 /\ out = <<>>
  /\ sent = <<>> /\ answers = {} /\ waiting = FALSE
  /\ believed = [a \in Register \cup Memory |-> {}]
  /\ newest = [a \in Register \cup Memory |-> 0] /\ late = {}

-----------------------------------------------------------------------------
(* The client and its network. *)

Send(c) ==
  /\ ~waiting /\ Len(sent) < MaxReq
  /\ sent' = Append(sent, c)
  /\ waiting' = TRUE
  /\ UNCHANGED <<file, handler, answers, believed, past, net, ether>>

Places(list) == {list[k].at : k \in 1..Len(list)}
Changes(r) == IF r.op \in {"writereg", "writemem"} THEN Places(r.list) ELSE {}
Last == sent[Len(sent)]

Forget == believed' = [a \in DOMAIN believed |->
                         IF a \in Changes(Last) THEN {} ELSE believed[a]]

GiveUp ==
  /\ waiting /\ waiting' = FALSE
  /\ answers' = {}
  /\ Forget
  /\ UNCHANGED <<file, handler, sent, past, net, ether>>

(* The data that the last of the first n writes of the list puts at a.     *)
Put(list, n, a) ==
  {list[k].data : k \in {j \in 1..n : /\ list[j].at = a
                                      /\ \A l \in (j + 1)..n : list[l].at # a}}

(* The answer of the last request: it tells how many writes are done.      *)
Accept(ans) ==
  /\ waiting
  /\ waiting' = FALSE /\ answers' = {}
  /\ \/ ans.status # "success" /\ Forget
     \/ /\ ans.status = "success"
        /\ believed' = [a \in DOMAIN believed |->
             LET done == Put(Last.list, ans.index, a)
             IN IF a \in Changes(Last) /\ done # {} THEN done ELSE believed[a]]
  /\ UNCHANGED <<file, handler, sent, past, net, ether>>

-----------------------------------------------------------------------------
(* csv_gvcp_trigger and the handlers, on the main thread. *)

Arrive(n) ==
  /\ cmd = Idle
  /\ cmd' = sent[n] /\ id' = n
  /\ UNCHANGED <<file, i, out, answers, client, past, net, ether>>

(* The client drops an answer to another request than its last. *)
Answer(status, index, values) ==
  /\ answers' = IF waiting /\ id = Len(sent)
                THEN answers \cup {[status |-> status, index |-> index, values |-> values]}
                ELSE answers
  /\ cmd' = Idle /\ id' = 0 /\ i' = 1 /\ out' = <<>>

Error(status) == Answer(status, 0, <<>>)

Doing(op) == cmd.op = op /\ i <= Len(cmd.list)
Here == cmd.list[i]

Store(a, v) ==
  /\ reg' = [reg EXCEPT ![a] = v]
  /\ newest' = [newest EXCEPT ![a] = IF @ < id THEN id ELSE @]
  /\ late' = IF id < newest[a] THEN late \cup {a}
             ELSE IF id > newest[a] THEN late \ {a} ELSE late

(* One round of the loop of csv_gvcp_writereg_ack. *)
WriteOne ==
  /\ Doing("writereg")
  /\ Kind(Here.at) = "reg" /\ Writable(Here.at) /\ ~Refused(Here)
  /\ Store(Here.at, Here.data)
  /\ conf' = IF Here.at \in Configured
             THEN [conf EXCEPT ![Here.at] = InForce(Here.at, Here.data)]
             ELSE conf
  /\ i' = i + 1
  /\ UNCHANGED <<cmd, id, out, answers, client, net, ether>>

(* A slip: the register is set before csv_gvcp_writereg_effective refuses.  *)
WriteFailsSet ==
  /\ Doing("writereg")
  /\ \/ Kind(Here.at) # "reg" /\ Error("invalid_address") /\ UNCHANGED <<reg, past>>
     \/ /\ Kind(Here.at) = "reg" /\ Refused(Here) /\ Answer("success", i - 1, <<>>)
        /\ Store(Here.at, Here.data)
     \/ /\ Kind(Here.at) = "reg" /\ ~Refused(Here) /\ ~Writable(Here.at)
        /\ Error("write_protect") /\ UNCHANGED <<reg, past>>
  /\ UNCHANGED <<conf, client, net, ether>>

(* A slip: the answer counts the write that is refused, nIndex = i + 1.    *)
WriteFailsCounted ==
  /\ Doing("writereg")
  /\ \/ Kind(Here.at) # "reg" /\ Error("invalid_address")
     \/ Kind(Here.at) = "reg" /\ Refused(Here) /\ Answer("success", i, <<>>)
     \/ /\ Kind(Here.at) = "reg" /\ ~Refused(Here) /\ ~Writable(Here.at)
        /\ Error("write_protect")
  /\ UNCHANGED <<file, client, past, net, ether>>

(* The loop stops at the first register that fails.  A refused one is no   *)
(* error: nIndex tells.                                                    *)
WriteFails ==
  /\ Doing("writereg")
  /\ \/ Kind(Here.at) # "reg" /\ Error("invalid_address")
     \/ Kind(Here.at) = "reg" /\ Refused(Here) /\ Answer("success", i - 1, <<>>)
     \/ /\ Kind(Here.at) = "reg" /\ ~Refused(Here) /\ ~Writable(Here.at)
        /\ Error("write_protect")
  /\ UNCHANGED <<file, client, past, net, ether>>

ReadOne ==
  /\ Doing("readreg")
  /\ Kind(Here.at) = "reg" /\ Readable(Here.at)
  /\ out' = Append(out, reg[Here.at])
  /\ i' = i + 1
  /\ UNCHANGED <<file, cmd, id, answers, client, past, net, ether>>

ReadFails ==
  /\ Doing("readreg")
  /\ Kind(Here.at) # "reg" \/ ~Readable(Here.at)
  /\ Error("invalid_address")
  /\ UNCHANGED <<file, client, past, net, ether>>

(* The loop is over: all the registers are written, or read. *)
Done ==
  /\ cmd.op \in {"writereg", "readreg"} /\ i = Len(cmd.list) + 1
  /\ Answer("success", Len(cmd.list), out)
  /\ UNCHANGED <<file, client, past, net, ether>>

(* csv_gvcp_writemem_ack; the configuration is not told.                   *)
WriteMem ==
  /\ Doing("writemem")
  /\ \/ /\ Kind(Here.at) # "mem" /\ Error("invalid_address")
        /\ UNCHANGED <<file, past>>
     \/ /\ Kind(Here.at) = "mem" /\ ~Writable(Here.at) /\ Error("write_protect")
        /\ UNCHANGED <<file, past>>
     \/ /\ Kind(Here.at) = "mem" /\ Writable(Here.at)
        /\ Store(Here.at, Here.data) /\ Answer("success", 1, <<>>)
        /\ UNCHANGED conf
  /\ UNCHANGED <<client, net, ether>>

(* csv_gvcp_forceip_ack: no answer unless an interface has the MAC address; *)
(* its gateway may take the default route along.                           *)
ForceIp ==
  /\ cmd.op = "forceip"
  /\ \/ /\ cmd' = Idle /\ id' = 0 /\ UNCHANGED <<i, out, answers, ip, route>>
     \/ \E e \in Iface :
          /\ ip' = [ip EXCEPT ![e] = cmd.address]
          /\ route' \in {route, e}
          /\ Answer("success", 0, <<>>)
  /\ UNCHANGED <<file, client, past, moves, ether>>

-----------------------------------------------------------------------------
(* The network changes; csv_ether_refresh finds out, once a second. *)

Move ==
  /\ moves < MaxMoves /\ moves' = moves + 1
  /\ \/ \E e \in Iface, a \in Address : ip' = [ip EXCEPT ![e] = a] /\ UNCHANGED route
     \/ route' \in Iface \cup {NoIface} /\ UNCHANGED ip
  /\ UNCHANGED <<file, handler, answers, client, past, ether>>

(* A slip: the addresses are compared before the route is read.            *)
RefreshRouteLast ==
  /\ cmd = Idle
  /\ ifrname' = IF route = NoIface THEN ifrname ELSE route
  /\ seen' = ip
  /\ LET update == ifrname # NoIface /\ ip[ifrname] # seen[ifrname] IN
     /\ reg' = IF update THEN [reg EXCEPT !["ip"] = ip[ifrname]] ELSE reg
     /\ conf' = IF update THEN [conf EXCEPT !["ip"] = ip[ifrname]] ELSE conf
     /\ adopted' = (~update /\ (adopted \/ ifrname' # ifrname))
  /\ UNCHANGED <<handler, answers, client, past, net>>

Refresh ==
  /\ cmd = Idle
  /\ ifrname' = IF route = NoIface THEN ifrname ELSE route
  /\ seen' = ip
  /\ LET update == ifrname' # NoIface /\ ip[ifrname'] # seen[ifrname'] IN
     /\ reg' = IF update THEN [reg EXCEPT !["ip"] = ip[ifrname']] ELSE reg
     /\ conf' = IF update THEN [conf EXCEPT !["ip"] = ip[ifrname']] ELSE conf
     /\ adopted' = (~update /\ (adopted \/ ifrname' # ifrname))
  /\ UNCHANGED <<handler, answers, client, past, net>>

Next ==
  \/ \E c \in Commands : Send(c)
  \/ GiveUp
  \/ \E ans \in answers : Accept(ans)
  \/ \E n \in 1..Len(sent) : Arrive(n)
  \/ WriteOne \/ WriteFails \/ ReadOne \/ ReadFails \/ Done
  \/ WriteMem \/ ForceIp
  \/ Move \/ Refresh

Spec == Init /\ [][Next]_vars

-----------------------------------------------------------------------------
Values == [status : {"success", "invalid_address", "write_protect"},
           index : Nat, values : Seq(Data)]

FileType ==
  /\ reg \in [Register \cup Memory -> Data] /\ conf \in [Configured -> Data]
  /\ newest \in [Register \cup Memory -> 0..MaxReq]
  /\ late \subseteq Register \cup Memory

HandlerType ==
  /\ i \in Nat \ {0} /\ out \in Seq(Data)
  /\ \/ cmd = Idle /\ id = 0
     \/ id \in 1..Len(sent) /\ cmd = sent[id]

ClientType ==
  /\ sent \in Seq(Commands) /\ Len(sent) <= MaxReq
  /\ believed \in [Register \cup Memory -> SUBSET Data]
  /\ waiting \in BOOLEAN
  /\ waiting => sent # <<>>
  /\ answers \subseteq Values
  /\ answers # {} => waiting
  /\ \A ans \in answers : ans.index <= Len(Last.list)

NetType ==
  /\ ip \in [Iface -> Address] /\ seen \in [Iface -> Address]
  /\ route \in Iface \cup {NoIface} /\ ifrname \in Iface \cup {NoIface}
  /\ adopted \in BOOLEAN /\ moves \in 0..MaxMoves

TypeOK == FileType /\ HandlerType /\ ClientType /\ NetType

(* The configuration that the threads work with is what the registers say, *)
(* between any two steps of a handler and whatever became of the requests: *)
(* csv_gvcp_writereg_ack changes neither when one of the two refuses.  But *)
(* csv_gev_init leaves the source port of the message channel different in *)
(* the two, until a request first writes it.                               *)
ConfFollows ==
  \A a \in Configured :
    \/ conf[a] = InForce(a, reg[a])
    \/ a = "sourceport" /\ newest[a] = 0

(* What the client has been told stands.  Between two requests, the writes *)
(* that answers have counted are in the registers, and nothing of those    *)
(* that failed; and a read tells what earlier requests have written.  Lost *)
(* and repeated datagrams change nothing of it, but an old request that    *)
(* arrives late does: the code does not look at nReqId, nor at who sends.  *)
ClientKnows ==
  /\ cmd = Idle =>
       \A a \in (Register \cup Memory) \ late :
         \/ believed[a] \subseteq {reg[a]}
         \/ waiting /\ a \in Changes(Last)
  /\ \A ans \in answers :
       Last.op = "readreg" =>
         \A k \in 1..Len(ans.values) :
           \/ believed[Last.list[k].at] \subseteq {ans.values[k]}
           \/ Last.list[k].at \in late

(* The address that discovery and the registers tell is that of the        *)
(* interface with the default route, as last seen.  But an interface that  *)
(* takes the route with an address already seen is not told.               *)
AddressTold == ifrname # NoIface /\ ~adopted => reg["ip"] = seen[ifrname]

(* Of these, the two that do not depend on the client, by induction.       *)
IInv == TypeOK /\ ConfFollows /\ AddressTold
=============================================================================

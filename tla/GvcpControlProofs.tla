------------------------- MODULE GvcpControlProofs --------------------------
(***************************************************************************)
(* For any registers' width, requests, interfaces and addresses, any       *)
(* number of requests and changes of the network, and whatever the network *)
(* does to the datagrams: types are right, the configuration follows the   *)
(* registers, the address that is told is that of the default route, and   *)
(* what an acknowledge tells the client is what the registers hold.        *)
(***************************************************************************)
EXTENDS GvcpControl, TLAPS

LEMMA Numbers ==
  /\ Word \in Nat /\ Half \in Nat \ {0} /\ Interval \in Nat /\ MaxReq \in Nat
  /\ MaxMoves \in Nat /\ 0 \in 0..MaxReq /\ 0 \in 0..MaxMoves
  /\ 0 \in Data /\ 1 \in Data /\ Interval \in Data /\ Address \subseteq Data
  /\ OwnPort \in Data
  /\ \A v \in Data : v % Half \in Data
BY GvcpAssumption DEF Data

(* What a configuration makes of a value is a value. *)
LEMMA InForceData == \A a, v : v \in Data => InForce(a, v) \in Data
BY Numbers DEF InForce

LEMMA RegisterKinds ==
  /\ "ip" \in Register /\ "ip" \in Configured /\ Configured \subseteq Register
  /\ Memory \cap Register = {} /\ ~Writable("ip")
BY DEF Register, ReadWrite, WriteOnly, ReadOnly, Configured, Memory, Writable

(* The request that a handler serves, and the register that it is at. *)
LEMMA ServedRequest ==
  ASSUME HandlerType, ClientType, cmd # Idle
  PROVE  /\ cmd \in Request /\ cmd.list \in Seq(Write) /\ cmd.list # <<>>
         /\ id \in 1..Len(sent) /\ id \in 1..MaxReq /\ cmd = sent[id]
<1>1. id \in 1..Len(sent) /\ cmd = sent[id] /\ cmd \in Commands
  BY DEF HandlerType, ClientType
<1>2. cmd \in Request /\ cmd.list # <<>>
  BY <1>1, GvcpAssumption
<1>3. cmd.list \in Seq(Write)
  BY <1>2 DEF Request
<1>4. id \in 1..MaxReq
  BY <1>1, Numbers DEF ClientType
<1> QED
  BY <1>1, <1>2, <1>3, <1>4

LEMMA HereWrite ==
  ASSUME HandlerType, ClientType, NEW op \in {"writereg", "readreg", "writemem"}, Doing(op)
  PROVE  Here \in Write /\ cmd # Idle /\ i \in 1..Len(cmd.list)
<1>1. cmd # Idle
  BY DEF Doing, Idle
<1>2. cmd.list \in Seq(Write)
  BY <1>1, ServedRequest
<1>3. i \in 1..Len(cmd.list)
  BY <1>2 DEF HandlerType, Doing
<1> QED
  BY <1>1, <1>2, <1>3 DEF Here

LEMMA KindPlace ==
  ASSUME NEW a
  PROVE  /\ Kind(a) = "reg" => a \in Register
         /\ Kind(a) = "mem" => a \in Memory
BY DEF Kind

-----------------------------------------------------------------------------
LEMMA InitIInv == Init => IInv
<1> SUFFICES ASSUME Init PROVE IInv
  OBVIOUS
<1>1. reg \in [Register \cup Memory -> Data]
  BY Numbers DEF Init, Enrolled
<1>2. conf \in [Configured -> Data]
  BY <1>1, RegisterKinds, Numbers DEF Init
<1>3. TypeOK
  <2>1. FileType
    BY <1>1, <1>2, Numbers DEF Init, FileType
  <2>2. HandlerType
    BY DEF Init, HandlerType
  <2>3. ClientType
    <3>1. believed \in [Register \cup Memory -> SUBSET Data]
      BY DEF Init
    <3>2. sent = <<>> /\ answers = {} /\ waiting = FALSE
      BY DEF Init
    <3>3. Len(sent) <= MaxReq /\ sent \in Seq(Commands)
      BY <3>2, Numbers
    <3>4. (waiting => sent # <<>>) /\ (answers # {} => waiting) /\ waiting \in BOOLEAN
      BY <3>2
    <3> QED
      BY <3>1, <3>2, <3>3, <3>4 DEF ClientType
  <2>4. NetType
    BY Numbers DEF Init, NetType
  <2> QED
    BY <2>1, <2>2, <2>3, <2>4 DEF TypeOK
<1>4. ConfFollows
  BY <1>2, Numbers, GvcpAssumption DEF Init, Enrolled, ConfFollows, InForce, Configured, Register,
     ReadWrite, WriteOnly, ReadOnly, Memory
<1>5. AddressTold
  <2>1. reg["ip"] = IF route # NoIface THEN ip[route] ELSE 0
    BY DEF Init, Enrolled, Register, ReadOnly
  <2> QED
    BY <2>1 DEF Init, AddressTold
<1> QED
  BY <1>3, <1>4, <1>5 DEF IInv

-----------------------------------------------------------------------------
(* The parts of a step that several actions share. *)
LEMMA PutData ==
  ASSUME NEW list \in Seq(Write), NEW n \in Nat, n <= Len(list), NEW a
  PROVE  Put(list, n, a) \subseteq Data
<1>1. \A k \in 1..n : list[k] \in Write
  OBVIOUS
<1>2. \A k \in 1..n : list[k].data \in Data
  BY <1>1 DEF Write
<1> QED
  BY <1>2 DEF Put

LEMMA StoreType ==
  ASSUME FileType, ClientType, HandlerType, cmd # Idle,
         NEW a \in Register \cup Memory, NEW v \in Data, Store(a, v)
  PROVE  /\ reg' \in [Register \cup Memory -> Data]
         /\ newest' \in [Register \cup Memory -> 0..MaxReq]
         /\ late' \subseteq Register \cup Memory
<1>1. id \in 0..MaxReq
  BY ServedRequest
<1>2. reg' \in [Register \cup Memory -> Data]
  BY DEF Store, FileType
<1>3. newest' \in [Register \cup Memory -> 0..MaxReq]
  BY <1>1 DEF Store, FileType
<1>4. late' \subseteq Register \cup Memory
  BY DEF Store, FileType
<1> QED
  BY <1>2, <1>3, <1>4

LEMMA ClientKept ==
  ASSUME ClientType, UNCHANGED client, answers' = answers
  PROVE  ClientType'
<1>1. Last' = Last
  BY DEF Last, client
<1>2. sent' = sent /\ believed' = believed /\ waiting' = waiting
  BY DEF client
<1>3. /\ waiting \in BOOLEAN /\ waiting => sent # <<>>
      /\ answers # {} => waiting
  BY DEF ClientType
<1>4. /\ waiting' \in BOOLEAN /\ waiting' => sent' # <<>>
      /\ answers' # {} => waiting'
  BY <1>2, <1>3, Zenon
<1> QED
  BY <1>1, <1>2, <1>4 DEF ClientType

LEMMA AnswerType ==
  ASSUME HandlerType, ClientType, cmd # Idle, UNCHANGED client,
         NEW status \in {"success", "invalid_address", "write_protect"},
         NEW n \in Nat, n <= Len(cmd.list), NEW values \in Seq(Data),
         Answer(status, n, values)
  PROVE  HandlerType' /\ ClientType'
<1>1. HandlerType'
  BY DEF Answer, HandlerType
<1>2. CASE waiting /\ id = Len(sent)
  <2> DEFINE ans == [status |-> status, index |-> n, values |-> values]
  <2>1. ans \in Values
    BY DEF Values
  <2>2. Last' = Last /\ cmd = Last
    BY <1>2, ServedRequest DEF Last, client
  <2>3. answers' = answers \cup {ans}
    BY <1>2 DEF Answer
  <2>4. ASSUME NEW b \in answers' PROVE b.index <= Len(Last.list)
    <3>1. ans.index = n
      OBVIOUS
    <3>2. CASE b \in answers
      BY <3>2 DEF ClientType
    <3>3. CASE b = ans
      BY <2>2, <3>1, <3>3
    <3> QED
      BY <2>3, <3>2, <3>3
  <2> QED
    BY <1>1, <1>2, <2>1, <2>2, <2>3, <2>4 DEF ClientType, client
<1>3. CASE ~(waiting /\ id = Len(sent))
  <2>1. answers' = answers
    BY <1>3, Zenon DEF Answer
  <2> QED
    BY <1>1, <2>1, ClientKept
<1> QED
  BY <1>1, <1>2, <1>3

-----------------------------------------------------------------------------
(* Types, one step for each action. *)
LEMMA ClientStep ==
  ASSUME TypeOK,
         \/ \E c \in Commands : Send(c)
         \/ GiveUp
         \/ \E ans \in answers : Accept(ans)
  PROVE  TypeOK'
<1> USE DEF TypeOK, file, handler, past, net, ether
<1>1. ASSUME NEW c \in Commands, Send(c) PROVE TypeOK'
  <2>1. sent' \in Seq(Commands) /\ Len(sent') <= MaxReq /\ sent' # <<>>
    <3>1. sent \in Seq(Commands) /\ sent' = Append(sent, c) /\ Len(sent) < MaxReq
      BY <1>1 DEF Send, ClientType
    <3>2. sent' \in Seq(Commands) /\ Len(sent') = Len(sent) + 1
      BY <3>1
    <3>3. Len(sent) \in Nat
      BY <3>1
    <3>4. Len(sent') <= MaxReq
      BY <3>1, <3>2, <3>3, Numbers
    <3>5. sent' # <<>>
      BY <3>2, <3>3
    <3> QED
      BY <3>2, <3>4, <3>5
  <2>2. answers = {}
    BY <1>1, Zenon DEF Send, ClientType
  <2>3. ClientType'
    BY <1>1, <2>1, <2>2 DEF Send, ClientType
  <2>4. \A n \in 1..Len(sent) : n \in 1..Len(sent') /\ sent'[n] = sent[n]
    BY <1>1 DEF Send, ClientType
  <2>5. HandlerType'
    BY <1>1, <2>4 DEF Send, HandlerType
  <2> QED
    BY <1>1, <2>3, <2>5 DEF Send, FileType, NetType
<1>2. ASSUME Forget, waiting, answers' = {}, waiting' = FALSE, sent' = sent
      PROVE  ClientType'
  <2>1. believed' \in [Register \cup Memory -> SUBSET Data]
    BY <1>2 DEF Forget, ClientType
  <2> QED
    BY <1>2, <2>1 DEF ClientType
<1>3. CASE GiveUp
  <2>1. ClientType'
    BY <1>2, <1>3 DEF GiveUp
  <2> QED
    BY <1>3, <2>1 DEF GiveUp, FileType, HandlerType, NetType
<1>4. ASSUME NEW ans \in answers, Accept(ans) PROVE TypeOK'
  <2>1. CASE ans.status # "success"
    <3>1. ClientType'
      BY <1>2, <1>4, <2>1 DEF Accept
    <3> QED
      BY <1>4, <3>1 DEF Accept, FileType, HandlerType, NetType
  <2>2. CASE ans.status = "success"
    <3>1. Last \in Request /\ Last.list \in Seq(Write)
      <4>1. Last \in Commands
        BY <1>4 DEF Accept, Last, ClientType
      <4> QED
        BY <4>1, GvcpAssumption DEF Request
    <3>2. ans.index \in Nat /\ ans.index <= Len(Last.list)
      BY DEF ClientType, Values
    <3>3. \A a : Put(Last.list, ans.index, a) \subseteq Data
      BY <3>1, <3>2, PutData
    <3>4. believed' = [a \in DOMAIN believed |->
             LET done == Put(Last.list, ans.index, a)
             IN IF a \in Changes(Last) /\ done # {} THEN done ELSE believed[a]]
      BY <1>4, <2>2 DEF Accept
    <3>5. believed' \in [Register \cup Memory -> SUBSET Data]
      BY <3>3, <3>4 DEF ClientType
    <3>6. ClientType'
      BY <1>4, <3>5 DEF Accept, ClientType
    <3> QED
      BY <1>4, <3>6 DEF Accept, FileType, HandlerType, NetType
  <2> QED
    BY <2>1, <2>2
<1> QED
  BY <1>1, <1>3, <1>4

LEMMA HandlerStep ==
  ASSUME TypeOK,
         \/ \E n \in 1..Len(sent) : Arrive(n)
         \/ WriteOne \/ WriteFails \/ ReadOne \/ ReadFails \/ Done
         \/ WriteMem \/ ForceIp
  PROVE  TypeOK'
<1> USE DEF TypeOK, file, past, net, ether
<1>0. <<>> \in Seq(Data)
  OBVIOUS
<1>1. ASSUME NEW n \in 1..Len(sent), Arrive(n) PROVE TypeOK'
  <2>1. HandlerType'
    BY <1>1 DEF Arrive, HandlerType, client
  <2>2. ClientType'
    BY <1>1, ClientKept DEF Arrive
  <2> QED
    BY <1>1, <2>1, <2>2 DEF Arrive, FileType, NetType
<1>2. CASE WriteOne
  <2>1. Here \in Write /\ cmd # Idle /\ i \in 1..Len(cmd.list)
    BY <1>2, HereWrite DEF WriteOne
  <2>2. Here.at \in Register /\ Here.data \in Data
    <3>1. Kind(Here.at) = "reg"
      BY <1>2 DEF WriteOne
    <3> QED
      BY <2>1, <3>1, KindPlace DEF Write
  <2>3. /\ reg' \in [Register \cup Memory -> Data]
        /\ newest' \in [Register \cup Memory -> 0..MaxReq]
        /\ late' \subseteq Register \cup Memory
    BY <1>2, <2>1, <2>2, StoreType DEF WriteOne
  <2>4. conf' \in [Configured -> Data]
    BY <1>2, <2>2, InForceData DEF WriteOne, FileType
  <2>5. FileType'
    BY <2>3, <2>4 DEF FileType
  <2>6. HandlerType'
    BY <1>2 DEF WriteOne, HandlerType, client
  <2>7. ClientType'
    BY <1>2, ClientKept DEF WriteOne
  <2> QED
    BY <1>2, <2>5, <2>6, <2>7 DEF WriteOne, NetType
<1>3. ASSUME NEW status \in {"success", "invalid_address", "write_protect"},
             NEW n \in Nat, n <= Len(cmd.list), NEW values \in Seq(Data),
             Answer(status, n, values), UNCHANGED client, cmd # Idle
      PROVE  HandlerType' /\ ClientType'
  BY <1>3, AnswerType
<1>4. ASSUME NEW op \in {"writereg", "readreg", "writemem"}, Doing(op)
      PROVE  /\ cmd # Idle /\ 0 <= Len(cmd.list) /\ 1 <= Len(cmd.list)
             /\ i - 1 \in Nat /\ i - 1 <= Len(cmd.list)
  BY <1>4, HereWrite, ServedRequest
<1>5. CASE WriteFails
  <2>1. HandlerType' /\ ClientType'
    BY <1>0, <1>3, <1>4, <1>5 DEF WriteFails, Error
  <2> QED
    BY <1>5, <2>1 DEF WriteFails, FileType, NetType
<1>6. CASE ReadOne
  <2>1. Here \in Write
    BY <1>6, HereWrite DEF ReadOne
  <2>2. out' \in Seq(Data)
    <3>1. Kind(Here.at) = "reg" /\ out' = Append(out, reg[Here.at])
      BY <1>6 DEF ReadOne
    <3>2. reg[Here.at] \in Data
      BY <3>1, KindPlace DEF FileType
    <3> QED
      BY <3>1, <3>2 DEF HandlerType
  <2>3. HandlerType'
    BY <1>6, <2>2 DEF ReadOne, HandlerType, client
  <2>4. ClientType'
    BY <1>6, ClientKept DEF ReadOne
  <2> QED
    BY <1>6, <2>3, <2>4 DEF ReadOne, FileType, NetType
<1>7. CASE ReadFails
  <2>1. HandlerType' /\ ClientType'
    BY <1>0, <1>3, <1>4, <1>7 DEF ReadFails, Error
  <2> QED
    BY <1>7, <2>1 DEF ReadFails, FileType, NetType
<1>8. CASE Done
  <2>1. cmd # Idle
    BY <1>8 DEF Done, Idle
  <2>2. Len(cmd.list) \in Nat /\ out \in Seq(Data)
    BY <2>1, ServedRequest DEF HandlerType
  <2>3. HandlerType' /\ ClientType'
    BY <1>3, <1>8, <2>1, <2>2 DEF Done
  <2> QED
    BY <1>8, <2>3 DEF Done, FileType, NetType
<1>9. CASE WriteMem
  <2>1. Here \in Write /\ cmd # Idle
    BY <1>9, HereWrite DEF WriteMem
  <2>2. HandlerType' /\ ClientType'
    BY <1>0, <1>3, <1>4, <1>9 DEF WriteMem, Error
  <2>3. CASE Kind(Here.at) = "mem" /\ Writable(Here.at)
    <3>1. Store(Here.at, Here.data) /\ conf' = conf
      BY <1>9, <2>3 DEF WriteMem
    <3>2. /\ reg' \in [Register \cup Memory -> Data]
          /\ newest' \in [Register \cup Memory -> 0..MaxReq]
          /\ late' \subseteq Register \cup Memory
      BY <2>1, <2>3, <3>1, KindPlace, StoreType DEF Write
    <3> QED
      BY <1>9, <2>2, <3>1, <3>2 DEF WriteMem, FileType, NetType
  <2>4. CASE ~(Kind(Here.at) = "mem" /\ Writable(Here.at))
    <3>1. UNCHANGED <<file, past>>
      BY <1>9, <2>4 DEF WriteMem
    <3> QED
      BY <1>9, <2>2, <3>1 DEF WriteMem, FileType, NetType
  <2> QED
    BY <2>3, <2>4
<1>10. CASE ForceIp
  <2>1. cmd # Idle
    BY <1>10 DEF ForceIp, Idle
  <2>2. cmd \in Request /\ cmd.op = "forceip" /\ Len(cmd.list) \in Nat
    BY <1>10, <2>1, ServedRequest DEF ForceIp
  <2>3. cmd.address \in Address
    BY <2>2 DEF Request
  <2>4. CASE cmd' = Idle /\ id' = 0 /\ UNCHANGED <<i, out, answers, ip, route>>
    <3>1. HandlerType' /\ ClientType'
      BY <1>10, <2>4, ClientKept DEF ForceIp, HandlerType
    <3> QED
      BY <1>10, <2>4, <3>1 DEF ForceIp, FileType, NetType
  <2>5. ASSUME NEW e \in Iface, ip' = [ip EXCEPT ![e] = cmd.address],
               route' \in {route, e}, Answer("success", 0, <<>>)
        PROVE  TypeOK'
    <3>1. HandlerType' /\ ClientType'
      <4>1. UNCHANGED client /\ 0 <= Len(cmd.list)
        BY <1>10, <2>2 DEF ForceIp
      <4> QED
        BY <1>0, <1>3, <2>1, <2>5, <4>1
    <3> QED
      BY <1>10, <2>3, <2>5, <3>1 DEF ForceIp, FileType, NetType
  <2> QED
    BY <1>10, <2>4, <2>5 DEF ForceIp
<1> QED
  BY <1>1, <1>2, <1>5, <1>6, <1>7, <1>8, <1>9, <1>10

LEMMA NetStep ==
  ASSUME TypeOK, Move \/ Refresh
  PROVE  TypeOK'
<1> USE DEF TypeOK, file, past, handler
<1>1. CASE Move
  <2>1. NetType'
    BY <1>1, Numbers DEF Move, NetType, ether
  <2>2. ClientType'
    BY <1>1, ClientKept DEF Move
  <2> QED
    BY <1>1, <2>1, <2>2 DEF Move, FileType, HandlerType, client
<1>2. CASE Refresh
  <2>1. NetType'
    BY <1>2 DEF Refresh, NetType, net
  <2>2. ClientType'
    BY <1>2, ClientKept DEF Refresh
  <2>3. ifrname' # NoIface => ip[ifrname'] \in Data
    BY <2>1, Numbers DEF NetType
  <2>4. FileType'
    BY <1>2, <2>3, RegisterKinds DEF Refresh, FileType
  <2> QED
    BY <1>2, <2>1, <2>2, <2>4 DEF Refresh, HandlerType, client
<1> QED
  BY <1>1, <1>2

-----------------------------------------------------------------------------
(* The two handlers that store a value, and the refresh: only a writable   *)
(* register changes, and together with the configuration.                  *)
LEMMA ConfStep ==
  ASSUME TypeOK, ConfFollows, [Next]_vars
  PROVE  ConfFollows'
<1> USE DEF ConfFollows
<1>1. CASE WriteOne
  <2>1. Here.at \in Register
    BY <1>1, KindPlace DEF WriteOne
  <2>2. /\ reg' = [reg EXCEPT ![Here.at] = Here.data]
        /\ conf' = IF Here.at \in Configured
                   THEN [conf EXCEPT ![Here.at] = InForce(Here.at, Here.data)]
                   ELSE conf
        /\ \A a \in Register : a # Here.at => newest'[a] = newest[a]
    BY <1>1, RegisterKinds DEF WriteOne, Store, TypeOK, FileType
  <2> QED
    BY <2>1, <2>2, RegisterKinds DEF TypeOK, FileType
<1>2. CASE WriteMem
  <2>1. CASE Kind(Here.at) = "mem" /\ Store(Here.at, Here.data) /\ conf' = conf
    BY <2>1, KindPlace, RegisterKinds DEF Store, TypeOK, FileType
  <2>2. CASE UNCHANGED <<file, past>>
    BY <2>2 DEF file, past
  <2> QED
    BY <1>2, <2>1, <2>2 DEF WriteMem
<1>3. CASE Refresh
  <2>0. newest' = newest
    BY <1>3 DEF Refresh, past
  <2>1. CASE reg' = reg /\ conf' = conf
    BY <2>0, <2>1
  <2>2. ASSUME NEW v, reg' = [reg EXCEPT !["ip"] = v], conf' = [conf EXCEPT !["ip"] = v]
        PROVE  ConfFollows'
    <3>1. InForce("ip", v) = v
      BY DEF InForce
    <3> QED
      BY <2>0, <2>2, <3>1, RegisterKinds DEF TypeOK, FileType
  <2> QED
    BY <1>3, <2>1, <2>2 DEF Refresh
<1>4. CASE UNCHANGED <<file, past>>
  BY <1>4 DEF file, past
<1>5. ASSUME NEW c \in Commands, Send(c) PROVE ConfFollows'
  BY <1>4, <1>5 DEF Send
<1>6. ASSUME NEW ans \in answers, Accept(ans) PROVE ConfFollows'
  BY <1>4, <1>6 DEF Accept
<1>7. ASSUME NEW n \in 1..Len(sent), Arrive(n) PROVE ConfFollows'
  BY <1>4, <1>7 DEF Arrive
<1>8. CASE WriteFails \/ ReadOne \/ ReadFails \/ Done
  BY <1>4, <1>8 DEF WriteFails, ReadOne, ReadFails, Done
<1>9. CASE GiveUp \/ ForceIp \/ Move \/ UNCHANGED vars
  BY <1>4, <1>9 DEF GiveUp, ForceIp, Move, vars
<1> QED
  BY <1>1, <1>2, <1>3, <1>5, <1>6, <1>7, <1>8, <1>9 DEF Next

LEMMA AddressStep ==
  ASSUME TypeOK, AddressTold, [Next]_vars
  PROVE  AddressTold'
<1> USE DEF AddressTold
<1>1. CASE WriteOne
  <2>1. Here.at # "ip"
    BY <1>1, RegisterKinds DEF WriteOne
  <2> QED
    BY <1>1, <2>1, RegisterKinds DEF WriteOne, Store, ether, TypeOK, FileType
<1>2. CASE WriteMem
  <2>1. CASE Kind(Here.at) = "mem" /\ Store(Here.at, Here.data)
    BY <1>2, <2>1, KindPlace, RegisterKinds DEF WriteMem, Store, ether, TypeOK, FileType
  <2>2. CASE UNCHANGED file
    BY <1>2, <2>2 DEF WriteMem, file, ether
  <2> QED
    BY <1>2, <2>1, <2>2 DEF WriteMem
<1>3. CASE Refresh
  <2>1. CASE ifrname' # NoIface /\ ip[ifrname'] # seen[ifrname']
    BY <1>3, <2>1, RegisterKinds DEF Refresh, net, TypeOK, FileType
  <2>2. CASE ~(ifrname' # NoIface /\ ip[ifrname'] # seen[ifrname'])
    <3>1. reg' = reg /\ seen' = ip /\ adopted' = (adopted \/ ifrname' # ifrname)
      BY <1>3, <2>2, Zenon DEF Refresh
    <3>2. ~adopted' => ~adopted /\ ifrname' = ifrname
      BY <3>1, Zenon
    <3> QED
      BY <2>2, <3>1, <3>2
  <2> QED
    BY <2>1, <2>2
<1>4. CASE UNCHANGED <<file, ether>>
  BY <1>4 DEF file, ether
<1>5. ASSUME NEW c \in Commands, Send(c) PROVE AddressTold'
  BY <1>4, <1>5 DEF Send
<1>6. ASSUME NEW ans \in answers, Accept(ans) PROVE AddressTold'
  BY <1>4, <1>6 DEF Accept
<1>7. ASSUME NEW n \in 1..Len(sent), Arrive(n) PROVE AddressTold'
  BY <1>4, <1>7 DEF Arrive
<1>8. CASE WriteFails \/ ReadOne \/ ReadFails \/ Done
  BY <1>4, <1>8 DEF WriteFails, ReadOne, ReadFails, Done
<1>9. CASE GiveUp \/ ForceIp \/ Move \/ UNCHANGED vars
  BY <1>4, <1>9 DEF GiveUp, ForceIp, Move, vars
<1> QED
  BY <1>1, <1>2, <1>3, <1>5, <1>6, <1>7, <1>8, <1>9 DEF Next

-----------------------------------------------------------------------------
(* The inductive invariant of the control channel holds in every state. *)
THEOREM Invariance == Spec => []IInv
<1>1. TypeOK /\ [Next]_vars => TypeOK'
  <2>1. CASE UNCHANGED vars
    BY <2>1 DEF vars, file, handler, client, past, net, ether, TypeOK, FileType,
       HandlerType, ClientType, NetType, Last
  <2> QED
    BY <2>1, ClientStep, HandlerStep, NetStep DEF Next
<1>2. IInv /\ [Next]_vars => IInv'
  BY <1>1, ConfStep, AddressStep DEF IInv
<1> QED
  BY <1>2, InitIInv, PTL DEF Spec

(* The configuration in force is what the registers say, in the middle of  *)
(* a write of several registers and after any refusal, too; all but the    *)
(* source port of the message channel, until a request first writes it.    *)
THEOREM Followed == Spec => []ConfFollows
<1>1. IInv => ConfFollows
  BY DEF IInv
<1> QED
  BY <1>1, Invariance, PTL

(* The address of the registers is that of the default route as last seen, *)
(* unless an interface took the route with an address already seen.        *)
THEOREM Told == Spec => []AddressTold
<1>1. IInv => AddressTold
  BY DEF IInv
<1> QED
  BY <1>1, Invariance, PTL

-----------------------------------------------------------------------------
(* Why ClientKnows holds.  A write request does the same whenever it is    *)
(* carried out: it writes its registers up to the first that is not        *)
(* accepted.  So a place holds what the newest request that touched it put *)
(* there, unless an older one came late, and the client knows what the     *)
(* newest request but for the one under way put there.                     *)

Cell == Register \cup Memory

Accepted(w) == Kind(w.at) = "reg" /\ Writable(w.at) /\ ~Refused(w)

(* The writes of request r that are carried out, by their numbers.         *)
Carried(r) ==
  CASE r.op = "writereg" ->
         {k \in 1..Len(r.list) : \A j \in 1..k : Accepted(r.list[j])}
    [] r.op = "writemem" ->
         {k \in {1} : Kind(r.list[k].at) = "mem" /\ Writable(r.list[k].at)}
    [] OTHER -> {}

Touches(r, a) == \E k \in Carried(r) : r.list[k].at = a

(* What request r leaves in a, at most one value.                          *)
Effect(r, a) ==
  {r.list[k].data :
     k \in {j \in Carried(r) :
              /\ r.list[j].at = a
              /\ \A l \in Carried(r) : l > j => r.list[l].at # a}}

(* The handler at its loop index.                                          *)
Shape ==
  /\ cmd.op \notin {"writereg", "readreg"} => i = 1
  /\ IF cmd.op = "readreg" THEN Len(out) = i - 1 ELSE out = <<>>
  /\ cmd.op = "writereg" =>
       /\ i <= Len(cmd.list) + 1
       /\ \A k \in 1..(i - 1) :
            /\ Accepted(cmd.list[k])
            /\ newest[cmd.list[k].at] >= id
            /\ Put(cmd.list, i - 1, cmd.list[k].at) # {}

Touched ==
  \A a \in Cell : newest[a] # 0 =>
    newest[a] <= Len(sent) /\ Touches(sent[newest[a]], a)

(* The request being carried out has written a, and no newer one has.      *)
Midway(a) ==
  /\ cmd.op = "writereg" /\ id = newest[a]
  /\ \E k \in 1..(i - 1) : cmd.list[k].at = a

Stands ==
  \A a \in Cell \ late : newest[a] # 0 =>
    {reg[a]} = IF Midway(a) THEN Put(cmd.list, i - 1, a)
               ELSE Effect(sent[newest[a]], a)

Answered ==
  \A ans \in answers :
    /\ ans.status = "success" /\ Last.op \in {"writereg", "writemem"} =>
         Carried(Last) = 1..ans.index
    /\ \A a \in Cell : Touches(Last, a) =>
         newest[a] = Len(sent) /\ Effect(Last, a) # {}

(* No request has touched a since the one whose effect the client knows,   *)
(* but for the one it waits for.                                           *)
Known ==
  \A a \in Cell : believed[a] # {} =>
    \E m \in 1..newest[a] :
      /\ believed[a] = Effect(sent[m], a)
      /\ \A n \in (m + 1)..Len(sent) :
           Touches(sent[n], a) => waiting /\ n = Len(sent)

Tell(list, values) ==
  \A k \in 1..Len(values) :
    \/ believed[list[k].at] \subseteq {values[k]}
    \/ list[k].at \in late

ReadsTell ==
  /\ waiting /\ id = Len(sent) /\ cmd.op = "readreg" => Tell(cmd.list, out)
  /\ \A ans \in answers : Last.op = "readreg" => Tell(Last.list, ans.values)

KnowInv ==
  TypeOK /\ Shape /\ Touched /\ Stands /\ Answered /\ Known /\ ReadsTell

-----------------------------------------------------------------------------
(* Requests, and what they do. *)

LEMMA SentRequest ==
  ASSUME ClientType, NEW n \in 1..Len(sent)
  PROVE  /\ sent[n] \in Request /\ sent[n].list \in Seq(Write)
         /\ sent[n].list # <<>> /\ Len(sent[n].list) \in Nat \ {0}
<1>1. sent[n] \in Commands
  BY DEF ClientType
<1>2. sent[n] \in Request /\ sent[n].list # <<>>
  BY <1>1, GvcpAssumption
<1>3. sent[n].list \in Seq(Write)
  BY <1>2 DEF Request
<1> QED
  BY <1>2, <1>3

(* A write appended to a prefix of a list. *)
LEMMA PutNext ==
  ASSUME NEW list \in Seq(Write), NEW n \in Nat, n + 1 <= Len(list), NEW a
  PROVE  Put(list, n + 1, a) =
           IF list[n + 1].at = a THEN {list[n + 1].data} ELSE Put(list, n, a)
<1>1. CASE list[n + 1].at = a
  <2>1. {j \in 1..(n + 1) : /\ list[j].at = a
                            /\ \A l \in (j + 1)..(n + 1) : list[l].at # a} = {n + 1}
    <3>1. ASSUME NEW j \in 1..(n + 1), j # n + 1
          PROVE  ~(\A l \in (j + 1)..(n + 1) : list[l].at # a)
      BY <1>1, <3>1, n + 1 \in (j + 1)..(n + 1)
    <3>2. \A l \in (n + 1 + 1)..(n + 1) : FALSE
      OBVIOUS
    <3> QED
      BY <1>1, <3>1, <3>2
  <2> QED
    BY <1>1, <2>1 DEF Put
<1>2. CASE list[n + 1].at # a
  <2>1. {j \in 1..(n + 1) : /\ list[j].at = a
                            /\ \A l \in (j + 1)..(n + 1) : list[l].at # a}
        = {j \in 1..n : /\ list[j].at = a
                        /\ \A l \in (j + 1)..n : list[l].at # a}
    <3>1. ASSUME NEW j \in 1..n
          PROVE  (\A l \in (j + 1)..(n + 1) : list[l].at # a)
                   <=> (\A l \in (j + 1)..n : list[l].at # a)
      <4>1. (j + 1)..(n + 1) = ((j + 1)..n) \cup {n + 1}
        OBVIOUS
      <4> QED
        BY <1>2, <4>1
    <3>2. 1..(n + 1) = (1..n) \cup {n + 1}
      OBVIOUS
    <3> QED
      BY <1>2, <3>1, <3>2
  <2> QED
    BY <1>2, <2>1 DEF Put
<1> QED
  BY <1>1, <1>2

(* The loop of csv_gvcp_writereg_ack carries out what it accepts, and the  *)
(* writes up to the first failure are all of it.                           *)
LEMMA CarriedPrefix ==
  ASSUME NEW r \in Request, r.op = "writereg", NEW n \in 0..Len(r.list),
         \A k \in 1..n : Accepted(r.list[k])
  PROVE  /\ 1..n \subseteq Carried(r)
         /\ n = Len(r.list) \/ ~Accepted(r.list[n + 1]) => Carried(r) = 1..n
<1>0. Len(r.list) \in Nat /\ n \in Nat
  BY DEF Request
<1>1. Carried(r) = {k \in 1..Len(r.list) : \A j \in 1..k : Accepted(r.list[j])}
  BY DEF Carried
<1>2. ASSUME NEW k \in 1..n PROVE k \in Carried(r)
  <2>1. k \in 1..Len(r.list) /\ \A j \in 1..k : j \in 1..n
    BY <1>0
  <2> QED
    BY <1>1, <2>1
<1>3. ASSUME n = Len(r.list) \/ ~Accepted(r.list[n + 1]), NEW k \in Carried(r)
      PROVE  k \in 1..n
  <2>1. k \in 1..Len(r.list) /\ \A j \in 1..k : Accepted(r.list[j])
    BY <1>1
  <2>2. CASE k > n
    <3>1. n + 1 \in 1..k /\ n # Len(r.list)
      BY <1>0, <2>1, <2>2
    <3> QED
      BY <1>3, <2>1, <3>1
  <2> QED
    BY <1>0, <2>1, <2>2
<1> QED
  BY <1>2, <1>3

LEMMA EffectPut ==
  ASSUME NEW r, NEW n \in Nat, Carried(r) = 1..n, NEW a
  PROVE  /\ Effect(r, a) = Put(r.list, n, a)
         /\ Touches(r, a) <=> \E k \in 1..n : r.list[k].at = a
<1>1. ASSUME NEW j \in 1..n
      PROVE  (\A l \in 1..n : l > j => r.list[l].at # a)
               <=> (\A l \in (j + 1)..n : r.list[l].at # a)
  OBVIOUS
<1>2. {j \in 1..n : r.list[j].at = a /\ \A l \in 1..n : l > j => r.list[l].at # a}
      = {j \in 1..n : r.list[j].at = a /\ \A l \in (j + 1)..n : r.list[l].at # a}
  BY <1>1
<1> QED
  BY <1>2 DEF Effect, Put, Touches

LEMMA TouchesChanges ==
  ASSUME NEW r \in Request, r.list # <<>>, NEW a, Touches(r, a)
  PROVE  /\ a \in Changes(r) /\ a \in Cell /\ a # "ip"
         /\ r.op \in {"writereg", "writemem"}
<1>1. r.list \in Seq(Write) /\ Len(r.list) \in Nat \ {0}
  BY DEF Request
<1>2. PICK k \in Carried(r) : r.list[k].at = a
  BY DEF Touches
<1>3. CASE r.op = "writereg"
  <2>1. k \in 1..Len(r.list) /\ Accepted(r.list[k])
    BY <1>1, <1>2, <1>3 DEF Carried
  <2>2. a \in Register /\ Writable(a)
    BY <1>2, <2>1, KindPlace DEF Accepted
  <2> QED
    BY <1>2, <1>3, <2>1, <2>2, RegisterKinds DEF Changes, Places, Cell
<1>4. CASE r.op = "writemem"
  <2>1. k = 1 /\ Kind(r.list[k].at) = "mem"
    BY <1>2, <1>4 DEF Carried
  <2>2. a \in Memory /\ k \in 1..Len(r.list)
    BY <1>1, <1>2, <2>1, KindPlace
  <2> QED
    BY <1>2, <1>4, <2>2, RegisterKinds DEF Changes, Places, Cell
<1> QED
  BY <1>2, <1>3, <1>4 DEF Carried

LEMMA ReadsTouchNothing ==
  ASSUME NEW r, r.op \notin {"writereg", "writemem"}, NEW a
  PROVE  ~Touches(r, a) /\ Effect(r, a) = {}
BY DEF Touches, Effect, Carried

-----------------------------------------------------------------------------
(* The client's steps. *)

LEMMA Counted ==
  ASSUME TypeOK
  PROVE  Len(sent) \in Nat /\ \A a \in Cell : newest[a] \in Nat
<1>1. sent \in Seq(Commands)
  BY DEF TypeOK, ClientType
<1>2. \A a \in Cell : newest[a] \in 0..MaxReq
  BY DEF TypeOK, FileType, Cell
<1>3. Len(sent) \in Nat
  BY <1>1
<1>4. \A a \in Cell : newest[a] \in Nat
  BY <1>2, Numbers
<1> QED
  BY <1>3, <1>4

(* Stands, after a step. *)
LEMMA StandsNext ==
  ASSUME \A a \in Cell \ late' : newest'[a] # 0 =>
           {reg'[a]} =
             IF /\ cmd'.op = "writereg" /\ id' = newest'[a]
                /\ \E k \in 1..(i' - 1) : cmd'.list[k].at = a
             THEN Put(cmd'.list, i' - 1, a)
             ELSE Effect(sent'[newest'[a]], a)
  PROVE  Stands'
BY DEF Stands, Midway

LEMMA InitKnow == Init => KnowInv
<1> SUFFICES ASSUME Init PROVE KnowInv
  OBVIOUS
<1>1. TypeOK
  BY InitIInv DEF IInv
<1>2. Shape
  BY DEF Init, Shape, Idle
<1> QED
  BY <1>1, <1>2 DEF Init, KnowInv, Touched, Stands, Answered, Known, ReadsTell, Cell

(* A request that is made has not been carried out yet. *)
LEMMA SendKeeps ==
  ASSUME KnowInv, NEW c \in Commands, Send(c), TypeOK'
  PROVE  KnowInv'
<1> USE DEF KnowInv, TypeOK
<1>1. /\ sent \in Seq(Commands) /\ sent' = Append(sent, c)
      /\ ~waiting /\ answers = {} /\ waiting'
      /\ UNCHANGED <<reg, cmd, id, i, out, answers, believed, newest, late>>
  BY Zenon DEF Send, ClientType, file, handler, past
<1>2. /\ Len(sent) \in Nat /\ Len(sent') = Len(sent) + 1
      /\ \A n \in 1..Len(sent) : sent'[n] = sent[n]
  BY <1>1
<1>3. \A a \in Cell : newest[a] \in Nat
  BY Numbers DEF FileType, Cell
<1>4. Shape'
  BY <1>1 DEF Shape, Put
<1>5. Touched'
  BY <1>1, <1>2, <1>3 DEF Touched, Touches, Carried
<1>6. Stands'
  <2>1. ASSUME NEW a \in Cell \ late, newest[a] # 0
        PROVE  {reg[a]} = IF Midway(a) THEN Put(cmd.list, i - 1, a)
                          ELSE Effect(sent'[newest[a]], a)
    <3>1. newest[a] \in 1..Len(sent)
      BY <1>2, <1>3, <2>1 DEF Touched
    <3> QED
      BY <1>2, <2>1, <3>1 DEF Stands
  <2> QED
    BY <1>1, <2>1, StandsNext DEF Midway
<1>7. Answered'
  BY <1>1 DEF Answered
<1>8. Known'
  <2>1. ASSUME NEW a \in Cell, believed[a] # {}
        PROVE  \E m \in 1..newest[a] :
                 /\ believed[a] = Effect(sent'[m], a)
                 /\ \A n \in (m + 1)..Len(sent') :
                      Touches(sent'[n], a) => n = Len(sent')
    <3>1. PICK m \in 1..newest[a] :
            /\ believed[a] = Effect(sent[m], a)
            /\ \A n \in (m + 1)..Len(sent) : ~Touches(sent[n], a)
      BY <1>1, <2>1 DEF Known
    <3>2. m \in 1..Len(sent)
      BY <1>2, <1>3, <3>1 DEF Touched
    <3>3. believed[a] = Effect(sent'[m], a)
      BY <1>2, <3>1, <3>2
    <3>4. ASSUME NEW n \in (m + 1)..Len(sent'), n # Len(sent')
          PROVE  ~Touches(sent'[n], a)
      <4>1. n \in (m + 1)..Len(sent) /\ n \in 1..Len(sent)
        BY <1>2, <3>2, <3>4
      <4> QED
        BY <1>2, <3>1, <4>1
    <3> QED
      BY <3>3, <3>4
  <2> QED
    BY <1>1, <2>1 DEF Known, Effect, Touches, Carried
<1>9. ReadsTell'
  <2>1. id # Len(sent')
    BY <1>2 DEF HandlerType
  <2> QED
    BY <1>1, <2>1 DEF ReadsTell
<1> QED
  BY <1>4, <1>5, <1>6, <1>7, <1>8, <1>9

(* The client gives up, or takes the answer. *)
LEMMA EndOfWait ==
  ASSUME KnowInv, waiting, waiting' = FALSE, answers' = {}, TypeOK',
         UNCHANGED <<file, handler, sent, past>>,
         \A a \in Cell : \/ believed'[a] = {}
                         \/ believed'[a] = believed[a] /\ ~Touches(Last, a)
                         \/ /\ believed'[a] = Effect(Last, a)
                            /\ Len(sent) \in 1..newest[a]
  PROVE  KnowInv'
<1>1. /\ Len(sent) \in Nat /\ Last = sent[Len(sent)]
      /\ \A a \in Cell : newest[a] \in Nat
  BY Counted DEF KnowInv, Last
<1>0. UNCHANGED <<reg, cmd, id, i, out, sent, newest, late>>
  BY DEF file, handler, past
<1>2. Shape' /\ Touched' /\ Stands'
  <2>1. Shape'
    BY <1>0 DEF KnowInv, Shape, Put
  <2>2. Touched'
    BY <1>0 DEF KnowInv, Touched, Touches, Carried
  <2>3. Stands'
    BY <1>0 DEF KnowInv, Stands, Midway
  <2> QED
    BY <2>1, <2>2, <2>3
<1>3. Answered' /\ ReadsTell'
  <2>1. Answered'
    BY DEF Answered
  <2>2. ReadsTell'
    BY DEF ReadsTell
  <2> QED
    BY <2>1, <2>2
<1>4. Known'
  <2>1. ASSUME NEW a \in Cell, believed'[a] # {}
        PROVE  \E m \in 1..newest[a] :
                 /\ believed'[a] = Effect(sent[m], a)
                 /\ \A n \in (m + 1)..Len(sent) : ~Touches(sent[n], a)
    <3>1. CASE believed'[a] = believed[a] /\ ~Touches(Last, a)
      <4>1. PICK m \in 1..newest[a] :
              /\ believed[a] = Effect(sent[m], a)
              /\ \A n \in (m + 1)..Len(sent) : Touches(sent[n], a) => n = Len(sent)
        BY <2>1, <3>1 DEF KnowInv, Known
      <4> QED
        BY <1>1, <3>1, <4>1
    <3>2. CASE believed'[a] = Effect(Last, a) /\ Len(sent) \in 1..newest[a]
      <4>1. \A n \in (Len(sent) + 1)..Len(sent) : FALSE
        BY <1>1
      <4> QED
        BY <1>1, <3>2, <4>1
    <3> QED
      BY <2>1, <3>1, <3>2
  <2> QED
    BY <1>0, <2>1, SMTT(20) DEF Known, Effect, Touches, Carried
<1> QED
  BY <1>2, <1>3, <1>4 DEF KnowInv

LEMMA LastRequest ==
  ASSUME TypeOK, waiting
  PROVE  /\ Len(sent) \in 1..Len(sent) /\ Last = sent[Len(sent)] /\ Last \in Request
         /\ Last.list \in Seq(Write) /\ Last.list # <<>>
<1>1. sent \in Seq(Commands) /\ sent # <<>>
  BY DEF TypeOK, ClientType
<1>2. Len(sent) \in 1..Len(sent)
  BY <1>1
<1> QED
  BY <1>2, SentRequest DEF TypeOK, Last

LEMMA ForgetKeeps ==
  ASSUME KnowInv, waiting, waiting' = FALSE, answers' = {}, Forget, TypeOK',
         UNCHANGED <<file, handler, sent, past>>
  PROVE  KnowInv'
<1>1. Last \in Request /\ Last.list # <<>> /\ DOMAIN believed = Cell
  BY LastRequest DEF KnowInv, TypeOK, ClientType, Cell
<1>2. \A a \in Cell : believed'[a] = IF a \in Changes(Last) THEN {} ELSE believed[a]
  BY <1>1 DEF Forget
<1>3. \A a \in Cell : Touches(Last, a) => a \in Changes(Last)
  BY <1>1, TouchesChanges
<1> QED
  BY <1>2, <1>3, EndOfWait

LEMMA AcceptKeeps ==
  ASSUME KnowInv, NEW ans \in answers, Accept(ans), TypeOK'
  PROVE  KnowInv'
<1>0. waiting /\ waiting' = FALSE /\ answers' = {} /\ UNCHANGED <<file, handler, sent, past>>
  BY DEF Accept
<1>1. CASE ans.status # "success"
  BY <1>0, <1>1, ForgetKeeps DEF Accept
<1>2. CASE ans.status = "success"
  <2>1. Last \in Request /\ Last.list # <<>> /\ DOMAIN believed = Cell
    BY <1>0, LastRequest DEF KnowInv, TypeOK, ClientType, Cell
  <2>2. \A a \in Cell : believed'[a] =
          LET done == Put(Last.list, ans.index, a)
          IN IF a \in Changes(Last) /\ done # {} THEN done ELSE believed[a]
    BY <1>2, <2>1 DEF Accept
  <2>3. ASSUME NEW a \in Cell, Touches(Last, a)
        PROVE  believed'[a] = Effect(Last, a) /\ Len(sent) \in 1..newest[a]
    <3>1. a \in Changes(Last) /\ Last.op \in {"writereg", "writemem"}
      BY <2>1, <2>3, TouchesChanges
    <3>2. Carried(Last) = 1..ans.index /\ newest[a] = Len(sent) /\ Effect(Last, a) # {}
      BY <1>2, <2>3, <3>1 DEF KnowInv, Answered
    <3>3. Effect(Last, a) = Put(Last.list, ans.index, a)
      <4>1. ans.index \in Nat
        BY DEF KnowInv, TypeOK, ClientType, Values
      <4> QED
        BY <3>2, <4>1, EffectPut
    <3> QED
      BY <1>0, <2>2, <3>1, <3>2, <3>3, LastRequest DEF KnowInv
  <2>4. ASSUME NEW a \in Cell, ~Touches(Last, a)
        PROVE  believed'[a] = believed[a]
    <3>1. CASE Last.op \in {"writereg", "writemem"}
      <4>1. Carried(Last) = 1..ans.index /\ ans.index \in Nat
        BY <1>2, <3>1 DEF KnowInv, Answered, TypeOK, ClientType, Values
      <4>2. \A k \in 1..ans.index : Last.list[k].at # a
        BY <2>4, <4>1 DEF Touches
      <4>3. Put(Last.list, ans.index, a) = {}
        BY <4>2 DEF Put
      <4> QED
        BY <2>2, <4>3
    <3>2. CASE Last.op \notin {"writereg", "writemem"}
      BY <2>2, <3>2 DEF Changes
    <3> QED
      BY <3>1, <3>2
  <2> QED
    BY <1>0, <2>3, <2>4, EndOfWait
<1> QED
  BY <1>1, <1>2

-----------------------------------------------------------------------------
(* The handlers. *)

LEMMA Serving ==
  ASSUME TypeOK, cmd # Idle
  PROVE  /\ id \in 1..Len(sent) /\ id \in Nat /\ id > 0 /\ id <= Len(sent)
         /\ cmd = sent[id] /\ cmd \in Request /\ cmd.list \in Seq(Write)
         /\ cmd.list # <<>> /\ Len(cmd.list) \in Nat /\ i \in Nat /\ i >= 1
<1>1. id \in 1..Len(sent) /\ cmd = sent[id] /\ i \in Nat /\ i >= 1
  BY DEF TypeOK, HandlerType
<1> QED
  BY <1>1, SentRequest, Counted DEF TypeOK

(* A register or a memory is stored. *)
LEMMA StoreSteps ==
  ASSUME TypeOK, cmd # Idle, NEW a \in Cell, NEW v, Store(a, v)
  PROVE  /\ reg'[a] = v
         /\ newest'[a] = (IF newest[a] < id THEN id ELSE newest[a])
         /\ id < newest[a] => a \in late'
         /\ \A b \in Cell \ {a} : /\ reg'[b] = reg[b] /\ newest'[b] = newest[b]
                                  /\ b \in late' <=> b \in late
         /\ id <= newest[a] => late \subseteq late'
         /\ \A b \in Cell : newest'[b] \in {newest[b], id} /\ newest'[b] >= newest[b]
<1>1. /\ reg' = [reg EXCEPT ![a] = v]
      /\ newest' = [newest EXCEPT ![a] = IF newest[a] < id THEN id ELSE newest[a]]
      /\ reg \in [Cell -> Data] /\ DOMAIN newest = Cell
  BY DEF Store, TypeOK, FileType, Cell
<1>2. id \in Nat /\ \A b \in Cell : newest[b] \in Nat
  BY Serving, Counted
<1>3. /\ id < newest[a] => a \in late'
      /\ id <= newest[a] => late \subseteq late'
      /\ \A b \in Cell \ {a} : b \in late' <=> b \in late
  BY <1>2 DEF Store
<1> QED
  BY <1>1, <1>2, <1>3

(* It is by the request that the handler serves, and touches no place that *)
(* the client has read since.                                              *)
LEMMA StoreKeeps ==
  ASSUME KnowInv, cmd # Idle, cmd.op \in {"writereg", "writemem"},
         NEW a \in Cell, NEW v, Store(a, v), Touches(cmd, a),
         UNCHANGED <<sent, believed>>
  PROVE  /\ Touched'
         /\ \A b \in Cell : newest[b] = Len(sent) => newest'[b] = Len(sent)
         /\ \A b \in Cell : believed[b] # {} =>
              \E m \in 1..newest'[b] :
                /\ believed[b] = Effect(sent[m], b)
                /\ \A n \in (m + 1)..Len(sent) :
                     Touches(sent[n], b) => waiting /\ n = Len(sent)
         /\ \A list, values : Last.op = "readreg" /\ Tell(list, values)
              => Tell(list, values)'
<1>0. TypeOK /\ Touched /\ Known
  BY DEF KnowInv
<1>1. /\ id \in Nat /\ id <= Len(sent) /\ cmd = sent[id] /\ Len(sent) \in Nat
      /\ id \in 1..Len(sent) /\ \A b \in Cell : newest[b] \in Nat
  BY <1>0, Serving, Counted
<1>2. \A b \in Cell : newest'[b] \in {newest[b], id} /\ newest'[b] >= newest[b]
  BY <1>0, StoreSteps
<1>3. Touched'
  <2>1. ASSUME NEW b \in Cell, newest'[b] # 0
        PROVE  newest'[b] <= Len(sent) /\ Touches(sent[newest'[b]], b)
    <3>1. CASE b = a /\ newest'[b] = id
      BY <1>1, <3>1
    <3>2. CASE newest'[b] = newest[b]
      BY <1>0, <2>1, <3>2 DEF Touched
    <3> QED
      BY <1>0, <3>1, <3>2, StoreSteps
  <2> QED
    BY <2>1 DEF Touched
<1>4. \A b \in Cell : newest[b] = Len(sent) => newest'[b] = Len(sent)
  BY <1>1, <1>2
<1>5. ASSUME NEW b \in Cell, believed[b] # {}
      PROVE  \E m \in 1..newest'[b] :
                /\ believed[b] = Effect(sent[m], b)
                /\ \A n \in (m + 1)..Len(sent) :
                     Touches(sent[n], b) => waiting /\ n = Len(sent)
  <2>1. PICK m \in 1..newest[b] :
                /\ believed[b] = Effect(sent[m], b)
                /\ \A n \in (m + 1)..Len(sent) :
                     Touches(sent[n], b) => waiting /\ n = Len(sent)
    BY <1>0, <1>5 DEF Known
  <2>2. m \in 1..newest'[b]
    BY <1>1, <1>2
  <2> QED
    BY <2>1, <2>2
<1>6. ASSUME NEW list, NEW values, Last.op = "readreg", Tell(list, values)
      PROVE  Tell(list, values)'
  <2>1. ASSUME Last.op = "readreg", id > newest[a] PROVE believed[a] = {}
    <3>1. ASSUME believed[a] # {} PROVE FALSE
      <4>1. PICK m \in 1..newest[a] : \A n \in (m + 1)..Len(sent) :
                     Touches(sent[n], a) => waiting /\ n = Len(sent)
        BY <1>0, <3>1 DEF Known
      <4>2. id \in (m + 1)..Len(sent)
        BY <1>1, <2>1
      <4>3. id = Len(sent)
        BY <1>1, <4>1, <4>2
      <4> QED
        BY <1>1, <2>1, <4>3 DEF Last
    <3> QED
      BY <3>1
  <2>2. \A b \in late : b \in late' \/ believed[b] = {}
    <3>1. CASE id <= newest[a]
      BY <1>0, <3>1, StoreSteps
    <3>2. CASE id > newest[a]
      BY <1>0, <1>6, <2>1, <3>2, StoreSteps DEF TypeOK, FileType, Cell
    <3> QED
      BY <1>1, <3>1, <3>2
  <2> QED
    BY <1>6, <2>2 DEF Tell
<1> QED
  BY <1>3, <1>4, <1>5, <1>6

LEMMA WriteOneKeeps ==
  ASSUME KnowInv, WriteOne, TypeOK'
  PROVE  KnowInv'
<1>0. TypeOK /\ Shape /\ Touched /\ Stands /\ Answered /\ ReadsTell
  BY DEF KnowInv
<1>1. /\ cmd.op = "writereg" /\ Store(Here.at, Here.data) /\ i' = i + 1
      /\ UNCHANGED <<cmd, id, out, answers, sent, waiting, believed>>
      /\ Here = cmd.list[i] /\ Accepted(Here) /\ Kind(Here.at) = "reg"
  BY DEF WriteOne, Doing, client, Here, Accepted
<1>2. Here \in Write /\ cmd # Idle /\ i \in 1..Len(cmd.list)
  BY <1>0, HereWrite DEF WriteOne, TypeOK
<1>3. /\ cmd \in Request /\ cmd = sent[id] /\ cmd.list \in Seq(Write)
      /\ Len(cmd.list) \in Nat /\ i \in Nat /\ i >= 1 /\ id \in Nat
      /\ \A a \in Cell : newest[a] \in Nat
  BY <1>0, <1>2, Serving, Counted
<1>4. Here.at \in Cell
  BY <1>1, KindPlace DEF Cell
<1>5. \A k \in 1..i : Accepted(cmd.list[k])
  BY <1>0, <1>1, <1>3 DEF Shape
<1>6. Touches(cmd, Here.at)
  <2>1. i \in 0..Len(cmd.list) /\ i \in 1..i
    BY <1>2, <1>3
  <2>2. 1..i \subseteq Carried(cmd)
    BY <1>1, <1>3, <1>5, <2>1, CarriedPrefix
  <2> QED
    BY <1>1, <2>1, <2>2 DEF Touches
<1>7. \A a : Put(cmd.list, i, a) =
               IF Here.at = a THEN {Here.data} ELSE Put(cmd.list, i - 1, a)
  <2> DEFINE n == i - 1
  <2>1. n \in Nat /\ n + 1 = i /\ n + 1 <= Len(cmd.list)
    BY <1>2, <1>3
  <2> HIDE DEF n
  <2>2. \A a : Put(cmd.list, n + 1, a) =
                 IF cmd.list[n + 1].at = a THEN {cmd.list[n + 1].data}
                 ELSE Put(cmd.list, n, a)
    BY <1>3, <2>1, PutNext
  <2> QED
    BY <1>1, <2>1, <2>2 DEF n
<1>8. i' - 1 = i
  BY <1>1, <1>3
<1>9. /\ reg'[Here.at] = Here.data
      /\ newest'[Here.at] = (IF newest[Here.at] < id THEN id ELSE newest[Here.at])
      /\ id < newest[Here.at] => Here.at \in late'
      /\ \A a \in Cell \ {Here.at} :
           reg'[a] = reg[a] /\ newest'[a] = newest[a] /\ (a \in late' <=> a \in late)
  BY <1>0, <1>1, <1>2, <1>4, StoreSteps
<1>10. Shape'
  <2>1. ASSUME NEW k \in 1..i
        PROVE  newest'[cmd.list[k].at] >= id /\ Put(cmd.list, i, cmd.list[k].at) # {}
    <3>1. CASE cmd.list[k].at = Here.at
      <4>1. newest'[Here.at] >= id
        BY <1>3, <1>4, <1>9
      <4>2. Put(cmd.list, i, Here.at) # {}
        BY <1>7
      <4> QED
        BY <3>1, <4>1, <4>2
    <3>2. CASE cmd.list[k].at # Here.at
      <4>1. k \in 1..(i - 1)
        BY <1>1, <1>3, <3>2
      <4>2. cmd.list[k].at \in Cell
        BY <1>5, KindPlace DEF Accepted, Cell
      <4> QED
        BY <1>0, <1>1, <1>7, <1>9, <3>2, <4>1, <4>2 DEF Shape
    <3> QED
      BY <3>1, <3>2
  <2>2. i' <= Len(cmd'.list) + 1 /\ out' = <<>>
    BY <1>0, <1>1, <1>2, <1>3 DEF Shape
  <2> QED
    BY <1>1, <1>5, <1>8, <2>1, <2>2 DEF Shape
<1>11. Stands'
  <2>1. ASSUME NEW a \in Cell \ late', newest'[a] # 0
        PROVE  {reg'[a]} =
                 IF id = newest'[a] /\ \E k \in 1..i : cmd.list[k].at = a
                 THEN Put(cmd.list, i, a)
                 ELSE Effect(sent[newest'[a]], a)
    <3>1. CASE a = Here.at
      <4>1. i \in 1..i /\ cmd.list[i].at = a
        BY <1>1, <1>3, <3>1
      <4>2. Put(cmd.list, i, a) = {Here.data}
        BY <1>7, <3>1
      <4>3. ~(id < newest[a]) /\ newest[a] \in Nat
        BY <1>3, <1>4, <1>9, <2>1, <3>1
      <4>4. newest'[a] = id /\ reg'[a] = Here.data
        BY <1>3, <1>9, <3>1, <4>3
      <4> QED
        BY <4>1, <4>2, <4>4
    <3>2. CASE a # Here.at
      <4>1. (\E k \in 1..i : cmd.list[k].at = a)
              <=> \E k \in 1..(i - 1) : cmd.list[k].at = a
        BY <1>1, <1>3, <3>2
      <4> QED
        BY <1>0, <1>1, <1>7, <1>9, <2>1, <3>2, <4>1 DEF Stands, Midway
    <3> QED
      BY <3>1, <3>2
  <2> QED
    BY <1>1, <1>8, <2>1, StandsNext
<1>12. Last' = Last
  BY <1>1 DEF Last
<1>13. /\ Touched'
       /\ \A b \in Cell : newest[b] = Len(sent) => newest'[b] = Len(sent)
       /\ \A b \in Cell : believed[b] # {} =>
            \E m \in 1..newest'[b] :
              /\ believed[b] = Effect(sent[m], b)
              /\ \A n \in (m + 1)..Len(sent) :
                   Touches(sent[n], b) => waiting /\ n = Len(sent)
       /\ \A list, values : Last.op = "readreg" /\ Tell(list, values)
            => Tell(list, values)'
  BY <1>1, <1>2, <1>4, <1>6, StoreKeeps
<1>14. Answered'
  <2>1. ASSUME NEW ans \in answers
        PROVE  /\ ans.status = "success" /\ Last.op \in {"writereg", "writemem"} =>
                    Carried(Last) = 1..ans.index
               /\ \A a \in Cell : Touches(Last, a) =>
                    newest'[a] = Len(sent) /\ Effect(Last, a) # {}
    BY <1>0, <1>13 DEF Answered
  <2> QED
    BY <1>1, <1>12, <2>1 DEF Answered
<1>15. Known'
  BY <1>1, <1>13 DEF Known
<1>16. ReadsTell'
  BY <1>0, <1>1, <1>12, <1>13 DEF ReadsTell
<1> QED
  BY <1>10, <1>11, <1>13, <1>14, <1>15, <1>16 DEF KnowInv

(* A request ends: what it wrote, its answer counts. *)
LEMMA EndKeeps ==
  ASSUME KnowInv, TypeOK', cmd # Idle,
         UNCHANGED <<reg, newest, late, sent, waiting, believed>>,
         NEW status, NEW n, NEW values, Answer(status, n, values),
         cmd.op = "writereg" => /\ Carried(cmd) = 1..(i - 1)
                                /\ status = "success" => n = i - 1,
         cmd.op = "writemem" => Carried(cmd) = {} /\ status # "success",
         cmd.op = "readreg" => values \in {out, <<>>}
  PROVE  KnowInv'
<1> DEFINE ans == [status |-> status, index |-> n, values |-> values]
           counted == waiting /\ id = Len(sent)
<1>0. TypeOK /\ Shape /\ Touched /\ Stands /\ Answered /\ Known /\ ReadsTell
  BY DEF KnowInv
<1>1. /\ cmd = sent[id] /\ id \in Nat /\ id > 0 /\ i - 1 \in Nat
      /\ \A a \in Cell : newest[a] \in Nat
      /\ Len(sent) \in Nat
  BY <1>0, Serving, Counted
<1>2. /\ cmd' = Idle /\ id' = 0 /\ i' = 1 /\ out' = <<>> /\ Last' = Last
      /\ answers' = IF counted THEN answers \cup {ans} ELSE answers
      /\ counted => Last = cmd
  BY <1>1 DEF Answer, Last
<1>3. ans.status = status /\ ans.index = n /\ ans.values = values
  OBVIOUS
<1> HIDE DEF ans
<1>4. \A a : cmd.op = "writereg" =>
        /\ Effect(cmd, a) = Put(cmd.list, i - 1, a)
        /\ Touches(cmd, a) <=> \E k \in 1..(i - 1) : cmd.list[k].at = a
  BY <1>1, EffectPut
<1>5. Shape'
  BY <1>2 DEF Shape, Idle
<1>6. Touched'
  BY <1>0, <1>2 DEF Touched
<1>7. Stands'
  <2>1. ASSUME NEW a \in Cell \ late, newest[a] # 0
        PROVE  {reg[a]} = Effect(sent[newest[a]], a)
    BY <1>0, <1>1, <1>4, <2>1 DEF Stands, Midway
  <2> QED
    BY <1>2, <2>1, StandsNext DEF Idle
<1>8. Answered'
  <2>1. ASSUME counted
        PROVE  /\ status = "success" /\ cmd.op \in {"writereg", "writemem"} =>
                    Carried(cmd) = 1..n
               /\ \A a \in Cell : Touches(cmd, a) =>
                    newest[a] = Len(sent) /\ Effect(cmd, a) # {}
    <3>1. ASSUME NEW a \in Cell, Touches(cmd, a)
          PROVE  newest[a] = Len(sent) /\ Effect(cmd, a) # {}
      <4>1. cmd.op = "writereg"
        BY <3>1 DEF Touches, Carried
      <4>2. PICK k \in 1..(i - 1) : cmd.list[k].at = a
        BY <1>4, <3>1, <4>1
      <4>3. newest[a] >= id /\ Put(cmd.list, i - 1, a) # {}
        BY <1>0, <4>1, <4>2 DEF Shape
      <4>4. newest[a] <= Len(sent)
        BY <1>0, <1>1, <4>3 DEF Touched
      <4> QED
        BY <1>1, <1>4, <2>1, <4>1, <4>3, <4>4
    <3> QED
      BY <3>1
  <2>2. ASSUME NEW b \in answers'
        PROVE  /\ b.status = "success" /\ Last.op \in {"writereg", "writemem"} =>
                    Carried(Last) = 1..b.index
               /\ \A a \in Cell : Touches(Last, a) =>
                    newest[a] = Len(sent) /\ Effect(Last, a) # {}
    <3>1. CASE b \in answers
      BY <1>0, <3>1 DEF Answered
    <3>2. CASE counted /\ b = ans
      BY <1>2, <1>3, <2>1, <3>2
    <3> QED
      BY <1>2, <2>2, <3>1, <3>2
  <2> QED
    BY <1>2, <2>2 DEF Answered
<1>9. Known'
  BY <1>0 DEF Known
<1>10. ReadsTell'
  <2>1. ASSUME NEW b \in answers', Last.op = "readreg"
        PROVE  Tell(Last.list, b.values)
    <3>1. CASE b \in answers
      BY <1>0, <2>1, <3>1 DEF ReadsTell
    <3>2. CASE counted /\ b = ans
      <4>1. Tell(cmd.list, out)
        BY <1>0, <1>2, <2>1, <3>2 DEF ReadsTell
      <4>2. Tell(cmd.list, <<>>)
        BY DEF Tell
      <4> QED
        BY <1>2, <1>3, <2>1, <3>2, <4>1, <4>2
    <3> QED
      BY <1>2, <2>1, <3>1, <3>2
  <2>2. \A list, told : Tell(list, told) => Tell(list, told)'
    BY DEF Tell
  <2> QED
    BY <1>2, <2>1, <2>2 DEF ReadsTell, Idle
<1> QED
  BY <1>5, <1>6, <1>7, <1>8, <1>9, <1>10 DEF KnowInv

LEMMA WriteFailsKeeps ==
  ASSUME KnowInv, WriteFails, TypeOK'
  PROVE  KnowInv'
<1>1. /\ cmd.op = "writereg" /\ Here = cmd.list[i]
      /\ UNCHANGED <<reg, newest, late, sent, waiting, believed>>
  BY DEF WriteFails, Doing, Here, file, client, past
<1>2. cmd # Idle /\ i \in 1..Len(cmd.list)
  BY HereWrite DEF WriteFails, KnowInv, TypeOK
<1>3. cmd \in Request /\ Len(cmd.list) \in Nat
  BY <1>2, Serving DEF KnowInv
<1>4. ~Accepted(Here)
  BY DEF WriteFails, Accepted
<1>5. Carried(cmd) = 1..(i - 1)
  <2> DEFINE n == i - 1
  <2>1. n \in 0..Len(cmd.list) /\ n + 1 = i
    BY <1>2, <1>3
  <2>2. \A k \in 1..n : Accepted(cmd.list[k])
    BY <1>1 DEF KnowInv, Shape
  <2> HIDE DEF n
  <2>3. Carried(cmd) = 1..n
    BY <1>1, <1>3, <1>4, <2>1, <2>2, CarriedPrefix
  <2> QED
    BY <2>3 DEF n
<1>6. PICK status, n : /\ Answer(status, n, <<>>)
                       /\ status = "success" => n = i - 1
  BY DEF WriteFails, Error
<1> QED
  BY <1>1, <1>2, <1>5, <1>6, EndKeeps

LEMMA ReadFailsKeeps ==
  ASSUME KnowInv, ReadFails, TypeOK'
  PROVE  KnowInv'
<1>1. /\ cmd.op = "readreg" /\ Answer("invalid_address", 0, <<>>)
      /\ UNCHANGED <<reg, newest, late, sent, waiting, believed>>
  BY DEF ReadFails, Doing, Error, file, client, past
<1>2. cmd # Idle
  BY <1>1 DEF Idle
<1> QED
  BY <1>1, <1>2, EndKeeps

LEMMA DoneKeeps ==
  ASSUME KnowInv, Done, TypeOK'
  PROVE  KnowInv'
<1>1. /\ cmd.op \in {"writereg", "readreg"} /\ i = Len(cmd.list) + 1
      /\ Answer("success", Len(cmd.list), out)
      /\ UNCHANGED <<reg, newest, late, sent, waiting, believed>>
  BY DEF Done, file, client, past
<1>2. cmd # Idle
  BY <1>1 DEF Idle
<1>3. cmd \in Request /\ Len(cmd.list) \in Nat
  BY <1>2, Serving DEF KnowInv
<1>4. i - 1 = Len(cmd.list)
  BY <1>1, <1>3
<1>5. ASSUME cmd.op = "writereg" PROVE Carried(cmd) = 1..(i - 1)
  <2>1. \A k \in 1..Len(cmd.list) : Accepted(cmd.list[k])
    BY <1>4, <1>5 DEF KnowInv, Shape
  <2>2. Len(cmd.list) \in 0..Len(cmd.list)
    BY <1>3
  <2> QED
    BY <1>3, <1>4, <1>5, <2>1, <2>2, CarriedPrefix
<1> QED
  BY <1>1, <1>2, <1>4, <1>5, EndKeeps

LEMMA WriteMemKeeps ==
  ASSUME KnowInv, WriteMem, TypeOK'
  PROVE  KnowInv'
<1>0. TypeOK /\ Shape /\ Touched /\ Stands /\ Answered /\ ReadsTell
  BY DEF KnowInv
<1>1. /\ cmd.op = "writemem" /\ Here = cmd.list[1] /\ i = 1
      /\ UNCHANGED <<sent, waiting, believed>>
  BY <1>0 DEF WriteMem, Doing, Here, client, Shape
<1>2. cmd # Idle /\ Here \in Write
  BY <1>0, HereWrite DEF WriteMem, TypeOK
<1>3. CASE ~(Kind(Here.at) = "mem" /\ Writable(Here.at))
  <2>1. Carried(cmd) = {}
    BY <1>1, <1>3 DEF Carried
  <2>2. PICK status : Answer(status, 0, <<>>) /\ status # "success"
    BY <1>3 DEF WriteMem, Error
  <2>3. UNCHANGED <<reg, newest, late>>
    BY <1>3 DEF WriteMem, file, past
  <2> QED
    BY <1>1, <1>2, <2>1, <2>2, <2>3, EndKeeps
<1>4. CASE Kind(Here.at) = "mem" /\ Writable(Here.at)
  <2> DEFINE ans == [status |-> "success", index |-> 1, values |-> <<>>]
             counted == waiting /\ id = Len(sent)
  <2>1. Store(Here.at, Here.data) /\ Answer("success", 1, <<>>)
    BY <1>4 DEF WriteMem
  <2>2. /\ cmd' = Idle /\ id' = 0 /\ i' = 1 /\ out' = <<>> /\ Last' = Last
        /\ answers' = IF counted THEN answers \cup {ans} ELSE answers
        /\ counted => Last = cmd
    BY <1>0, <1>1, <1>2, <2>1, Serving DEF Answer, Last
  <2>3. ans.status = "success" /\ ans.index = 1 /\ ans.values = <<>>
    OBVIOUS
  <2> HIDE DEF ans
  <2>4. /\ cmd = sent[id] /\ id \in Nat /\ id > 0 /\ Len(sent) \in Nat
        /\ \A a \in Cell : newest[a] \in Nat
    BY <1>0, <1>2, Serving, Counted
  <2>5. Here.at \in Cell
    BY <1>4, KindPlace DEF Cell
  <2>6. /\ Carried(cmd) = 1..1
        /\ \A a : Touches(cmd, a) <=> a = Here.at
        /\ Effect(cmd, Here.at) = {Here.data}
    <3>1. Carried(cmd) = {1}
      BY <1>1, <1>4 DEF Carried
    <3>2. \A a : Touches(cmd, a) <=> a = Here.at
      BY <1>1, <3>1 DEF Touches
    <3>3. Effect(cmd, Here.at) = {Here.data}
      BY <1>1, <3>1 DEF Effect
    <3> QED
      BY <3>1, <3>2, <3>3
  <2>7. /\ reg'[Here.at] = Here.data
        /\ newest'[Here.at] = (IF newest[Here.at] < id THEN id ELSE newest[Here.at])
        /\ id < newest[Here.at] => Here.at \in late'
        /\ \A a \in Cell \ {Here.at} :
             reg'[a] = reg[a] /\ newest'[a] = newest[a] /\ (a \in late' <=> a \in late)
    BY <1>0, <1>2, <2>1, <2>5, StoreSteps
  <2>8. /\ Touched'
        /\ \A b \in Cell : newest[b] = Len(sent) => newest'[b] = Len(sent)
        /\ \A b \in Cell : believed[b] # {} =>
             \E m \in 1..newest'[b] :
               /\ believed[b] = Effect(sent[m], b)
               /\ \A n \in (m + 1)..Len(sent) :
                    Touches(sent[n], b) => waiting /\ n = Len(sent)
        /\ \A list, values : Last.op = "readreg" /\ Tell(list, values)
             => Tell(list, values)'
    BY <1>1, <1>2, <2>1, <2>5, <2>6, StoreKeeps
  <2>9. Shape'
    BY <2>2 DEF Shape, Idle
  <2>10. Stands'
    <3>1. ASSUME NEW a \in Cell \ late', newest'[a] # 0
          PROVE  {reg'[a]} = Effect(sent[newest'[a]], a)
      <4>1. CASE a = Here.at
        BY <2>4, <2>6, <2>7, <3>1, <4>1
      <4>2. CASE a # Here.at
        BY <1>0, <1>1, <2>7, <3>1, <4>2 DEF Stands, Midway
      <4> QED
        BY <4>1, <4>2
    <3> QED
      BY <1>1, <2>2, <3>1, StandsNext DEF Idle
  <2>11. Answered'
    <3>1. ASSUME counted, NEW a \in Cell, Touches(cmd, a)
          PROVE  newest'[a] = Len(sent) /\ Effect(cmd, a) # {}
      <4>1. a = Here.at
        BY <2>6, <3>1
      <4>2. newest'[a] >= id /\ newest'[a] # 0
        BY <2>4, <2>5, <2>7, <4>1
      <4>3. newest'[a] <= Len(sent)
        BY <1>1, <2>8, <4>2 DEF Touched
      <4>4. newest'[a] \in Nat
        BY <2>4, <2>5, <2>7, <4>1
      <4>5. newest'[a] = Len(sent)
        BY <2>4, <3>1, <4>2, <4>3, <4>4
      <4> QED
        BY <2>6, <4>1, <4>5
    <3>2. ASSUME NEW b \in answers'
          PROVE  /\ b.status = "success" /\ Last.op \in {"writereg", "writemem"} =>
                      Carried(Last) = 1..b.index
                 /\ \A a \in Cell : Touches(Last, a) =>
                      newest'[a] = Len(sent) /\ Effect(Last, a) # {}
      <4>1. CASE b \in answers
        BY <1>0, <2>8, <4>1 DEF Answered
      <4>2. CASE counted /\ b = ans
        BY <2>2, <2>3, <2>6, <3>1, <4>2
      <4> QED
        BY <2>2, <3>2, <4>1, <4>2
    <3> QED
      BY <1>1, <2>2, <3>2 DEF Answered
  <2>12. Known'
    BY <1>1, <2>8 DEF Known
  <2>13. ReadsTell'
    <3>1. ASSUME NEW b \in answers', Last.op = "readreg"
          PROVE  Tell(Last.list, b.values)'
      <4>1. b \in answers
        BY <1>1, <2>2, <3>1
      <4> QED
        BY <1>0, <2>2, <2>8, <3>1, <4>1 DEF ReadsTell
    <3> QED
      BY <2>2, <3>1 DEF ReadsTell, Idle
  <2> QED
    BY <2>8, <2>9, <2>10, <2>11, <2>12, <2>13 DEF KnowInv
<1> QED
  BY <1>3, <1>4

(* What the client knows of a place stands there, while no request that    *)
(* touches the place is under way.                                         *)
LEMMA KnownStands ==
  ASSUME KnowInv, cmd.op # "writereg", NEW a \in Cell \ late,
         waiting => ~Touches(Last, a)
  PROVE  believed[a] \subseteq {reg[a]}
<1>0. TypeOK /\ Touched /\ Stands /\ Known
  BY DEF KnowInv
<1>1. Len(sent) \in Nat /\ newest[a] \in Nat
  BY <1>0, Counted
<1>2. ASSUME believed[a] # {} PROVE believed[a] = {reg[a]}
  <2>1. PICK m \in 1..newest[a] :
          /\ believed[a] = Effect(sent[m], a)
          /\ \A n \in (m + 1)..Len(sent) :
               Touches(sent[n], a) => waiting /\ n = Len(sent)
    BY <1>0, <1>2 DEF Known
  <2>2. newest[a] # 0 /\ newest[a] <= Len(sent) /\ Touches(sent[newest[a]], a)
    BY <1>0, <1>1, <2>1 DEF Touched
  <2>3. CASE newest[a] # m
    <3>1. newest[a] \in (m + 1)..Len(sent)
      BY <1>1, <2>1, <2>2, <2>3
    <3>2. waiting /\ Touches(Last, a)
      BY <2>1, <2>2, <3>1 DEF Last
    <3> QED
      BY <3>2
  <2>4. CASE newest[a] = m
    BY <1>0, <2>1, <2>2, <2>4 DEF Stands, Midway
  <2> QED
    BY <2>3, <2>4
<1> QED
  BY <1>2

LEMMA ArriveKeeps ==
  ASSUME KnowInv, NEW n \in 1..Len(sent), Arrive(n), TypeOK'
  PROVE  KnowInv'
<1>0. TypeOK /\ Shape /\ Touched /\ Stands /\ Answered /\ Known /\ ReadsTell
  BY DEF KnowInv
<1>1. /\ cmd = Idle /\ cmd' = sent[n]
      /\ UNCHANGED <<reg, newest, late, i, out, answers, sent, waiting, believed>>
  BY DEF Arrive, file, client, past
<1>2. i = 1 /\ out = <<>> /\ Len(sent[n].list) \in Nat
  BY <1>0, <1>1, SentRequest DEF Shape, Idle, TypeOK
<1>3. Last' = Last
  BY <1>1 DEF Last
<1>4. Shape'
  <2>1. \A k \in 1..(i' - 1) : FALSE
    BY <1>1, <1>2
  <2>2. Len(out') = i' - 1 /\ i' <= Len(cmd'.list) + 1
    BY <1>1, <1>2
  <2> QED
    BY <1>1, <1>2, <2>1, <2>2 DEF Shape
<1>5. Stands'
  <2>1. ~\E k \in 1..(i' - 1) : TRUE
    BY <1>1, <1>2
  <2>2. ASSUME NEW a \in Cell \ late, newest[a] # 0
        PROVE  {reg[a]} = Effect(sent[newest[a]], a)
    BY <1>0, <1>1, <2>2 DEF Stands, Midway, Idle
  <2> QED
    BY <1>1, <2>1, <2>2, StandsNext
<1>6. Touched' /\ Answered' /\ Known'
  BY <1>0, <1>1, <1>3 DEF Touched, Answered, Known
<1>7. ReadsTell'
  <2>1. \A k \in 1..Len(out') : FALSE
    BY <1>1, <1>2
  <2> QED
    BY <1>0, <1>1, <1>3, <2>1 DEF ReadsTell, Tell
<1> QED
  BY <1>4, <1>5, <1>6, <1>7 DEF KnowInv

LEMMA ReadOneKeeps ==
  ASSUME KnowInv, ReadOne, TypeOK'
  PROVE  KnowInv'
<1>0. TypeOK /\ Shape /\ Touched /\ Stands /\ Answered /\ Known /\ ReadsTell
  BY DEF KnowInv
<1>1. /\ cmd.op = "readreg" /\ Here = cmd.list[i] /\ i' = i + 1
      /\ Kind(Here.at) = "reg" /\ out' = Append(out, reg[Here.at])
      /\ UNCHANGED <<reg, newest, late, cmd, id, answers, sent, waiting, believed>>
  BY DEF ReadOne, Doing, Here, file, client, past
<1>2. Here.at \in Cell /\ cmd # Idle
  BY <1>1, KindPlace DEF Cell, Idle
<1>3. Len(out) = i - 1 /\ out \in Seq(Data) /\ i \in Nat /\ cmd = sent[id]
  BY <1>0, <1>1, <1>2, Serving DEF Shape, TypeOK, HandlerType
<1>4. /\ Len(out') = i /\ out'[i] = reg[Here.at]
      /\ \A k \in 1..(i - 1) : out'[k] = out[k]
  <2>1. reg[Here.at] \in Data
    BY <1>0, <1>2 DEF TypeOK, FileType, Cell
  <2> QED
    BY <1>1, <1>3, <2>1
<1>5. Last' = Last
  BY <1>1 DEF Last
<1>6. Shape'
  BY <1>0, <1>1, <1>3, <1>4 DEF Shape
<1>7. Touched' /\ Answered' /\ Known'
  BY <1>0, <1>1, <1>5 DEF Touched, Answered, Known
<1>8. Stands'
  BY <1>0, <1>1, StandsNext DEF Stands, Midway
<1>9. ReadsTell'
  <2>1. ASSUME waiting, id = Len(sent), NEW k \in 1..i
        PROVE  \/ believed[cmd.list[k].at] \subseteq {out'[k]}
               \/ cmd.list[k].at \in late
    <3>1. CASE k # i
      <4>1. k \in 1..Len(out) /\ out'[k] = out[k]
        BY <1>3, <1>4, <3>1
      <4>2. Tell(cmd.list, out)
        BY <1>0, <1>1, <2>1 DEF ReadsTell
      <4> QED
        BY <4>1, <4>2 DEF Tell
    <3>2. CASE k = i /\ Here.at \notin late
      <4>1. ~Touches(Last, Here.at)
        BY <1>1, <1>3, <2>1, ReadsTouchNothing DEF Last
      <4>2. believed[Here.at] \subseteq {reg[Here.at]}
        BY <1>1, <1>2, <3>2, <4>1, KnownStands
      <4> QED
        BY <1>1, <1>4, <3>2, <4>2
    <3> QED
      BY <1>1, <3>1, <3>2
  <2> QED
    BY <1>0, <1>1, <1>4, <1>5, <2>1 DEF ReadsTell, Tell
<1> QED
  BY <1>6, <1>7, <1>8, <1>9 DEF KnowInv

LEMMA ForceIpKeeps ==
  ASSUME KnowInv, ForceIp, TypeOK'
  PROVE  KnowInv'
<1>0. TypeOK /\ Shape /\ Touched /\ Stands /\ Answered /\ Known /\ ReadsTell
  BY DEF KnowInv
<1>1. /\ cmd.op = "forceip"
      /\ UNCHANGED <<reg, newest, late, sent, waiting, believed>>
  BY DEF ForceIp, file, client, past
<1>2. cmd # Idle
  BY <1>1 DEF Idle
<1>3. CASE Answer("success", 0, <<>>)
  BY <1>1, <1>2, <1>3, EndKeeps
<1>4. CASE cmd' = Idle /\ id' = 0 /\ UNCHANGED <<i, out, answers>>
  <2>1. Last' = Last
    BY <1>1 DEF Last
  <2>2. Shape'
    BY <1>0, <1>1, <1>4 DEF Shape, Idle
  <2>3. Touched' /\ Answered' /\ Known'
    BY <1>0, <1>1, <1>4, <2>1 DEF Touched, Answered, Known
  <2>4. Stands'
    BY <1>0, <1>1, <1>4, StandsNext DEF Stands, Midway, Idle
  <2>5. ReadsTell'
    <3>1. \A list, told : Tell(list, told) => Tell(list, told)'
      BY <1>1 DEF Tell
    <3> QED
      BY <1>0, <1>1, <1>4, <2>1, <3>1 DEF ReadsTell, Idle
  <2> QED
    BY <2>2, <2>3, <2>4, <2>5 DEF KnowInv
<1> QED
  BY <1>3, <1>4 DEF ForceIp

-----------------------------------------------------------------------------
(* The network. *)

(* No request touches the address, so a refresh changes no place that the  *)
(* client could know of.                                                   *)
LEMMA NetKeeps ==
  ASSUME KnowInv, TypeOK', UNCHANGED <<handler, answers, client, past>>,
         \A a \in Cell \ {"ip"} : reg'[a] = reg[a]
  PROVE  KnowInv'
<1>0. TypeOK /\ Shape /\ Touched /\ Stands /\ Answered /\ Known /\ ReadsTell
  BY DEF KnowInv
<1>1. UNCHANGED <<newest, late, cmd, id, i, out, answers, sent, waiting, believed>>
  BY DEF handler, client, past
<1>2. Last' = Last
  BY <1>1 DEF Last
<1>3. \A a \in Cell : newest[a] # 0 => a # "ip"
  <2>1. ASSUME NEW a \in Cell, newest[a] # 0 PROVE a # "ip"
    <3>1. newest[a] \in 1..Len(sent) /\ Touches(sent[newest[a]], a)
      BY <1>0, <2>1, Counted DEF Touched
    <3> QED
      BY <1>0, <3>1, SentRequest, TouchesChanges DEF TypeOK
  <2> QED
    BY <2>1
<1>4. Stands'
  BY <1>0, <1>1, <1>3, StandsNext DEF Stands, Midway
<1>5. Shape' /\ Touched' /\ Answered' /\ Known'
  BY <1>0, <1>1, <1>2 DEF Shape, Touched, Answered, Known
<1>6. ReadsTell'
  <2>1. \A list, told : Tell(list, told) => Tell(list, told)'
    BY <1>1 DEF Tell
  <2> QED
    BY <1>0, <1>1, <1>2, <2>1 DEF ReadsTell
<1> QED
  BY <1>4, <1>5, <1>6 DEF KnowInv

LEMMA KnowStep ==
  ASSUME KnowInv, [Next]_vars, TypeOK'
  PROVE  KnowInv'
<1>1. CASE \E c \in Commands : Send(c)
  BY <1>1, SendKeeps
<1>2. CASE GiveUp
  BY <1>2, ForgetKeeps DEF GiveUp
<1>3. CASE \E ans \in answers : Accept(ans)
  BY <1>3, AcceptKeeps
<1>4. CASE \E n \in 1..Len(sent) : Arrive(n)
  BY <1>4, ArriveKeeps
<1>5. CASE WriteOne \/ WriteFails \/ WriteMem
  BY <1>5, WriteOneKeeps, WriteFailsKeeps, WriteMemKeeps
<1>6. CASE ReadOne \/ ReadFails \/ Done \/ ForceIp
  BY <1>6, ReadOneKeeps, ReadFailsKeeps, DoneKeeps, ForceIpKeeps
<1>7. CASE Move
  BY <1>7, NetKeeps DEF Move, file
<1>8. CASE Refresh
  <2>1. \A a \in Cell \ {"ip"} : reg'[a] = reg[a]
    <3>1. reg \in [Cell -> Data]
      BY DEF KnowInv, TypeOK, FileType, Cell
    <3> QED
      BY <1>8, <3>1 DEF Refresh
  <2> QED
    BY <1>8, <2>1, NetKeeps DEF Refresh
<1>9. CASE UNCHANGED vars
  BY <1>9, NetKeeps DEF vars, file
<1> QED
  BY <1>1, <1>2, <1>3, <1>4, <1>5, <1>6, <1>7, <1>8, <1>9 DEF Next

-----------------------------------------------------------------------------
(* What each place holds is what the newest request that touched it put    *)
(* there, unless an older one came late, and the client knows no less than *)
(* the newest request that it has the answer of.                           *)
THEOREM Knowledge == Spec => []KnowInv
<1>1. IInv' => TypeOK'
  BY DEF IInv
<1>2. KnowInv /\ IInv' /\ [Next]_vars => KnowInv'
  BY <1>1, KnowStep
<1> QED
  BY <1>2, InitKnow, Invariance, PTL DEF Spec

(* Types are right: the values, the requests and answers, and the handler's *)
(* index.                                                                  *)
THEOREM TypeCorrect == Spec => []TypeOK
<1>1. IInv => TypeOK
  BY DEF IInv
<1> QED
  BY <1>1, Invariance, PTL

(* What the client has been told stands, whatever becomes of its requests  *)
(* and their answers: lost, delayed, repeated or refused midway, except at *)
(* the places where an older request has come late.                        *)
THEOREM Knows == Spec => []ClientKnows
<1>1. KnowInv => ClientKnows
  <2> SUFFICES ASSUME KnowInv PROVE ClientKnows
    OBVIOUS
  <2>1. ASSUME cmd = Idle, NEW a \in Cell \ late
        PROVE  \/ believed[a] \subseteq {reg[a]}
               \/ waiting /\ a \in Changes(Last)
    <3>1. cmd.op # "writereg"
      BY <2>1 DEF Idle
    <3>2. CASE waiting /\ Touches(Last, a)
      <4>1. Last \in Request /\ Last.list # <<>>
        BY <3>2, LastRequest DEF KnowInv
      <4> QED
        BY <3>2, <4>1, TouchesChanges
    <3>3. CASE waiting => ~Touches(Last, a)
      BY <2>1, <3>1, <3>3, KnownStands
    <3> QED
      BY <3>2, <3>3
  <2>2. \A ans \in answers : Last.op = "readreg" => Tell(Last.list, ans.values)
    BY DEF KnowInv, ReadsTell
  <2> QED
    BY <2>1, <2>2 DEF ClientKnows, Tell, Cell
<1> QED
  BY <1>1, Knowledge, PTL

=============================================================================

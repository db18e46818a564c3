-------------------------- MODULE GvspStreamProofs --------------------------
(***************************************************************************)
(* A GVSP stream for any image lengths and packet sizes and any number of  *)
(* grab threads and images: the packets of a block that reaches its        *)
(* trailer are as many as its image needs, and carry what BlockComplete    *)
(* says of it; the blocks can be told apart; the list hands each image     *)
(* over once and in order, and none is slept on.                           *)
(***************************************************************************)
EXTENDS GvspStream, FiniteSetTheorems, TLAPS

LEMMA Bounds ==
  /\ Word \in Nat /\ Word > 1 /\ Overhead \in Nat
  /\ Lengths \subseteq Nat /\ Sizes \subseteq Nat
  /\ \A n \in Lengths : n + 1 < Word
BY GvspStreamAssumption

-----------------------------------------------------------------------------
(* Division by the size of a packet. *)

LEMMA AtLeast ==
  ASSUME NEW k \in Nat, NEW p \in Nat, p > 0
  PROVE  k * p \in Nat /\ k <= k * p
<1>1. PICK d \in Nat : p = d + 1
  <2> WITNESS p - 1 \in Nat
  <2> QED
    OBVIOUS
<1>2. k * p = k * d + k /\ k * d \in Nat
  BY <1>1
<1> QED
  BY <1>2

LEMMA NoneSent == ASSUME NEW p \in Nat PROVE 0 * p = 0
OBVIOUS

(* Quotient and remainder are the only ones. *)
LEMMA Unique ==
  ASSUME NEW a \in Nat, NEW p \in Nat, p > 0, NEW k \in Nat, NEW r \in Nat,
         a = k * p + r, r < p
  PROVE  a \div p = k /\ a % p = r
<1> DEFINE q == a \div p
           s == a % p
<1>1. q \in Nat /\ s \in Nat /\ s < p /\ a = q * p + s
  OBVIOUS
<1> HIDE DEF q, s
<1>2. ASSUME q > k PROVE FALSE
  <2> DEFINE d == q - k - 1
  <2>1. d \in Nat /\ q = k + d + 1
    BY <1>1, <1>2
  <2> HIDE DEF d
  <2>2. q * p = k * p + d * p + p /\ d * p \in Nat /\ k * p \in Nat
    BY <2>1
  <2> QED
    BY <1>1, <2>2
<1>3. ASSUME q < k PROVE FALSE
  <2> DEFINE d == k - q - 1
  <2>1. d \in Nat /\ k = q + d + 1
    BY <1>1, <1>3
  <2> HIDE DEF d
  <2>2. k * p = q * p + d * p + p /\ d * p \in Nat /\ q * p \in Nat
    BY <1>1, <2>1
  <2> QED
    BY <1>1, <2>2
<1>4. q = k
  BY <1>1, <1>2, <1>3
<1>5. s = r
  <2>1. k * p \in Nat
    OBVIOUS
  <2> QED
    BY <1>1, <1>4, <2>1
<1> QED
  BY <1>4, <1>5 DEF q, s

(* k full packets and a last one of l bytes. *)
LEMMA LastPacket ==
  ASSUME NEW n \in Nat, NEW p \in Nat, NEW k \in Nat, NEW l \in Nat,
         n = k * p + l, 0 < l, l <= p
  PROVE  /\ (n + p - 1) \div p = k + 1
         /\ n % p = IF l < p THEN l ELSE 0
<1>1. k * p \in Nat /\ (k + 1) * p = k * p + p
  OBVIOUS
<1>2. (n + p - 1) \div p = k + 1
  <2>1. n + p - 1 = (k + 1) * p + (l - 1) /\ l - 1 \in Nat /\ l - 1 < p
    BY <1>1
  <2> QED
    BY <2>1, Unique, n + p - 1 \in Nat, k + 1 \in Nat
<1>3. CASE l < p
  BY <1>2, <1>3, Unique
<1>4. CASE l = p
  <2>1. n = (k + 1) * p + 0
    BY <1>1, <1>4
  <2>2. k + 1 \in Nat /\ p > 0 /\ 0 < p /\ 0 \in Nat
    BY <1>4
  <2>3. n % p = 0
    BY ONLY <2>1, <2>2, Unique, n \in Nat, p \in Nat
  <2> QED
    BY <1>2, <1>4, <2>3
<1> QED
  BY <1>3, <1>4

-----------------------------------------------------------------------------
Packets == [kind : {"none", "leader", "payload", "trailer"}, block : Nat,
            id : 0..(Word - 1)]

Data ==
  /\ length \in Lengths \cup {0} /\ pack \in 0..(Word - 1)
  /\ left \in 0..length /\ carried \in 0..length
  /\ wire \in Packets

(* Within an image, what has gone and what is left make up its length.  A  *)
(* packet of no bytes leaves it all.                                       *)
Within ==
  /\ left > 0 /\ length + 1 < Word
  /\ pack = 0 => carried = 0
  /\ pack > 0 => length = wire.id * pack + left /\ carried = wire.id * pack

(* The image has gone, all packets of it. *)
Gone ==
  IF length = 0 THEN carried = 0
  ELSE /\ pack > 0
       /\ wire.id = Needed /\ wire.id + 1 < Word
       /\ carried = IF length % pack = 0 THEN length - pack ELSE length

Dispatched ==
  /\ tpc = "payload" => Within
  /\ tpc = "again" => /\ wire.kind = "payload"
                      /\ left > 0 => Within
                      /\ left = 0 => Gone
  /\ tpc = "trailer" => Gone
  /\ BlockComplete

Sent == Data /\ Dispatched

LEMMA DispatchedInit == Init => Sent
BY Bounds DEF Init, Sent, Data, Dispatched, BlockComplete, NoPacket, Packets

(* Everything but the dispatch leaves its data alone, or forgets it. *)
LEMMA OtherStep ==
  ASSUME Sent, UNCHANGED block_data,
         tpc' = tpc \/ tpc' \notin {"payload", "again", "trailer", "count"}
  PROVE  Sent'
BY Bounds DEF Sent, Data, Packets, Dispatched, Within, Gone, Needed, BlockComplete, block_data

LEMMA LeaderStep ==
  ASSUME Sent, ThrLeader, block \in Nat
  PROVE  Sent'
<1>1. PICK size \in Sizes : pack' = (size - Overhead) % Word
  BY DEF ThrLeader
<1>2. pack' \in 0..(Word - 1)
  BY <1>1, Bounds
<1>3. length' \in Lengths /\ length' \in Nat /\ length' + 1 < Word
  BY Bounds DEF ThrLeader
<1>4. wire'.id = 0 /\ left' = length' /\ carried' = 0
  BY DEF ThrLeader, Packet
<1>5. tpc' = IF length' > 0 THEN "payload" ELSE "trailer"
  BY DEF ThrLeader, Step
<1>6. 0 * pack' = 0
  BY <1>2, NoneSent, pack' \in Nat
<1>7. Data'
  <2>1. wire' = [kind |-> "leader", block |-> block, id |-> 0]
    BY DEF ThrLeader, Packet
  <2>2. wire' \in Packets'
    BY <2>1, Bounds DEF Packets
  <2> QED
    BY <1>2, <1>3, <1>4, <2>2 DEF Data
<1>8. CASE length' > 0
  <2>1. wire'.id * pack' = 0
    BY <1>4, <1>6
  <2>2. Within'
    BY <1>3, <1>4, <1>8, <2>1 DEF Within
  <2> QED
    BY <1>5, <1>7, <1>8, <2>2 DEF Sent, Dispatched, BlockComplete
<1>9. CASE length' = 0
  BY <1>4, <1>5, <1>7, <1>9 DEF Sent, Dispatched, Gone, BlockComplete
<1> QED
  BY <1>3, <1>8, <1>9

LEMMA PayloadStep ==
  ASSUME Sent, ThrPayload, block \in Nat
  PROVE  Sent'
<1> DEFINE k == wire.id
<1>1. /\ Within /\ Data /\ tpc' = "again"
      /\ wire'.id = (k + 1) % Word /\ wire'.kind = "payload"
      /\ carried' = carried + (IF pack < left THEN pack ELSE length % pack)
      /\ left' = IF pack < left THEN left - pack ELSE 0
      /\ pack' = pack /\ length' = length
  BY DEF Sent, Dispatched, ThrPayload, Step, Packet
<1>2. /\ length \in Nat /\ left \in Nat /\ pack \in Nat /\ carried \in Nat
      /\ k \in Nat /\ left <= length
  BY <1>1, Bounds DEF Data, Packets
<1>3. wire' \in Packets'
  <2>1. (k + 1) % Word \in 0..(Word - 1)
    BY <1>2, Bounds
  <2> QED
    BY <2>1 DEF ThrPayload, Packet, Packets
<1>4. ASSUME carried' \in 0..length PROVE Data'
  <2>1. left' \in 0..length'
    BY <1>1, <1>2
  <2> QED
    BY <1>1, <1>3, <1>4, <2>1 DEF Data
<1>5. CASE pack = 0
  <2>1. left > 0 /\ left' = left /\ carried' = 0 /\ carried = 0
    BY <1>1, <1>2, <1>5 DEF Within
  <2> QED
    BY <1>1, <1>2, <1>4, <1>5, <2>1 DEF Sent, Dispatched, Within, BlockComplete
<1>6. CASE pack > 0
  <2>1. length = k * pack + left /\ carried = k * pack /\ left > 0 /\ length + 1 < Word
    BY <1>1, <1>6 DEF Within
  <2>2. k * pack \in Nat /\ k <= k * pack /\ (k + 1) * pack = k * pack + pack
    BY <1>2, <1>6, AtLeast
  <2>3. k + 1 < Word /\ k + 2 < Word
    BY <1>2, <2>1, <2>2, Bounds
  <2>4. wire'.id = k + 1
    BY <1>1, <1>2, <2>3, Bounds
  <2>5. CASE pack < left
    <3>1. length' = wire'.id * pack' + left' /\ carried' = wire'.id * pack'
      BY <1>1, <1>2, <2>1, <2>2, <2>4, <2>5
    <3>2. Within'
      BY <1>1, <1>2, <1>6, <2>1, <2>5, <3>1 DEF Within
    <3>3. carried' \in 0..length
      BY <1>1, <1>2, <2>1, <2>2, <2>5
    <3> QED
      BY <1>1, <1>2, <1>4, <2>5, <3>2, <3>3 DEF Sent, Dispatched, BlockComplete
  <2>6. CASE ~(pack < left)
    <3>a. k \in Nat /\ left \in Nat /\ pack \in Nat /\ length \in Nat
          /\ length = k * pack + left /\ 0 < left /\ left <= pack
      BY <1>2, <2>1, <2>6
    <3> HIDE DEF k
    <3>1. /\ Needed = k + 1
          /\ length % pack = IF left < pack THEN left ELSE 0
      BY ONLY <3>a, LastPacket DEF Needed
    <3>2. Needed' = k + 1
      BY <1>1, <3>1 DEF Needed
    <3>3. carried' = IF length' % pack' = 0 THEN length' - pack' ELSE length'
      BY <1>1, <1>2, <2>1, <2>2, <2>6, <3>1
    <3>4. carried' \in 0..length
      BY <1>1, <1>2, <2>1, <2>2, <2>6, <3>1
    <3>5. Gone'
      BY <1>1, <1>2, <1>6, <2>3, <2>4, <3>2, <3>3 DEF Gone
    <3> QED
      BY <1>1, <1>2, <1>4, <2>6, <3>4, <3>5 DEF Sent, Dispatched, BlockComplete
  <2> QED
    BY <2>5, <2>6
<1> QED
  BY <1>2, <1>5, <1>6

LEMMA AgainStep ==
  ASSUME Sent, ThrAgain
  PROVE  Sent'
<1>1. tpc = "again" /\ UNCHANGED block_data
  BY DEF ThrAgain, Step
<1>2. \/ tpc' = "count"
      \/ left > 0 /\ tpc' = "payload"
      \/ left = 0 /\ tpc' = "trailer"
  BY DEF ThrAgain, Step
<1> QED
  BY <1>1, <1>2
  DEF Sent, Data, Packets, Dispatched, Within, Gone, Needed, BlockComplete, block_data

LEMMA TrailerStep ==
  ASSUME Sent, ThrTrailer, block \in Nat
  PROVE  Sent'
<1>1. /\ Gone /\ Data /\ tpc' = "count"
      /\ wire'.id = (wire.id + 1) % Word
      /\ UNCHANGED <<pack, length, left, carried>>
  BY DEF Sent, Dispatched, ThrTrailer, Step, Packet
<1>2. wire.id \in Nat /\ length \in Nat /\ (length # 0 => wire'.id = wire.id + 1)
  BY <1>1, Bounds DEF Data, Packets, Gone
<1>3. Needed' = Needed
  BY <1>1 DEF Needed
<1>4. BlockComplete'
  BY <1>1, <1>2, <1>3 DEF Data, Gone, BlockComplete
<1>5. wire' \in Packets'
  <2>1. (wire.id + 1) % Word \in 0..(Word - 1)
    BY <1>2, Bounds
  <2> QED
    BY <2>1 DEF ThrTrailer, Packet, Packets
<1> QED
  BY <1>1, <1>4, <1>5 DEF Sent, Data, Dispatched

LEMMA CountStep ==
  ASSUME Sent, ThrCount
  PROVE  Sent'
BY Bounds DEF Sent, Data, Packets, Dispatched, BlockComplete, ThrCount, Step, NoPacket

LEMMA SentStep ==
  ASSUME Sent, [Next]_vars, block \in Nat
  PROVE  Sent'
<1>1. CASE Main
  BY <1>1, OtherStep DEF Main, WritePort, WritePortZero, thr
<1>2. CASE \E g \in Grabber : Grab(g)
  <2>1. PICK g \in Grabber : Grab(g)
    BY <1>2
  <2>2. CASE GrabBroadcast(g)
    BY <2>2, OtherStep DEF GrabBroadcast
  <2>3. CASE ~GrabBroadcast(g)
    <3>1. UNCHANGED thr
      BY <2>1, <2>3 DEF Grab, GrabCheck, GrabStart, GrabMark, GrabRun, GrabReset,
         GrabLoop, GrabFrame, GrabLock, GrabAdd, GrabUnlock, GrabExit, GrabEnd
    <3> QED
      BY <3>1, OtherStep DEF thr
  <2> QED
    BY <2>2, <2>3
<1>3. CASE Thr
  <2>1. CASE ThrOpen \/ ThrScan \/ ThrTest \/ ThrStore \/ ThrFree \/ ThrWait
             \/ ThrTimeout \/ ThrRelock
    BY <2>1, OtherStep DEF ThrOpen, ThrScan, ThrTest, ThrStore, ThrFree, ThrWait,
                           ThrTimeout, ThrRelock, Step
  <2> QED
    BY <1>3, <2>1, LeaderStep, PayloadStep, AgainStep, TrailerStep, CountStep
    DEF Thr
<1>4. CASE UNCHANGED vars
  BY <1>4, OtherStep DEF vars, thr
<1> QED
  BY <1>1, <1>2, <1>3, <1>4 DEF Next

-----------------------------------------------------------------------------
(* The list and the threads. *)

GrabPc == {"unborn", "check", "start", "mark", "run", "reset", "loop", "frame",
           "lock", "add", "unlock", "bcast", "exit", "end", "gone"}

Flags ==
  /\ port \in BOOLEAN /\ grabbing \in BOOLEAN /\ locked \in BOOLEAN
  /\ restarted \in BOOLEAN /\ hasty \in BOOLEAN /\ failed \in BOOLEAN /\ early \in BOOLEAN
  /\ overlap \in BOOLEAN

Types ==
  /\ status \in {"none", "running", "stop"}
  /\ gpc \in [Grabber -> GrabPc]
  /\ Sending \/ tpc \in {"open", "scan", "test", "count", "store", "free", "wait",
                         "waiting", "relock", "dead"}
  /\ put \in Nat /\ pos \in Nat /\ nxt \in Nat
  /\ block \in Nat /\ count \in Nat /\ leader \in Nat
  /\ queue \in Seq(Nat) /\ taken \in Seq(Nat)

(* There is an image at the cursor. *)
Walking == Sending \/ tpc \in {"test", "count", "store", "free"}

(* What has been put and not taken is on the list, in order; the cursor is *)
(* at its first image, and the next one was right when it was noted.       *)
Listed ==
  /\ Len(taken) + Len(queue) = put
  /\ \A k \in 1..Len(taken) : taken[k] = k
  /\ \A k \in 1..Len(queue) : queue[k] = Len(taken) + k
  /\ pos <= put /\ nxt <= put
  /\ Walking => /\ Len(queue) > 0 /\ pos = Len(taken) + 1
                /\ nxt = NONE \/ (nxt = pos + 1 /\ Len(queue) > 1)

(* The grab threads that are about to put an image have room for it. *)
Adding == {g \in Grabber : gpc[g] \in {"lock", "add"}}
Promised == put + Cardinality(Adding) <= MaxImg

(* Each image that is taken ends one block at most. *)
Numbered ==
  /\ leader <= Len(taken) + 1 /\ wire.block <= Len(taken) + 1
  /\ IF tpc = "store" THEN 1 <= count /\ count <= Len(taken) + 2 ELSE count = 0
  /\ 1 <= block /\ block <= Len(taken) + 2
  /\ tpc # "free" => block <= Len(taken) + 1

(* block_id64 is that of the last leader until it is incremented, and one  *)
(* more from then on; or it was set to 1 since.                            *)
InBlock == tpc \in {"payload", "again", "trailer", "count", "store"}
Blocks ==
  /\ InBlock => block = leader \/ (restarted /\ block = 1)
  /\ tpc = "store" => count = leader + 1 \/ (restarted /\ count = 2)
  /\ ~InBlock => block = leader + 1 \/ (restarted /\ block \in {1, 2})

(* Unless two threads were in the list at once, the stream thread finds    *)
(* all that is on it before it sleeps.                                     *)
Awake ==
  ~overlap =>
    /\ \A x, y \in InList : x = y
    /\ tpc = "wait" => queue = <<>>
    /\ Walking /\ nxt = NONE => Len(queue) = 1
    /\ NoSleepingImage

IInv ==
  Sent /\ Flags /\ Types /\ Listed /\ Promised /\ Numbered /\ Blocks /\ Awake

LEMMA IntBounds == MaxGrab \in Nat /\ MaxImg \in Nat
BY GvspStreamAssumption

LEMMA ListFinite == IsFiniteSet(Grabber) /\ IsFiniteSet(InList)
<1>1. IsFiniteSet(Grabber)
  BY IntBounds, FS_Interval DEF Grabber
<1>2. InList \subseteq Grabber \cup {NONE}
  BY DEF InList
<1> QED
  BY <1>1, <1>2, FS_AddElement, FS_Subset

LEMMA InitHolds == Init => IInv
<1> SUFFICES ASSUME Init PROVE IInv
  OBVIOUS
<1>1. Flags /\ Types
  <2>1. Flags
    BY DEF Init, Flags
  <2>2. gpc \in [Grabber -> GrabPc]
    BY DEF Init, GrabPc
  <2>3. queue \in Seq(Nat) /\ taken \in Seq(Nat)
    BY DEF Init
  <2>4. Types
    BY <2>2, <2>3 DEF Init, Types, NONE
  <2> QED
    BY <2>1, <2>4
<1>2. Listed /\ Numbered /\ Blocks
  BY DEF Init, Listed, Numbered, Blocks, Walking, Sending, InBlock, NoPacket, NONE
<1>3. Promised
  <2>1. Adding = {}
    BY DEF Init, Adding
  <2> QED
    BY <2>1, FS_EmptySet, IntBounds DEF Init, Promised
<1>4. Awake
  <2>1. InList = {}
    BY DEF Init, InList, ThrInList, Sending
  <2> QED
    BY <2>1 DEF Init, Awake, Walking, Sending, NoSleepingImage
<1> QED
  BY <1>1, <1>2, <1>3, <1>4, DispatchedInit DEF IInv

-----------------------------------------------------------------------------
(* The operations of the list. *)

(* Of a list of consecutive images, the entry noted is the next image or,  *)
(* at the end of the list, none.                                           *)
LEMMA AfterImage ==
  ASSUME queue \in Seq(Nat), NEW t \in Nat, NEW k \in 1..Len(queue),
         \A j \in 1..Len(queue) : queue[j] = t + j
  PROVE  After(t + k) = IF k < Len(queue) THEN t + k + 1 ELSE NONE
<1>1. Len(queue) \in Nat
  OBVIOUS
<1>2. CASE k < Len(queue)
  <2>1. Place(t + k) = k
    BY <1>1 DEF Place
  <2>2. k \in 1..(Len(queue) - 1) /\ queue[k] = t + k /\ queue[k + 1] = t + k + 1
    BY <1>1, <1>2
  <2> QED
    BY <1>2, <2>1, <2>2 DEF After
<1>3. CASE ~(k < Len(queue))
  <2>1. \A j \in 1..(Len(queue) - 1) : queue[j] # t + k
    BY <1>1, <1>3
  <2> QED
    BY <1>3, <2>1 DEF After
<1> QED
  BY <1>2, <1>3

LEMMA AfterNone ==
  ASSUME queue \in Seq(Nat), \A j \in 1..Len(queue) : queue[j] # NONE
  PROVE  After(NONE) = NONE
BY DEF After

(* Taking the first image off leaves the others in their order. *)
LEMMA WithoutFirst ==
  ASSUME queue \in Seq(Nat), NEW t \in Nat, Len(queue) > 0,
         \A j \in 1..Len(queue) : queue[j] = t + j
  PROVE  /\ Without(t + 1) \in Seq(Nat)
         /\ Len(Without(t + 1)) = Len(queue) - 1
         /\ \A j \in 1..(Len(queue) - 1) : Without(t + 1)[j] = t + 1 + j
<1> DEFINE n == Len(queue) - 1
<1>1. Len(queue) \in Nat /\ n \in Nat
  OBVIOUS
<1>2. Place(t + 1) = 1
  BY <1>1 DEF Place
<1>3. \A j \in 1..n : (IF j < Place(t + 1) THEN j ELSE j + 1) = j + 1
  BY <1>1, <1>2
<1>4. Without(t + 1) = [j \in 1..n |-> queue[j + 1]]
  BY <1>3 DEF Without
<1>5. \A j \in 1..n : queue[j + 1] = t + 1 + j
  BY <1>1
<1> HIDE DEF n
<1>6. Without(t + 1) \in [1..n -> Nat]
  BY <1>4, <1>5
<1>7. /\ Without(t + 1) \in Seq(Nat) /\ Len(Without(t + 1)) = n
  BY <1>1, <1>6
<1> QED
  BY <1>4, <1>5, <1>7 DEF n

-----------------------------------------------------------------------------
LEMMA FlagsStep ==
  ASSUME Flags, [Next]_vars
  PROVE  Flags'
<1> USE DEF Flags
<1>1. CASE Main /\ Track
  BY <1>1 DEF Main, WritePort, WritePortZero, Track, flags, session
<1>2. ASSUME NEW g \in Grabber, Grab(g) /\ Track PROVE Flags'
  <2>1. CASE GrabCheck(g) \/ GrabStart(g) \/ GrabMark(g) \/ GrabRun(g) \/ GrabReset(g)
    BY <1>2, <2>1 DEF Track, flags, session, GrabCheck, GrabStart, GrabMark, GrabRun, GrabReset
  <2>2. CASE \/ GrabLoop(g) \/ GrabFrame(g) \/ GrabLock(g) \/ GrabAdd(g) \/ GrabUnlock(g)
             \/ GrabBroadcast(g)
    BY <1>2, <2>2 DEF Track, flags, session, GrabLoop, GrabFrame, GrabLock, GrabAdd,
       GrabUnlock, GrabBroadcast
  <2>3. CASE GrabExit(g) \/ GrabEnd(g)
    BY <1>2, <2>3 DEF Track, flags, session, GrabExit, GrabEnd
  <2> QED
    BY <1>2, <2>1, <2>2, <2>3 DEF Grab
<1>3. CASE Thr /\ Track
  BY <1>3 DEF Thr, Track, flags, session, ThrOpen, ThrScan, ThrTest, ThrLeader,
     ThrPayload, ThrAgain, ThrTrailer, ThrCount, ThrStore, ThrFree, ThrWait,
     ThrTimeout, ThrRelock
<1>4. CASE UNCHANGED vars
  BY <1>4 DEF vars, flags, session
<1> QED
  BY <1>1, <1>2, <1>3, <1>4 DEF Next

(* Who changes the list, and who what the stream thread works on. *)
LEMMA ListChanges ==
  ASSUME [Next]_vars
  PROVE  \/ UNCHANGED <<queue, put, taken>>
         \/ ThrFree
         \/ \E g \in Grabber : GrabAdd(g)
<1>1. CASE Main
  BY <1>1 DEF Main, WritePort, WritePortZero, list
<1>2. CASE \E g \in Grabber : Grab(g)
  BY <1>2 DEF Grab, list, GrabCheck, GrabStart, GrabMark,
     GrabRun, GrabReset, GrabLoop, GrabFrame, GrabLock, GrabAdd, GrabUnlock,
     GrabBroadcast, GrabExit, GrabEnd
<1>3. CASE Thr
  BY <1>3 DEF Thr, list, ThrOpen, ThrScan, ThrTest, ThrLeader, ThrPayload, ThrAgain,
     ThrTrailer, ThrCount, ThrStore, ThrWait, ThrTimeout, ThrRelock
<1>4. CASE UNCHANGED vars
  BY <1>4 DEF vars, list
<1> QED
  BY <1>1, <1>2, <1>3, <1>4 DEF Next

LEMMA ThrChanges ==
  ASSUME [Next]_vars
  PROVE  \/ UNCHANGED thr
         \/ Thr
         \/ \E g \in Grabber : GrabBroadcast(g)
<1>1. CASE Main
  BY <1>1 DEF Main, WritePort, WritePortZero
<1>2. CASE \E g \in Grabber : Grab(g)
  BY <1>2 DEF Grab, GrabCheck, GrabStart, GrabMark,
     GrabRun, GrabReset, GrabLoop, GrabFrame, GrabLock, GrabAdd, GrabUnlock,
     GrabExit, GrabEnd
<1>3. CASE UNCHANGED vars
  BY <1>3 DEF vars
<1> QED
  BY <1>1, <1>2, <1>3 DEF Next

-----------------------------------------------------------------------------
(* Each part of the invariant, at each step. *)

LEMMA ListedStep ==
  ASSUME Types, Listed, [Next]_vars
  PROVE  Listed'
<1> DEFINE t == Len(taken)
<1>0. t \in Nat /\ Len(queue) \in Nat
  BY DEF Types
<1>1. CASE ThrFree
  <2>1. /\ Len(queue) > 0 /\ pos = t + 1 /\ tpc = "free"
        /\ queue' = Without(pos) /\ taken' = Append(taken, pos) /\ put' = put
        /\ pos' = nxt /\ nxt' = After(nxt)
        /\ tpc' = IF nxt = NONE THEN "wait" ELSE "test"
    BY <1>1 DEF ThrFree, Step, Listed, Walking
  <2>2. Len(taken') = t + 1 /\ \A k \in 1..(t + 1) : taken'[k] = k
    BY <2>1, <1>0 DEF Types, Listed
  <2>3. /\ Len(queue') = Len(queue) - 1
        /\ \A k \in 1..Len(queue') : queue'[k] = t + 1 + k
    BY <1>0, <2>1, WithoutFirst DEF Types, Listed
  <2>4. CASE nxt = NONE
    <3>1. After(nxt) = NONE
      BY <1>0, <2>4, AfterNone DEF Types, Listed, NONE
    <3> QED
      BY <1>0, <2>1, <2>2, <2>3, <2>4, <3>1 DEF Listed, Walking, Sending, NONE, Types
  <2>5. CASE nxt # NONE
    <3>1. nxt = t + 2 /\ Len(queue) > 1
      BY <1>0, <2>1, <2>5 DEF Listed, Walking
    <3>2. nxt' = IF 2 < Len(queue) THEN t + 3 ELSE NONE
      <4>1. After(t + 2) = IF 2 < Len(queue) THEN t + 2 + 1 ELSE NONE
        BY <1>0, <3>1, AfterImage, 2 \in 1..Len(queue) DEF Types, Listed
      <4> QED
        BY <1>0, <2>1, <3>1, <4>1
    <3> QED
      <4>1. nxt' = NONE \/ (nxt' = t + 3 /\ Len(queue) > 2)
        BY <1>0, <3>2
      <4>2. pos' <= put' /\ nxt' <= put'
        BY <1>0, <2>1, <3>1, <4>1 DEF Listed, Types, NONE
      <4> QED
        BY <1>0, <2>1, <2>2, <2>3, <3>1, <4>1, <4>2 DEF Listed
  <2> QED
    BY <2>4, <2>5
<1>2. CASE \E g \in Grabber : GrabAdd(g)
  <2>1. /\ put' = put + 1 /\ queue' = Append(queue, put + 1)
        /\ UNCHANGED <<taken, tpc, pos, nxt>>
    BY <1>2 DEF GrabAdd, thr
  <2>2. /\ Len(queue') = Len(queue) + 1
        /\ \A k \in 1..Len(queue) : queue'[k] = queue[k]
        /\ queue'[Len(queue) + 1] = put + 1
    BY <1>0, <2>1 DEF Types
  <2>3. ASSUME NEW k \in 1..Len(queue') PROVE queue'[k] = t + k
    <3>1. CASE k \in 1..Len(queue)
      BY <2>2, <3>1 DEF Listed
    <3>2. CASE k = Len(queue) + 1
      BY <1>0, <2>2, <3>2 DEF Listed
    <3> QED
      BY <1>0, <2>2, <3>1, <3>2
  <2> QED
    <3>1. put' \in Nat /\ pos' <= put' /\ nxt' <= put'
      BY <2>1 DEF Listed, Types
    <3> QED
      BY <1>0, <2>1, <2>2, <2>3, <3>1 DEF Listed, Walking, Sending
<1>3. CASE UNCHANGED <<queue, put, taken>>
  <2>1. CASE UNCHANGED thr \/ \E g \in Grabber : GrabBroadcast(g)
    BY <1>3, <2>1 DEF GrabBroadcast, thr, Listed, Walking, Sending
  <2>2. CASE ThrScan
    <3>1. CASE queue = <<>>
      <4>1. First(queue) = NONE /\ After(NONE) = NONE
        BY <3>1 DEF First, After
      <4> QED
        BY <1>3, <2>2, <3>1, <4>1
        DEF ThrScan, Step, Listed, Walking, Sending, NONE, Types
    <3>2. CASE queue # <<>>
      <4>1. Len(queue) > 0 /\ First(queue) = t + 1
        BY <1>0, <3>2 DEF First, Types, Listed
      <4>2. After(t + 1) = IF 1 < Len(queue) THEN t + 1 + 1 ELSE NONE
        BY <1>0, <4>1, AfterImage, 1 \in 1..Len(queue) DEF Types, Listed
      <4> QED
        BY <1>0, <1>3, <2>2, <4>1, <4>2 DEF ThrScan, Listed, Types, NONE
    <3> QED
      BY <3>1, <3>2
  <2>3. CASE Thr /\ ~ThrScan /\ ~ThrFree
    <3>1. UNCHANGED <<pos, nxt>> /\ (Walking' => Walking)
      BY <2>3 DEF Thr, Step, Walking, Sending, ThrOpen, ThrTest, ThrLeader, ThrPayload,
         ThrAgain, ThrTrailer, ThrCount, ThrStore, ThrWait, ThrTimeout, ThrRelock
    <3> QED
      BY <1>3, <3>1 DEF Listed
  <2> QED
    BY <1>1, <2>1, <2>2, <2>3, ThrChanges
<1> QED
  BY <1>1, <1>2, <1>3, ListChanges

LEMMA TypesStep ==
  ASSUME Types, Listed, [Next]_vars
  PROVE  Types'
<1>1. status' \in {"none", "running", "stop"} /\ block' \in Nat
  <2>1. CASE Main
    BY <2>1 DEF Types, Main, WritePort, WritePortZero, session
  <2>2. CASE \E g \in Grabber : Grab(g)
    BY <2>2 DEF Types, Grab, session, GrabCheck, GrabStart,
       GrabMark, GrabRun, GrabReset, GrabLoop, GrabFrame, GrabLock, GrabAdd, GrabUnlock,
       GrabBroadcast, GrabExit, GrabEnd
  <2>3. CASE Thr
    BY <2>3 DEF Types, Thr, session, ThrOpen, ThrScan, ThrTest, ThrLeader, ThrPayload,
       ThrAgain, ThrTrailer, ThrCount, ThrStore, ThrFree, ThrWait, ThrTimeout, ThrRelock
  <2> QED
    BY <2>1, <2>2, <2>3 DEF Types, Next, vars, session
<1>2. gpc' \in [Grabber -> GrabPc]
  <2>1. CASE Main
    BY <2>1 DEF Types, Main, WritePort, WritePortZero, GrabPc
  <2>2. ASSUME NEW g \in Grabber, Grab(g) PROVE gpc' \in [Grabber -> GrabPc]
    <3>1. PICK to \in GrabPc : gpc' = [gpc EXCEPT ![g] = to]
      BY <2>2 DEF Grab, Go, GrabPc, GrabCheck, GrabStart,
       GrabMark, GrabRun, GrabReset, GrabLoop, GrabFrame, GrabLock, GrabAdd, GrabUnlock,
       GrabBroadcast, GrabExit, GrabEnd
    <3> QED
      BY <3>1 DEF Types
  <2>3. CASE Thr
    BY <2>3 DEF Types, Thr, ThrOpen, ThrScan, ThrTest, ThrLeader, ThrPayload,
       ThrAgain, ThrTrailer, ThrCount, ThrStore, ThrFree, ThrWait, ThrTimeout, ThrRelock
  <2> QED
    BY <2>1, <2>2, <2>3 DEF Types, Next, vars
<1>3. /\ pos' \in Nat /\ nxt' \in Nat /\ count' \in Nat /\ leader' \in Nat
      /\ Sending' \/ tpc' \in {"open", "scan", "test", "count", "store", "free",
                               "wait", "waiting", "relock", "dead"}
  <2>1. CASE UNCHANGED thr
    BY <2>1 DEF Types, thr, block_data, Sending
  <2>2. CASE \E g \in Grabber : GrabBroadcast(g)
    BY <2>2 DEF Types, GrabBroadcast, block_data, Sending
  <2>3. CASE ThrScan \/ ThrFree
    <3>1. ASSUME NEW k \in Nat PROVE After(k) \in Nat
      <4>1. ASSUME NEW j \in 1..Len(queue), queue[j] = k PROVE After(k) \in Nat
        <5>1. k = Len(taken) + j /\ Len(taken) \in Nat
          BY <4>1 DEF Types, Listed
        <5>2. After(Len(taken) + j) =
                IF j < Len(queue) THEN Len(taken) + j + 1 ELSE NONE
          BY <5>1, AfterImage DEF Types, Listed
        <5> QED
          BY <5>1, <5>2 DEF NONE
      <4>2. CASE \A j \in 1..Len(queue) : queue[j] # k
        BY <4>2 DEF Types, After, NONE
      <4> QED
        BY <4>1, <4>2
    <3>2. First(queue) \in Nat
      BY DEF Types, First, NONE
    <3> QED
      BY <2>3, <3>1, <3>2 DEF Types, ThrScan, ThrFree, Step, block_data, Sending
  <2>4. CASE Thr /\ ~ThrScan /\ ~ThrFree
    BY <2>4 DEF Types, Thr, Step, Sending, block_data, ThrOpen, ThrTest, ThrLeader,
       ThrPayload, ThrAgain, ThrTrailer, ThrCount, ThrStore, ThrWait, ThrTimeout,
       ThrRelock
  <2> QED
    BY <2>1, <2>2, <2>3, <2>4, ThrChanges
<1>4. put' \in Nat /\ queue' \in Seq(Nat) /\ taken' \in Seq(Nat)
  <2>1. CASE ThrFree
    <3>1. Len(queue) > 0 /\ pos = Len(taken) + 1 /\ Len(taken) \in Nat
      BY <2>1 DEF Types, ThrFree, Step, Listed, Walking
    <3>2. Without(pos) \in Seq(Nat)
      BY <3>1, WithoutFirst DEF Types, Listed
    <3> QED
      BY <2>1, <3>2 DEF Types, ThrFree
  <2>2. CASE \E g \in Grabber : GrabAdd(g)
    BY <2>2 DEF Types, GrabAdd
  <2> QED
    BY <2>1, <2>2, ListChanges DEF Types
<1> QED
  BY <1>1, <1>2, <1>3, <1>4 DEF Types

(* A grab thread that gets a frame has room for it on the list. *)
LEMMA PromisedStep ==
  ASSUME Types, Promised, [Next]_vars
  PROVE  Promised'
<1>0. /\ IsFiniteSet(Adding) /\ Cardinality(Adding) \in Nat
      /\ IsFiniteSet(Adding') /\ put \in Nat /\ MaxImg \in Nat
  BY ListFinite, IntBounds, FS_Subset, FS_CardinalityType DEF Adding, Types
<1>1. ASSUME UNCHANGED put, Adding' \subseteq Adding PROVE Promised'
  <2>1. Cardinality(Adding') <= Cardinality(Adding) /\ Cardinality(Adding') \in Nat
    BY <1>0, <1>1, FS_Subset, FS_CardinalityType
  <2> QED
    BY <1>0, <1>1, <2>1 DEF Promised
<1>2. CASE Main
  BY <1>1, <1>2 DEF Main, WritePort, WritePortZero, list, Types, Adding
<1>3. ASSUME NEW g \in Grabber, Grab(g) PROVE Promised'
  <2>1. CASE GrabFrame(g)
    <3>1. CASE gpc' = [gpc EXCEPT ![g] = "loop"]
      BY <1>1, <2>1, <3>1 DEF GrabFrame, list, Types, Adding
    <3>2. CASE gpc' = [gpc EXCEPT ![g] = "lock"]
      <4>1. Adding' = Adding \cup {g}
        BY <3>2 DEF Types, Adding
      <4>2. Cardinality(Adding') <= Cardinality(Adding) + 1 /\ Cardinality(Adding') \in Nat
        BY <1>0, <4>1, FS_AddElement, FS_CardinalityType
      <4>3. put + Cardinality(Adding) < MaxImg /\ put' = put
        BY <2>1, <3>2 DEF GrabFrame, Go, Types, Adding, list
      <4> QED
        BY <1>0, <4>2, <4>3 DEF Promised
    <3> QED
      BY <2>1, <3>1, <3>2 DEF GrabFrame, Go
  <2>2. CASE GrabAdd(g)
    <3>1. g \in Adding /\ Adding' = Adding \ {g} /\ put' = put + 1
      BY <2>2 DEF GrabAdd, Go, Types, Adding
    <3>2. Cardinality(Adding') = Cardinality(Adding) - 1
      BY <1>0, <3>1, FS_RemoveElement
    <3> QED
      BY <1>0, <3>1, <3>2 DEF Promised
  <2>3. CASE ~GrabFrame(g) /\ ~GrabAdd(g)
    <3>1. put' = put /\ Adding' \subseteq Adding
      BY <1>3, <2>3 DEF Grab, Go, list, Types, Adding, GrabCheck, GrabStart,
         GrabMark, GrabRun, GrabReset, GrabLoop, GrabLock, GrabUnlock, GrabBroadcast,
         GrabExit, GrabEnd
    <3> QED
      BY <1>1, <3>1
  <2> QED
    BY <2>1, <2>2, <2>3
<1>4. CASE Thr
  <2>1. UNCHANGED <<gpc, put>>
    BY <1>4 DEF Thr, list, ThrOpen, ThrScan, ThrTest, ThrLeader, ThrPayload,
       ThrAgain, ThrTrailer, ThrCount, ThrStore, ThrFree, ThrWait, ThrTimeout, ThrRelock
  <2> QED
    BY <1>1, <2>1 DEF Adding
<1>5. CASE UNCHANGED vars
  BY <1>1, <1>5 DEF vars, list, Adding
<1> QED
  BY <1>2, <1>3, <1>4, <1>5 DEF Next

(* The number of a block never runs ahead of the images. *)
LEMMA NumberedStep ==
  ASSUME Types, Data, Listed, Numbered, [Next]_vars
  PROVE  Numbered'
<1>0. /\ Len(taken) \in Nat /\ block \in Nat /\ count \in Nat /\ leader \in Nat
      /\ wire.block \in Nat
  BY DEF Types, Data, Packets
<1>1. CASE Main
  BY <1>1 DEF Main, WritePort, WritePortZero, session, list, thr, block_data, Numbered
<1>2. ASSUME NEW g \in Grabber, Grab(g) PROVE Numbered'
  <2>1. /\ UNCHANGED <<leader, wire, count, taken>>
        /\ tpc' = tpc \/ (tpc = "waiting" /\ tpc' = "relock")
    BY <1>2 DEF Grab, list, thr, block_data, GrabCheck, GrabStart, GrabMark, GrabRun,
       GrabReset, GrabLoop, GrabFrame, GrabLock, GrabAdd, GrabUnlock, GrabBroadcast,
       GrabExit, GrabEnd
  <2>2. block' = block \/ block' = 1
    BY <1>2 DEF Grab, session, GrabCheck, GrabStart, GrabMark, GrabRun,
       GrabReset, GrabLoop, GrabFrame, GrabLock, GrabAdd, GrabUnlock, GrabBroadcast,
       GrabExit, GrabEnd
  <2> QED
    BY <1>0, <2>1, <2>2 DEF Numbered
<1>3. CASE ThrFree
  <2>1. Len(taken') = Len(taken) + 1
    BY <1>3 DEF ThrFree, Types
  <2>2. /\ UNCHANGED <<block, count, leader, wire>> /\ tpc = "free"
        /\ tpc' \in {"wait", "test"}
    BY <1>3 DEF ThrFree, Step, session, block_data
  <2> QED
    BY <1>0, <2>1, <2>2 DEF Numbered
<1>4. CASE ThrLeader \/ ThrPayload \/ ThrTrailer
  BY <1>0, <1>4 DEF ThrLeader, ThrPayload, ThrTrailer, Step, Packet, session, list,
                    Numbered
<1>5. CASE ThrCount
  BY <1>0, <1>5 DEF ThrCount, Step, NoPacket, session, list, Numbered
<1>6. CASE ThrStore
  BY <1>0, <1>6 DEF ThrStore, Step, block_data, list, Numbered
<1>7. CASE ThrOpen \/ ThrScan \/ ThrTest \/ ThrAgain \/ ThrWait \/ ThrTimeout
           \/ ThrRelock
  BY <1>0, <1>7 DEF ThrOpen, ThrScan, ThrTest, ThrAgain, ThrWait, ThrTimeout, ThrRelock,
     Step, session, list, block_data, Numbered
<1>8. CASE UNCHANGED vars
  BY <1>8 DEF vars, session, list, thr, block_data, Numbered
<1> QED
  BY <1>1, <1>2, <1>3, <1>4, <1>5, <1>6, <1>7, <1>8 DEF Next, Thr

(* Who changes the identifier of the block. *)
LEMMA BlocksStep ==
  ASSUME Types, Blocks, [Next]_vars
  PROVE  Blocks'
<1>1. CASE Main
  BY <1>1 DEF Main, WritePort, WritePortZero, session, thr, block_data, Blocks, InBlock
<1>2. ASSUME NEW g \in Grabber, Grab(g) PROVE Blocks'
  <2>1. /\ UNCHANGED <<leader, count>>
        /\ tpc' = tpc \/ (tpc = "waiting" /\ tpc' = "relock")
    BY <1>2 DEF Grab, thr, block_data, GrabCheck, GrabStart, GrabMark, GrabRun,
       GrabReset, GrabLoop, GrabFrame, GrabLock, GrabAdd, GrabUnlock, GrabBroadcast,
       GrabExit, GrabEnd
  <2>2. UNCHANGED <<block, restarted>> \/ (block' = 1 /\ restarted' = TRUE)
    BY <1>2 DEF Grab, session, GrabCheck, GrabStart, GrabMark, GrabRun,
       GrabReset, GrabLoop, GrabFrame, GrabLock, GrabAdd, GrabUnlock, GrabBroadcast,
       GrabExit, GrabEnd
  <2> QED
    BY <2>1, <2>2 DEF Blocks, InBlock
<1>3. CASE ThrLeader
  BY <1>3 DEF ThrLeader, Step, Blocks, InBlock
<1>4. CASE ThrCount
  <2>1. /\ tpc = "count" /\ tpc' = "store" /\ count' = block + 1
        /\ UNCHANGED <<block, leader, restarted>>
    BY <1>4 DEF ThrCount, Step, session
  <2> QED
    BY <2>1 DEF Types, Blocks, InBlock
<1>5. CASE ThrStore
  <2>1. /\ tpc = "store" /\ tpc' = "free" /\ block' = count
        /\ UNCHANGED <<leader, restarted>>
    BY <1>5 DEF ThrStore, Step, block_data
  <2> QED
    BY <2>1 DEF Types, Blocks, InBlock
<1>6. CASE ThrOpen \/ ThrScan \/ ThrTest \/ ThrPayload \/ ThrAgain \/ ThrTrailer
           \/ ThrFree \/ ThrWait \/ ThrTimeout \/ ThrRelock
  BY <1>6 DEF ThrOpen, ThrScan, ThrTest, ThrPayload, ThrAgain, ThrTrailer, ThrFree,
     ThrWait, ThrTimeout, ThrRelock, Step, session, block_data, Blocks, InBlock
<1>7. CASE UNCHANGED vars
  BY <1>7 DEF vars, session, thr, block_data, Blocks, InBlock
<1> QED
  BY <1>1, <1>2, <1>3, <1>4, <1>5, <1>6, <1>7 DEF Next, Thr

(* One thread in the list at a time, unless two have been there at once. *)
LEMMA Apart ==
  ASSUME Flags, Types, Awake, [Next]_vars, ~overlap'
  PROVE  ~overlap /\ \A x, y \in InList' : x = y
<1>1. CASE UNCHANGED vars
  BY <1>1 DEF vars, Awake, InList, ThrInList, Sending, thr
<1>2. CASE Track
  <2>1. ~overlap /\ ~(Cardinality(InList') > 1)
    BY <1>2, Zenon DEF Track
  <2>2. IsFiniteSet(InList')
    <3>1. InList' \subseteq Grabber \cup {NONE}
      BY DEF InList
    <3> QED
      BY <3>1, ListFinite, FS_AddElement, FS_Subset
  <2>3. ASSUME NEW x \in InList', NEW y \in InList', x # y PROVE FALSE
    <3>1. Cardinality({x, y}) = 2
      <4>1. IsFiniteSet({x}) /\ Cardinality({x}) = 1
        BY FS_Singleton
      <4>2. {x, y} = {x} \cup {y} /\ y \notin {x}
        BY <2>3
      <4> QED
        BY <4>1, <4>2, FS_AddElement
    <3>2. Cardinality({x, y}) <= Cardinality(InList') /\ Cardinality(InList') \in Nat
      BY <2>2, <2>3, FS_Subset, FS_CardinalityType
    <3> QED
      BY <2>1, <3>1, <3>2
  <2> QED
    BY <2>1, <2>3
<1> QED
  BY <1>1, <1>2 DEF Next

(* An integer between two neighbours. *)
LEMMA Exactly ==
  ASSUME NEW a \in Nat, NEW b \in Nat, a > b, a <= b + 1
  PROVE  a = b + 1
OBVIOUS

LEMMA AwakeStep ==
  ASSUME Flags, Types, Listed, Awake, [Next]_vars
  PROVE  Awake'
<1> SUFFICES ASSUME ~overlap' PROVE Awake'
  BY DEF Awake
<1>a. ~overlap /\ Len(queue) \in Nat
  BY Apart DEF Types
<1>b. Walking /\ nxt = NONE => Len(queue) = 1
  BY <1>a DEF Awake
<1>0. /\ ~overlap /\ Len(queue) \in Nat
      /\ \A x, y \in InList : x = y
      /\ \A x, y \in InList' : x = y
      /\ tpc = "wait" => queue = <<>>
      /\ Walking /\ nxt = NONE => Len(queue) = 1
      /\ tpc = "waiting" /\ queue # <<>> => \E g \in Grabber : gpc[g] \in {"unlock", "bcast"}
  BY Apart DEF Awake, Types, NoSleepingImage
<1> SUFFICES /\ tpc' = "wait" => queue' = <<>>
             /\ Walking' /\ nxt' = NONE => Len(queue') = 1
             /\ tpc' = "waiting" /\ queue' # <<>> =>
                  \E g \in Grabber : gpc'[g] \in {"unlock", "bcast"}
  BY <1>0 DEF Awake, NoSleepingImage
<1>1. CASE Main
  BY <1>0, <1>1 DEF Main, WritePort, WritePortZero, list, thr, Walking, Sending, Types
<1>2. ASSUME NEW g \in Grabber, Grab(g)
      PROVE  /\ tpc' = "wait" => queue' = <<>>
             /\ Walking' /\ nxt' = NONE => Len(queue') = 1
             /\ tpc' = "waiting" /\ queue' # <<>> =>
                  \E h \in Grabber : gpc'[h] \in {"unlock", "bcast"}
  <2>1. CASE GrabAdd(g)
    <3>1. g \in InList /\ g # NONE
      BY <2>1 DEF GrabAdd, Go, InList, Grabber, NONE
    <3>2. ~ThrInList
      BY <1>0, <3>1 DEF InList
    <3>3. UNCHANGED tpc /\ gpc'[g] = "unlock"
      BY <2>1 DEF GrabAdd, Go, thr, Types
    <3> QED
      BY <3>2, <3>3 DEF ThrInList, Walking, Sending
  <2>2. CASE GrabUnlock(g) \/ GrabBroadcast(g)
    <3>1. gpc'[g] = "bcast" \/ tpc' # "waiting"
      BY <2>2 DEF GrabUnlock, GrabBroadcast, Go, Types
    <3>2. /\ UNCHANGED <<queue, nxt>>
          /\ tpc' = tpc \/ tpc' = "relock"
      BY <2>2 DEF GrabUnlock, GrabBroadcast, list, thr
    <3> QED
      BY <1>0, <3>1, <3>2 DEF Walking, Sending
  <2>3. CASE ~GrabAdd(g) /\ ~GrabUnlock(g) /\ ~GrabBroadcast(g)
    <3>1. /\ UNCHANGED <<queue, nxt, tpc>>
          /\ gpc[g] \notin {"unlock", "bcast"}
          /\ \A h \in Grabber \ {g} : gpc'[h] = gpc[h]
      BY <1>2, <2>3 DEF Grab, Go, Types, list, thr, GrabCheck, GrabStart, GrabMark, GrabRun,
         GrabReset, GrabLoop, GrabFrame, GrabLock, GrabExit, GrabEnd
    <3> QED
      BY <1>0, <3>1 DEF Walking, Sending
  <2> QED
    BY <2>1, <2>2, <2>3
<1>3. CASE ThrScan
  <2>1. CASE queue = <<>>
    BY <1>3, <2>1 DEF ThrScan, Step, list, Walking, Sending
  <2>2. CASE queue # <<>>
    <3>1. First(queue) = Len(taken) + 1 /\ Len(queue) > 0
      BY <1>0, <2>2 DEF First, Types, Listed
    <3>2. After(Len(taken) + 1) =
            IF 1 < Len(queue) THEN Len(taken) + 1 + 1 ELSE NONE
      BY <3>1, AfterImage, 1 \in 1..Len(queue), Len(taken) \in Nat DEF Types, Listed
    <3>3. Len(taken) + 1 + 1 # NONE
      BY Len(taken) \in Nat DEF NONE, Types
    <3>4. UNCHANGED queue /\ tpc' = "test" /\ nxt' = After(Len(taken) + 1)
      BY <1>3, <2>2, <3>1 DEF ThrScan, Step, list
    <3>5. nxt' = NONE => Len(queue') = 1
      <4> SUFFICES ASSUME nxt' = NONE PROVE Len(queue') = 1
        OBVIOUS
      <4>1. Len(queue) <= 0 + 1 /\ 0 + 1 = 1 /\ 0 \in Nat
        BY <1>a, <3>2, <3>3, <3>4
      <4>2. Len(queue) = 0 + 1
        BY ONLY <1>a, <3>1, <4>1, Exactly
      <4> QED
        BY <3>4, <4>1, <4>2
    <3> QED
      BY <3>4, <3>5
  <2> QED
    BY <2>1, <2>2
<1>4. CASE ThrFree
  <2> DEFINE t == Len(taken)
  <2>0. t \in Nat
    BY DEF Types
  <2>1. /\ Len(queue) > 0 /\ pos = t + 1 /\ tpc = "free"
        /\ queue' = Without(pos) /\ nxt' = After(nxt)
        /\ tpc' = IF nxt = NONE THEN "wait" ELSE "test"
    BY <1>4 DEF ThrFree, Step, Listed, Walking
  <2>2. queue' \in Seq(Nat) /\ Len(queue') = Len(queue) - 1
    BY <2>0, <2>1, WithoutFirst DEF Types, Listed
  <2>3. CASE nxt = NONE
    <3>1. Len(queue') = 0
      <4>1. Len(queue) = 1
        BY <1>b, <2>1, <2>3 DEF Walking
      <4> QED
        BY <2>2, <4>1
    <3> QED
      BY <2>1, <2>2, <2>3, <3>1 DEF Walking, Sending
  <2>4. CASE nxt # NONE
    <3>1. nxt = t + 2 /\ Len(queue) > 1
      BY <2>0, <2>1, <2>4 DEF Listed, Walking
    <3>2. After(t + 2) = IF 2 < Len(queue) THEN t + 2 + 1 ELSE NONE
      BY <1>0, <2>0, <3>1, AfterImage, 2 \in 1..Len(queue) DEF Types, Listed
    <3>3. t + 2 + 1 # NONE
      BY <2>0 DEF NONE
    <3>4. nxt' = NONE => Len(queue') = 1
      <4> SUFFICES ASSUME nxt' = NONE PROVE Len(queue') = 1
        OBVIOUS
      <4>1. Len(queue) <= 1 + 1 /\ 1 + 1 = 2 /\ 1 \in Nat
        BY <1>a, <2>1, <3>1, <3>2, <3>3
      <4>2. Len(queue) = 2
        BY ONLY <1>a, <3>1, <4>1, Exactly
      <4> QED
        BY <2>2, <4>2
    <3> QED
      BY <2>1, <2>4, <3>4
  <2> QED
    BY <2>3, <2>4
<1>5. CASE ThrWait
  BY <1>0, <1>5 DEF ThrWait, Step, list, Walking, Sending
<1>6. CASE ThrOpen \/ ThrTest \/ ThrLeader \/ ThrPayload \/ ThrAgain \/ ThrTrailer
           \/ ThrCount \/ ThrStore \/ ThrTimeout \/ ThrRelock
  <2>1. /\ UNCHANGED <<queue, nxt>> /\ tpc' # "wait" /\ tpc' # "waiting"
        /\ Walking' => Walking
    BY <1>6 DEF ThrOpen, ThrTest, ThrLeader, ThrPayload, ThrAgain, ThrTrailer, ThrCount,
       ThrStore, ThrTimeout, ThrRelock, Step, list, Walking, Sending
  <2> QED
    BY <1>0, <2>1
<1>7. CASE UNCHANGED vars
  BY <1>0, <1>7 DEF vars, list, thr, Walking, Sending
<1> QED
  BY <1>1, <1>2, <1>3, <1>4, <1>5, <1>6, <1>7 DEF Next, Thr

LEMMA NextStep ==
  ASSUME IInv, [Next]_vars
  PROVE  IInv'
BY SentStep, FlagsStep, TypesStep, ListedStep, PromisedStep, NumberedStep, BlocksStep,
   AwakeStep DEF IInv, Sent, Types

-----------------------------------------------------------------------------
(* What has gone of an image, what is left of it and the number of the     *)
(* packet agree at every step of a dispatch; the list holds, in order,     *)
(* what was put and not taken; a grab thread at the end of its put has     *)
(* still to wake the stream thread.                                        *)
THEOREM Invariance == Spec => []IInv
BY InitHolds, NextStep, PTL DEF Spec

(* A trailer of csv_gvsp_image_dispatch closes a block of as many packets  *)
(* as its image needs, for any length below 2^32 - 1 and any packet size.  *)
THEOREM Complete == Spec => []BlockComplete
<1>1. IInv => BlockComplete
  BY DEF IInv, Sent, Dispatched
<1> QED
  BY <1>1, Invariance, PTL

(* Types are right for any number of grab threads and images: the list     *)
(* holds no image that was not put, and block_id64 passes no image.        *)
THEOREM TypeCorrect == Spec => []TypeOK
<1>1. IInv => TypeOK
  <2> SUFFICES ASSUME IInv PROVE TypeOK
    OBVIOUS
  <2>1. /\ Len(taken) \in Nat /\ Len(queue) \in Nat /\ put \in Nat
        /\ put <= MaxImg /\ MaxImg \in Nat
    <3>1. Cardinality(Adding) \in Nat
      BY ListFinite, FS_Subset, FS_CardinalityType DEF Adding
    <3> QED
      BY <3>1, IntBounds DEF IInv, Types, Promised
  <2>2. queue \in Seq(1..MaxImg) /\ taken \in Seq(1..MaxImg)
    <3>1. \A k \in 1..Len(queue) : queue[k] \in 1..MaxImg
      BY <2>1 DEF IInv, Listed
    <3>2. \A k \in 1..Len(taken) : taken[k] \in 1..MaxImg
      BY <2>1 DEF IInv, Listed
    <3>3. /\ queue \in [1..Len(queue) -> 1..MaxImg]
          /\ taken \in [1..Len(taken) -> 1..MaxImg]
      BY <3>1, <3>2 DEF IInv, Types
    <3> QED
      BY <2>1, <3>3
  <2>3. /\ block \in 1..(MaxImg + 1) /\ count \in 0..(MaxImg + 1)
        /\ wire.block \in 0..(MaxImg + 1)
    <3>1. Walking => Len(taken) + 2 <= MaxImg + 1
      BY <2>1 DEF IInv, Listed
    <3>2. Len(taken) <= MaxImg
      BY <2>1 DEF IInv, Listed
    <3>3. block \in 1..(MaxImg + 1)
      BY <2>1, <3>1, <3>2 DEF IInv, Numbered, Types, Walking
    <3>4. count \in 0..(MaxImg + 1)
      BY <2>1, <3>1, <3>2 DEF IInv, Numbered, Types, Walking
    <3> QED
      BY <2>1, <3>2, <3>3, <3>4 DEF IInv, Sent, Numbered, Data, Packets
  <2>4. pos \in 0..MaxImg /\ nxt \in 0..MaxImg
    BY <2>1 DEF IInv, Types, Listed
  <2>5. wire \in [kind : {"none", "leader", "payload", "trailer"},
                  block : 0..(MaxImg + 1), id : 0..(Word - 1)]
    BY <2>3 DEF IInv, Sent, Data, Packets
  <2>6. /\ length \in Lengths \cup {0} /\ left \in 0..length
        /\ pack \in 0..(Word - 1) /\ carried \in 0..length
    BY DEF IInv, Sent, Data
  <2>7. /\ {restarted, hasty, failed, early, overlap, locked} \subseteq BOOLEAN
        /\ port \in BOOLEAN /\ grabbing \in BOOLEAN
    BY Zenon DEF IInv, Flags
  <2> QED
    BY <2>1, <2>2, <2>3, <2>4, <2>5, <2>6, <2>7 DEF IInv, Types, GrabPc, TypeOK
<1> QED
  BY <1>1, Invariance, PTL

(* While two threads have not met in the list, the stream thread of        *)
(* csv_gvsp_client_loop never sleeps on an image without a broadcast due.  *)
THEOREM Wakeup == Spec => []NoSleepingImage
<1>1. IInv => NoSleepingImage
  BY Zenon DEF IInv, Awake, NoSleepingImage
<1> QED
  BY <1>1, Invariance, PTL

(* A block keeps the identifier of its leader and the next leader has the  *)
(* next one, unless a grab thread has set block_id64 to 1 in between.      *)
THEOREM BlockNumbers == Spec => BlocksNumbered
<1>1. ASSUME IInv, [Next]_vars, wire' # wire, wire' # NoPacket
      PROVE  \/ /\ wire'.kind = "leader" /\ wire'.id = 0
                /\ \/ wire'.block = leader + 1
                   \/ restarted /\ wire'.block \in {1, 2}
             \/ /\ wire'.kind # "leader" /\ wire'.id = (wire.id + 1) % Word
                /\ wire'.block = leader \/ restarted
  <2>1. CASE ThrLeader
    BY <1>1, <2>1 DEF IInv, Blocks, InBlock, ThrLeader, Step, Packet
  <2>2. CASE ThrPayload \/ ThrTrailer
    BY <1>1, <2>2 DEF IInv, Blocks, InBlock, ThrPayload, ThrTrailer, Step, Packet
  <2>3. ThrLeader \/ ThrPayload \/ ThrTrailer
    BY <1>1, ThrChanges DEF thr, block_data, GrabBroadcast, Thr, ThrOpen, ThrScan, ThrTest,
       ThrAgain, ThrCount, ThrStore, ThrFree, ThrWait, ThrTimeout, ThrRelock
  <2> QED
    BY <2>1, <2>2, <2>3
<1>2. IInv /\ [Next]_vars =>
        [wire' # wire /\ wire' # NoPacket =>
           \/ /\ wire'.kind = "leader" /\ wire'.id = 0
              /\ \/ wire'.block = leader + 1
                 \/ restarted /\ wire'.block \in {1, 2}
           \/ /\ wire'.kind # "leader" /\ wire'.id = (wire.id + 1) % Word
              /\ wire'.block = leader \/ restarted]_vars
  BY <1>1
<1> QED
  BY <1>2, Invariance, PTL DEF Spec, BlocksNumbered

(* Threads that only leave the list spoil nothing. *)
LEMMA NoneEnters ==
  ASSUME Flags, Awake, Track, InList' \subseteq InList
  PROVE  overlap' = overlap
<1>1. CASE overlap
  BY <1>1 DEF Flags, Track
<1>2. CASE ~overlap
  <2>1. \A x, y \in InList' : x = y
    BY <1>2 DEF Awake
  <2>2. InList' = {} \/ \E x : InList' = {x}
    BY <2>1
  <2>3. Cardinality(InList') \in {0, 1}
    BY <2>2, FS_EmptySet, FS_Singleton
  <2> QED
    BY <1>2, <2>3 DEF Flags, Track
<1> QED
  BY <1>1, <1>2 DEF Flags

(* The list of csv_gvsp_client_loop implements the abstract hand-off: each *)
(* image is taken once and in the order of the puts, sent or dropped.      *)
THEOREM Refinement == Spec => HandoffSpec
<1>1. Init => H!Init
  BY DEF Init, H!Init
<1>2. ASSUME IInv, [Next]_vars
      PROVE  [H!Next]_H!vars
  <2>0. /\ Len(taken) \in Nat /\ Len(queue) \in Nat /\ put \in Nat
        /\ Flags /\ Types /\ Listed /\ Promised /\ Awake
    BY <1>2 DEF IInv, Types
  <2>1. CASE \E g \in Grabber : GrabAdd(g)
    <3>1. PICK g \in Grabber : GrabAdd(g)
      BY <2>1
    <3>2. put < MaxImg
      <4>1. g \in Adding /\ IsFiniteSet(Adding)
        BY <3>1, ListFinite, FS_Subset DEF GrabAdd, Go, Adding
      <4>2. Cardinality(Adding) \in Nat /\ Cardinality(Adding) # 0
        BY <4>1, FS_CardinalityType, FS_EmptySet
      <4> QED
        BY <2>0, <4>2, IntBounds DEF Promised
    <3>3. overlap' = overlap
      <4>1. gpc[g] = "add" /\ gpc' = [gpc EXCEPT ![g] = "unlock"] /\ tpc' = tpc
        BY <3>1 DEF GrabAdd, Go, thr
      <4>2. InList' \subseteq InList
        BY <2>0, <4>1 DEF InList, ThrInList, Sending, Types
      <4>3. Track
        <5>1. gpc' # gpc
          BY <2>0, <4>1 DEF Types
        <5> QED
          BY <1>2, <5>1 DEF Next, vars
      <4> QED
        BY <2>0, <4>2, <4>3, NoneEnters
    <3> QED
      BY <3>1, <3>2, <3>3 DEF GrabAdd, H!Next, H!Put
  <2>2. CASE ThrFree
    <3>1. /\ tpc = "free" /\ tpc' \in {"wait", "test"} /\ UNCHANGED <<gpc, put>>
          /\ taken' = Append(taken, pos)
      BY <2>2 DEF ThrFree, Step
    <3>2. pos = Len(taken) + 1 /\ pos \in 1..put
      BY <2>0, <3>1 DEF Listed, Walking, Types
    <3>3. overlap' = overlap
      <4>1. InList' \subseteq InList
        BY <3>1 DEF InList, ThrInList
      <4>2. Track
        BY <1>2, <3>1 DEF Next, vars, thr
      <4> QED
        BY <2>0, <4>1, <4>2, NoneEnters
    <3> QED
      BY <3>1, <3>2, <3>3 DEF H!Next, H!Serve
  <2>3. CASE UNCHANGED <<queue, put, taken>>
    <3>1. overlap' = overlap \/ overlap' = TRUE
      BY <1>2, <2>0 DEF Flags, Next, Track, vars
    <3> QED
      BY <2>3, <3>1 DEF H!Next, H!Spoil, H!vars
  <2> QED
    BY <1>2, <2>1, <2>2, <2>3, ListChanges
<1> QED
  BY <1>1, <1>2, Invariance, PTL DEF Spec, HandoffSpec, H!Spec
=============================================================================

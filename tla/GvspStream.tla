----------------------------- MODULE GvspStream -----------------------------
(***************************************************************************)
(* One GVSP stream of csv_gev.c.  A write of the stream port register by   *)
(* the main thread starts a detached grab thread (csv_gvsp_cam_grab_loop), *)
(* or tells the one that runs to stop.  The grab thread puts the images of *)
(* its camera on the list head_stream; the stream thread, which lives as   *)
(* long as the process, runs csv_gvsp_client_loop: it takes the images off *)
(* the list and, while grab_status is RUNNING, dispatches each as a leader,*)
(* payload packets and a trailer.                                          *)
(*                                                                         *)
(* The list, its mutex and its condition are used as in MsgQueue: the      *)
(* first walk and the first wait of the stream thread do without the lock. *)
(* Here a list operation is one step, which it is not once two threads are *)
(* in the list: `overlap' records that, what it does to the list is        *)
(* MsgQueue's matter, and no property here speaks of the list after it.    *)
(* The camera is opened and used by nobody else (Cameras has the others).  *)
(* grab_status, block_id64 and the register values are shared without a    *)
(* lock.                                                                   *)
(***************************************************************************)
EXTENDS Integers, Sequences, FiniteSets

CONSTANTS
  MaxGrab,   (* bound: the grab threads ever started                        *)
  MaxImg,    (* bound: the images ever put on the list                      *)
  Lengths,   (* the lengths an image may have, in bytes                     *)
  Sizes,     (* the packet sizes the register may hold                      *)
  Overhead,  (* the IP, UDP and GVSP headers of a packet: 48 in the code    *)
  Word       (* the range of a uint32_t: 2^32 in the code                   *)

ASSUME GvspStreamAssumption ==
  /\ {MaxGrab, MaxImg, Overhead, Word} \subseteq Nat
  /\ Lengths \subseteq Nat /\ Sizes \subseteq Nat
  /\ Word > 1 /\ \A n \in Lengths : n + 1 < Word

Grabber == 1..MaxGrab
NONE == 0                  \* no image
NoPacket == [kind |-> "none", block |-> 0, id |-> 0]

VARIABLES
  port,      \* whether the stream port register is not 0
  status,    \* pStream->grab_status
  grabbing,  \* pCAM->grabbing
  block,     \* pStream->block_id64
  queue,     \* head_stream: the images on it, numbered as they are put
  put,       \* the images ever put on it
  locked,    \* the lock word of mutex_stream; it records no owner
  gpc,       \* where each grab thread is
  tpc,       \* where the stream thread is
  pos, nxt,  \* the cursor (pos, n) of its walk
  pack, length, left, \* dispatch: packsize, the image's length, what is left
  count,     \* the value of block_id64 that the stream thread increments
  wire,      \* the last packet of this image handed to sendto; its id is
             \* pStream->packet_id32
  carried,   \* history: the payload bytes handed to sendto for this image
  taken,     \* history: the images freed, oldest first
  leader,    \* history: the block of the last leader
  restarted, \* history: block_id64 was set to 1 since the last leader
  hasty,     \* history: the channel was opened while a grab thread existed
  failed,    \* history: the camera failed to start since it was opened
  early,     \* history: when the channel was last closed, a grab thread was
             \* about to store RUNNING
  overlap    \* history: two threads were in the list at once

flags == <<grabbing, hasty, failed, early>>
session == <<status, block, restarted>>
list == <<queue, put, taken>>
block_data == <<pack, length, left, wire, carried, leader>>
thr == <<tpc, pos, nxt, count, block_data>>
vars == <<port, flags, session, list, locked, gpc, thr, overlap>>

Init ==
  /\ port = FALSE /\ status = "none" /\ grabbing = FALSE /\ block = 1
  /\ queue = <<>> /\ put = 0 /\ taken = <<>> /\ locked = FALSE
  /\ gpc = [g \in Grabber |-> "unborn"]
  /\ tpc = "open" /\ pos = NONE /\ nxt = NONE /\ count = 0
  /\ pack = 0 /\ length = 0 /\ left = 0
  /\ wire = NoPacket
  /\ carried = 0 /\ leader = 0 /\ restarted = FALSE
  /\ hasty = FALSE /\ failed = FALSE /\ early = FALSE /\ overlap = FALSE

Alive(g) == gpc[g] \notin {"unborn", "gone"}
Sending == tpc \in {"leader", "payload", "again", "trailer"}
ThrInList == Sending \/ tpc \in {"scan", "test", "count", "store", "free", "wait"}
InList == {g \in Grabber : gpc[g] \in {"add", "unlock"}} \cup
          {t \in {NONE} : ThrInList}

-----------------------------------------------------------------------------
(* Main thread: csv_gvcp_writereg_effective on the registers of the stream. *)

WritePortZero ==
  /\ port' = FALSE
  /\ status' = "stop"
  /\ early' = \E g \in Grabber : gpc[g] \in {"check", "start", "mark", "run"}
  /\ UNCHANGED <<grabbing, hasty, failed, block, restarted, list, locked, gpc, thr>>

(* csv_gvsp_cam_grab_thread: nothing to do if the stream runs already.     *)
WritePort ==
  /\ port' = TRUE
  /\ \/ status = "running" /\ UNCHANGED <<gpc, hasty, failed>>
     \/ /\ status # "running"
        /\ \E g \in Grabber :
             /\ gpc[g] = "unborn" /\ \A h \in 1..(g - 1) : gpc[h] # "unborn"
             /\ gpc' = [gpc EXCEPT ![g] = "check"]
        /\ hasty' = \E h \in Grabber : Alive(h)
        /\ failed' = FALSE
  /\ UNCHANGED <<grabbing, early, session, list, locked, thr>>

-----------------------------------------------------------------------------
(* A grab thread: csv_gvsp_cam_grab_loop and csv_gvsp_cam_grab_fetch. *)

Go(g, from, to) == gpc[g] = from /\ gpc' = [gpc EXCEPT ![g] = to]

GrabCheck(g) ==
  /\ \/ grabbing /\ Go(g, "check", "exit")
     \/ ~grabbing /\ Go(g, "check", "start")
  /\ UNCHANGED <<port, flags, session, list, locked, thr>>

(* MV_CC_StartGrabbing *)
GrabStart(g) ==
  /\ \/ Go(g, "start", "mark") /\ UNCHANGED failed
     \/ Go(g, "start", "exit") /\ failed' = TRUE
  /\ UNCHANGED <<port, grabbing, hasty, early, session, list, locked, thr>>

GrabMark(g) ==
  /\ Go(g, "mark", "run")
  /\ grabbing' = TRUE
  /\ UNCHANGED <<port, hasty, failed, early, session, list, locked, thr>>

GrabRun(g) ==
  /\ Go(g, "run", "reset")
  /\ status' = "running"
  /\ UNCHANGED <<port, flags, block, restarted, list, locked, thr>>

(* A slip: the blocks are numbered from 0. *)
GrabResetZero(g) ==
  /\ Go(g, "reset", "loop")
  /\ block' = 0
  /\ restarted' = TRUE
  /\ UNCHANGED <<port, flags, status, list, locked, thr>>

GrabReset(g) ==
  /\ Go(g, "reset", "loop")
  /\ block' = 1
  /\ restarted' = TRUE
  /\ UNCHANGED <<port, flags, status, list, locked, thr>>

GrabLoop(g) ==
  /\ \/ status # "running" /\ Go(g, "loop", "exit")
     \/ status = "running" /\ Go(g, "loop", "frame")
  /\ UNCHANGED <<port, flags, session, list, locked, thr>>

(* MV_CC_GetOneFrameTimeout, or malloc for the image, may fail: next round. *)
GrabFrame(g) ==
  /\ \/ /\ put + Cardinality({h \in Grabber : gpc[h] \in {"lock", "add"}}) < MaxImg
        /\ Go(g, "frame", "lock")
     \/ Go(g, "frame", "loop")
  /\ UNCHANGED <<port, flags, session, list, locked, thr>>

GrabLock(g) ==
  /\ ~locked /\ Go(g, "lock", "add")
  /\ locked' = TRUE
  /\ UNCHANGED <<port, flags, session, list, thr>>

(* A slip: list_add. *)
GrabAddFirst(g) ==
  /\ Go(g, "add", "unlock")
  /\ put' = put + 1
  /\ queue' = <<put + 1>> \o queue
  /\ UNCHANGED <<port, flags, session, taken, locked, thr>>

(* list_add_tail *)
GrabAdd(g) ==
  /\ Go(g, "add", "unlock")
  /\ put' = put + 1
  /\ queue' = Append(queue, put + 1)
  /\ UNCHANGED <<port, flags, session, taken, locked, thr>>

(* A slip: no broadcast, as in csv_png_push. *)
GrabUnlockSilent(g) ==
  /\ Go(g, "unlock", "loop")
  /\ locked' = FALSE
  /\ UNCHANGED <<port, flags, session, list, thr>>

(* A slip: the mutex is not released. *)
GrabUnlockKept(g) ==
  /\ Go(g, "unlock", "bcast")
  /\ UNCHANGED <<port, flags, session, list, locked, thr>>

GrabUnlock(g) ==
  /\ Go(g, "unlock", "bcast")
  /\ locked' = FALSE
  /\ UNCHANGED <<port, flags, session, list, thr>>

GrabBroadcast(g) ==
  /\ Go(g, "bcast", "loop")
  /\ tpc' = IF tpc = "waiting" THEN "relock" ELSE tpc
  /\ UNCHANGED <<port, flags, session, list, locked, pos, nxt, count, block_data>>

(* A slip: the camera stays marked. *)
GrabExitMarked(g) ==
  /\ Go(g, "exit", "end")
  /\ UNCHANGED <<port, flags, session, list, locked, thr>>

(* exit_thr, of any grab thread: also of one that has left the camera to    *)
(* another.                                                                 *)
GrabExit(g) ==
  /\ Go(g, "exit", "end")
  /\ grabbing' = FALSE
  /\ UNCHANGED <<port, hasty, failed, early, session, list, locked, thr>>

GrabEnd(g) ==
  /\ Go(g, "end", "gone")
  /\ status' = "stop"
  /\ UNCHANGED <<port, flags, block, restarted, list, locked, thr>>

-----------------------------------------------------------------------------
(* The stream thread: csv_gvsp_client_loop. *)

Step(from, to) == tpc = from /\ tpc' = to
First(q) == IF q = <<>> THEN NONE ELSE Head(q)

Place(i) == CHOOSE k \in 1..Len(queue) : queue[k] = i

(* What follows image i on the list; NONE is the head of the list.         *)
After(i) ==
  IF \E k \in 1..(Len(queue) - 1) : queue[k] = i
  THEN queue[Place(i) + 1] ELSE NONE

(* The list once image i is taken off it. *)
Without(i) ==
  [k \in 1..(Len(queue) - 1) |-> queue[IF k < Place(i) THEN k ELSE k + 1]]

(* csv_gvsp_client_open may fail, and ends the thread. *)
ThrOpen ==
  /\ Step("open", "scan") \/ Step("open", "dead")
  /\ UNCHANGED <<port, flags, session, list, locked, gpc, pos, nxt, count, block_data>>

(* list_for_each_safe, up to the first entry. *)
ThrScan ==
  /\ \/ queue = <<>> /\ Step("scan", "wait")
     \/ queue # <<>> /\ Step("scan", "test")
  /\ pos' = First(queue)
  /\ nxt' = After(First(queue))
  /\ UNCHANGED <<port, flags, session, list, locked, gpc, count, block_data>>

ThrTest ==
  /\ \/ status = "running" /\ Step("test", "leader")
     \/ status # "running" /\ Step("test", "free")
  /\ UNCHANGED <<port, flags, session, list, locked, gpc, pos, nxt, count, block_data>>

Packet(kind, id) == [kind |-> kind, block |-> block, id |-> id]

(***************************************************************************)
(* csv_gvsp_image_dispatch up to the leader.  packsize is an unsigned      *)
(* number.  Neither the length of the image nor the packet size register   *)
(* plays a part before this step; their values are chosen here.            *)
(***************************************************************************)
ThrLeader ==
  /\ length' \in Lengths
  /\ Step("leader", IF length' > 0 THEN "payload" ELSE "trailer")
  /\ \E size \in Sizes : pack' = (size - Overhead) % Word
  /\ left' = length'
  /\ wire' = Packet("leader", 0)
  /\ carried' = 0
  /\ leader' = block
  /\ restarted' = FALSE
  /\ UNCHANGED <<port, flags, status, block, list, locked, gpc, pos, nxt, count>>

(* A slip: the last packet is filled up. *)
ThrPayloadFull ==
  /\ Step("payload", "again")
  /\ wire' = Packet("payload", (wire.id + 1) % Word)
  /\ carried' = IF pack < left THEN carried + pack ELSE length
  /\ left' = IF pack < left THEN left - pack ELSE 0
  /\ UNCHANGED <<port, flags, session, list, locked, gpc, pos, nxt, count, pack,
                 length, leader>>

(***************************************************************************)
(* A payload packet.  The last one carries length % packsize bytes: none   *)
(* if packsize divides the length.  With a packsize of 0, a register that  *)
(* holds the size of the headers, pData never moves.                       *)
(***************************************************************************)
ThrPayload ==
  /\ Step("payload", "again")
  /\ wire' = Packet("payload", (wire.id + 1) % Word)
  /\ carried' = carried + (IF pack < left THEN pack ELSE length % pack)
  /\ left' = IF pack < left THEN left - pack ELSE 0
  /\ UNCHANGED <<port, flags, session, list, locked, gpc, pos, nxt, count, pack,
                 length, leader>>

(* A slip: the dispatch does not look whether the stream has been stopped. *)
ThrAgainDeaf ==
  /\ \/ left > 0 /\ Step("again", "payload")
     \/ left = 0 /\ Step("again", "trailer")
  /\ UNCHANGED <<port, flags, session, list, locked, gpc, pos, nxt, count, block_data>>

(* A dispatch is given up, without a trailer, if the stream is stopped.    *)
ThrAgain ==
  /\ \/ status # "running" /\ Step("again", "count")
     \/ status = "running" /\ left > 0 /\ Step("again", "payload")
     \/ status = "running" /\ left = 0 /\ Step("again", "trailer")
  /\ UNCHANGED <<port, flags, session, list, locked, gpc, pos, nxt, count, block_data>>

(* A slip: the trailer has the number of the last payload packet. *)
ThrTrailerSame ==
  /\ Step("trailer", "count")
  /\ wire' = Packet("trailer", wire.id)
  /\ UNCHANGED <<port, flags, session, list, locked, gpc, pos, nxt, count, pack,
                 length, left, carried, leader>>

ThrTrailer ==
  /\ Step("trailer", "count")
  /\ wire' = Packet("trailer", (wire.id + 1) % Word)
  /\ UNCHANGED <<port, flags, session, list, locked, gpc, pos, nxt, count, pack,
                 length, left, carried, leader>>

(* block_id64++ reads and writes; the image is done with. *)
ThrCount ==
  /\ Step("count", "store")
  /\ count' = block + 1
  /\ pack' = 0 /\ length' = 0 /\ left' = 0 /\ carried' = 0
  /\ wire' = NoPacket
  /\ UNCHANGED <<port, flags, session, list, locked, gpc, pos, nxt, leader>>

ThrStore ==
  /\ Step("store", "free")
  /\ block' = count
  /\ count' = 0
  /\ UNCHANGED <<port, flags, status, restarted, list, locked, gpc, pos, nxt,
                 block_data>>

(* list_del, free, and on to the entry noted before. *)
ThrFree ==
  /\ Step("free", IF nxt = NONE THEN "wait" ELSE "test")
  /\ queue' = Without(pos)
  /\ taken' = Append(taken, pos)
  /\ pos' = nxt
  /\ nxt' = After(nxt)
  /\ UNCHANGED <<port, flags, session, put, locked, gpc, count, block_data>>

(* pthread_cond_timedwait releases the mutex, whoever has taken it.        *)
ThrWait ==
  /\ Step("wait", "waiting")
  /\ locked' = FALSE
  /\ UNCHANGED <<port, flags, session, list, gpc, pos, nxt, count, block_data>>

ThrTimeout ==
  /\ Step("waiting", "relock")
  /\ UNCHANGED <<port, flags, session, list, locked, gpc, pos, nxt, count, block_data>>

ThrRelock ==
  /\ ~locked /\ Step("relock", "scan")
  /\ locked' = TRUE
  /\ UNCHANGED <<port, flags, session, list, gpc, pos, nxt, count, block_data>>

-----------------------------------------------------------------------------
Main == WritePortZero \/ WritePort
Grab(g) ==
  \/ GrabCheck(g) \/ GrabStart(g) \/ GrabMark(g) \/ GrabRun(g) \/ GrabReset(g)
  \/ GrabLoop(g) \/ GrabFrame(g) \/ GrabLock(g) \/ GrabAdd(g) \/ GrabUnlock(g)
  \/ GrabBroadcast(g) \/ GrabExit(g) \/ GrabEnd(g)
Thr ==
  \/ ThrOpen \/ ThrScan \/ ThrTest \/ ThrLeader \/ ThrPayload \/ ThrAgain
  \/ ThrTrailer \/ ThrCount \/ ThrStore \/ ThrFree \/ ThrWait \/ ThrTimeout
  \/ ThrRelock

Track == overlap' = (overlap \/ Cardinality(InList') > 1)

Next == (Main \/ (\E g \in Grabber : Grab(g)) \/ Thr) /\ Track

Spec == Init /\ [][Next]_vars

(* The threads run when they can. *)
FairSpec ==
  /\ Spec /\ WF_vars(Thr /\ Track)
  /\ \A g \in Grabber : WF_vars(Grab(g) /\ Track)

-----------------------------------------------------------------------------
TypeOK ==
  /\ port \in BOOLEAN /\ status \in {"none", "running", "stop"}
  /\ grabbing \in BOOLEAN /\ block \in 1..(MaxImg + 1)
  /\ queue \in Seq(1..MaxImg) /\ put \in 0..MaxImg /\ taken \in Seq(1..MaxImg)
  /\ gpc \in [Grabber -> {"unborn", "check", "start", "mark", "run", "reset",
                "loop", "frame", "lock", "add", "unlock", "bcast", "exit", "end",
                "gone"}]
  /\ Sending \/ tpc \in {"open", "scan", "test", "count", "store", "free", "wait",
                         "waiting", "relock", "dead"}
  /\ {pos, nxt} \subseteq 0..MaxImg /\ count \in 0..(MaxImg + 1)
  /\ length \in Lengths \cup {0} /\ left \in 0..length
  /\ pack \in 0..(Word - 1) /\ carried \in 0..length
  /\ wire \in [kind : {"none", "leader", "payload", "trailer"},
               block : 0..(MaxImg + 1), id : 0..(Word - 1)]
  /\ {restarted, hasty, failed, early, overlap, locked} \subseteq BOOLEAN

(***************************************************************************)
(* csv_gvsp_image_dispatch sends what a receiver expects of a data block:  *)
(* when the trailer goes out, its number is one more than that of the      *)
(* payload packets an image of this length needs, and they carried the     *)
(* image, or all but its last packsize bytes if packsize divides it.       *)
(***************************************************************************)
Needed == (length + pack - 1) \div pack
BlockComplete ==
  wire.kind = "trailer" /\ tpc = "count" =>
    /\ length > 0 => wire.id = Needed + 1
    /\ carried = IF length > 0 /\ length % pack = 0 THEN length - pack ELSE length

(***************************************************************************)
(* A receiver can tell the blocks apart: the packets of a block are        *)
(* numbered one by one and carry the identifier of its leader, and a       *)
(* leader carries the next identifier after the last one.  Only where a    *)
(* grab thread has set block_id64 to 1 in between does either break.       *)
(***************************************************************************)
BlocksNumbered ==
  [][wire' # wire /\ wire' # NoPacket =>
       \/ /\ wire'.kind = "leader" /\ wire'.id = 0
          /\ \/ wire'.block = leader + 1
             \/ restarted /\ wire'.block \in {1, 2}
       \/ /\ wire'.kind # "leader" /\ wire'.id = (wire.id + 1) % Word
          /\ wire'.block = leader \/ restarted]_vars

(***************************************************************************)
(* The list between the grab threads and the stream thread hands each      *)
(* image over once and in order, whether it is then sent or dropped.       *)
(***************************************************************************)
H == INSTANCE Handoff WITH MaxItems <- MaxImg, served <- taken, spoiled <- overlap
HandoffSpec == H!Spec

(* No image sits on the list while the stream thread sleeps: the broadcast  *)
(* that it waits for is still to come.                                      *)
NoSleepingImage ==
  ~overlap /\ tpc = "waiting" /\ queue # <<>> =>
    \E g \in Grabber : gpc[g] \in {"unlock", "bcast"}

(***************************************************************************)
(* A channel that is closed falls silent: the image being sent is given    *)
(* up, also one that would never end, and nothing more is sent.  Only if   *)
(* it is closed while a grab thread has yet to store RUNNING may it stream *)
(* on, until it is closed again.                                           *)
(***************************************************************************)
FallsSilent == []<>(port \/ early \/ ~Sending)

(***************************************************************************)
(* A channel that is opened gets its stream, if the camera starts and no   *)
(* earlier grab thread was still there: such a thread ends the new one, or *)
(* is found by it and ends it, and the port register says otherwise.       *)
(***************************************************************************)
OpenStreams ==
  []<>(port => status = "running" \/ hasty \/ failed)

(***************************************************************************)
(* The images put on the list are all taken off it, unless the stream      *)
(* thread could not open its socket or is in a block without end; or two   *)
(* threads were in the list at once, which may lose an image for good.     *)
(***************************************************************************)
ImagesTaken ==
  []<>(queue = <<>> \/ tpc = "dead" \/ (Sending /\ pack = 0) \/ overlap)

=============================================================================

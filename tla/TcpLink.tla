------------------------------- MODULE TcpLink -------------------------------
(***************************************************************************)
(* The client connection of csv_tcp.c, as the main loop of csv_main.c      *)
(* drives it.  One client is served at a time: each round of the loop      *)
(* takes a snapshot of the ready descriptors with select, accepts a queued *)
(* client in place of the current one, and then reads a command from the   *)
(* descriptor pTCPL->fd if its number is in the snapshot.  thr_msg         *)
(* executes the commands pushed (MsgQueue) and sends each answer to        *)
(* whatever pTCPL->fd is by then, all at once or in two parts: what more   *)
(* parts would add is that of two.                                         *)
(*                                                                         *)
(* A client writes whole commands, but TCP delivers them in segments, each *)
(* when it likes: a command comes in up to Pieces pieces, of which the     *)
(* first holds at least the start of the header; the pieces of a           *)
(* connection are numbered from 1.  What has been written and has not come *)
(* yet, or never will, makes no difference here.  The per-connection timer *)
(* of csv_beat.c is never enabled and never runs.                          *)
(***************************************************************************)
EXTENDS Naturals, Sequences

CONSTANTS
  MaxConn,   (* bound: the connections made, numbered in that order         *)
  MaxCmd,    (* bound: the commands of one connection                       *)
  Pieces,    (* the pieces in which a command may arrive                    *)
  MaxErr,    (* sends that may fail in a row before the client is given up: *)
             (* 10 in the code                                              *)
  MaxFd      (* bound: the descriptor numbers left to connections           *)

ASSUME TcpLinkAssumption ==
  /\ {MaxConn, MaxCmd, MaxErr, MaxFd} \subseteq Nat
  /\ Pieces \in Nat \ {0}
  /\ MaxConn <= MaxFd

NONE == 0
LISTEN == 0                \* pTCPL->fd_listen, as a member of the snapshot
Conn == 1..MaxConn
Fd == 1..MaxFd

VARIABLES
  peer,      \* a connection, as the server's kernel sees it
  fin,       \* its client has ended it: FIN or RST
  came,      \* the pieces that have come from its client ...
  got,       \* ... and those that the server has received
  owner,     \* the connection behind each descriptor number
  fd,        \* pTCPL->fd, NONE for -1
  accepted,  \* pTCPL->accepted
  ready,     \* readset after select
  mpc,       \* where the round of the main loop is
  pushed,    \* the commands pushed to thr_msg, oldest first
  done,      \* how many of them are executed
  tpc,       \* where thr_msg is
  part,      \* the connection that the start of the answer went to
  sndErr,    \* snd_err of csv_tcp_local_send
  rude,      \* history: its client has not waited for an answer
  torn,      \* history: clients of which a part of a command was received,
             \* and then not the rest
  answered,  \* history: the answers its client has got to its own commands
  stray,     \* history: <<c, d>> if an answer to c, or the rest of one that
             \* began to c, was sent to d
  cut,       \* history: clients that have got a part of an answer only, and
             \* not because a send to them failed
  fresh,     \* history: the current client was accepted in this round
  abandoned  \* history: connections that were current when thr_msg cleared
             \* pTCPL->accepted

client == <<fin, came, rude>>
received == <<got, torn>>
link == <<peer, owner, fd, accepted, fresh>>
thr == <<done, tpc, part, sndErr, answered, stray, cut, abandoned>>
vars == <<peer, fin, came, got, owner, fd, accepted, ready, mpc, pushed, done,
          tpc, part, sndErr, rude, torn, answered, stray, cut, fresh, abandoned>>

(* A command that no client sent is number 0. *)
Command == [from : Conn, cmd : 0..MaxCmd]

Init ==
  /\ peer = [c \in Conn |-> "none"]
  /\ fin = [c \in Conn |-> FALSE] /\ rude = [c \in Conn |-> FALSE]
  /\ came = [c \in Conn |-> 0] /\ got = [c \in Conn |-> 0]
  /\ answered = [c \in Conn |-> 0]
  /\ owner = [f \in Fd |-> NONE] /\ fd = NONE
  /\ accepted = FALSE /\ fresh = FALSE
  /\ ready = {} /\ mpc = "select"
  /\ pushed = <<>> /\ done = 0 /\ tpc = "idle" /\ sndErr = 0
  /\ part = NONE /\ stray = {} /\ cut = {} /\ abandoned = {} /\ torn = {}

Unread(c) == came[c] - got[c]
Queued == {c \in Conn : peer[c] = "queued"}
Current == IF fd = NONE THEN NONE ELSE owner[fd]

-----------------------------------------------------------------------------
(* Clients. *)

Connect(c) ==
  /\ peer[c] = "none"
  /\ \A d \in 1..(c - 1) : peer[d] # "none"
  /\ peer' = [peer EXCEPT ![c] = "queued"]
  /\ UNCHANGED <<client, received, owner, fd, accepted, fresh, ready, mpc, pushed, thr>>

(* TCP delivers up to the end of a command.  The client is polite if it    *)
(* begins a command when all of its earlier ones have been answered.       *)
Deliver(c) ==
  /\ peer[c] \in {"queued", "open"} /\ ~fin[c]
  /\ came[c] < MaxCmd * Pieces
  /\ \E n \in 1..(Pieces - (came[c] % Pieces)) :
       came' = [came EXCEPT ![c] = @ + n]
  /\ rude' = [rude EXCEPT ![c] =
                @ \/ (came[c] % Pieces = 0 /\ answered[c] * Pieces # came[c])]
  /\ UNCHANGED <<fin, received, link, ready, mpc, pushed, thr>>

Finish(c) ==
  /\ peer[c] \in {"queued", "open"} /\ ~fin[c]
  /\ fin' = [fin EXCEPT ![c] = TRUE]
  /\ UNCHANGED <<came, rude, received, link, ready, mpc, pushed, thr>>

-----------------------------------------------------------------------------
(* The main loop. *)

(* A slip: select is not asked what is ready. *)
ReadySetAll ==
  {f \in {LISTEN} : Queued # {}} \cup {f \in {fd} \ {NONE} : accepted}

ReadySet ==
  {f \in {LISTEN} : Queued # {}} \cup
  {f \in {fd} \ {NONE} : accepted /\ (Unread(owner[f]) > 0 \/ fin[owner[f]])}

Select ==
  /\ mpc = "select"
  /\ ReadySet # {}
  /\ ready' = ReadySet
  /\ fresh' = FALSE
  /\ mpc' = "accept"
  /\ UNCHANGED <<client, peer, owner, fd, accepted, received, pushed, thr>>

(* A slip: the connection is forgotten without being closed. *)
ShutNothing(c) == peer

(* csv_tcp_local_close, when there is a connection to close. *)
Shut(c) == [peer EXCEPT ![c] = "closed"]
Freed == [f \in Fd |-> IF f = fd THEN NONE ELSE owner[f]]

(***************************************************************************)
(* If the listening descriptor is ready: csv_tcp_local_close if accepted,  *)
(* then csv_tcp_local_accept.  The new descriptor may be any free number,  *)
(* as other threads open files too; the number just closed is the likely   *)
(* one.                                                                    *)
(***************************************************************************)
Accept ==
  /\ mpc = "accept"
  /\ LISTEN \in ready
  /\ LET table == IF accepted THEN Freed ELSE owner
         left  == IF accepted THEN Shut(Current) ELSE peer
     IN  \E c \in Queued, f \in Fd :
           /\ \A d \in Queued : c <= d
           /\ table[f] = NONE
           /\ owner' = [table EXCEPT ![f] = c]
           /\ peer' = [left EXCEPT ![c] = "open"]
           /\ fd' = f
  /\ accepted' = TRUE
  /\ fresh' = TRUE
  /\ mpc' = "read"
  /\ UNCHANGED <<client, received, ready, pushed, thr>>

AcceptNone ==
  /\ mpc = "accept"
  /\ LISTEN \notin ready
  /\ mpc' = "read"
  /\ UNCHANGED <<client, received, link, ready, pushed, thr>>

ReadNone ==
  /\ mpc = "read"
  /\ ~(accepted /\ fd \in ready)
  /\ mpc' = "select"
  /\ UNCHANGED <<client, received, link, ready, pushed, thr>>

MayRead == mpc = "read" /\ accepted /\ fd \in ready

(***************************************************************************)
(* csv_tcp_local_recv returns 0 at the end of the stream, whatever it has  *)
(* read before it, and also when there is nothing to read.                 *)
(***************************************************************************)
ReadEof ==
  /\ MayRead
  /\ fin[Current] \/ Unread(Current) = 0
  /\ peer' = Shut(Current)
  /\ owner' = Freed
  /\ fd' = NONE
  /\ accepted' = FALSE
  /\ mpc' = "select"
  /\ UNCHANGED <<client, received, fresh, ready, pushed, thr>>

(* Slips: a single short recv; a push that fails. *)
ReceiveSome == got' = [got EXCEPT ![Current] = @ + 1]
PushNothing(c, n) == UNCHANGED pushed

ReceiveAll == got' = [got EXCEPT ![Current] = came[Current]]
Push(c, n) == pushed' = Append(pushed, [from |-> c, cmd |-> n])
Started(c) == got[c] \div Pieces + 1

(***************************************************************************)
(* csv_tcp_reading_trigger receives all there is, and csv_msg_check pushes *)
(* the command that it starts with.  What follows that command is dropped. *)
(* If the command is not complete, csv_msg_check receives once more, or    *)
(* drops it if not even the header has arrived.                            *)
(***************************************************************************)
ReadCommand ==
  /\ MayRead
  /\ ~fin[Current] /\ Unread(Current) > 0
  /\ got[Current] % Pieces = 0
  /\ ReceiveAll
  /\ \/ /\ Unread(Current) >= Pieces
        /\ Push(Current, Started(Current))
        /\ mpc' = "select"
        /\ UNCHANGED torn
     \/ /\ Unread(Current) < Pieces
        /\ mpc' = "rest"
        /\ UNCHANGED <<pushed, torn>>
     \/ /\ Unread(Current) = 1 /\ Pieces > 1
        /\ mpc' = "select"
        /\ torn' = torn \cup {Current}
        /\ UNCHANGED pushed
  /\ UNCHANGED <<client, link, ready, thr>>

(* What is read begins inside a command: whatever is there is the header.  *)
ReadMiddle ==
  /\ MayRead
  /\ ~fin[Current] /\ Unread(Current) > 0
  /\ got[Current] % Pieces # 0
  /\ ReceiveAll
  /\ \/ Push(Current, 0)
     \/ UNCHANGED pushed
  /\ mpc' = "select"
  /\ UNCHANGED <<client, torn, link, ready, thr>>

(***************************************************************************)
(* The second csv_tcp_local_recv of csv_msg_check, for the missing pieces. *)
(* Nothing, or too little before the end of the stream: the command is     *)
(* dropped.  Too little otherwise: it is pushed with a payload that is in  *)
(* part left from earlier messages.                                        *)
(***************************************************************************)
ReadRest ==
  /\ mpc = "rest"
  /\ LET c == Current
         need == Pieces - (got[c] % Pieces)
         n == IF Unread(c) < need THEN Unread(c) ELSE need
     IN  /\ got' = [got EXCEPT ![c] = @ + n]
         /\ \/ n = need /\ Push(c, Started(c))
            \/ 0 < n /\ n < need /\ ~fin[c] /\ Push(c, 0)
            \/ n < need /\ (n = 0 \/ fin[c]) /\ UNCHANGED pushed
         /\ torn' = IF n < need THEN torn \cup {c} ELSE torn
  /\ mpc' = "select"
  /\ UNCHANGED <<client, link, ready, thr>>

-----------------------------------------------------------------------------
(* thr_msg: csv_msg_execute and csv_tcp_local_send. *)

Task == pushed[done + 1]
Done == done' = done + 1 /\ tpc' = "idle" /\ part' = NONE

ThrExecute ==
  /\ tpc = "idle" /\ done < Len(pushed)
  /\ \/ tpc' = "answer" /\ UNCHANGED <<done, part>>
     \/ Task.cmd = 0 /\ Done           \* an unknown command has no answer
  /\ UNCHANGED <<client, received, link, ready, mpc, pushed, sndErr, answered, stray,
                 cut, abandoned>>

ThrCheckFd ==
  /\ tpc = "answer"
  /\ \/ fd # NONE /\ tpc' = "send" /\ UNCHANGED <<done, part>>
     \/ fd = NONE /\ Done
  /\ UNCHANGED <<client, received, link, ready, mpc, pushed, sndErr, answered, stray,
                 cut, abandoned>>

(* What goes to the current client although it belongs to another.         *)
Astray == {<<c, Current>> : c \in {Task.from, part} \ {NONE, Current}}

(* A slip: one send without a loop. *)
ThrSendShort ==
  /\ tpc = "send" /\ fd # NONE /\ part = NONE
  /\ sndErr' = 0
  /\ stray' = stray \cup Astray
  /\ cut' = cut \cup {Current}
  /\ Done
  /\ UNCHANGED <<client, received, link, ready, mpc, pushed, answered, abandoned>>

(* send takes a part of the answer: the loop goes on with the rest. *)
ThrSendPart ==
  /\ tpc = "send" /\ fd # NONE /\ part = NONE
  /\ sndErr' = 0
  /\ stray' = stray \cup Astray
  /\ part' = Current
  /\ UNCHANGED <<client, received, link, ready, mpc, pushed, done, tpc, answered, cut,
                 abandoned>>

(* The answer, or the rest of it, to whatever client is current now. *)
ThrSend ==
  /\ tpc = "send" /\ fd # NONE
  /\ sndErr' = 0
  /\ answered' =
       IF Task.cmd # 0 /\ Task.from = Current /\ part \in {NONE, Current}
       THEN [answered EXCEPT ![Current] = @ + 1] ELSE answered
  /\ stray' = stray \cup Astray
  /\ cut' = IF part \in {NONE, Current} THEN cut ELSE cut \cup {part, Current}
  /\ Done
  /\ UNCHANGED <<client, received, link, ready, mpc, pushed, abandoned>>

(* The descriptor is closed, the client is gone, or does not read what it  *)
(* is sent and the send buffer is full: the rest of the answer is lost.    *)
ThrSendFails ==
  /\ tpc = "send"
  /\ sndErr' = IF sndErr > MaxErr THEN sndErr ELSE sndErr + 1
  /\ \/ sndErr + 1 > MaxErr /\ tpc' = "giveup" /\ UNCHANGED done /\ part' = NONE
     \/ sndErr + 1 <= MaxErr /\ Done
  /\ cut' = cut \cup ({part} \ {NONE, Current})
  /\ UNCHANGED <<client, received, link, ready, mpc, pushed, answered, stray, abandoned>>

(* pTCPL->accepted = false; the connection stays open. *)
ThrGiveUp ==
  /\ tpc = "giveup"
  /\ accepted' = FALSE
  /\ abandoned' = abandoned \cup ({Current} \ {NONE})
  /\ Done
  /\ UNCHANGED <<client, received, peer, owner, fd, fresh, ready, mpc, pushed, sndErr,
                 answered, stray, cut>>

-----------------------------------------------------------------------------
Main ==
  \/ Select \/ Accept \/ AcceptNone \/ ReadNone \/ ReadEof \/ ReadCommand
  \/ ReadMiddle \/ ReadRest
Thr ==
  \/ ThrExecute \/ ThrCheckFd \/ ThrSendPart \/ ThrSend \/ ThrSendFails
  \/ ThrGiveUp

Next ==
  \/ \E c \in Conn : Connect(c) \/ Deliver(c) \/ Finish(c)
  \/ Main
  \/ Thr

(* Clients owe nothing; the two threads run when they can. *)
Spec == Init /\ [][Next]_vars
FairSpec == Spec /\ WF_vars(Main) /\ WF_vars(Thr)

-----------------------------------------------------------------------------
TypeOK ==
  /\ peer \in [Conn -> {"none", "queued", "open", "closed"}]
  /\ fin \in [Conn -> BOOLEAN] /\ rude \in [Conn -> BOOLEAN]
  /\ came \in [Conn -> 0..(MaxCmd * Pieces)]
  /\ got \in [Conn -> 0..(MaxCmd * Pieces)]
  /\ answered \in [Conn -> 0..MaxCmd]
  /\ owner \in [Fd -> Conn \cup {NONE}] /\ fd \in Fd \cup {NONE}
  /\ accepted \in BOOLEAN /\ fresh \in BOOLEAN
  /\ ready \subseteq Fd \cup {LISTEN}
  /\ mpc \in {"select", "accept", "read", "rest"}
  /\ pushed \in Seq(Command) /\ done \in 0..Len(pushed)
  /\ tpc \in {"idle", "answer", "send", "giveup"}
  /\ sndErr \in 0..(MaxErr + 1)
  /\ part \in Conn \cup {NONE} /\ cut \subseteq Conn
  /\ stray \subseteq Conn \X Conn /\ abandoned \subseteq Conn /\ torn \subseteq Conn

(***************************************************************************)
(* Descriptors are leaked only by giving a client up: every open           *)
(* connection is the one behind pTCPL->fd, or was so when thr_msg cleared  *)
(* accepted after too many failed sends; and the descriptor table says so. *)
(***************************************************************************)
NoOtherLeak ==
  /\ \A c \in Conn : peer[c] = "open" =>
       /\ c = Current \/ c \in abandoned
       /\ \E f \in Fd : owner[f] = c
  /\ accepted => Current # NONE

(***************************************************************************)
(* An answer that csv_tcp_local_send hands to another client than the one  *)
(* that asked for it, or whose rest it hands to another than its start,    *)
(* goes to a later one, and only if the asker, or who got the start, has   *)
(* been closed or given up.                                                *)
(***************************************************************************)
StrayAnswers ==
  \A s \in stray : /\ s[1] < s[2]
                   /\ peer[s[1]] = "closed" \/ s[1] \in abandoned

(***************************************************************************)
(* A client gets whole answers: unless a send to it has failed, it is      *)
(* closed or given up, or what it gets began to a client before it.        *)
(***************************************************************************)
AnswersWhole ==
  \A c \in cut : \/ peer[c] = "closed" \/ c \in abandoned
                \/ \E d \in Conn : d < c /\ <<d, c>> \in stray

(***************************************************************************)
(* The framing of csv_tcp_reading_trigger and csv_msg_check: whoever the   *)
(* client and however TCP cuts what it writes, a whole command is pushed   *)
(* once and in its turn.  Of a client that waits for each answer, all that *)
(* has been received is pushed, and nothing else, unless the rest of a     *)
(* command had not come by the second receive.                             *)
(***************************************************************************)
From(c) == {i \in 1..Len(pushed) : pushed[i].from = c}
PushedOnce(c) ==
  \A i, j \in From(c) :
    i < j /\ pushed[j].cmd # 0 => pushed[i].cmd < pushed[j].cmd
PushedAll(c) ==
  /\ got[c] % Pieces = 0 \/ (mpc = "rest" /\ c = Current)
  /\ {pushed[i].cmd : i \in From(c)} = 1..(got[c] \div Pieces)
CommandsFramed ==
  \A c \in Conn :
    /\ PushedOnce(c)
    /\ peer[c] = "open" /\ ~rude[c] /\ c \notin torn => PushedAll(c)

(***************************************************************************)
(* The server closes a connection only if its client has ended it, another *)
(* client takes over, or it was accepted in this very round.               *)
(***************************************************************************)
Closes(c) == peer[c] = "open" /\ peer'[c] = "closed"
ClosedForReason ==
  [][\A c \in Conn : Closes(c) =>
       fin[c] \/ fresh \/ \E d \in Queued : peer'[d] = "open"]_vars

(***************************************************************************)
(* What the comment "EOF" and the warning "recv end-of-file" say: the main *)
(* loop takes a connection for ended only if its client has ended it.      *)
(***************************************************************************)
ClosedOnlyAtEof ==
  [][\A c \in Conn : Closes(c) /\ mpc = "read" => fin[c]]_vars

(***************************************************************************)
(* Every client that connects is eventually accepted, and every command of *)
(* a client that waits for each answer is eventually pushed once all of it *)
(* has come, unless the connection ends first or a command of it was torn. *)
(* (What has once been served stays so.)                                   *)
(***************************************************************************)
PushedBy(c) == SelectSeq(pushed, LAMBDA p : p.from = c)
Served(c, n) ==
  \/ came[c] < n * Pieces \/ Len(PushedBy(c)) >= n
  \/ peer[c] = "closed" \/ fin[c] \/ rude[c] \/ c \in torn \cup abandoned
ClientsServed ==
  \A c \in Conn : /\ []<>(peer[c] # "queued")
                  /\ \A n \in 1..MaxCmd : []<>Served(c, n)

=============================================================================

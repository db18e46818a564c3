--------------------------- MODULE TcpLinkProofs ---------------------------
(***************************************************************************)
(* The client connection for any number of clients, commands, pieces and   *)
(* failed sends: which connections stay open, whom an answer may reach,    *)
(* why a connection is closed, and that the commands of a client are       *)
(* pushed once and in order, however TCP cuts them.                        *)
(***************************************************************************)
EXTENDS TcpLink, TLAPS

USE DEF received

LEMMA Bounds ==
  /\ MaxConn \in Nat /\ MaxCmd \in Nat /\ MaxErr \in Nat /\ MaxFd \in Nat
  /\ Pieces \in Nat /\ Pieces > 0
BY TcpLinkAssumption

Reached(c) == peer[c] \in {"open", "closed"}

(* What the other parts need of the types: no upper bounds. *)
Shape ==
  /\ peer \in [Conn -> {"none", "queued", "open", "closed"}]
  /\ came \in [Conn -> Nat] /\ got \in [Conn -> Nat]
  /\ \A c \in Conn : got[c] <= came[c]
  /\ owner \in [Fd -> Conn \cup {NONE}] /\ fd \in Fd \cup {NONE}

(* The descriptor table is right: a number in use is that of one open      *)
(* connection, and one that is open has its number.                        *)
Table ==
  /\ \A f \in Fd : owner[f] # NONE => peer[owner[f]] = "open"
  /\ \A f, g \in Fd : owner[f] # NONE /\ owner[f] = owner[g] => f = g
  /\ \A c \in Conn : peer[c] = "open" => \E f \in Fd : owner[f] = c

(* pTCPL->fd is the descriptor of a connection; if accepted was cleared,   *)
(* then by thr_msg.                                                        *)
Held ==
  /\ accepted => fd # NONE
  /\ fd # NONE => Current \in Conn
  /\ fd # NONE /\ ~accepted => Current \in abandoned
  /\ \A c \in Conn : peer[c] = "open" => c = Current \/ c \in abandoned

(* Clients are queued and accepted in the order of their numbers, and the  *)
(* current one is the last accepted.                                       *)
Order ==
  /\ \A c, d \in Conn : peer[c] = "none" /\ peer[d] # "none" => d < c
  /\ \A c, d \in Conn : peer[c] = "queued" /\ Reached(d) => d < c
  /\ fd # NONE => \A c \in Conn : Reached(c) => c <= Current

(* What is pushed comes from a client that was accepted; thr_msg has a     *)
(* command to answer.                                                      *)
Pushed ==
  /\ pushed \in Seq([from : Conn, cmd : Nat]) /\ done \in Nat
  /\ \A i \in 1..Len(pushed) : Reached(pushed[i].from)
  /\ tpc # "idle" => done < Len(pushed)

(* The snapshot is right about a connection that was current before it.    *)
Snapshot ==
  /\ mpc = "rest" => fd # NONE
  /\ mpc \in {"accept", "read"} /\ ~fresh /\ accepted /\ fd \in ready =>
       fin[Current] \/ got[Current] < came[Current]

(* What went astray, of pairs of connections; an answer begins with a      *)
(* client that was accepted.                                               *)
Answers ==
  /\ stray \subseteq Conn \X Conn /\ StrayAnswers
  /\ cut \subseteq Conn /\ AnswersWhole
  /\ part # NONE => part \in Conn /\ Reached(part)

IInv == Shape /\ Table /\ Held /\ Order /\ Pushed /\ Snapshot /\ Answers

LEMMA InitHolds == Init => IInv
<1> SUFFICES ASSUME Init PROVE IInv
  OBVIOUS
<1> USE DEF Init
<1>1. Shape
  BY DEF Shape
<1>2. Table /\ Held /\ Order
  BY DEF Table, Held, Order, Reached, Current
<1>3. Pushed
  BY DEF Pushed
<1>4. Snapshot /\ Answers
  BY DEF Snapshot, Answers, StrayAnswers, AnswersWhole
<1> QED
  BY <1>1, <1>2, <1>3, <1>4 DEF IInv

-----------------------------------------------------------------------------
(* Steps that leave the connections as they are. *)

LEMMA LinkKept ==
  ASSUME IInv, UNCHANGED <<peer, owner, fd>>, accepted' = accepted, abandoned' = abandoned
  PROVE  Table' /\ Held' /\ Order'
BY DEF IInv, Table, Held, Order, Reached, Current

LEMMA AnswersKept ==
  ASSUME IInv, UNCHANGED <<stray, cut>>, part' = part \/ part' = NONE,
         abandoned \subseteq abandoned',
         \A c \in Conn : peer[c] = "closed" => peer'[c] = "closed",
         \A c \in Conn : Reached(c) => Reached(c)'
  PROVE  Answers'
<1>1. part' # NONE => part' \in Conn /\ peer'[part'] \in {"open", "closed"}
  BY DEF IInv, Answers, Reached
<1>2. StrayAnswers'
  BY DEF IInv, Answers, StrayAnswers
<1>3. AnswersWhole'
  BY DEF IInv, Answers, AnswersWhole
<1> QED
  BY <1>1, <1>2, <1>3 DEF IInv, Answers, Reached

LEMMA PushedFrom ==
  ASSUME IInv
  PROVE  \A i \in 1..Len(pushed) : pushed[i].from \in Conn
<1> DEFINE S == [from : Conn, cmd : Nat]
<1>1. pushed \in Seq(S)
  BY DEF IInv, Pushed
<1> HIDE DEF S
<1>2. \A i \in 1..Len(pushed) : pushed[i] \in S
  BY <1>1
<1> QED
  BY <1>2 DEF S

LEMMA CurrentOpen ==
  ASSUME IInv, fd # NONE
  PROVE  /\ fd \in Fd /\ Current = owner[fd] /\ Current \in Conn /\ Current # NONE
         /\ peer[Current] = "open"
<1>1. fd \in Fd /\ Current = owner[fd] /\ Current \in Conn
  BY DEF IInv, Shape, Held, Current
<1>2. Current # NONE
  BY <1>1, Bounds DEF Conn, NONE
<1> QED
  BY <1>1, <1>2 DEF IInv, Table

LEMMA PushedKept ==
  ASSUME IInv, UNCHANGED <<pushed, done>>, tpc' = tpc,
         \A c \in Conn : Reached(c) => Reached(c)'
  PROVE  Pushed'
<1>1. \A i \in 1..Len(pushed) : pushed[i].from \in Conn
  BY PushedFrom
<1> QED
  BY <1>1 DEF IInv, Pushed

LEMMA AnotherPushed ==
  ASSUME IInv, UNCHANGED <<peer, done, tpc>>, fd # NONE,
         NEW n \in Nat, Push(Current, n)
  PROVE  Pushed'
<1>1. Current \in Conn /\ Reached(Current)
  BY CurrentOpen DEF Reached
<1>2. [from |-> Current, cmd |-> n] \in [from : Conn, cmd : Nat]
  BY <1>1
<1> DEFINE p == [from |-> Current, cmd |-> n]
<1>3. /\ pushed' \in Seq([from : Conn, cmd : Nat])
      /\ Len(pushed') = Len(pushed) + 1 /\ Len(pushed) \in Nat
      /\ \A i \in 1..Len(pushed') :
           pushed'[i] = IF i = Len(pushed) + 1 THEN p ELSE pushed[i]
  BY <1>2 DEF Push, IInv, Pushed
<1>4. p.from = Current
  OBVIOUS
<1> HIDE DEF p
<1>5. ASSUME NEW i \in 1..Len(pushed') PROVE Reached(pushed'[i].from)
  <2>1. CASE i = Len(pushed) + 1
    BY <1>1, <1>3, <1>4, <2>1
  <2>2. CASE i \in 1..Len(pushed)
    <3>1. pushed'[i] = pushed[i]
      BY <1>3, <2>2
    <3> QED
      BY <2>2, <3>1 DEF IInv, Pushed
  <2> QED
    BY <1>3, <2>1, <2>2
<1>6. \A i \in 1..Len(pushed') : peer'[pushed'[i].from] \in {"open", "closed"}
  BY <1>5 DEF Reached
<1>7. (tpc # "idle" => done < Len(pushed)) /\ done \in Nat
  BY DEF IInv, Pushed
<1>8. (tpc' # "idle" => done' < Len(pushed')) /\ done' \in Nat
  BY <1>3, <1>7
<1> QED
  BY <1>3, <1>6, <1>8 DEF Pushed, Reached

-----------------------------------------------------------------------------
(* Clients. *)

LEMMA ConnectStep ==
  ASSUME IInv, NEW c \in Conn, Connect(c)
  PROVE  IInv'
<1>1. /\ peer[c] = "none" /\ \A d \in 1..(c - 1) : peer[d] # "none"
      /\ peer' = [peer EXCEPT ![c] = "queued"]
      /\ UNCHANGED <<fin, came, got, owner, fd, accepted, fresh, ready, mpc, pushed,
                     done, tpc, part, stray, cut, abandoned>>
  BY DEF Connect, client, thr
<1>2. Shape'
  BY <1>1 DEF IInv, Shape
<1>3. \A d \in Conn : peer'[d] = IF d = c THEN "queued" ELSE peer[d]
  BY <1>1 DEF IInv, Shape
<1>4. \A d \in Conn : Reached(d)' <=> Reached(d)
  BY <1>1, <1>3 DEF Reached
<1>5. \A f \in Fd : owner[f] # c
  <2>1. c # NONE
    BY Bounds DEF Conn, NONE
  <2> QED
    BY <1>1, <2>1 DEF IInv, Table
<1>6. Table'
  BY <1>1, <1>3, <1>5 DEF IInv, Shape, Table
<1>7. Current' = Current
  BY <1>1 DEF Current
<1>8. Held'
  BY <1>1, <1>3, <1>7 DEF IInv, Held
<1>9. Order'
  <2>1. \A e \in Conn : e \in Nat /\ (peer[e] = "none" /\ e # c => c < e)
    BY <1>1, Bounds DEF Conn
  <2> QED
    BY <1>1, <1>3, <1>4, <1>7, <2>1 DEF IInv, Order, Reached
<1>10. Pushed'
  BY <1>1, <1>4, PushedKept
<1>11. Snapshot'
  BY <1>1, <1>7 DEF IInv, Snapshot
<1>12. Answers'
  BY <1>1, <1>3, <1>4, AnswersKept
<1> QED
  BY <1>2, <1>6, <1>8, <1>9, <1>10, <1>11, <1>12 DEF IInv

LEMMA DeliverStep ==
  ASSUME IInv, NEW c \in Conn, Deliver(c)
  PROVE  IInv'
<1>1. PICK n \in 1..(Pieces - (came[c] % Pieces)) :
        came' = [came EXCEPT ![c] = @ + n]
  BY DEF Deliver
<1>2. n \in Nat
  BY <1>1, Bounds DEF IInv, Shape
<1>3. UNCHANGED <<fin, got, peer, owner, fd, accepted, fresh, ready, mpc, pushed,
                  done, tpc, part, stray, cut, abandoned>>
  BY DEF Deliver, link, thr
<1>4. \A d \in Conn : came'[d] \in Nat /\ came[d] <= came'[d]
  BY <1>1, <1>2 DEF IInv, Shape
<1>5. Shape'
  BY <1>1, <1>2, <1>3, <1>4 DEF IInv, Shape
<1>6. Snapshot'
  <2>1. Current' = Current
    BY <1>3 DEF Current
  <2>2. fd # NONE => Current \in Conn
    BY DEF IInv, Held
  <2> QED
    BY <1>3, <1>4, <2>1, <2>2 DEF IInv, Snapshot, Shape, Held
<1> QED
  BY <1>3, <1>5, <1>6, LinkKept, AnswersKept, PushedKept DEF IInv, Reached

LEMMA FinishStep ==
  ASSUME IInv, NEW c \in Conn, Finish(c)
  PROVE  IInv'
<1>1. /\ fin' = [fin EXCEPT ![c] = TRUE]
      /\ UNCHANGED <<came, got, peer, owner, fd, accepted, fresh, ready, mpc,
                     pushed, done, tpc, part, stray, cut, abandoned>>
  BY DEF Finish, link, thr
<1>2. Shape'
  BY <1>1 DEF IInv, Shape
<1>3. Snapshot'
  <2>1. Current' = Current
    BY <1>1 DEF Current
  <2> QED
    BY <1>1, <2>1 DEF IInv, Snapshot
<1> QED
  BY <1>1, <1>2, <1>3, LinkKept, AnswersKept, PushedKept DEF IInv, Reached

-----------------------------------------------------------------------------
(* The main loop. *)

LEMMA SelectStep ==
  ASSUME IInv, Select
  PROVE  IInv'
<1>1. /\ ready' = ReadySet /\ mpc' = "accept"
      /\ UNCHANGED <<fin, came, got, peer, owner, fd, accepted, pushed, done, tpc,
                     part, stray, cut, abandoned>>
  BY DEF Select, client, thr
<1>2. Shape'
  BY <1>1 DEF IInv, Shape
<1>3. Snapshot'
  <2>1. SUFFICES ASSUME accepted, fd \in ReadySet
                 PROVE  fin[Current] \/ got[Current] < came[Current]
    BY <1>1 DEF Snapshot, Current
  <2>2. fd # NONE
    BY <2>1 DEF IInv, Held
  <2>3. Current = owner[fd] /\ Current \in Conn
    BY <2>2, CurrentOpen
  <2>4. Unread(owner[fd]) > 0 \/ fin[owner[fd]]
    BY <2>1, <2>2 DEF ReadySet, LISTEN, NONE
  <2> QED
    BY <2>3, <2>4 DEF Unread, IInv, Shape
<1> QED
  BY <1>1, <1>2, <1>3, LinkKept, AnswersKept, PushedKept DEF IInv, Reached

LEMMA RoundStep ==
  ASSUME IInv, AcceptNone \/ ReadNone
  PROVE  IInv'
<1>1. /\ mpc' # "rest" /\ (mpc' \in {"accept", "read"} => mpc \in {"accept", "read"})
      /\ UNCHANGED <<fin, came, got, peer, owner, fd, accepted, fresh, ready,
                     pushed, done, tpc, part, stray, cut, abandoned>>
  BY DEF AcceptNone, ReadNone, client, link, thr
<1>2. Shape'
  BY <1>1 DEF IInv, Shape
<1>3. Snapshot'
  BY <1>1 DEF IInv, Snapshot, Current
<1> QED
  BY <1>1, <1>2, <1>3, LinkKept, AnswersKept, PushedKept DEF IInv, Reached

LEMMA ReadTypes ==
  ASSUME IInv, fd # NONE
  PROVE  /\ Unread(Current) \in Nat
         /\ \A n \in Nat : n <= Unread(Current) =>
              LET g == [got EXCEPT ![Current] = @ + n]
              IN  g \in [Conn -> Nat] /\ \A c \in Conn : g[c] <= came[c]
         /\ Started(Current) \in Nat
<1>1. Current \in Conn
  BY CurrentOpen
<1>2. came[Current] \in Nat /\ got[Current] \in Nat /\ got[Current] <= came[Current]
  BY <1>1 DEF IInv, Shape
<1>3. got[Current] \div Pieces \in Nat
  BY <1>2, Bounds
<1> QED
  BY <1>1, <1>2, <1>3 DEF IInv, Shape, Unread, Started

LEMMA ReadCommandStep ==
  ASSUME IInv, MayRead, ReceiveAll,
         \/ UNCHANGED pushed
         \/ \E n \in Nat : Push(Current, n),
         mpc' \in {"select", "rest"},
         UNCHANGED <<client, link, ready, thr>>
  PROVE  IInv'
<1>1. UNCHANGED <<fin, came, peer, owner, fd, accepted, fresh, ready, done, tpc,
                  part, stray, cut, abandoned>>
  BY DEF client, link, thr
<1>2. fd # NONE /\ Current \in Conn
  BY CurrentOpen DEF MayRead, IInv, Held
<1>3. Shape'
  BY <1>1, <1>2 DEF IInv, Shape, ReceiveAll
<1>4. Snapshot'
  BY <1>1, <1>2 DEF Snapshot
<1>5. Pushed'
  <2>1. CASE UNCHANGED pushed
    BY <1>1, <2>1, PushedKept DEF Reached
  <2>2. CASE \E n \in Nat : Push(Current, n)
    BY <1>1, <1>2, <2>2, AnotherPushed
  <2> QED
    BY <2>1, <2>2
<1> QED
  BY <1>1, <1>3, <1>4, <1>5, LinkKept, AnswersKept DEF IInv, Reached

LEMMA ReadRestStep ==
  ASSUME IInv, ReadRest
  PROVE  IInv'
<1>1. /\ mpc = "rest" /\ mpc' = "select"
      /\ UNCHANGED <<fin, came, peer, owner, fd, accepted, fresh, ready, done, tpc,
                     part, stray, cut, abandoned>>
  BY DEF ReadRest, client, link, thr
<1>2. fd # NONE /\ Current \in Conn
  BY <1>1, CurrentOpen DEF IInv, Snapshot
<1> DEFINE need == Pieces - (got[Current] % Pieces)
           n == IF Unread(Current) < need THEN Unread(Current) ELSE need
<1>3. got[Current] % Pieces \in 0..(Pieces - 1)
  BY <1>2, Bounds DEF IInv, Shape
<1>4. need \in Nat
  BY <1>3, Bounds
<1>5. n \in Nat /\ n <= Unread(Current)
  BY <1>2, <1>4, ReadTypes
<1>6. got' = [got EXCEPT ![Current] = @ + n]
  BY DEF ReadRest
<1>7. UNCHANGED pushed \/ \E m \in Nat : Push(Current, m)
  BY <1>2, ReadTypes DEF ReadRest
<1> HIDE DEF n
<1>8. Shape'
  BY <1>1, <1>2, <1>5, <1>6, ReadTypes DEF IInv, Shape
<1>9. Snapshot'
  BY <1>1 DEF Snapshot
<1>10. Pushed'
  <2>1. CASE UNCHANGED pushed
    BY <1>1, <2>1, PushedKept DEF Reached
  <2>2. CASE \E m \in Nat : Push(Current, m)
    BY <1>1, <1>2, <2>2, AnotherPushed
  <2> QED
    BY <1>7, <2>1, <2>2
<1> QED
  BY <1>1, <1>8, <1>9, <1>10, LinkKept, AnswersKept DEF IInv, Reached

LEMMA ReadStep ==
  ASSUME IInv, ReadCommand \/ ReadMiddle
  PROVE  IInv'
<1>1. MayRead /\ fd # NONE
  BY DEF ReadCommand, ReadMiddle, MayRead, IInv, Held
<1>2. Started(Current) \in Nat
  BY <1>1, ReadTypes
<1> QED
  BY <1>1, <1>2, ReadCommandStep DEF ReadCommand, ReadMiddle

(* The connection that csv_tcp_local_close ends, if any: the others keep   *)
(* their descriptors.                                                      *)
LEMMA EofStep ==
  ASSUME IInv, ReadEof
  PROVE  IInv'
<1>1. /\ peer' = [peer EXCEPT ![Current] = "closed"]
      /\ owner' = [f \in Fd |-> IF f = fd THEN NONE ELSE owner[f]]
      /\ fd' = NONE /\ ~accepted' /\ mpc' = "select"
      /\ UNCHANGED <<fin, came, got, pushed, done, tpc, part, stray, cut, abandoned>>
  BY DEF ReadEof, Shut, Freed, client, thr
<1>2. fd # NONE
  BY DEF ReadEof, MayRead, IInv, Held
<1>3. /\ fd \in Fd /\ Current = owner[fd] /\ Current \in Conn /\ Current # NONE
      /\ peer[Current] = "open"
  BY <1>2, CurrentOpen
<1> DEFINE e == Current
<1> HIDE DEF e
<1>4. \A c \in Conn : peer'[c] = IF c = e THEN "closed" ELSE peer[c]
  BY <1>1 DEF IInv, Shape, e
<1>5. \A f \in Fd : owner'[f] = IF f = fd THEN NONE ELSE owner[f]
  BY <1>1
<1>6. Shape'
  BY <1>1, <1>3 DEF IInv, Shape
<1>7. Table'
  BY <1>3, <1>4, <1>5 DEF IInv, Shape, Table, e
<1>8. Held'
  <2>1. Current' = NONE
    BY <1>1 DEF Current
  <2> QED
    BY <1>1, <1>4, <2>1 DEF IInv, Held, e
<1>9. \A c \in Conn : Reached(c)' <=> Reached(c)
  BY <1>3, <1>4 DEF Reached, e
<1>10. Order'
  BY <1>1, <1>3, <1>4, <1>9 DEF IInv, Order, e
<1>11. Pushed'
  BY <1>1, <1>9, PushedKept
<1>12. Answers'
  BY <1>1, <1>4, <1>9, AnswersKept
<1>13. Snapshot'
  BY <1>1 DEF Snapshot
<1> QED
  BY <1>6, <1>7, <1>8, <1>10, <1>11, <1>12, <1>13 DEF IInv

(* The client accepted in place of the current one, which is closed, or of *)
(* one that was given up, which is not.                                    *)
LEMMA AcceptStep ==
  ASSUME IInv, Accept
  PROVE  IInv'
<1> DEFINE table == IF accepted THEN Freed ELSE owner
           left == IF accepted THEN Shut(Current) ELSE peer
<1>1. PICK c \in Queued, f \in Fd :
        /\ \A d \in Queued : c <= d
        /\ table[f] = NONE
        /\ owner' = [table EXCEPT ![f] = c]
        /\ peer' = [left EXCEPT ![c] = "open"]
        /\ fd' = f
  BY DEF Accept
<1>2. /\ accepted' /\ fresh' /\ mpc' = "read"
      /\ UNCHANGED <<fin, came, got, pushed, done, tpc, part, stray, cut, abandoned>>
  BY DEF Accept, client, thr
<1>3. c \in Conn /\ peer[c] = "queued" /\ c # NONE /\ f # NONE
  BY Bounds DEF Queued, Conn, Fd, NONE
<1>4. accepted => /\ fd \in Fd /\ Current = owner[fd] /\ Current \in Conn
                  /\ Current # NONE /\ peer[Current] = "open"
  BY CurrentOpen DEF IInv, Held
<1>5. /\ left \in [Conn -> {"none", "queued", "open", "closed"}]
      /\ \A d \in Conn : left[d] = IF accepted /\ d = Current THEN "closed" ELSE peer[d]
  BY DEF IInv, Shape, Shut
<1>6. /\ table \in [Fd -> Conn \cup {NONE}]
      /\ \A g \in Fd : table[g] = IF accepted /\ g = fd THEN NONE ELSE owner[g]
  BY DEF IInv, Shape, Freed
<1> HIDE DEF table, left
<1>7. \A d \in Conn : peer'[d] = IF d = c THEN "open"
                                 ELSE IF accepted /\ d = Current THEN "closed" ELSE peer[d]
  BY <1>1, <1>3, <1>5
<1>8. \A g \in Fd : owner'[g] = IF g = f THEN c
                                ELSE IF accepted /\ g = fd THEN NONE ELSE owner[g]
  BY <1>1, <1>6
<1>9. Current' = c
  BY <1>1, <1>3, <1>8 DEF Current
<1>10. Shape'
  BY <1>1, <1>2, <1>3, <1>5, <1>6 DEF IInv, Shape
<1>11. Table'
  <2>1. \A g \in Fd : owner[g] # c
    BY <1>3 DEF IInv, Table
  <2>2. \A g \in Fd : owner[g] # NONE => owner[g] \in Conn
    BY DEF IInv, Shape
  <2>3. ASSUME NEW g \in Fd, owner'[g] # NONE
        PROVE  peer'[owner'[g]] = "open"
    BY <1>3, <1>4, <1>7, <1>8, <2>1, <2>2, <2>3 DEF IInv, Table
  <2>4. ASSUME NEW g \in Fd, NEW h \in Fd, owner'[g] # NONE, owner'[g] = owner'[h]
        PROVE  g = h
    BY <1>3, <1>8, <2>1, <2>4 DEF IInv, Table
  <2>5. ASSUME NEW d \in Conn, peer'[d] = "open"
        PROVE  \E g \in Fd : owner'[g] = d
    <3>1. CASE d = c
      BY <1>1, <1>8, <3>1
    <3>2. CASE d # c
      <4>1. peer[d] = "open" /\ ~(accepted /\ d = Current)
        BY <1>7, <2>5, <3>2
      <4>2. PICK g \in Fd : owner[g] = d
        BY <4>1 DEF IInv, Table
      <4>3. d # NONE
        BY Bounds DEF Conn, NONE
      <4>4. ~(accepted /\ g = fd)
        BY <1>4, <4>1, <4>2
      <4>5. g # f
        BY <1>1, <1>6, <4>2, <4>3, <4>4
      <4> QED
        BY <1>8, <4>2, <4>4, <4>5
    <3> QED
      BY <3>1, <3>2
  <2> QED
    BY <2>3, <2>4, <2>5 DEF Table
<1>12. Held'
  <2>1. ASSUME NEW d \in Conn, peer'[d] = "open", d # c
        PROVE  d \in abandoned
    <3>1. peer[d] = "open" /\ ~(accepted /\ d = Current)
      BY <1>7, <2>1
    <3>2. d # NONE
      BY Bounds DEF Conn, NONE
    <3> QED
      BY <3>1, <3>2 DEF IInv, Held, Current
  <2> QED
    BY <1>1, <1>2, <1>3, <1>9, <2>1 DEF Held
<1>13. Order'
  <2>1. c \in Nat /\ \A d \in Conn : d \in Nat
    BY <1>3 DEF Conn
  <2>2. \A d \in Conn : peer'[d] = "none" <=> peer[d] = "none"
    BY <1>3, <1>4, <1>7
  <2>3. \A d \in Conn : peer'[d] = "queued" <=> (peer[d] = "queued" /\ d # c)
    BY <1>3, <1>4, <1>7
  <2>4. \A d \in Conn : Reached(d)' <=> (Reached(d) \/ d = c)
    BY <1>3, <1>4, <1>7 DEF Reached
  <2>5. \A d \in Conn : peer[d] = "queued" => c <= d
    BY <1>1 DEF Queued
  <2>6. \A d \in Conn : Reached(d) => d < c
    BY <1>3 DEF IInv, Order
  <2> QED
    BY <1>3, <1>9, <2>1, <2>2, <2>3, <2>4, <2>5, <2>6 DEF IInv, Order
<1>14. \A d \in Conn : Reached(d) => Reached(d)'
  BY <1>7 DEF Reached
<1>15. Pushed'
  BY <1>2, <1>14, PushedKept
<1>16. Answers'
  BY <1>2, <1>3, <1>7, <1>14, AnswersKept
<1>17. Snapshot'
  BY <1>2 DEF Snapshot
<1> QED
  BY <1>10, <1>11, <1>12, <1>13, <1>15, <1>16, <1>17 DEF IInv

-----------------------------------------------------------------------------
(* thr_msg. *)

(* A step of thr_msg that only goes on, or is done with a command. *)
LEMMA ThrOn ==
  ASSUME IInv, UNCHANGED <<client, got, link, ready, mpc, pushed, abandoned>>,
         Done \/ UNCHANGED done, done < Len(pushed), Answers'
  PROVE  IInv'
<1>1. UNCHANGED <<fin, came, peer, owner, fd, accepted, fresh>>
  BY DEF client, link
<1>2. Shape'
  BY <1>1 DEF IInv, Shape
<1>3. Snapshot'
  BY <1>1 DEF IInv, Snapshot, Current
<1>4. Pushed'
  <2>1. \A i \in 1..Len(pushed') : peer'[pushed'[i].from] \in {"open", "closed"}
    BY <1>1 DEF IInv, Pushed, Reached
  <2>2. done \in Nat /\ Len(pushed') = Len(pushed)
    BY DEF IInv, Pushed
  <2>3. done' \in Nat /\ (tpc' # "idle" => done' < Len(pushed'))
    BY <2>2 DEF Done
  <2> QED
    BY <2>1, <2>3 DEF IInv, Pushed, Reached
<1> QED
  BY <1>1, <1>2, <1>3, <1>4, LinkKept DEF IInv

(* Whoever asked, or got the start of the answer, was accepted before the  *)
(* client that is answered now, and is closed or given up.                 *)
LEMMA Earlier ==
  ASSUME IInv, tpc = "send"
  PROVE  /\ done < Len(pushed)
         /\ \A a \in {Task.from, part} \ {NONE, Current} :
              /\ a \in Conn /\ (peer[a] = "closed" \/ a \in abandoned)
              /\ fd # NONE => Current \in Conn /\ a < Current
<1>1. done < Len(pushed)
  BY DEF IInv, Pushed
<1>2. Task.from \in Conn /\ Reached(Task.from)
  <2>1. done + 1 \in 1..Len(pushed)
    BY <1>1 DEF IInv, Pushed
  <2> QED
    BY <2>1, PushedFrom DEF Task, IInv, Pushed
<1>3. \A a \in {Task.from, part} \ {NONE, Current} : a \in Conn /\ Reached(a)
  BY <1>2 DEF IInv, Answers
<1>4. \A a \in {Task.from, part} \ {NONE, Current} :
        peer[a] = "closed" \/ a \in abandoned
  BY <1>3 DEF IInv, Held, Reached
<1>5. ASSUME fd # NONE, NEW a \in {Task.from, part} \ {NONE, Current}
      PROVE  Current \in Conn /\ a < Current
  <2>1. Current \in Conn
    BY <1>5, CurrentOpen
  <2>2. a \in Conn /\ a <= Current
    BY <1>3, <1>5 DEF IInv, Order
  <2>3. a \in Nat /\ Current \in Nat /\ a # Current
    BY <1>5, <2>1, <2>2 DEF Conn
  <2> QED
    BY <2>1, <2>2, <2>3
<1> QED
  BY <1>1, <1>3, <1>4, <1>5

LEMMA AstrayRight ==
  ASSUME IInv, tpc = "send", fd # NONE, stray' = stray \cup Astray,
         UNCHANGED <<peer, abandoned>>
  PROVE  stray' \subseteq Conn \X Conn /\ StrayAnswers'
<1>1. \A s \in Astray : /\ s \in Conn \X Conn /\ s[1] < s[2]
                        /\ peer[s[1]] = "closed" \/ s[1] \in abandoned
  BY Earlier DEF Astray
<1> QED
  BY <1>1 DEF IInv, Answers, StrayAnswers

LEMMA SendPartStep ==
  ASSUME IInv, ThrSendPart
  PROVE  IInv'
<1>1. /\ tpc = "send" /\ fd # NONE /\ UNCHANGED <<done, cut, peer, abandoned>>
      /\ stray' = stray \cup Astray /\ part' = Current
  BY DEF ThrSendPart, link
<1>2. AnswersWhole'
  BY <1>1 DEF IInv, Answers, AnswersWhole
<1>3. part' \in Conn /\ peer'[part'] \in {"open", "closed"}
  BY <1>1, CurrentOpen
<1>4. Answers'
  BY <1>1, <1>2, <1>3, AstrayRight DEF IInv, Answers, Reached
<1>5. UNCHANGED <<client, got, link, ready, mpc, pushed, abandoned>>
  BY DEF ThrSendPart
<1> QED
  BY <1>1, <1>4, <1>5, Earlier, ThrOn

LEMMA SendStep ==
  ASSUME IInv, ThrSend
  PROVE  IInv'
<1>1. /\ tpc = "send" /\ fd # NONE /\ Done /\ part' = NONE
      /\ stray' = stray \cup Astray
      /\ cut' = IF part \in {NONE, Current} THEN cut ELSE cut \cup {part, Current}
      /\ UNCHANGED <<client, got, link, ready, mpc, pushed, abandoned>>
      /\ UNCHANGED peer
  BY DEF ThrSend, Done, link
<1>2. CASE part \in {NONE, Current}
  <2>1. AnswersWhole' /\ cut' \subseteq Conn
    BY <1>1, <1>2 DEF IInv, Answers, AnswersWhole
  <2>2. Answers'
    BY <1>1, <2>1, AstrayRight DEF Answers
  <2> QED
    BY <1>1, <2>2, Earlier, ThrOn
<1>3. CASE part \notin {NONE, Current}
  <2>1. /\ part \in Conn /\ Current \in Conn /\ part < Current
        /\ peer[part] = "closed" \/ part \in abandoned
    BY <1>1, <1>3, Earlier
  <2>2. <<part, Current>> \in stray'
    BY <1>1, <1>3 DEF Astray
  <2>3. AnswersWhole' /\ cut' \subseteq Conn
    BY <1>1, <1>3, <2>1, <2>2 DEF IInv, Answers, AnswersWhole
  <2>4. Answers'
    BY <1>1, <2>3, AstrayRight DEF Answers
  <2> QED
    BY <1>1, <2>4, Earlier, ThrOn
<1> QED
  BY <1>2, <1>3

LEMMA SendFailsStep ==
  ASSUME IInv, ThrSendFails
  PROVE  IInv'
<1>1. /\ tpc = "send" /\ (Done \/ UNCHANGED done) /\ part' = NONE
      /\ cut' = cut \cup ({part} \ {NONE, Current})
      /\ UNCHANGED <<client, got, link, ready, mpc, pushed, stray, abandoned>>
      /\ UNCHANGED peer
  BY DEF ThrSendFails, Done, link
<1>2. AnswersWhole' /\ cut' \subseteq Conn
  BY <1>1, Earlier DEF IInv, Answers, AnswersWhole
<1>3. Answers'
  BY <1>1, <1>2 DEF IInv, Answers, StrayAnswers
<1> QED
  BY <1>1, <1>3, Earlier, ThrOn

LEMMA GiveUpStep ==
  ASSUME IInv, ThrGiveUp
  PROVE  IInv'
<1>1. /\ tpc = "giveup" /\ ~accepted' /\ Done
      /\ abandoned' = abandoned \cup ({Current} \ {NONE})
      /\ UNCHANGED <<fin, came, got, peer, owner, fd, fresh, ready, mpc, pushed, stray,
                     cut>>
      /\ part' = NONE
  BY DEF ThrGiveUp, Done, client
<1>2. Current' = Current
  BY <1>1 DEF Current
<1>3. Shape' /\ Snapshot'
  BY <1>1, <1>2 DEF IInv, Shape, Snapshot
<1>4. Table' /\ Order'
  BY <1>1, <1>2 DEF IInv, Table, Order, Reached
<1>5. Held'
  <2>1. fd # NONE => Current # NONE /\ Current \in Conn
    BY CurrentOpen
  <2> QED
    BY <1>1, <1>2, <2>1 DEF IInv, Held
<1>6. Pushed'
  <2>1. \A i \in 1..Len(pushed') : peer'[pushed'[i].from] \in {"open", "closed"}
    BY <1>1 DEF IInv, Pushed, Reached
  <2> QED
    BY <1>1, <2>1 DEF IInv, Pushed, Reached, Done
<1>7. Answers'
  BY <1>1, AnswersKept DEF Reached
<1> QED
  BY <1>3, <1>4, <1>5, <1>6, <1>7 DEF IInv

LEMMA ThrStep ==
  ASSUME IInv, Thr
  PROVE  IInv'
<1>1. CASE ThrExecute \/ ThrCheckFd
  <2>1. /\ (Done \/ UNCHANGED done) /\ (part' = part \/ part' = NONE)
        /\ UNCHANGED <<client, got, link, ready, mpc, pushed, stray, cut, abandoned>>
    BY <1>1 DEF ThrExecute, ThrCheckFd, Done
  <2>2. done < Len(pushed)
    BY <1>1 DEF ThrExecute, ThrCheckFd, IInv, Pushed
  <2>3. Answers'
    BY <2>1, AnswersKept DEF link, Reached
  <2> QED
    BY <2>1, <2>2, <2>3, ThrOn
<1> QED
  BY <1>1, SendPartStep, SendStep, SendFailsStep, GiveUpStep DEF Thr

LEMMA NextStep ==
  ASSUME IInv, [Next]_vars
  PROVE  IInv'
<1>1. CASE UNCHANGED vars
  <2>1. UNCHANGED <<fin, came, got, peer, owner, fd, accepted, fresh, ready, mpc,
                    pushed, done, tpc, part, stray, cut, abandoned>>
    BY <1>1 DEF vars
  <2>2. Shape' /\ Snapshot'
    BY <2>1 DEF IInv, Shape, Snapshot, Current
  <2> QED
    BY <2>1, <2>2, LinkKept, AnswersKept, PushedKept DEF IInv, Reached
<1>2. CASE Main
  BY <1>2, SelectStep, AcceptStep, RoundStep, EofStep, ReadStep, ReadRestStep DEF Main
<1> QED
  BY <1>1, <1>2, ConnectStep, DeliverStep, FinishStep, ThrStep DEF Next

-----------------------------------------------------------------------------
(* Why CommandsFramed holds.  What is pushed as command m of a client lies *)
(* within what has been received of it, and the command started next lies  *)
(* beyond: so none is pushed twice or late.  A polite client has never     *)
(* more than one command under way: it begins the next one when the        *)
(* answers it has got are as many as its commands, and it has no more      *)
(* answers than commands pushed and executed.                              *)

Once(c) == PushedOnce(c) /\ \A i \in From(c) : pushed[i].cmd * Pieces <= got[c]

Halfway(c, n) ==
  mpc = "rest" /\ c = Current /\ n * Pieces < got[c] /\ got[c] < n * Pieces + Pieces

Frame(c, n) ==
  /\ got[c] = n * Pieces \/ Halfway(c, n)
  /\ came[c] <= n * Pieces + Pieces
  /\ {pushed[i].cmd : i \in From(c)} = 1..n
  /\ answered[c] <= n
  /\ \A i \in From(c) : i > done => answered[c] < pushed[i].cmd

Steady(c) == ~rude[c] /\ c \notin torn /\ peer[c] # "closed"

Framed ==
  /\ answered \in [Conn -> Nat] /\ rude \in [Conn -> BOOLEAN]
  /\ done <= Len(pushed)
  /\ \A c \in Conn : Once(c)
  /\ \A c \in Conn : Steady(c) => \E n \in Nat : Frame(c, n)

(* Pieces of commands. *)
LEMMA WholePieces ==
  ASSUME NEW n \in Nat, NEW p \in Nat, p > 0
  PROVE  /\ n * p \in Nat /\ (n * p) % p = 0 /\ (n * p) \div p = n
         /\ (n + 1) * p = n * p + p
<1>1. n * p \in Nat /\ (n + 1) * p = n * p + p
  BY SMT
<1>2. (n * p) % p = 0 /\ (n * p) \div p = n
  BY SMT
<1> QED
  BY <1>1, <1>2

LEMMA BrokenPieces ==
  ASSUME NEW n \in Nat, NEW p \in Nat, NEW r \in Nat, r < p
  PROVE  (n * p + r) % p = r /\ (n * p + r) \div p = n
BY SMT

LEMMA FewerPieces ==
  ASSUME NEW a \in Nat, NEW n \in Nat, NEW p \in Nat, a <= n
  PROVE  a * p <= n * p
BY SMT

LEMMA DividedPieces ==
  ASSUME NEW g \in Nat, NEW p \in Nat, p > 0
  PROVE  g = (g \div p) * p + (g % p)
BY SMT

(* The command that is started ends beyond what was received. *)
LEMMA NextPieces ==
  ASSUME NEW g \in Nat, NEW p \in Nat, p > 0
  PROVE  g < (g \div p + 1) * p
BY SMT

(* The number of a command is known by the place of its last piece. *)
LEMMA EarlierPieces ==
  ASSUME NEW a \in Nat, NEW n \in Nat, NEW p \in Nat, a * p < n * p
  PROVE  a < n
BY SMT

LEMMA InitFramed == Init => Framed
<1> SUFFICES ASSUME Init PROVE Framed
  OBVIOUS
<1>1. ASSUME NEW c \in Conn PROVE Once(c) /\ Frame(c, 0)
  <2>1. From(c) = {} /\ got[c] = 0 /\ came[c] = 0 /\ answered[c] = 0
    BY <1>1 DEF Init, From
  <2>2. 0 * Pieces = 0 /\ 1..0 = {}
    BY Bounds
  <2> QED
    BY <2>1, <2>2, Bounds DEF Once, PushedOnce, Frame
<1>2. done <= Len(pushed)
  BY DEF Init
<1> QED
  BY <1>1, <1>2 DEF Init, Framed

LEMMA OnceOn ==
  ASSUME NEW c \in Conn, Once(c), From(c)' = From(c), got'[c] = got[c],
         \A i \in From(c) : pushed'[i] = pushed[i]
  PROVE  Once(c)'
BY DEF Once, PushedOnce

LEMMA FrameOn ==
  ASSUME IInv, NEW c \in Conn, NEW n \in Nat, Frame(c, n), From(c)' = From(c),
         \A i \in From(c) : pushed'[i] = pushed[i],
         got'[c] = got[c], came'[c] = came[c], answered'[c] = answered[c],
         done' \in {done, done + 1},
         Halfway(c, n) => mpc' = "rest" /\ Current' = Current
  PROVE  Frame(c, n)'
<1>1. done' >= done /\ done \in Nat /\ done' \in Nat
  BY DEF IInv, Pushed
<1>2. \A i \in From(c) : i \in Nat /\ (i > done' => i > done)
  BY <1>1 DEF From
<1>3. {pushed'[i].cmd : i \in From(c)'} = {pushed[i].cmd : i \in From(c)}
  OBVIOUS
<1> QED
  BY <1>2, <1>3 DEF Frame, Halfway

(* A step that neither receives nor answers. *)
LEMMA FramedOn ==
  ASSUME IInv, Framed, UNCHANGED <<got, torn, came, rude, pushed, answered>>,
         done' \in {done, done + 1}, done' <= Len(pushed),
         \A c \in Conn : peer[c] = "closed" => peer'[c] = "closed",
         mpc = "rest" => mpc' = "rest" /\ Current' = Current
  PROVE  Framed'
<1>1. \A c \in Conn : From(c)' = From(c)
  BY DEF From
<1>2. \A c \in Conn : Once(c)'
  BY <1>1, OnceOn DEF Framed
<1>3. ASSUME NEW c \in Conn, Steady(c)'
      PROVE  \E n \in Nat : Frame(c, n)'
  <2>1. PICK n \in Nat : Frame(c, n)
    BY <1>3 DEF Framed, Steady
  <2> QED
    BY <1>1, <2>1, FrameOn DEF Halfway
<1> QED
  BY <1>2, <1>3 DEF Framed

LEMMA FramedDeliver ==
  ASSUME IInv, Framed, NEW c \in Conn, Deliver(c)
  PROVE  Framed'
<1>1. PICK k \in 1..(Pieces - (came[c] % Pieces)) :
        /\ came' = [came EXCEPT ![c] = @ + k]
        /\ rude' = [rude EXCEPT ![c] =
              @ \/ (came[c] % Pieces = 0 /\ answered[c] * Pieces # came[c])]
  BY DEF Deliver
<1>2. /\ UNCHANGED <<got, torn, pushed, done, answered, peer, mpc>> /\ Current' = Current
  BY DEF Deliver, link, thr, Current
<1>3. /\ rude' \in [Conn -> BOOLEAN]
      /\ \A d \in Conn \ {c} : rude'[d] = rude[d] /\ came'[d] = came[d]
      /\ ~rude'[c] => ~rude[c] /\ (came[c] % Pieces = 0 => answered[c] * Pieces = came[c])
      /\ came'[c] = came[c] + k
  BY <1>1 DEF IInv, Shape, Framed
<1>4. \A d \in Conn : From(d)' = From(d)
  BY <1>2 DEF From
<1>5. \A d \in Conn : Once(d)'
  BY <1>2, <1>4, OnceOn DEF Framed
<1>6. ASSUME NEW n \in Nat, Frame(c, n), ~rude'[c]
      PROVE  came'[c] <= n * Pieces + Pieces
  <2> DEFINE w == came[c]
             a == n * Pieces
  <2>1. /\ w \in Nat /\ a \in Nat /\ a <= w /\ w <= a + Pieces
        /\ answered[c] * Pieces <= a
    BY <1>6, FewerPieces, WholePieces, Bounds DEF Frame, Halfway, Framed, IInv, Shape
  <2>2. CASE w % Pieces = 0
    <3>1. w = a
      BY <1>3, <1>6, <2>1, <2>2, Bounds
    <3> QED
      BY <1>1, <1>3, <2>1, <2>2, <3>1, Bounds
  <2>3. CASE w % Pieces # 0
    <3>1. w # a + Pieces
      BY <2>3, WholePieces, Bounds
    <3>2. PICK r \in Nat : w = a + r /\ r < Pieces
      <4>1. w - a \in Nat /\ w = a + (w - a) /\ w - a < Pieces
        BY <2>1, <3>1, Bounds
      <4> QED
        BY <4>1
    <3>3. w % Pieces = r
      BY <3>2, BrokenPieces, Bounds
    <3> QED
      BY <1>1, <1>3, <2>1, <3>2, <3>3, Bounds
  <2> QED
    BY <2>2, <2>3
<1>7. ASSUME NEW d \in Conn, Steady(d)'
      PROVE  \E m \in Nat : Frame(d, m)'
  <2>1. Steady(d)
    BY <1>2, <1>3, <1>7 DEF Steady
  <2>2. PICK m \in Nat : Frame(d, m)
    BY <2>1 DEF Framed
  <2>3. CASE d # c
    BY <1>2, <1>3, <1>4, <2>2, <2>3, FrameOn DEF Halfway
  <2>4. CASE d = c
    <3>1. came'[c] <= m * Pieces + Pieces
      BY <1>6, <1>7, <2>2, <2>4 DEF Steady
    <3> QED
      BY <1>2, <1>4, <2>2, <2>4, <3>1 DEF Frame, Halfway
  <2> QED
    BY <2>3, <2>4
<1> QED
  BY <1>2, <1>3, <1>5, <1>7 DEF Framed

(* What is received of the current client.  What is pushed is the command  *)
(* that it completes, or none.                                             *)
LEMMA FramedRead ==
  ASSUME IInv, Framed, fd # NONE, NEW e \in Conn, e = Current,
         UNCHANGED <<came, rude, answered, done, peer>>, Current' = Current,
         \A d \in Conn \ {e} : got'[d] = got[d],
         torn \subseteq torn', torn' \subseteq torn \cup {e},
         got[e] \in Nat, got'[e] \in Nat, got[e] <= got'[e],
         NEW S \in Nat, got[e] < S * Pieces,
         \/ UNCHANGED pushed
         \/ Push(e, 0)
         \/ Push(e, S) /\ S * Pieces <= got'[e],
         \A n \in Nat : ~rude[e] /\ e \notin torn' /\ Frame(e, n) =>
           \/ /\ UNCHANGED pushed /\ mpc' = "rest"
              /\ n * Pieces < got'[e] /\ got'[e] < n * Pieces + Pieces
           \/ Push(e, n + 1) /\ got'[e] = n * Pieces + Pieces
  PROVE  Framed'
<1> DEFINE last == Len(pushed) + 1
<1>1. pushed \in Seq([from : Conn, cmd : Nat]) /\ Len(pushed) \in Nat
  BY DEF IInv, Pushed
<1>2. ASSUME NEW m \in Nat, Push(e, m)
      PROVE  /\ Len(pushed') = last
             /\ \A i \in 1..Len(pushed) : pushed'[i] = pushed[i]
             /\ pushed'[last].from = e /\ pushed'[last].cmd = m
             /\ From(e)' = From(e) \cup {last}
             /\ \A d \in Conn \ {e} : From(d)' = From(d)
  <2> DEFINE q == [from |-> e, cmd |-> m]
  <2>1. q \in [from : Conn, cmd : Nat] /\ q.from = e /\ q.cmd = m
    OBVIOUS
  <2>2. pushed' = Append(pushed, q)
    BY <1>2 DEF Push
  <2> HIDE DEF q
  <2>3. /\ Len(pushed') = last /\ pushed'[last] = q
        /\ \A i \in 1..Len(pushed) : pushed'[i] = pushed[i]
        /\ 1..Len(pushed') = (1..Len(pushed)) \cup {last}
    BY <1>1, <2>1, <2>2
  <2> HIDE DEF last
  <2> QED
    BY <2>1, <2>3 DEF From
<1>3. /\ last \notin From(e)
      /\ \A i \in From(e) : i \in Nat /\ i < last /\ i \in 1..Len(pushed)
  BY <1>1 DEF From
<1>4. UNCHANGED pushed \/ \E m \in Nat : Push(e, m)
  OBVIOUS
<1>5. ASSUME NEW d \in Conn, d # e
      PROVE  From(d)' = From(d) /\ \A i \in From(d) : pushed'[i] = pushed[i]
  <2>1. CASE UNCHANGED pushed
    BY <2>1 DEF From
  <2>2. CASE \E m \in Nat : Push(e, m)
    BY <1>2, <1>5, <2>2 DEF From
  <2> QED
    BY <1>4, <2>1, <2>2
<1>6. last > done /\ done \in Nat /\ answered[e] \in Nat /\ last \in Nat
  <2>1. done \in Nat /\ done <= Len(pushed)
    BY DEF IInv, Pushed, Framed
  <2> QED
    BY <1>1, <2>1 DEF Framed
<1> HIDE DEF last
<1>7. \A i \in From(e) : pushed[i].cmd \in Nat
  <2> DEFINE R == [from : Conn, cmd : Nat]
  <2>1. pushed \in Seq(R)
    BY <1>1
  <2> HIDE DEF R
  <2>2. \A i \in 1..Len(pushed) : pushed[i] \in R
    BY <2>1
  <2> QED
    BY <1>3, <2>2 DEF R
<1>8. \A i \in From(e) : pushed[i].cmd * Pieces <= got[e] /\ pushed[i].cmd * Pieces \in Nat
  BY <1>7, WholePieces, Bounds DEF Framed, Once
<1>9. Once(e)'
  <2>1. CASE UNCHANGED pushed
    <3>1. From(e)' = From(e)
      BY <2>1 DEF From
    <3>2. \A i \in From(e) : pushed[i].cmd * Pieces <= got'[e]
      BY <1>8
    <3> QED
      BY <2>1, <3>1, <3>2 DEF Framed, Once, PushedOnce
  <2>2. ASSUME NEW m \in Nat, Push(e, m), m * Pieces \in Nat, m * Pieces <= got'[e],
               m # 0 => got[e] < m * Pieces
        PROVE  Once(e)'
    <3>1. \A i \in From(e) : m # 0 => pushed[i].cmd < m
      <4>1. ASSUME NEW i \in From(e), m # 0 PROVE pushed[i].cmd * Pieces < m * Pieces
        BY <1>8, <2>2, <4>1
      <4> QED
        BY <1>7, <4>1, EarlierPieces, Bounds
    <3>2. ASSUME NEW i \in From(e)' PROVE pushed'[i].cmd * Pieces <= got'[e]
      <4>1. CASE i \in From(e)
        <5>1. pushed'[i].cmd * Pieces = pushed[i].cmd * Pieces
          BY <1>2, <1>3, <2>2, <4>1
        <5>2. pushed[i].cmd * Pieces <= got[e] /\ pushed[i].cmd * Pieces \in Nat
          BY <1>8, <4>1
        <5> QED
          BY <5>1, <5>2
      <4>2. CASE i = last
        BY <1>2, <2>2, <4>2
      <4> QED
        BY <1>2, <2>2, <3>2, <4>1, <4>2
    <3>3. ASSUME NEW i \in From(e)', NEW j \in From(e)', i < j, pushed'[j].cmd # 0
          PROVE  pushed'[i].cmd < pushed'[j].cmd
      <4>1. i \in From(e)
        BY <1>2, <1>3, <1>6, <2>2, <3>3
      <4>2. CASE j \in From(e)
        BY <1>2, <1>3, <2>2, <3>3, <4>1, <4>2 DEF Framed, Once, PushedOnce
      <4>3. CASE j = last
        BY <1>2, <1>3, <2>2, <3>1, <3>3, <4>1, <4>3
      <4> QED
        BY <1>2, <2>2, <3>3, <4>2, <4>3
    <3> QED
      BY <3>2, <3>3 DEF Once, PushedOnce
  <2>3. 0 * Pieces = 0 /\ S * Pieces \in Nat
    BY Bounds
  <2> QED
    BY <2>1, <2>2, <2>3
<1>10. ASSUME NEW n \in Nat, Frame(e, n), Push(e, n + 1), got'[e] = n * Pieces + Pieces
       PROVE  Frame(e, n + 1)'
  <2>1. n + 1 \in Nat /\ (n + 1) * Pieces = n * Pieces + Pieces
    <3>1. n + 1 \in Nat
      OBVIOUS
    <3>2. (n + 1) * Pieces = n * Pieces + Pieces
      BY WholePieces, Bounds, Zenon
    <3> QED
      BY <3>1, <3>2, Zenon
  <2>2. \A i \in From(e) : pushed[i].cmd \in 1..n
    BY <1>10 DEF Frame
  <2>3. {pushed'[i].cmd : i \in From(e)'} = 1..(n + 1)
    <3>1. {pushed'[i].cmd : i \in From(e)'} = {pushed[i].cmd : i \in From(e)} \cup {n + 1}
      <4>1. /\ From(e)' = From(e) \cup {last} /\ pushed'[last].cmd = n + 1
            /\ \A i \in From(e) : pushed'[i] = pushed[i]
        BY <1>2, <1>3, <1>10, <2>1
      <4> QED
        BY <4>1
    <3>2. 1..(n + 1) = (1..n) \cup {n + 1}
      OBVIOUS
    <3> QED
      BY <1>10, <3>1, <3>2 DEF Frame
  <2>4. ASSUME NEW i \in From(e)', i > done
        PROVE  answered[e] < pushed'[i].cmd
    <3>1. CASE i \in From(e)
      BY <1>2, <1>3, <1>10, <2>1, <2>4, <3>1 DEF Frame
    <3>2. CASE i = last
      BY <1>2, <1>6, <1>10, <2>1, <3>2 DEF Frame
    <3> QED
      BY <1>2, <1>10, <2>1, <2>4, <3>1, <3>2
  <2>5. answered[e] <= n + 1
    BY <1>6, <1>10 DEF Frame
  <2>6. came[e] <= (n + 1) * Pieces + Pieces
    <3>1. came[e] \in Nat /\ n * Pieces \in Nat
      BY WholePieces, Bounds DEF IInv, Shape
    <3> QED
      BY <1>10, <2>1, <3>1, Bounds DEF Frame
  <2> QED
    BY <1>10, <2>1, <2>3, <2>4, <2>5, <2>6 DEF Frame
<1>11. ASSUME NEW d \in Conn, Steady(d)'
       PROVE  \E n \in Nat : Frame(d, n)'
  <2>1. Steady(d)
    BY <1>11 DEF Steady
  <2>2. PICK n \in Nat : Frame(d, n)
    BY <2>1 DEF Framed
  <2>3. CASE d # e
    BY <1>5, <2>2, <2>3, FrameOn DEF Halfway
  <2>4. CASE d = e
    <3>1. ~rude[e] /\ e \notin torn'
      BY <1>11, <2>4 DEF Steady
    <3>2. CASE /\ UNCHANGED pushed /\ mpc' = "rest"
               /\ n * Pieces < got'[e] /\ got'[e] < n * Pieces + Pieces
      BY <2>2, <2>4, <3>2 DEF Frame, Halfway, From
    <3>3. CASE Push(e, n + 1) /\ got'[e] = n * Pieces + Pieces
      <4>1. n + 1 \in Nat /\ Frame(d, n + 1)'
        BY <1>10, <2>2, <2>4, <3>3
      <4> QED
        BY <4>1
    <3> QED
      BY <2>2, <2>4, <3>1, <3>2, <3>3
  <2> QED
    BY <2>3, <2>4
<1>12. \A d \in Conn : Once(d)'
  BY <1>5, <1>9, OnceOn DEF Framed
<1>13. done <= Len(pushed')
  BY <1>1, <1>2, <1>4, <1>6 DEF Framed, last
<1> QED
  BY <1>11, <1>12, <1>13 DEF Framed

(* What the main loop finds of the current client. *)
LEMMA CurrentRead ==
  ASSUME IInv, Framed, fd # NONE
  PROVE  /\ Current \in Conn /\ got[Current] \in Nat /\ came[Current] \in Nat
         /\ got[Current] <= came[Current] /\ Started(Current) \in Nat
         /\ got[Current] < Started(Current) * Pieces
         /\ Unread(Current) = came[Current] - got[Current]
<1>1. Current \in Conn
  BY CurrentOpen
<1>2. /\ got[Current] \in Nat /\ came[Current] \in Nat
      /\ got[Current] <= came[Current]
  BY <1>1 DEF IInv, Shape
<1> QED
  BY <1>1, <1>2, ReadTypes, NextPieces, Bounds DEF Started, Unread

(* A command begins at the number of whole ones before it. *)
LEMMA StartedAt ==
  ASSUME NEW c \in Conn, NEW n \in Nat, NEW r \in Nat, r < Pieces,
         got[c] = n * Pieces + r
  PROVE  got[c] % Pieces = r /\ Started(c) = n + 1
BY BrokenPieces, Bounds DEF Started

LEMMA FramedCommand ==
  ASSUME IInv, Framed, ReadCommand
  PROVE  Framed'
<1>1. /\ MayRead /\ ReceiveAll /\ Unread(Current) > 0 /\ got[Current] % Pieces = 0
      /\ UNCHANGED <<client, link, ready, thr>>
      /\ \/ /\ Unread(Current) >= Pieces /\ Push(Current, Started(Current))
            /\ UNCHANGED torn
         \/ /\ Unread(Current) < Pieces /\ mpc' = "rest" /\ UNCHANGED <<pushed, torn>>
         \/ torn' = torn \cup {Current} /\ UNCHANGED pushed
  BY DEF ReadCommand
<1>2. fd # NONE /\ UNCHANGED <<came, rude, answered, done, peer>> /\ Current' = Current
  BY <1>1 DEF MayRead, IInv, Held, client, link, thr, Current
<1>3. PICK e \in Conn : e = Current
  BY <1>2, CurrentRead
<1>4. /\ got[e] \in Nat /\ came[e] \in Nat /\ got[e] <= came[e] /\ Started(e) \in Nat
      /\ got[e] < Started(e) * Pieces /\ Unread(e) = came[e] - got[e]
  BY <1>2, <1>3, CurrentRead
<1>5. got'[e] = came[e] /\ \A d \in Conn \ {e} : got'[d] = got[d]
  BY <1>1, <1>3 DEF ReceiveAll, IInv, Shape
<1>6. Unread(e) >= Pieces => Started(e) * Pieces <= got'[e]
  <2>1. SUFFICES ASSUME Unread(e) >= Pieces PROVE Started(e) * Pieces <= came[e]
    BY <1>5
  <2> DEFINE n == got[e] \div Pieces
  <2>2. n \in Nat /\ Started(e) * Pieces = n * Pieces + Pieces /\ n * Pieces \in Nat
    BY <1>4, WholePieces, Bounds DEF Started
  <2>3. n * Pieces <= got[e]
    BY <1>4, Bounds
  <2> QED
    BY <1>4, <2>1, <2>2, <2>3, Bounds
<1>7. ASSUME NEW n \in Nat, ~rude[e], e \notin torn', Frame(e, n)
      PROVE  \/ /\ UNCHANGED pushed /\ mpc' = "rest"
                /\ n * Pieces < got'[e] /\ got'[e] < n * Pieces + Pieces
             \/ Push(e, n + 1) /\ got'[e] = n * Pieces + Pieces
  <2>1. mpc # "rest"
    BY <1>1 DEF MayRead
  <2>2. got[e] = n * Pieces /\ came[e] <= n * Pieces + Pieces /\ n * Pieces \in Nat
    BY <1>7, <2>1, WholePieces, Bounds DEF Frame, Halfway
  <2>3. Started(e) = n + 1
    BY <2>2, StartedAt, Bounds
  <2>4. CASE Unread(e) >= Pieces /\ Push(e, Started(e))
    BY <1>4, <1>5, <2>2, <2>3, <2>4, Bounds
  <2>5. CASE Unread(e) < Pieces /\ mpc' = "rest" /\ UNCHANGED pushed
    BY <1>1, <1>3, <1>4, <1>5, <2>2, <2>5, Bounds
  <2> QED
    BY <1>1, <1>3, <1>7, <2>4, <2>5
<1>8. torn \subseteq torn' /\ torn' \subseteq torn \cup {e}
  BY <1>1, <1>3
<1>9. \/ UNCHANGED pushed
      \/ Push(e, Started(e)) /\ Started(e) * Pieces <= got'[e]
  BY <1>1, <1>3, <1>6
<1>10. got'[e] \in Nat /\ got[e] <= got'[e]
  BY <1>4, <1>5
<1> HIDE DEF Started
<1> QED
  BY <1>2, <1>3, <1>4, <1>5, <1>7, <1>8, <1>9, <1>10, FramedRead

LEMMA FramedMiddle ==
  ASSUME IInv, Framed, ReadMiddle
  PROVE  Framed'
<1>1. /\ MayRead /\ ReceiveAll /\ got[Current] % Pieces # 0 /\ UNCHANGED torn
      /\ UNCHANGED <<client, link, ready, thr>>
      /\ UNCHANGED pushed \/ Push(Current, 0)
  BY DEF ReadMiddle
<1>2. fd # NONE /\ UNCHANGED <<came, rude, answered, done, peer>> /\ Current' = Current
  BY <1>1 DEF MayRead, IInv, Held, client, link, thr, Current
<1>3. PICK e \in Conn : e = Current
  BY <1>2, CurrentRead
<1>4. /\ got[e] \in Nat /\ came[e] \in Nat /\ got[e] <= came[e] /\ Started(e) \in Nat
      /\ got[e] < Started(e) * Pieces
  BY <1>2, <1>3, CurrentRead
<1>5. got'[e] = came[e] /\ \A d \in Conn \ {e} : got'[d] = got[d]
  BY <1>1, <1>3 DEF ReceiveAll, IInv, Shape
<1>6. ASSUME NEW n \in Nat, Frame(e, n) PROVE FALSE
  <2>1. mpc # "rest"
    BY <1>1 DEF MayRead
  <2>2. got[e] = n * Pieces
    BY <1>6, <2>1 DEF Frame, Halfway
  <2> QED
    BY <1>1, <1>3, <2>2, WholePieces, Bounds
<1>7. got'[e] \in Nat /\ got[e] <= got'[e]
  BY <1>4, <1>5
<1>8. UNCHANGED pushed \/ Push(e, 0)
  BY <1>1, <1>3
<1> QED
  BY <1>1, <1>2, <1>3, <1>4, <1>5, <1>6, <1>7, <1>8, FramedRead

LEMMA FramedRest ==
  ASSUME IInv, Framed, ReadRest
  PROVE  Framed'
<1>1. mpc = "rest" /\ UNCHANGED <<client, link, ready, thr>>
  BY DEF ReadRest
<1>2. fd # NONE /\ UNCHANGED <<came, rude, answered, done, peer>> /\ Current' = Current
  BY <1>1 DEF IInv, Snapshot, client, link, thr, Current
<1>3. PICK e \in Conn : e = Current
  BY <1>2, CurrentRead
<1>4. /\ got[e] \in Nat /\ came[e] \in Nat /\ got[e] <= came[e] /\ Started(e) \in Nat
      /\ got[e] < Started(e) * Pieces /\ Unread(e) = came[e] - got[e]
  BY <1>2, <1>3, CurrentRead
<1> DEFINE need == Pieces - (got[e] % Pieces)
           k == IF Unread(e) < need THEN Unread(e) ELSE need
<1>5. /\ got' = [got EXCEPT ![e] = @ + k]
      /\ \/ k = need /\ Push(e, Started(e))
         \/ k < need /\ (Push(e, 0) \/ UNCHANGED pushed)
      /\ torn' = IF k < need THEN torn \cup {e} ELSE torn
  BY <1>3 DEF ReadRest
<1>6. got[e] % Pieces \in 0..(Pieces - 1)
  BY <1>4, Bounds
<1>7. need \in Nat /\ need > 0 /\ need <= Pieces /\ k \in Nat /\ k <= need
  BY <1>4, <1>6, Bounds
<1>8. got'[e] = got[e] + k /\ \A d \in Conn \ {e} : got'[d] = got[d]
  BY <1>5 DEF IInv, Shape
<1>9. got[e] + need = Started(e) * Pieces
  <2> DEFINE n == got[e] \div Pieces
  <2>1. n \in Nat /\ Started(e) * Pieces = n * Pieces + Pieces /\ n * Pieces \in Nat
    BY <1>4, WholePieces, Bounds DEF Started
  <2>2. got[e] = n * Pieces + (got[e] % Pieces)
    BY <1>4, DividedPieces, Bounds
  <2> QED
    BY <2>1, <2>2, <1>6, <1>4, Bounds
<1> HIDE DEF k, need
<1>10. ASSUME NEW n \in Nat, ~rude[e], e \notin torn', Frame(e, n)
       PROVE  Push(e, n + 1) /\ got'[e] = n * Pieces + Pieces
  <2>1. k = need /\ Push(e, Started(e))
    BY <1>5, <1>7, <1>10
  <2>2. PICK r \in Nat : got[e] = n * Pieces + r /\ r < Pieces
    <3>1. n * Pieces \in Nat
      BY WholePieces, Bounds
    <3>2. /\ got[e] - n * Pieces \in Nat /\ got[e] = n * Pieces + (got[e] - n * Pieces)
          /\ got[e] - n * Pieces < Pieces
      BY <1>4, <1>10, <3>1, Bounds DEF Frame, Halfway
    <3> QED
      BY <3>2
  <2>3. Started(e) = n + 1
    BY <2>2, StartedAt
  <2>4. (n + 1) * Pieces = n * Pieces + Pieces
    BY WholePieces, Bounds
  <2> QED
    BY <1>8, <1>9, <2>1, <2>3, <2>4
<1>11. got'[e] \in Nat /\ got[e] <= got'[e]
  BY <1>4, <1>7, <1>8
<1>12. \/ UNCHANGED pushed
       \/ Push(e, 0)
       \/ Push(e, Started(e)) /\ Started(e) * Pieces <= got'[e]
  <2>1. k = need => Started(e) * Pieces <= got'[e]
    BY <1>8, <1>9, <1>11
  <2> QED
    BY <1>5, <2>1
<1>13. torn \subseteq torn' /\ torn' \subseteq torn \cup {e}
  BY <1>5
<1> QED
  BY <1>2, <1>3, <1>4, <1>8, <1>10, <1>11, <1>12, <1>13, FramedRead

LEMMA FramedMain ==
  ASSUME IInv, Framed, Main
  PROVE  Framed'
<1>1. CASE Select \/ Accept \/ AcceptNone \/ ReadNone \/ ReadEof
  <2>1. /\ UNCHANGED <<got, torn, came, rude, pushed, answered, done>> /\ mpc # "rest"
    BY <1>1 DEF Select, Accept, AcceptNone, ReadNone, ReadEof, MayRead, client, thr
  <2>2. \A c \in Conn : peer[c] = "closed" => peer'[c] = "closed"
    <3>1. CASE Accept
      <4>1. PICK c \in Queued, left \in {Shut(Current), peer} :
              peer' = [left EXCEPT ![c] = "open"]
        BY <3>1 DEF Accept
      <4> QED
        BY <4>1 DEF Queued, Shut, IInv, Shape
    <3>2. CASE ReadEof
      BY <3>2 DEF ReadEof, Shut, IInv, Shape
    <3>3. CASE Select \/ AcceptNone \/ ReadNone
      BY <3>3 DEF Select, AcceptNone, ReadNone, link
    <3> QED
      BY <1>1, <3>1, <3>2, <3>3
  <2>3. done \in Nat /\ done' <= Len(pushed)
    BY <2>1 DEF Framed, IInv, Pushed
  <2> QED
    BY <2>1, <2>2, <2>3, FramedOn
<1> QED
  BY <1>1, FramedCommand, FramedMiddle, FramedRest DEF Main

(* An answer counts for the command that it is the answer of: the next one *)
(* that thr_msg executes.                                                  *)
LEMMA FramedThr ==
  ASSUME IInv, Framed, Thr
  PROVE  Framed'
<1>1. /\ UNCHANGED <<got, torn, came, rude, pushed, peer, mpc>> /\ Current' = Current
      /\ done' \in {done, done + 1} /\ done < Len(pushed)
  <2>1. done < Len(pushed)
    BY DEF Thr, ThrExecute, ThrCheckFd, ThrSendPart, ThrSend, ThrSendFails, ThrGiveUp,
       IInv, Pushed
  <2> QED
    BY <2>1 DEF Thr, ThrExecute, ThrCheckFd, ThrSendPart, ThrSend, ThrSendFails,
       ThrGiveUp, Done, client, link, Current
<1>2. done' <= Len(pushed) /\ done \in Nat
  BY <1>1 DEF IInv, Pushed
<1>3. CASE answered' = answered
  BY <1>1, <1>2, <1>3, FramedOn
<1>4. CASE answered' # answered
  <2>1. /\ ThrSend /\ fd # NONE /\ done' = done + 1 /\ Task.from = Current
        /\ answered' = [answered EXCEPT ![Current] = @ + 1]
    BY <1>4 DEF Thr, ThrExecute, ThrCheckFd, ThrSendPart, ThrSend, ThrSendFails,
       ThrGiveUp, Done
  <2>2. PICK e \in Conn : e = Current
    BY <2>1, CurrentOpen
  <2>3. /\ answered' \in [Conn -> Nat] /\ answered'[e] = answered[e] + 1
        /\ answered[e] \in Nat
        /\ \A d \in Conn \ {e} : answered'[d] = answered[d]
    BY <2>1, <2>2 DEF Framed
  <2>4. done + 1 \in From(e)
    BY <1>1, <1>2, <2>1, <2>2 DEF From, Task, IInv, Pushed
  <2>5. \A c \in Conn : From(c)' = From(c) /\ From(c) \subseteq Nat
    BY <1>1 DEF From
  <2>6. ASSUME NEW n \in Nat, Frame(e, n)
        PROVE  Frame(e, n)'
    <3>1. pushed[done + 1].cmd \in 1..n /\ answered[e] < pushed[done + 1].cmd
      BY <1>2, <2>4, <2>6 DEF Frame
    <3>2. answered'[e] <= n
      BY <2>3, <3>1
    <3>3. ASSUME NEW i \in From(e), i > done + 1
          PROVE  answered'[e] < pushed[i].cmd
      <4>1. pushed[i].cmd \in 1..n
        BY <2>6 DEF Frame
      <4>2. done + 1 < i
        BY <1>2, <2>5, <3>3
      <4>3. pushed[done + 1].cmd < pushed[i].cmd
        BY <2>4, <4>1, <4>2 DEF Framed, Once, PushedOnce
      <4> QED
        BY <2>3, <3>1, <4>1, <4>3
    <3> QED
      BY <1>1, <2>1, <2>5, <2>6, <3>2, <3>3 DEF Frame, Halfway
  <2>7. ASSUME NEW d \in Conn, Steady(d)'
        PROVE  \E n \in Nat : Frame(d, n)'
    <3>1. PICK n \in Nat : Frame(d, n)
      BY <1>1, <2>7 DEF Framed, Steady
    <3>2. CASE d = e
      BY <2>6, <3>1, <3>2
    <3>3. CASE d # e
      BY <1>1, <2>3, <2>5, <3>1, <3>3, FrameOn DEF Halfway
    <3> QED
      BY <3>2, <3>3
  <2>8. \A c \in Conn : Once(c)'
    BY <1>1, <2>5, OnceOn DEF Framed
  <2> QED
    BY <1>1, <1>2, <2>3, <2>7, <2>8 DEF Framed
<1> QED
  BY <1>3, <1>4

LEMMA FramedStep ==
  ASSUME IInv, Framed, [Next]_vars
  PROVE  Framed'
<1>1. done \in Nat /\ done <= Len(pushed)
  BY DEF Framed, IInv, Pushed
<1>2. ASSUME NEW c \in Conn, Connect(c) \/ Finish(c)
      PROVE  Framed'
  <2>1. /\ UNCHANGED <<got, torn, came, rude, pushed, answered, done, mpc>>
        /\ Current' = Current
    BY <1>2 DEF Connect, Finish, client, link, thr, Current
  <2>2. \A d \in Conn : peer[d] = "closed" => peer'[d] = "closed"
    BY <1>2 DEF Connect, Finish, link, IInv, Shape
  <2> QED
    BY <1>1, <2>1, <2>2, FramedOn
<1>3. CASE UNCHANGED vars
  <2>1. /\ UNCHANGED <<got, torn, came, rude, pushed, answered, done, mpc, peer>>
        /\ Current' = Current
    BY <1>3 DEF vars, Current
  <2> QED
    BY <1>1, <2>1, FramedOn
<1> QED
  BY <1>2, <1>3, FramedDeliver, FramedMain, FramedThr DEF Next

-----------------------------------------------------------------------------
(* The connections, the descriptor table, pTCPL->fd, the snapshot and the  *)
(* queue of commands agree at every step of both threads.                  *)
THEOREM Invariance == Spec => []IInv
BY InitHolds, NextStep, PTL DEF Spec

(* Only giving a client up leaks its descriptor, however often clients are *)
(* replaced.                                                               *)
THEOREM Leaks == Spec => []NoOtherLeak
<1>1. IInv => NoOtherLeak
  <2> SUFFICES ASSUME IInv PROVE NoOtherLeak
    OBVIOUS
  <2>1. accepted => Current # NONE
    BY CurrentOpen DEF IInv, Held
  <2> QED
    BY <2>1 DEF IInv, Table, Held, NoOtherLeak
<1> QED
  BY <1>1, Invariance, PTL

(* An answer that goes astray reaches a later client, after its own is     *)
(* closed or given up.                                                     *)
THEOREM Strays == Spec => []StrayAnswers
<1>1. IInv => StrayAnswers
  BY DEF IInv, Answers
<1> QED
  BY <1>1, Invariance, PTL

(* A client that is not replaced and takes what it is sent gets whole      *)
(* answers, but for the rest of one that began to a client before it.      *)
THEOREM Whole == Spec => []AnswersWhole
<1>1. IInv => AnswersWhole
  BY DEF IInv, Answers
<1> QED
  BY <1>1, Invariance, PTL

(* The main loop closes a connection for one of three reasons only.        *)
THEOREM Reasons == Spec => ClosedForReason
<1>1. ASSUME IInv, [Next]_vars, NEW c \in Conn, Closes(c)
      PROVE  fin[c] \/ fresh \/ \E d \in Queued : peer'[d] = "open"
  <2>1. peer' # peer
    BY <1>1 DEF Closes
  <2>2. CASE Accept
    <3>1. PICK d \in Queued, left \in {Shut(Current), peer} :
            peer' = [left EXCEPT ![d] = "open"]
      BY <2>2 DEF Accept
    <3>2. left \in [Conn -> {"none", "queued", "open", "closed"}]
      BY <1>1 DEF IInv, Shape, Shut
    <3>3. peer'[d] = "open"
      BY <3>1, <3>2 DEF Queued
    <3> QED
      BY <3>1, <3>3
  <2>3. CASE ReadEof
    <3>1. fd # NONE
      BY <1>1, <2>3 DEF ReadEof, MayRead, IInv, Held
    <3>2. Current \in Conn
      BY <1>1, <3>1, CurrentOpen
    <3>3. c = Current
      BY <1>1, <2>3 DEF ReadEof, Shut, Closes, IInv, Shape
    <3>4. fin[Current] \/ Unread(Current) = 0
      BY <2>3 DEF ReadEof
    <3>5. ~fresh => fin[Current] \/ got[Current] < came[Current]
      BY <1>1, <2>3 DEF ReadEof, MayRead, IInv, Snapshot
    <3> QED
      BY <1>1, <3>2, <3>3, <3>4, <3>5 DEF Unread, IInv, Shape
  <2>4. CASE \E d \in Conn : Connect(d)
    BY <1>1, <2>4 DEF Connect, Closes, IInv, Shape
  <2>5. CASE (\E d \in Conn : Deliver(d) \/ Finish(d)) \/ UNCHANGED vars
    BY <2>1, <2>5 DEF Deliver, Finish, link, vars
  <2>6. CASE Select \/ AcceptNone \/ ReadNone \/ ReadCommand \/ ReadMiddle \/ ReadRest
    BY <2>1, <2>6 DEF Select, AcceptNone, ReadNone, ReadCommand, ReadMiddle, ReadRest, link
  <2>7. CASE Thr
    BY <2>1, <2>7 DEF Thr, ThrExecute, ThrCheckFd, ThrSendPart, ThrSend, ThrSendFails, ThrGiveUp, link
  <2> QED
    BY <1>1, <2>2, <2>3, <2>4, <2>5, <2>6, <2>7 DEF Next, Main
<1>2. IInv /\ [Next]_vars =>
        [\A c \in Conn : Closes(c) =>
           fin[c] \/ fresh \/ \E d \in Queued : peer'[d] = "open"]_vars
  BY <1>1
<1> QED
  BY <1>2, Invariance, PTL DEF Spec, ClosedForReason

(* Whoever the clients are and however TCP cuts what they write: a whole   *)
(* command is pushed once and in its turn; and what is received of a       *)
(* client that waits for its answers is pushed, all of it and nothing      *)
(* else, until the rest of a command comes too late.                       *)
THEOREM Framing == Spec => []CommandsFramed
<1>1. IInv /\ Framed /\ [Next]_vars => Framed'
  BY FramedStep
<1>2. Spec => []Framed
  BY <1>1, InitFramed, Invariance, PTL DEF Spec
<1>3. IInv /\ Framed => CommandsFramed
  <2> SUFFICES ASSUME IInv, Framed, NEW c \in Conn, peer[c] = "open", ~rude[c], c \notin torn
               PROVE  PushedAll(c)
    BY DEF CommandsFramed, Framed, Once
  <2>1. PICK n \in Nat : Frame(c, n)
    BY DEF Framed, Steady
  <2>2. PICK r \in Nat : got[c] = n * Pieces + r /\ r < Pieces /\ (r = 0 \/ Halfway(c, n))
    <3>1. n * Pieces \in Nat
      BY WholePieces, Bounds
    <3>2. CASE got[c] = n * Pieces
      BY <3>1, <3>2, Bounds
    <3>3. CASE Halfway(c, n)
      <4> DEFINE r == got[c] - n * Pieces
      <4>1. r \in Nat /\ got[c] = n * Pieces + r /\ r < Pieces
        BY <3>1, <3>3, Bounds DEF Halfway, IInv, Shape
      <4> QED
        BY <3>3, <4>1
    <3> QED
      BY <2>1, <3>2, <3>3 DEF Frame
  <2>3. (n * Pieces + r) % Pieces = r /\ (n * Pieces + r) \div Pieces = n
    BY <2>2, BrokenPieces, Bounds
  <2>4. got[c] % Pieces = r /\ got[c] \div Pieces = n
    BY <2>2, <2>3, Zenon
  <2> QED
    BY <2>1, <2>2, <2>4 DEF PushedAll, Frame, Halfway
<1> QED
  BY <1>2, <1>3, Invariance, PTL
=============================================================================

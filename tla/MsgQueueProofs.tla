--------------------------- MODULE MsgQueueProofs ---------------------------
(***************************************************************************)
(* Proofs about the command queue, for any number of commands.             *)
(***************************************************************************)
EXTENDS MsgQueue, TLAPS

(* What holds whether or not the first walk has overlapped a push. *)
Sound ==
  /\ TypeOK
  /\ mpc = "segv" <=> tpc = "segv"
  /\ mpc \notin {"idle", "segv"} => sent > 0
  /\ LinksKnown

USE MsgQueueAssumption DEF MsgQueueAssumption

(* Nothing is pushed yet, and every link leads to the head or nowhere. *)
LEMMA SoundInit == Init => Sound
  BY SMTT(20) DEF Init, Sound, TypeOK, LinksKnown, Known, NoStores, Node, Link, Msg,
         HEAD, NULL, NOSTORE, MainPc, ThrPc

(***************************************************************************)
(* No step corrupts the types, and no pointer ever leads to an entry that  *)
(* has not been pushed: true of csv_msg_push and csv_msg_loop even when    *)
(* they race.                                                              *)
(***************************************************************************)
LEMMA SoundStep == Sound /\ [Next]_vars => Sound'
<1> SUFFICES ASSUME Sound, [Next]_vars PROVE Sound'
  OBVIOUS
<1> USE DEF Sound, TypeOK, LinksKnown, Known, Node, Link, Msg, HEAD, NULL,
            NOSTORE, MainPc, ThrPc, mem
<1>1. CASE MainPush
  <2>1. TypeOK'
    BY <1>1 DEF MainPush
  <2>2. Known \subseteq Known'
    BY <1>1 DEF MainPush
  <2>3. LinksKnown'
    BY <1>1, <2>2 DEF MainPush
  <2> QED
    BY <1>1, <2>1, <2>3 DEF MainPush
<1>2. CASE MainLock
  BY <1>2 DEF MainLock, ThrInList
<1>3. CASE MainTail
  <2> DEFINE q == prev[HEAD]
  <2>1. CASE q = NULL
    BY <1>3, <2>1 DEF MainTail, Segv
  <2>2. CASE q # NULL
    <3>1. /\ addPrev' = [addPrev EXCEPT ![HEAD] = sent, ![sent] = q]
          /\ addNext' = [addNext EXCEPT ![sent] = HEAD, ![q] = sent]
          /\ mpc = "tail" /\ mpc' = "store"
          /\ UNCHANGED <<next, prev, delNext, delPrev, sent, tpc, pos, nxt,
                         locked, executed, overlap>>
      BY <1>3, <2>2 DEF MainTail
    <3>2. q \in HEAD..sent /\ q \in Node /\ sent > 0
      BY <2>2, <3>1
    <3> HIDE DEF q
    <3>3. /\ addPrev' \in [Node -> Link \cup {NOSTORE}]
          /\ addNext' \in [Node -> Link \cup {NOSTORE}]
      <4> DEFINE S == Link \cup {NOSTORE}
      <4>1. /\ HEAD \in Node /\ sent \in Node /\ q \in Node
            /\ HEAD \in S /\ sent \in S /\ q \in S
            /\ addPrev \in [Node -> S] /\ addNext \in [Node -> S]
        BY <3>2
      <4> HIDE DEF S, Node, HEAD
      <4>2. addPrev' \in [Node -> S] /\ addNext' \in [Node -> S]
        BY <3>1, <4>1
      <4> QED
        BY <4>2 DEF S
    <3>4. ASSUME NEW x \in Node
          PROVE  /\ addPrev'[x] \in Known \cup {NOSTORE}
                 /\ addNext'[x] \in Known \cup {NOSTORE}
      BY <3>1, <3>2
    <3>5. TypeOK'
      BY <3>1, <3>3
    <3>6. LinksKnown'
      BY <3>1, <3>4
    <3> QED
      BY <3>1, <3>2, <3>5, <3>6
  <2> QED
    BY <2>1, <2>2
<1>4. ASSUME NEW x \in Node, MainStore(x) PROVE Sound'
  BY <1>4, ZenonT(40) DEF MainStore
<1>5. CASE MainUnlock
  BY <1>5 DEF MainUnlock
<1>6. CASE MainBroadcast
  BY <1>6 DEF MainBroadcast
<1>7. CASE ThrStart
  BY <1>7 DEF ThrStart, MainInList
<1>8. CASE ThrScan
  BY <1>8 DEF ThrScan
<1>9. CASE ThrPeek
  <2>1. CASE pos = NULL
    BY <1>9, <2>1 DEF ThrPeek, Segv
  <2>2. CASE pos # NULL
    <3>1. pos \in Node /\ next[pos] \in Known
      BY <2>2
    <3>2. mpc # "segv"
      BY <1>9 DEF ThrPeek
    <3> QED
      BY <1>9, <2>2, <3>1, <3>2 DEF ThrPeek
  <2> QED
    BY <2>1, <2>2
<1>10. CASE ThrExecute
  BY <1>10 DEF ThrExecute
<1>11. CASE ThrDel
  <2> DEFINE p == prev[pos]
             n == next[pos]
  <2>1. CASE NULL \in {p, n}
    BY <1>11, <2>1 DEF ThrDel, Segv
  <2>2. CASE NULL \notin {p, n}
    <3>1. pos \in Node /\ p \in HEAD..sent /\ n \in HEAD..sent
      BY <1>11, <2>2 DEF ThrDel
    <3>2. p \in Node /\ n \in Node
      BY <3>1
    <3>3. /\ delPrev' = [delPrev EXCEPT ![n] = p, ![pos] = NULL]
          /\ delNext' = [delNext EXCEPT ![p] = n, ![pos] = NULL]
          /\ tpc' = "unlink" /\ tpc = "del"
          /\ UNCHANGED <<next, prev, addNext, addPrev, mpc, sent, pos, nxt, locked, executed, overlap>>
      BY <1>11, <2>2 DEF ThrDel
    <3> HIDE DEF p, n
    <3>4. TypeOK'
      BY <3>1, <3>2, <3>3
    <3>5. LinksKnown'
      BY <3>1, <3>2, <3>3
    <3> QED
      BY <3>3, <3>4, <3>5
  <2> QED
    BY <2>1, <2>2
<1>12. ASSUME NEW x \in Node, ThrStore(x) PROVE Sound'
  BY <1>12, ZenonT(40) DEF ThrStore
<1>13. CASE ThrFree
  BY <1>13 DEF ThrFree
<1>14. CASE ThrWait
  BY <1>14 DEF ThrWait
<1>15. CASE ThrTimeout
  BY <1>15 DEF ThrTimeout
<1>16. CASE ThrRelock
  BY <1>16 DEF ThrRelock
<1>17. CASE Fault
  BY <1>17 DEF Fault, Segv
<1>18. CASE UNCHANGED vars
  BY <1>18 DEF vars
<1> QED
  BY <1>1, <1>2, <1>3, <1>4, <1>5, <1>6, <1>7, <1>8, <1>9, <1>10, <1>11,
     <1>12, <1>13, <1>14, <1>15, <1>16, <1>17, <1>18 DEF Next, MainStep, ThrStep

(* The list of csv_msg_init is empty, and neither thread works on it. *)
LEMMA IntactInit == Init => Intact
  BY DEF Init, Intact, LockRight, StoresConfined, StoresLive, InOrder, ListIntact,
         CursorRight, Alive, MainInList, ThrInList, NextOf, PrevOf, Settled,
         Added, Removed, First, Last, NoStores, Node, HEAD, NULL, NOSTORE

(***************************************************************************)
(* Where no store is outstanding, a link is what memory holds.             *)
(***************************************************************************)
LEMMA Quiet ==
  ASSUME StoresConfined, mpc # "store", tpc # "unlink", NEW x \in Node
  PROVE  NextOf(x) = next[x] /\ PrevOf(x) = prev[x]
  BY DEF StoresConfined, NextOf, PrevOf, Settled, NoStores

(***************************************************************************)
(* While the list is intact, no thread touches a freed entry: the entries  *)
(* freed are those before the one the walk is at.                          *)
(***************************************************************************)
LEMMA NothingFreedUsed ==
  ASSUME TypeOK, LinksKnown, Intact
  PROVE  ~UseAfterFree
<1> SUFFICES ASSUME NEW m \in Msg, Freed(m)
             PROVE  /\ ~(tpc \in {"peek", "exec", "del", "unlink"} /\ pos = m)
                    /\ addNext[m] = NOSTORE /\ addPrev[m] = NOSTORE
                    /\ delNext[m] = NOSTORE /\ delPrev[m] = NOSTORE
  BY DEF UseAfterFree
<1>1. Len(executed) \in Nat /\ m \in Nat /\ m > 0
  BY DEF TypeOK, Msg
<1>2. m <= Retired
  BY <1>1 DEF Freed, Retired, Intact, InOrder
<1>3. addNext[m] = NOSTORE /\ addPrev[m] = NOSTORE
  BY <1>1, <1>2 DEF Retired, Intact, StoresLive
<1>4. delNext[m] = NOSTORE /\ delPrev[m] = NOSTORE
  <2>1. CASE tpc = "unlink"
    BY <1>1, <1>2, <2>1 DEF Retired, Intact, StoresLive
  <2>2. CASE tpc # "unlink"
    BY <2>2 DEF Intact, StoresConfined, NoStores, Msg, Node
  <2> QED
    BY <2>1, <2>2
<1>5. ~(tpc \in {"peek", "exec", "del", "unlink"} /\ pos = m)
  BY <1>1, <1>2 DEF Retired, Removed, First, Intact, CursorRight, HEAD
<1> QED
  BY <1>3, <1>4, <1>5

(***************************************************************************)
(* As long as the first walk of thr_msg overlaps no push, every step of    *)
(* either thread keeps the list, the lock and the walk's cursor intact.    *)
(***************************************************************************)
LEMMA IntactStep ==
  Sound /\ (~overlap => Intact) /\ [Next]_vars => (~overlap' => Intact')
<1> SUFFICES ASSUME Sound, ~overlap => Intact, [Next]_vars, ~overlap'
             PROVE  Intact'
  OBVIOUS
<1>0. ~overlap /\ Intact
  BY DEF Next, MainStep, ThrStep, MainPush, MainLock, MainTail, MainStore,
         MainUnlock, MainBroadcast, ThrStart, ThrScan, ThrPeek, ThrExecute,
         ThrDel, ThrStore, ThrFree, ThrWait, ThrTimeout, ThrRelock, Fault, vars,
         Sound, TypeOK
<1> USE DEF Intact, Alive, MainInList, ThrInList, HEAD, NULL, NOSTORE, mem
<1>t. TypeOK
  BY DEF Sound
<1>c. sent \in Nat /\ Len(executed) \in Nat /\ Added \in Int /\ Removed \in Int
  BY <1>t DEF TypeOK, Node, Added, Removed
<1>1. CASE MainPush
  <2>1. Added' = Added /\ Removed' = Removed
    BY <1>1, <1>c DEF MainPush, Added, Removed
  <2>2. ListIntact'
    BY <1>0, <1>1, <2>1
       DEF ListIntact, NextOf, PrevOf, Settled, First, Last, MainPush
  <2>3. CursorRight'
    BY <1>0, <1>1, <2>1 DEF CursorRight, First, MainPush
  <2> QED
    BY <1>0, <1>1, <1>c, <2>2, <2>3
       DEF MainPush, LockRight, StoresConfined, StoresLive, InOrder, Drained
<1>2. CASE MainLock
  <2>1. Added' = Added /\ Removed' = Removed /\ ~ThrInList
    BY <1>2 DEF MainLock, Added, Removed
  <2>2. ListIntact'
    BY <1>0, <1>2, <2>1
       DEF ListIntact, NextOf, PrevOf, Settled, First, Last, MainLock
  <2>3. CursorRight'
    BY <1>0, <1>2, <2>1 DEF CursorRight, First, MainLock
  <2> QED
    BY <1>0, <1>2, <1>c, <2>1, <2>2, <2>3
       DEF MainLock, LockRight, StoresConfined, StoresLive, InOrder, Drained
<1>3. CASE MainTail
  <2>1. /\ mpc = "tail" /\ sent > 0 /\ ~ThrInList
        /\ Added = sent - 1 /\ Removed = Len(executed)
    BY <1>0, <1>3 DEF MainTail, LockRight, Added, Removed, Sound
  <2>2. HEAD \in Node /\ NextOf(HEAD) = next[HEAD] /\ PrevOf(HEAD) = prev[HEAD]
    BY <1>0, <2>1, Quiet, <1>t DEF TypeOK, Node
  <2>3. prev[HEAD] = Last /\ Last \in Nat
    BY <1>0, <2>1, <2>2, <1>c DEF ListIntact, Last
  <2>4. /\ addPrev' = [addPrev EXCEPT ![HEAD] = sent, ![sent] = Last]
        /\ addNext' = [addNext EXCEPT ![sent] = HEAD, ![Last] = sent]
        /\ mpc' = "store"
        /\ UNCHANGED <<next, prev, delNext, delPrev, locked, sent, tpc, pos,
                       nxt, executed, overlap>>
    BY <1>3, <2>3 DEF MainTail
  <2>5. Added' = sent /\ Removed' = Removed
    BY <2>1, <2>4 DEF Added, Removed
  <2>6. ListIntact'
    <3>1. /\ addNext = NoStores /\ addPrev = NoStores
          /\ delNext = NoStores /\ delPrev = NoStores
      BY <1>0, <2>1 DEF StoresConfined
    <3>2. sent \in Node /\ Last \in Node /\ Last # sent
      BY <2>1, <1>t, <1>c DEF TypeOK, Node, Last
    <3>3. ASSUME NEW x \in Node
          PROVE  /\ NextOf(x)' = IF x = Last THEN sent
                                 ELSE IF x = sent THEN HEAD ELSE NextOf(x)
                 /\ PrevOf(x)' = IF x = sent THEN Last
                                 ELSE IF x = HEAD THEN sent ELSE PrevOf(x)
      <4>1. /\ addNext'[x] = IF x = Last THEN sent
                             ELSE IF x = sent THEN HEAD ELSE NOSTORE
            /\ addPrev'[x] = IF x = sent THEN Last
                             ELSE IF x = HEAD THEN sent ELSE NOSTORE
        BY <2>1, <2>4, <3>1, <3>2 DEF NoStores
      <4>2. /\ delNext'[x] = NOSTORE /\ delPrev'[x] = NOSTORE
            /\ addNext[x] = NOSTORE /\ addPrev[x] = NOSTORE
            /\ delNext[x] = NOSTORE /\ delPrev[x] = NOSTORE
            /\ next'[x] = next[x] /\ prev'[x] = prev[x]
        BY <2>4, <3>1 DEF NoStores
      <4>3. Last # NOSTORE /\ sent # NOSTORE
        BY <2>1, <2>3
      <4> QED
        BY <4>1, <4>2, <4>3 DEF NextOf, PrevOf, Settled
    <3>4. Removed <= sent - 1
      BY <1>0, <2>1 DEF ListIntact
    <3>5. NextOf(HEAD)' = First' /\ PrevOf(HEAD)' = Last'
      BY <1>0, <1>c, <2>1, <2>2, <2>5, <3>3, <3>4
         DEF ListIntact, First, Last
    <3>6. ASSUME NEW m \in (Removed + 1)..sent
          PROVE  /\ NextOf(m)' = (IF m = sent THEN HEAD ELSE m + 1)
                 /\ PrevOf(m)' = (IF m = Removed + 1 THEN HEAD ELSE m - 1)
      <4>1. m \in Node
        BY <1>t, <1>c, <2>1 DEF TypeOK, Node
      <4>2. CASE m = sent
        BY <1>c, <2>1, <3>2, <3>3, <3>4, <4>1, <4>2 DEF Last
      <4>3. CASE m < sent
        <5>1. m \in (Removed + 1)..Added /\ m # HEAD /\ m # sent /\ Last = sent - 1
          BY <1>c, <2>1, <4>3 DEF Last
        <5>2. /\ NextOf(m) = (IF m = Added THEN HEAD ELSE m + 1)
              /\ PrevOf(m) = (IF m = Removed + 1 THEN HEAD ELSE m - 1)
          BY <1>0, <5>1 DEF ListIntact
        <5>3. /\ NextOf(m)' = (IF m = Last THEN sent ELSE NextOf(m))
              /\ PrevOf(m)' = PrevOf(m)
          BY <3>3, <4>1, <5>1
        <5> QED
          BY <1>c, <2>1, <5>1, <5>2, <5>3
      <4> QED
        BY <1>c, <4>2, <4>3
    <3> QED
      BY <2>4, <2>5, <3>4, <3>5, <3>6, <1>c DEF ListIntact
  <2>7. CursorRight'
    BY <2>1, <2>4 DEF CursorRight
  <2>8. StoresLive'
    <3>1. /\ addNext = NoStores /\ addPrev = NoStores
          /\ delNext' = NoStores /\ delPrev' = NoStores
      BY <1>0, <2>1, <2>4 DEF StoresConfined
    <3>2. ASSUME NEW x \in Msg
          PROVE  addNext'[x] # NOSTORE \/ addPrev'[x] # NOSTORE => x = sent \/ x = Last
      <4>1. x \in Node /\ x # HEAD /\ addNext[x] = NOSTORE /\ addPrev[x] = NOSTORE
        BY <3>1 DEF NoStores, Msg, Node
      <4>2. CASE x # sent /\ x # Last
        BY <2>4, <4>1, <4>2, <1>t DEF TypeOK
      <4> QED
        BY <4>2
    <3>3. \A x \in Msg : x = sent \/ x = Last => x > Len(executed)
      BY <1>0, <1>c, <2>1 DEF Last, Msg, ListIntact
    <3> QED
      BY <2>4, <3>1, <3>2, <3>3 DEF StoresLive, NoStores, Msg, Node
  <2> QED
    BY <1>0, <1>c, <2>1, <2>4, <2>6, <2>7, <2>8
       DEF LockRight, StoresConfined, InOrder, Drained
<1>4. ASSUME NEW x \in Node, MainStore(x) PROVE Intact'
  <2>1. /\ mpc = "store" /\ tpc # "unlink"
        /\ UNCHANGED <<delNext, delPrev, locked, mpc, sent, tpc, pos, nxt,
                       executed, overlap>>
    BY <1>0, <1>4 DEF MainStore, LockRight
  <2>2. ASSUME NEW y \in Node
        PROVE  NextOf(y)' = NextOf(y) /\ PrevOf(y)' = PrevOf(y)
    BY <1>0, <1>4, <2>1, <1>t
       DEF MainStore, TypeOK, NextOf, PrevOf, Settled, StoresConfined, NoStores
  <2>3. /\ Added' = Added /\ Removed' = Removed
        /\ First' = First /\ Last' = Last
        /\ HEAD \in Node /\ (Removed + 1)..Added \subseteq Node
    BY <1>t, <1>c, <2>1
       DEF Added, Removed, First, Last, TypeOK, Node
  <2>4. ListIntact'
    BY <1>0, <2>2, <2>3 DEF ListIntact
  <2>5. StoresLive'
    <3>1. /\ delNext' = delNext /\ delPrev' = delPrev /\ executed' = executed
          /\ \A y \in Node : /\ addNext'[y] \in {addNext[y], NOSTORE}
                            /\ addPrev'[y] \in {addPrev[y], NOSTORE}
      BY <1>4, <2>1, <1>t DEF MainStore, TypeOK
    <3>2. Msg \subseteq Node
      BY DEF Msg, Node
    <3> QED
      BY <1>0, <3>1, <3>2 DEF StoresLive
  <2> QED
    BY <1>0, <2>1, <2>3, <2>4, <2>5
       DEF LockRight, StoresConfined, InOrder, CursorRight, Drained
<1>5. CASE MainUnlock
  <2>1. /\ UNCHANGED <<next, prev, addNext, addPrev, delNext, delPrev, tpc,
                       pos, nxt, sent, executed>>
        /\ mpc = "store" /\ mpc' = "bcast" /\ ~locked' /\ ~ThrInList
        /\ addNext = NoStores /\ addPrev = NoStores
    BY <1>0, <1>5 DEF MainUnlock, LockRight
  <2>2. Added' = Added /\ Removed' = Removed
    BY <2>1 DEF Added, Removed
  <2>3. ListIntact' /\ CursorRight'
    BY <1>0, <2>1, <2>2
       DEF ListIntact, NextOf, PrevOf, Settled, First, Last, CursorRight
  <2> QED
    BY <1>0, <2>1, <2>3 DEF LockRight, StoresConfined, StoresLive, InOrder, Drained
<1>6. CASE MainBroadcast
  <2>1. /\ UNCHANGED <<next, prev, addNext, addPrev, delNext, delPrev, locked,
                       pos, nxt, sent, executed>>
        /\ mpc = "bcast" /\ mpc' = "idle"
        /\ tpc' = tpc \/ (tpc = "waiting" /\ tpc' = "relock")
        /\ tpc' # "waiting"
    BY <1>6 DEF MainBroadcast
  <2>2. Added' = Added /\ Removed' = Removed
    BY <2>1 DEF Added, Removed
  <2>3. ListIntact' /\ CursorRight'
    BY <1>0, <2>1, <2>2
       DEF ListIntact, NextOf, PrevOf, Settled, First, Last, CursorRight
  <2> QED
    BY <1>0, <2>1, <2>3 DEF LockRight, StoresConfined, StoresLive, InOrder
<1>7. CASE ThrStart
  <2>1. /\ UNCHANGED <<next, prev, addNext, addPrev, delNext, delPrev, locked,
                       mpc, pos, nxt, sent, executed>>
        /\ tpc = "start" /\ tpc' = "scan" /\ ~MainInList
    BY <1>7 DEF ThrStart
  <2>2. Added' = Added /\ Removed' = Removed
    BY <2>1 DEF Added, Removed
  <2>3. ListIntact' /\ CursorRight'
    BY <1>0, <2>1, <2>2
       DEF ListIntact, NextOf, PrevOf, Settled, First, Last, CursorRight
  <2> QED
    BY <1>0, <2>1, <2>3 DEF LockRight, StoresConfined, StoresLive, InOrder, Drained
<1>8. CASE ThrScan
  <2>1. /\ UNCHANGED <<next, prev, addNext, addPrev, delNext, delPrev, locked,
                       mpc, nxt, sent, executed>>
        /\ tpc = "scan" /\ tpc' = "peek" /\ pos' = next[HEAD] /\ ~MainInList
    BY <1>0, <1>8 DEF ThrScan, LockRight
  <2>2. Added' = Added /\ Removed' = Removed
    BY <2>1 DEF Added, Removed
  <2>3. HEAD \in Node /\ next[HEAD] = First
    BY <1>0, <1>t, <2>1, Quiet DEF TypeOK, Node, ListIntact
  <2>4. ListIntact' /\ CursorRight'
    BY <1>0, <2>1, <2>2, <2>3
       DEF ListIntact, NextOf, PrevOf, Settled, First, Last, CursorRight
  <2> QED
    BY <1>0, <2>1, <2>4 DEF LockRight, StoresConfined, StoresLive, InOrder, Drained
<1>9. CASE ThrPeek
  <2>1. pos = First /\ First \in Nat /\ tpc = "peek" /\ ~MainInList
    BY <1>0, <1>9, <1>c DEF ThrPeek, CursorRight, LockRight, First, InOrder, Removed
  <2>2. /\ UNCHANGED <<next, prev, addNext, addPrev, delNext, delPrev, locked,
                       mpc, pos, sent, executed>>
        /\ nxt' = next[pos]
        /\ tpc' = IF pos = HEAD THEN "wait" ELSE "exec"
    BY <1>9, <2>1 DEF ThrPeek
  <2>3. Added' = Added /\ Removed' = Removed /\ Removed = Len(executed)
    BY <2>1, <2>2 DEF Added, Removed
  <2>4. ListIntact'
    BY <1>0, <2>2, <2>3
       DEF ListIntact, NextOf, PrevOf, Settled, First, Last
  <2>5. CASE pos = HEAD
    <3>1. Removed = Added
      BY <1>0, <1>c, <2>1, <2>3, <2>5 DEF First, ListIntact
    <3> QED
      BY <1>0, <2>1, <2>2, <2>3, <2>4, <2>5, <3>1
         DEF LockRight, StoresConfined, StoresLive, InOrder, Drained, CursorRight
  <2>6. CASE pos # HEAD
    <3>1. Removed < Added /\ pos = Removed + 1 /\ pos \in Node
      BY <1>c, <1>t, <2>1, <2>6 DEF First, TypeOK, Link
    <3>2. next[pos] = IF pos = Added THEN HEAD ELSE pos + 1
      BY <1>0, <1>c, <2>1, <3>1, Quiet DEF ListIntact
    <3> QED
      BY <1>0, <1>c, <2>1, <2>2, <2>3, <2>4, <2>6, <3>1, <3>2
         DEF LockRight, StoresConfined, StoresLive, InOrder, Drained, CursorRight
  <2> QED
    BY <2>5, <2>6
<1>10. CASE ThrExecute
  <2>1. /\ UNCHANGED <<next, prev, addNext, addPrev, delNext, delPrev, locked,
                       mpc, pos, nxt, sent>>
        /\ tpc = "exec" /\ tpc' = "del" /\ executed' = Append(executed, pos)
        /\ pos \in Msg /\ ~MainInList
    BY <1>0, <1>10 DEF ThrExecute, LockRight, Sound, LinksKnown
  <2>2. /\ Len(executed') = Len(executed) + 1
        /\ \A i \in 1..Len(executed) : executed'[i] = executed[i]
        /\ executed'[Len(executed) + 1] = pos
    BY <1>t, <2>1 DEF TypeOK
  <2>3. Added' = Added /\ Removed' = Removed /\ Removed = Len(executed)
    BY <1>c, <2>1, <2>2 DEF Added, Removed
  <2>4. pos = Len(executed) + 1 /\ pos <= Added /\ Added <= sent
    BY <1>0, <1>c, <2>1, <2>3 DEF CursorRight, Added
  <2>5. InOrder'
    BY <1>0, <1>c, <2>1, <2>2, <2>4 DEF InOrder
  <2>6. ListIntact' /\ CursorRight'
    BY <1>0, <2>1, <2>3
       DEF ListIntact, NextOf, PrevOf, Settled, First, Last, CursorRight
  <2>7. StoresLive'
    BY <1>0, <2>1 DEF StoresConfined, StoresLive, NoStores, Msg, Node
  <2> QED
    BY <1>0, <2>1, <2>5, <2>6, <2>7 DEF LockRight, StoresConfined
<1>11. CASE ThrDel
  <2>1. tpc = "del" /\ ~MainInList /\ Removed = Len(executed) - 1
    BY <1>0, <1>11 DEF ThrDel, LockRight, Removed
  <2>2. /\ pos = Removed + 1 /\ pos <= Added /\ pos \in Msg /\ pos \in Node
        /\ nxt = (IF pos = Added THEN HEAD ELSE pos + 1)
    BY <1>0, <2>1 DEF CursorRight, Sound, LinksKnown, Msg, Node
  <2>3. nxt \in Node /\ nxt # pos /\ pos \in (Removed + 1)..Added /\ Removed >= 0
    BY <1>t, <1>c, <2>1, <2>2 DEF TypeOK, Link, Msg
  <2>4. prev[pos] = HEAD /\ next[pos] = nxt
    BY <1>0, <2>1, <2>2, <2>3, Quiet DEF ListIntact
  <2>5. /\ delPrev' = [delPrev EXCEPT ![nxt] = HEAD, ![pos] = NULL]
        /\ delNext' = [delNext EXCEPT ![HEAD] = nxt, ![pos] = NULL]
        /\ tpc' = "unlink"
        /\ UNCHANGED <<next, prev, addNext, addPrev, locked, mpc, sent, pos,
                       nxt, executed, overlap>>
    BY <1>11, <2>3, <2>4 DEF ThrDel, Node
  <2>6. Added' = Added /\ Removed' = Removed + 1 /\ Removed' = pos
    BY <1>c, <2>1, <2>2, <2>5 DEF Added, Removed
  <2>7. /\ addNext = NoStores /\ addPrev = NoStores
        /\ delNext = NoStores /\ delPrev = NoStores
    BY <1>0, <2>1 DEF StoresConfined
  <2>8. ASSUME NEW x \in Node
        PROVE  /\ NextOf(x)' = IF x = pos THEN NULL
                               ELSE IF x = HEAD THEN nxt ELSE NextOf(x)
               /\ PrevOf(x)' = IF x = pos THEN NULL
                               ELSE IF x = nxt THEN HEAD ELSE PrevOf(x)
    <3>1. /\ delNext'[x] = IF x = pos THEN NULL
                           ELSE IF x = HEAD THEN nxt ELSE NOSTORE
          /\ delPrev'[x] = IF x = pos THEN NULL
                           ELSE IF x = nxt THEN HEAD ELSE NOSTORE
      BY <2>2, <2>3, <2>5, <2>7 DEF NoStores
    <3>2. /\ addNext'[x] = NOSTORE /\ addPrev'[x] = NOSTORE
          /\ addNext[x] = NOSTORE /\ addPrev[x] = NOSTORE
          /\ delNext[x] = NOSTORE /\ delPrev[x] = NOSTORE
          /\ next'[x] = next[x] /\ prev'[x] = prev[x]
      BY <2>5, <2>7 DEF NoStores
    <3>3. nxt # NOSTORE
      BY <2>3 DEF Node
    <3> QED
      BY <3>1, <3>2, <3>3 DEF NextOf, PrevOf, Settled
  <2>9. HEAD \in Node /\ pos # HEAD /\ (Removed + 1)..Added \subseteq Node
    BY <1>t, <1>c, <2>2, <2>3 DEF TypeOK, Node, Msg, Added
  <2>10. NextOf(HEAD)' = First' /\ nxt' = First'
    BY <1>c, <2>2, <2>5, <2>6, <2>8, <2>9 DEF First
  <2>11. PrevOf(HEAD)' = Last'
    BY <1>0, <1>c, <2>2, <2>5, <2>6, <2>8, <2>9 DEF Last, ListIntact
  <2>12. ASSUME NEW m \in (Removed + 2)..Added
         PROVE  /\ NextOf(m)' = (IF m = Added THEN HEAD ELSE m + 1)
                /\ PrevOf(m)' = (IF m = Removed + 2 THEN HEAD ELSE m - 1)
    <3>1. m \in Node /\ m \in (Removed + 1)..Added /\ m # pos /\ m # HEAD
      BY <1>c, <2>2, <2>3, <2>9
    <3> QED
      BY <1>0, <1>c, <2>2, <2>3, <2>8, <3>1 DEF ListIntact
  <2>13. ListIntact'
    BY <1>c, <2>2, <2>6, <2>10, <2>11, <2>12 DEF ListIntact
  <2>14. StoresLive'
    <3>1. Len(executed) = pos
      BY <1>c, <2>1, <2>2
    <3>2. ASSUME NEW x \in Msg
          PROVE  delNext'[x] # NOSTORE \/ delPrev'[x] # NOSTORE => x = pos \/ x = nxt
      <4>1. x \in Node /\ x # HEAD /\ delNext[x] = NOSTORE /\ delPrev[x] = NOSTORE
        BY <2>7 DEF NoStores, Msg, Node
      <4>2. CASE x # pos /\ x # nxt
        BY <2>5, <4>1, <4>2, <1>t DEF TypeOK
      <4> QED
        BY <4>2
    <3>3. addNext' = NoStores /\ addPrev' = NoStores /\ executed' = executed
      BY <2>5, <2>7
    <3>4. \A x \in Msg : x = pos \/ x = nxt => x >= pos
      BY <2>2 DEF Msg
    <3> QED
      BY <3>1, <3>2, <3>3, <3>4 DEF StoresLive, NoStores, Msg, Node
  <2> QED
    BY <1>0, <2>1, <2>5, <2>6, <2>10, <2>13, <2>14
       DEF LockRight, StoresConfined, InOrder, CursorRight
<1>12. ASSUME NEW x \in Node, ThrStore(x) PROVE Intact'
  <2>1. /\ mpc # "store" /\ tpc = "unlink"
        /\ UNCHANGED <<addNext, addPrev, locked, mpc, sent, tpc, pos, nxt,
                       executed, overlap>>
    BY <1>0, <1>12 DEF ThrStore, LockRight
  <2>2. ASSUME NEW y \in Node
        PROVE  NextOf(y)' = NextOf(y) /\ PrevOf(y)' = PrevOf(y)
    BY <1>0, <1>12, <2>1, <1>t
       DEF ThrStore, TypeOK, NextOf, PrevOf, Settled, StoresConfined, NoStores
  <2>3. /\ Added' = Added /\ Removed' = Removed
        /\ First' = First /\ Last' = Last
        /\ HEAD \in Node /\ (Removed + 1)..Added \subseteq Node
    BY <1>t, <1>c, <2>1
       DEF Added, Removed, First, Last, TypeOK, Node
  <2>4. ListIntact'
    BY <1>0, <2>2, <2>3 DEF ListIntact
  <2>5. StoresLive'
    <3>1. /\ addNext' = addNext /\ addPrev' = addPrev /\ executed' = executed
          /\ \A y \in Node : /\ delNext'[y] \in {delNext[y], NOSTORE}
                            /\ delPrev'[y] \in {delPrev[y], NOSTORE}
      BY <1>12, <2>1, <1>t DEF ThrStore, TypeOK
    <3>2. Msg \subseteq Node
      BY DEF Msg, Node
    <3> QED
      BY <1>0, <3>1, <3>2 DEF StoresLive
  <2> QED
    BY <1>0, <2>1, <2>3, <2>4, <2>5
       DEF LockRight, StoresConfined, InOrder, CursorRight, Drained
<1>13. CASE ThrFree
  <2>1. /\ UNCHANGED <<next, prev, addNext, addPrev, delNext, delPrev, locked,
                       mpc, nxt, sent, executed>>
        /\ tpc = "unlink" /\ tpc' = "peek" /\ pos' = nxt
        /\ delNext = NoStores /\ delPrev = NoStores
    BY <1>13 DEF ThrFree
  <2>2. Added' = Added /\ Removed' = Removed
    BY <2>1 DEF Added, Removed
  <2>3. ListIntact' /\ CursorRight'
    BY <1>0, <2>1, <2>2
       DEF ListIntact, NextOf, PrevOf, Settled, First, Last, CursorRight
  <2> QED
    BY <1>0, <2>1, <2>3 DEF LockRight, StoresConfined, StoresLive, InOrder
<1>14. CASE ThrWait
  <2>1. /\ UNCHANGED <<next, prev, addNext, addPrev, delNext, delPrev,
                       mpc, pos, nxt, sent, executed>>
        /\ tpc = "wait" /\ tpc' = "waiting" /\ ~locked' /\ ~MainInList
    BY <1>0, <1>14 DEF ThrWait, LockRight
  <2>2. Added' = Added /\ Removed' = Removed /\ Removed = Len(executed)
    BY <2>1 DEF Added, Removed
  <2>3. ListIntact' /\ CursorRight'
    BY <1>0, <2>1, <2>2
       DEF ListIntact, NextOf, PrevOf, Settled, First, Last, CursorRight
  <2>4. Drained'
    BY <1>0, <1>c, <2>1, <2>2 DEF CursorRight, Drained, Added
  <2> QED
    BY <1>0, <2>1, <2>3, <2>4 DEF LockRight, StoresConfined, StoresLive, InOrder
<1>15. CASE ThrTimeout
  <2>1. /\ UNCHANGED <<next, prev, addNext, addPrev, delNext, delPrev, locked,
                       mpc, pos, nxt, sent, executed>>
        /\ tpc = "waiting" /\ tpc' = "relock"
    BY <1>15 DEF ThrTimeout
  <2>2. Added' = Added /\ Removed' = Removed
    BY <2>1 DEF Added, Removed
  <2>3. ListIntact' /\ CursorRight'
    BY <1>0, <2>1, <2>2
       DEF ListIntact, NextOf, PrevOf, Settled, First, Last, CursorRight
  <2> QED
    BY <1>0, <2>1, <2>3 DEF LockRight, StoresConfined, StoresLive, InOrder
<1>16. CASE ThrRelock
  <2>1. /\ UNCHANGED <<next, prev, addNext, addPrev, delNext, delPrev,
                       mpc, pos, nxt, sent, executed>>
        /\ tpc = "relock" /\ tpc' = "scan" /\ locked' /\ ~MainInList
    BY <1>0, <1>16 DEF ThrRelock, LockRight
  <2>2. Added' = Added /\ Removed' = Removed
    BY <2>1 DEF Added, Removed
  <2>3. ListIntact' /\ CursorRight'
    BY <1>0, <2>1, <2>2
       DEF ListIntact, NextOf, PrevOf, Settled, First, Last, CursorRight
  <2> QED
    BY <1>0, <2>1, <2>3 DEF LockRight, StoresConfined, StoresLive, InOrder
<1>17. CASE Fault
  BY <1>0, <1>17, <1>t, NothingFreedUsed DEF Fault, Sound
<1>18. CASE UNCHANGED vars
  BY <1>0, <1>18
     DEF vars, LockRight, StoresConfined, StoresLive, InOrder, ListIntact, CursorRight,
         NextOf, PrevOf, Settled, Added, Removed, First, Last, Drained
<1> QED
  BY <1>1, <1>2, <1>3, <1>4, <1>5, <1>6, <1>7, <1>8, <1>9, <1>10, <1>11,
     <1>12, <1>13, <1>14, <1>15, <1>16, <1>17, <1>18 DEF Next, MainStep, ThrStep

(***************************************************************************)
(* The invariant of MsgQueue holds in every reachable state.               *)
(***************************************************************************)
THEOREM Invariance == Spec => []IInv
<1>1. Init => Sound /\ (~overlap => Intact)
  BY SoundInit, IntactInit
<1>2. Sound /\ (~overlap => Intact) /\ [Next]_vars
        => Sound' /\ (~overlap' => Intact')
  BY SoundStep, IntactStep
<1>3. Sound /\ (~overlap => Intact) <=> IInv
  BY DEF Sound, IInv
<1> QED
  BY <1>1, <1>2, <1>3, PTL DEF Spec

(***************************************************************************)
(* Every variable of the two threads keeps its type, even in a race.       *)
(***************************************************************************)
THEOREM TypeCorrect == Spec => []TypeOK
<1>1. IInv => TypeOK
  BY DEF IInv
<1> QED
  BY <1>1, Invariance, PTL

(***************************************************************************)
(* The main thread's list_add_tail and the walk of csv_msg_loop exclude    *)
(* each other, although only the former locks mutex_msg.                   *)
(***************************************************************************)
THEOREM Exclusion == Spec => []ListExclusive
<1>1. IInv => ListExclusive
  BY DEF IInv, Intact, LockRight, ListExclusive
<1> QED
  BY <1>1, Invariance, PTL

(***************************************************************************)
(* Neither csv_msg_push nor csv_msg_loop touches an entry that has been    *)
(* freed.                                                                  *)
(***************************************************************************)
THEOREM MemorySafe == Spec => []NoUseAfterFree
<1>1. IInv => NoUseAfterFree
  BY NothingFreedUsed DEF IInv, NoUseAfterFree
<1> QED
  BY <1>1, Invariance, PTL

(***************************************************************************)
(* csv_msg_loop executes the commands in the order csv_msg_push got them,  *)
(* each once and none skipped.                                             *)
(***************************************************************************)
THEOREM ExecutionOrder == Spec => []ExactlyOnceInOrder
<1>1. IInv => ExactlyOnceInOrder
  BY DEF IInv, Intact, ExactlyOnceInOrder
<1> QED
  BY <1>1, Invariance, PTL

(***************************************************************************)
(* csv_msg_loop never goes to sleep over a command whose broadcast has     *)
(* already been made.                                                      *)
(***************************************************************************)
THEOREM Wakeup == Spec => []NoLostWakeup
<1>1. IInv => NoLostWakeup
  BY DEF IInv, Intact, NoLostWakeup
<1> QED
  BY <1>1, Invariance, PTL

(***************************************************************************)
(* The pointer-level queue implements the hand-off.                        *)
(***************************************************************************)
THEOREM Refinement == Spec => HandoffSpec
<1>1. Init => Abstract!Init
  BY DEF Init, Abstract!Init
<1>2. IInv /\ [Next]_vars => [Abstract!Next]_Abstract!vars
  <2> SUFFICES ASSUME IInv, [Next]_vars, ~UNCHANGED Abstract!vars
               PROVE  Abstract!Next
    OBVIOUS
  <2> USE DEF Abstract!vars, Abstract!Next
  <2>1. CASE MainPush
    BY <2>1 DEF MainPush, Abstract!Put
  <2>2. CASE MainLock
    BY <2>2 DEF MainLock, Abstract!Spoil, IInv, TypeOK
  <2>3. CASE ThrStart
    BY <2>3 DEF ThrStart, Abstract!Spoil, IInv, TypeOK
  <2>4. CASE ThrExecute
    <3>1. pos \in 1..sent
      BY <2>4 DEF ThrExecute, IInv, TypeOK, LinksKnown, Known, Msg, Node, HEAD, NULL
    <3>2. ~overlap => pos = Len(executed) + 1
      BY <2>4 DEF ThrExecute, IInv, Intact, CursorRight, Removed
    <3> QED
      BY <2>4, <3>1, <3>2 DEF ThrExecute, Abstract!Serve
  <2> QED
    BY <2>1, <2>2, <2>3, <2>4
       DEF Next, MainStep, ThrStep, MainTail, MainStore, MainUnlock,
           MainBroadcast, ThrScan, ThrPeek, ThrDel, ThrStore, ThrFree, ThrWait,
           ThrTimeout, ThrRelock, Fault, vars
<1> QED
  BY <1>1, <1>2, Invariance, PTL DEF Spec, HandoffSpec, Abstract!Spec

=============================================================================

------------------------------ MODULE MsgQueue ------------------------------
(***************************************************************************)
(* The command queue of csv_msg.c.  The main thread pushes each command it *)
(* receives on the kernel-style doubly linked list head_msg, under         *)
(* mutex_msg, and broadcasts cond_msg; thr_msg runs csv_msg_loop: walk the *)
(* list with list_for_each_safe, execute, unlink and free every entry,     *)
(* then pthread_cond_timedwait for at most 5 s.                            *)
(*                                                                         *)
(* csv_msg_loop never calls pthread_mutex_lock.  Its first walk runs       *)
(* without mutex_msg, its first timedwait releases a mutex it does not     *)
(* own, and only the return of that wait takes the mutex, which every      *)
(* later walk then holds from end to end.                                  *)
(*                                                                         *)
(* The list is modelled at the level of its pointers.  A list operation    *)
(* first reads the pointers it needs and then has a set of stores to       *)
(* perform; they become visible one at a time in any order, as the         *)
(* compiler and the aarch64 memory model allow for plain stores between    *)
(* two synchronisation points.  Commands are the numbers 1, 2, ... in the  *)
(* order they are pushed; an entry's number stands for its address and     *)
(* for its contents.  A freed entry keeps its contents, but touching it    *)
(* may also end the process; its address is not given out again.           *)
(***************************************************************************)
EXTENDS Integers, Sequences

CONSTANTS
  MaxMsg,    (* bound: the number of commands the clients send             *)
  MaxExec    (* bound: the executions modelled; only a corrupted list      *)
             (* reaches it                                                 *)

ASSUME MsgQueueAssumption ==
  /\ MaxMsg \in Nat
  /\ MaxExec \in Nat
  /\ MaxMsg <= MaxExec

HEAD == 0                 \* &pMSG->head_msg.list
NULL == -1
NOSTORE == -2             \* no store to this location is outstanding
Msg == 1..MaxMsg
Node == 0..MaxMsg
Link == Node \cup {NULL}

MainPc == {"idle", "lock", "tail", "store", "bcast", "segv"}
ThrPc == {"start", "scan", "peek", "exec", "del", "unlink", "wait", "waiting",
          "relock", "segv"}

VARIABLES
  next, prev,       \* the list_head fields of every entry and of the head
  addNext, addPrev, \* the stores of the main thread that are not yet visible
  delNext, delPrev, \* those of thr_msg
  locked,           \* the lock word of mutex_msg; it records no owner
  mpc, sent,        \* main thread: where it is, the commands it has allocated
  tpc, pos, nxt,    \* thr_msg: where it is, the cursor (pos, n) of its walk
  executed,         \* the commands csv_msg_execute has run, oldest first
  overlap           \* history: the first walk of thr_msg, which is not under
                    \* the mutex, has overlapped a push

mem == <<next, prev, addNext, addPrev, delNext, delPrev>>
vars == <<next, prev, addNext, addPrev, delNext, delPrev, locked, mpc, sent,
          tpc, pos, nxt, executed, overlap>>

MainInList == mpc \in {"tail", "store"}
ThrInList == tpc \in {"scan", "peek", "exec", "del", "unlink", "wait"}

NoStores == [x \in Node |-> NOSTORE]

(***************************************************************************)
(* Entries that are not allocated yet hold NULL links: csv_msg_push clears *)
(* an entry with memset before it is linked.                               *)
(***************************************************************************)
Init ==
  /\ next = [x \in Node |-> IF x = HEAD THEN HEAD ELSE NULL]
  /\ prev = [x \in Node |-> IF x = HEAD THEN HEAD ELSE NULL]
  /\ addNext = NoStores /\ addPrev = NoStores
  /\ delNext = NoStores /\ delPrev = NoStores
  /\ locked = FALSE
  /\ mpc = "idle" /\ sent = 0
  /\ tpc = "start" /\ pos = HEAD /\ nxt = HEAD
  /\ executed = <<>>
  /\ overlap = FALSE

(* A NULL dereference ends the process, hence both threads. *)
Segv == mpc' = "segv" /\ tpc' = "segv"
Alive == mpc # "segv"

(* Entries that an earlier step of the walk has freed ... *)
Retired == IF tpc \in {"del", "unlink"} THEN Len(executed) - 1 ELSE Len(executed)
Freed(m) == \E i \in 1..Retired : executed[i] = m

(* ... and that a thread is about to read, to write or to free again.      *)
UseAfterFree ==
  \E m \in Msg :
    /\ Freed(m)
    /\ \/ tpc \in {"peek", "exec", "del", "unlink"} /\ pos = m
       \/ addNext[m] # NOSTORE \/ addPrev[m] # NOSTORE
       \/ delNext[m] # NOSTORE \/ delPrev[m] # NOSTORE

-----------------------------------------------------------------------------
(* Main thread: csv_msg_push. *)

MainPush ==
  /\ mpc = "idle"
  /\ sent < MaxMsg
  /\ sent' = sent + 1
  /\ mpc' = "lock"
  /\ UNCHANGED <<mem, locked, tpc, pos, nxt, executed, overlap>>

(* A slip: the push does without pthread_mutex_lock. *)
MainLockUnchecked ==
  /\ mpc = "lock"
  /\ locked' = TRUE
  /\ mpc' = "tail"
  /\ overlap' = (overlap \/ (ThrInList /\ ~locked))
  /\ UNCHANGED <<mem, sent, tpc, pos, nxt, executed>>

MainLock ==
  /\ mpc = "lock"
  /\ ~locked
  /\ locked' = TRUE
  /\ mpc' = "tail"
  /\ overlap' = (overlap \/ (ThrInList /\ ~locked))
  /\ UNCHANGED <<mem, sent, tpc, pos, nxt, executed>>

(* A slip: list_add for list_add_tail. *)
MainTailAtHead ==
  /\ mpc = "tail"
  /\ \/ /\ next[HEAD] = NULL
        /\ Segv
        /\ UNCHANGED <<addNext, addPrev>>
     \/ /\ next[HEAD] # NULL
        /\ addPrev' = [addPrev EXCEPT ![next[HEAD]] = sent, ![sent] = HEAD]
        /\ addNext' = [addNext EXCEPT ![sent] = next[HEAD], ![HEAD] = sent]
        /\ mpc' = "store"
        /\ UNCHANGED tpc
  /\ UNCHANGED <<next, prev, delNext, delPrev, locked, sent, pos, nxt,
                 executed, overlap>>

(* list_add_tail: read head->prev; the four stores of __list_add are due.  *)
(* A NULL tail is dereferenced by the last of them.                        *)
MainTail ==
  /\ mpc = "tail"
  /\ \/ /\ prev[HEAD] = NULL
        /\ Segv
        /\ UNCHANGED <<addNext, addPrev>>
     \/ /\ prev[HEAD] # NULL
        /\ addPrev' = [addPrev EXCEPT ![HEAD] = sent, ![sent] = prev[HEAD]]
        /\ addNext' = [addNext EXCEPT ![sent] = HEAD, ![prev[HEAD]] = sent]
        /\ mpc' = "store"
        /\ UNCHANGED tpc
  /\ UNCHANGED <<next, prev, delNext, delPrev, locked, sent, pos, nxt,
                 executed, overlap>>

MainStore(x) ==
  /\ mpc = "store"
  /\ \/ /\ addNext[x] # NOSTORE
        /\ next' = [next EXCEPT ![x] = addNext[x]]
        /\ addNext' = [addNext EXCEPT ![x] = NOSTORE]
        /\ UNCHANGED <<prev, addPrev>>
     \/ /\ addPrev[x] # NOSTORE
        /\ prev' = [prev EXCEPT ![x] = addPrev[x]]
        /\ addPrev' = [addPrev EXCEPT ![x] = NOSTORE]
        /\ UNCHANGED <<next, addNext>>
  /\ UNCHANGED <<delNext, delPrev, locked, mpc, sent, tpc, pos, nxt, executed,
                 overlap>>

(* A slip: the stores may become visible after the unlock. *)
MainUnlockEarly ==
  /\ mpc = "store"
  /\ locked' = FALSE
  /\ mpc' = "bcast"
  /\ UNCHANGED <<mem, sent, tpc, pos, nxt, executed, overlap>>

(* Unlocking makes every earlier store visible and frees the lock word,    *)
(* whoever took it.                                                        *)
MainUnlock ==
  /\ mpc = "store"
  /\ addNext = NoStores /\ addPrev = NoStores
  /\ locked' = FALSE
  /\ mpc' = "bcast"
  /\ UNCHANGED <<mem, sent, tpc, pos, nxt, executed, overlap>>

(* A slip: the push does not broadcast. *)
MainBroadcastNone ==
  /\ mpc = "bcast"
  /\ mpc' = "idle"
  /\ UNCHANGED <<mem, locked, sent, tpc, pos, nxt, executed, overlap>>

MainBroadcast ==
  /\ mpc = "bcast"
  /\ mpc' = "idle"
  /\ tpc' = IF tpc = "waiting" THEN "relock" ELSE tpc
  /\ UNCHANGED <<mem, locked, sent, pos, nxt, executed, overlap>>

-----------------------------------------------------------------------------
(* thr_msg: csv_msg_loop. *)

(* The thread begins its first walk, without the mutex. *)
ThrStart ==
  /\ tpc = "start"
  /\ tpc' = "scan"
  /\ overlap' = (overlap \/ MainInList)
  /\ UNCHANGED <<mem, locked, mpc, sent, pos, nxt, executed>>

(* pos = head->next *)
ThrScan ==
  /\ tpc = "scan"
  /\ pos' = next[HEAD]
  /\ tpc' = "peek"
  /\ UNCHANGED <<mem, locked, mpc, sent, nxt, executed, overlap>>

(* n = pos->next, before the entry is executed; then the loop condition.   *)
ThrPeek ==
  /\ tpc = "peek"
  /\ \/ /\ pos = NULL
        /\ Segv
        /\ UNCHANGED nxt
     \/ /\ pos # NULL
        /\ nxt' = next[pos]
        /\ tpc' = IF pos = HEAD THEN "wait" ELSE "exec"
        /\ UNCHANGED mpc
  /\ UNCHANGED <<mem, locked, sent, pos, executed, overlap>>

ThrExecute ==
  /\ tpc = "exec"
  /\ Len(executed) < MaxExec
  /\ executed' = Append(executed, pos)
  /\ tpc' = "del"
  /\ UNCHANGED <<mem, locked, mpc, sent, pos, nxt, overlap>>

(* A slip: the entry is freed without being unlinked. *)
ThrDelNone ==
  /\ tpc = "del"
  /\ tpc' = "unlink"
  /\ UNCHANGED <<mem, locked, mpc, sent, pos, nxt, executed, overlap>>

(* list_del: read entry->prev and entry->next; four stores are due.        *)
ThrDel ==
  /\ tpc = "del"
  /\ LET p == prev[pos]
         n == next[pos]
     IN  \/ /\ NULL \in {p, n}
            /\ Segv
            /\ UNCHANGED <<delNext, delPrev>>
         \/ /\ NULL \notin {p, n}
            /\ delPrev' = [delPrev EXCEPT ![n] = p, ![pos] = NULL]
            /\ delNext' = [delNext EXCEPT ![p] = n, ![pos] = NULL]
            /\ tpc' = "unlink"
            /\ UNCHANGED mpc
  /\ UNCHANGED <<next, prev, addNext, addPrev, locked, sent, pos, nxt,
                 executed, overlap>>

ThrStore(x) ==
  /\ tpc = "unlink"
  /\ \/ /\ delNext[x] # NOSTORE
        /\ next' = [next EXCEPT ![x] = delNext[x]]
        /\ delNext' = [delNext EXCEPT ![x] = NOSTORE]
        /\ UNCHANGED <<prev, delPrev>>
     \/ /\ delPrev[x] # NOSTORE
        /\ prev' = [prev EXCEPT ![x] = delPrev[x]]
        /\ delPrev' = [delPrev EXCEPT ![x] = NOSTORE]
        /\ UNCHANGED <<next, delNext>>
  /\ UNCHANGED <<addNext, addPrev, locked, mpc, sent, tpc, pos, nxt, executed,
                 overlap>>

(* free(task), then pos = n *)
ThrFree ==
  /\ tpc = "unlink"
  /\ delNext = NoStores /\ delPrev = NoStores
  /\ pos' = nxt
  /\ tpc' = "peek"
  /\ UNCHANGED <<mem, locked, mpc, sent, nxt, executed, overlap>>

(* A slip: the thread sleeps with the mutex held. *)
ThrWaitLocked ==
  /\ tpc = "wait"
  /\ tpc' = "waiting"
  /\ UNCHANGED <<mem, locked, mpc, sent, pos, nxt, executed, overlap>>

(* Entering pthread_cond_timedwait frees the lock word, owned or not.      *)
ThrWait ==
  /\ tpc = "wait"
  /\ locked' = FALSE
  /\ tpc' = "waiting"
  /\ UNCHANGED <<mem, mpc, sent, pos, nxt, executed, overlap>>

(* ETIMEDOUT after 5 s, or a spurious wakeup. *)
ThrTimeout ==
  /\ tpc = "waiting"
  /\ tpc' = "relock"
  /\ UNCHANGED <<mem, locked, mpc, sent, pos, nxt, executed, overlap>>

ThrRelock ==
  /\ tpc = "relock"
  /\ ~locked
  /\ locked' = TRUE
  /\ tpc' = "scan"
  /\ UNCHANGED <<mem, mpc, sent, pos, nxt, executed, overlap>>

-----------------------------------------------------------------------------
(* The allocator or the memory protection notices a use after free. *)
Fault ==
  /\ Alive
  /\ UseAfterFree
  /\ Segv
  /\ UNCHANGED <<mem, locked, sent, pos, nxt, executed, overlap>>

MainStep ==
  \/ MainLock \/ MainTail \/ MainUnlock \/ MainBroadcast
  \/ \E x \in Node : MainStore(x)

ThrStep ==
  \/ ThrStart \/ ThrScan \/ ThrPeek \/ ThrExecute \/ ThrDel \/ ThrFree
  \/ ThrWait \/ ThrTimeout \/ ThrRelock
  \/ \E x \in Node : ThrStore(x)

Next == MainPush \/ MainStep \/ ThrStep \/ Fault

(***************************************************************************)
(* Clients are free never to send again; a thread that can run does run,   *)
(* and a thread blocked on the mutex gets it if it is free again and again.*)
(***************************************************************************)
Fairness ==
  /\ WF_vars(MainStep)
  /\ SF_vars(MainLock)
  /\ WF_vars(ThrStep)
  /\ SF_vars(ThrRelock)

Spec == Init /\ [][Next]_vars
FairSpec == Spec /\ Fairness

-----------------------------------------------------------------------------
TypeOK ==
  /\ next \in [Node -> Link] /\ prev \in [Node -> Link]
  /\ addNext \in [Node -> Link \cup {NOSTORE}]
  /\ addPrev \in [Node -> Link \cup {NOSTORE}]
  /\ delNext \in [Node -> Link \cup {NOSTORE}]
  /\ delPrev \in [Node -> Link \cup {NOSTORE}]
  /\ locked \in BOOLEAN /\ overlap \in BOOLEAN
  /\ mpc \in MainPc /\ tpc \in ThrPc
  /\ sent \in Node
  /\ pos \in Link /\ nxt \in Link
  /\ executed \in Seq(Msg)

(***************************************************************************)
(* Outside an overlapped first walk the two threads never work on the list *)
(* at the same time, although csv_msg_loop takes the mutex only by         *)
(* returning from its waits.                                               *)
(***************************************************************************)
ListExclusive == ~overlap => ~(MainInList /\ ThrInList)

(***************************************************************************)
(* csv_msg_loop frees an entry while its walk goes on and the main thread  *)
(* may hold its address as the tail of the list: neither of them touches a *)
(* freed entry.                                                            *)
(***************************************************************************)
NoUseAfterFree == ~overlap => ~UseAfterFree

(***************************************************************************)
(* Commands are executed in the order csv_msg_push was called for them,    *)
(* each once, none skipped.                                                *)
(***************************************************************************)
InOrder ==
  /\ Len(executed) <= sent
  /\ \A i \in 1..Len(executed) : executed[i] = i
ExactlyOnceInOrder == ~overlap => InOrder

(***************************************************************************)
(* No wakeup is lost: when thr_msg sleeps in pthread_cond_timedwait, every *)
(* command has been executed except at most the one whose broadcast the    *)
(* main thread has yet to make.  The 5 s timeout is not needed.            *)
(***************************************************************************)
Drained ==
  \/ Len(executed) = sent
  \/ Len(executed) = sent - 1 /\ mpc \in {"lock", "tail", "store", "bcast"}
NoLostWakeup == ~overlap /\ tpc = "waiting" => Drained

(***************************************************************************)
(* Every command csv_msg_push accepts is eventually executed, unless the   *)
(* first walk of thr_msg has overlapped a push.                            *)
(***************************************************************************)
IsExecuted(m) == \E i \in 1..Len(executed) : executed[i] = m
CommandsExecuted ==
  \A m \in Msg : (sent >= m) ~> (IsExecuted(m) \/ overlap)

(***************************************************************************)
(* The queue is a hand-off, spoiled by an overlap: commands are executed   *)
(* exactly once and in order, and as long as freed entries keep their      *)
(* contents even a corrupted list yields only commands that were pushed.   *)
(***************************************************************************)
Abstract == INSTANCE Handoff WITH
  MaxItems <- MaxMsg, put <- sent, served <- executed, spoiled <- overlap
HandoffSpec == Abstract!Spec

(***************************************************************************)
(* What the comment "use timeo as a block and than retry" says of the wait *)
(* that times out: the next walk finds what this one did not, so that no   *)
(* command stays on the list for good.  (A crash, or the bound MaxExec,    *)
(* ends the claim.)                                                        *)
(***************************************************************************)
RetryFindsCommand ==
  \A m \in Msg :
    (sent >= m) ~> (IsExecuted(m) \/ ~Alive \/ Len(executed) = MaxExec)

-----------------------------------------------------------------------------
(* The inductive invariant behind the safety properties. *)

(* A link as it will be once the outstanding stores are visible. *)
Settled(add, del, link, x) ==
  IF add[x] # NOSTORE THEN add[x] ELSE IF del[x] # NOSTORE THEN del[x] ELSE link[x]
NextOf(x) == Settled(addNext, delNext, next, x)
PrevOf(x) == Settled(addPrev, delPrev, prev, x)

(* The list holds the commands Removed + 1 .. Added. *)
Added == IF mpc \in {"lock", "tail"} THEN sent - 1 ELSE sent
Removed == IF tpc = "del" THEN Len(executed) - 1 ELSE Len(executed)
First == IF Removed < Added THEN Removed + 1 ELSE HEAD
Last == IF Removed < Added THEN Added ELSE HEAD

(***************************************************************************)
(* The list is intact: followed in either direction from the head, through *)
(* the stores still outstanding, it holds exactly the commands pushed and  *)
(* not yet removed, in order.                                              *)
(***************************************************************************)
ListIntact ==
  /\ Removed <= Added
  /\ NextOf(HEAD) = First
  /\ PrevOf(HEAD) = Last
  /\ \A m \in (Removed + 1)..Added :
       /\ NextOf(m) = (IF m = Added THEN HEAD ELSE m + 1)
       /\ PrevOf(m) = (IF m = Removed + 1 THEN HEAD ELSE m - 1)

(* Stores are outstanding only inside the operation that makes them. *)
StoresConfined ==
  /\ mpc # "store" => addNext = NoStores /\ addPrev = NoStores
  /\ tpc # "unlink" => delNext = NoStores /\ delPrev = NoStores

(* Outstanding stores go to entries that have not been freed. *)
StoresLive ==
  /\ \A x \in Msg : addNext[x] # NOSTORE \/ addPrev[x] # NOSTORE => x > Len(executed)
  /\ \A x \in Msg : delNext[x] # NOSTORE \/ delPrev[x] # NOSTORE => x >= Len(executed)

(* The walk of thr_msg is at the head of the list, and knows what follows. *)
CursorRight ==
  /\ tpc = "peek" => pos = First
  /\ tpc \in {"exec", "del"} =>
       /\ pos = Removed + 1 /\ pos <= Added
       /\ nxt = (IF pos = Added THEN HEAD ELSE pos + 1)
  /\ tpc = "unlink" => pos = Removed /\ nxt = First
  /\ tpc = "wait" => Removed = Added

(***************************************************************************)
(* The lock word is set while the main thread is in the list; while it is  *)
(* clear, thr_msg is in the list only on its first walk, and then the main *)
(* thread would overlap it.                                                *)
(***************************************************************************)
LockRight ==
  /\ MainInList => locked /\ ~ThrInList
  /\ locked => MainInList \/ ThrInList

Intact ==
  /\ Alive
  /\ LockRight
  /\ StoresConfined
  /\ StoresLive
  /\ InOrder
  /\ ListIntact
  /\ CursorRight
  /\ tpc = "waiting" => Drained

(* Every link leads to a command that has been pushed. *)
Known == HEAD..sent \cup {NULL}
LinksKnown ==
  /\ \A x \in Node : /\ next[x] \in Known /\ prev[x] \in Known
                     /\ addNext[x] \in Known \cup {NOSTORE}
                     /\ addPrev[x] \in Known \cup {NOSTORE}
                     /\ delNext[x] \in Known \cup {NOSTORE}
                     /\ delPrev[x] \in Known \cup {NOSTORE}
  /\ pos \in Known /\ nxt \in Known
  /\ tpc \in {"exec", "del"} => pos \in Msg

IInv ==
  /\ TypeOK
  /\ mpc = "segv" <=> tpc = "segv"
  /\ mpc \notin {"idle", "segv"} => sent > 0
  /\ LinksKnown
  /\ ~overlap => Intact

=============================================================================

----------------------------- MODULE GrabTrigger -----------------------------
(***************************************************************************)
(* How a series is asked for.  An edge on an input (csv_gpi_trigger, in    *)
(* the main loop) stores the kind of the series in pMVS->grab_type and     *)
(* then broadcasts cond_grab, both without a lock; the commands that do    *)
(* the same in csv_msg.c are not enrolled.  thr_grab waits for the         *)
(* broadcast with no predicate, opens the cameras, and only then looks at  *)
(* grab_type.                                                              *)
(*                                                                         *)
(* Triggers are numbered as they are stored, and a number stands for the   *)
(* kind that its trigger asks for; 0 is what csv_global_init leaves.       *)
(* Cameras and ScanSeries have the series itself.  pthread_cond_wait does  *)
(* not fail, but may return with no broadcast.                             *)
(***************************************************************************)
EXTENDS Naturals, Sequences

CONSTANT MaxTriggers \* bound: the triggers, and the series before a spurious wakeup

VARIABLES
  last,       \* how many triggers there were
  grab_type,  \* pMVS->grab_type: the trigger that stored it
  calling,    \* the trigger that is stored and not broadcast, or 0
  grab,       \* thr_grab: away, in its wait, or woken and opening the cameras
  woke,       \* the trigger whose broadcast woke it; 0 if there was none
  taken,      \* history: of each series, what woke thr_grab and what it took
  lost,       \* history: triggers broadcast while thr_grab did not wait
  crossed     \* history: triggers of which one was stored while the other
              \* (0: a spurious wakeup) was under way

trigVars == <<last, grab_type, calling, grab, woke, taken, lost, crossed>>

TrigInit ==
  /\ last = 0 /\ grab_type = 0 /\ calling = 0
  /\ grab = "away" /\ woke = 0
  /\ taken = <<>> /\ lost = {} /\ crossed = {}

(* The triggers stored that have not come to their series or got lost.     *)
Calling == {calling} \ {0}
Opening == IF grab = "woken" THEN {woke} ELSE {}
UnderWay == (Calling \cup Opening) \ {0}

Store ==
  /\ calling = 0 /\ last < MaxTriggers
  /\ last' = last + 1
  /\ grab_type' = last'
  /\ calling' = last'
  /\ crossed' = crossed \cup
       (IF Opening = {} THEN {} ELSE Opening \cup {last'})
  /\ UNCHANGED <<grab, woke, taken, lost>>

Broadcast ==
  /\ calling # 0
  /\ calling' = 0
  /\ \/ grab = "wait" /\ grab' = "woken" /\ woke' = calling /\ UNCHANGED lost
     \/ grab # "wait" /\ lost' = lost \cup {calling} /\ UNCHANGED <<grab, woke>>
  /\ UNCHANGED <<last, grab_type, taken, crossed>>

SpuriousWakeup ==
  /\ grab = "wait" /\ grab' = "woken" /\ woke' = 0
  /\ Len(taken) < MaxTriggers
  /\ crossed' = crossed \cup Calling
  /\ UNCHANGED <<last, grab_type, calling, taken, lost>>

(* The cameras are open: the switch over grab_type, and the series.        *)
Switch ==
  /\ grab = "woken" /\ grab' = "away"
  /\ taken' = Append(taken, [woke |-> woke, type |-> grab_type])
  /\ woke' = 0
  /\ UNCHANGED <<last, grab_type, calling, lost, crossed>>

(* The series is over, or the thread has just started. *)
WaitAgain ==
  /\ grab = "away" /\ grab' = "wait"
  /\ UNCHANGED <<last, grab_type, calling, woke, taken, lost, crossed>>

TrigNext ==
  \/ Store \/ Broadcast
  \/ SpuriousWakeup \/ Switch \/ WaitAgain

TrigSpec == TrigInit /\ [][TrigNext]_trigVars

-----------------------------------------------------------------------------
TrigTypeOK ==
  /\ last \in Nat /\ grab_type \in 0..last
  /\ calling \in 0..last /\ woke \in 0..last
  /\ grab \in {"away", "wait", "woken"}
  /\ taken \in Seq([woke : Nat, type : Nat])
  /\ lost \subseteq 1..last /\ crossed \subseteq 0..last

(***************************************************************************)
(* The series that a trigger starts is of the kind it asked for, although  *)
(* the cameras are opened in between: unless another trigger was stored    *)
(* between its store and the switch.                                       *)
(***************************************************************************)
OwnKind ==
  \A i \in 1..Len(taken) :
    taken[i].woke \notin crossed \cup {0} => taken[i].type = taken[i].woke

(***************************************************************************)
(* A trigger gets one series: there is a second one only if it crossed     *)
(* another trigger, whose broadcast comes when its own series is over, or  *)
(* if thr_grab wakes for no reason.                                        *)
(***************************************************************************)
OneSeriesEach ==
  \A i, j \in 1..Len(taken) :
    i < j /\ taken[i].type = taken[j].type => taken[j].woke \in crossed \cup {0}

(***************************************************************************)
(* A trigger that crossed no other gets its series, or it was broadcast    *)
(* while thr_grab did not wait.                                            *)
(***************************************************************************)
NoneForgotten ==
  \A n \in (1..last) \ crossed :
    n \in lost \cup UnderWay \cup {taken[i].type : i \in 1..Len(taken)}

(* What they rest on: a trigger that is to be broadcast while thr_grab     *)
(* opens the cameras has crossed; one that has not is the last, and has no *)
(* series yet.                                                             *)
Alone ==
  /\ calling # 0 /\ grab = "woken" => calling \in crossed
  /\ \A n \in UnderWay \ crossed :
       n = last /\ \A i \in 1..Len(taken) : taken[i].type # n
Known == \A i \in 1..Len(taken) : {taken[i].woke, taken[i].type} \subseteq 0..last
TrigInv ==
  /\ TrigTypeOK
  /\ grab_type = last
  /\ grab # "woken" => woke = 0
  /\ Alone
  /\ Known
  /\ OwnKind /\ OneSeriesEach /\ NoneForgotten
=============================================================================

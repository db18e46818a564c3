------------------------------- MODULE Handoff -------------------------------
(***************************************************************************)
(* What a work queue between two threads promises: the items put into it,  *)
(* numbered in the order they are put, are served each exactly once and in *)
(* order.  A queue whose memory two threads have touched at the same time  *)
(* is spoiled: it may then skip and repeat items, but still serves nothing *)
(* that was not put.                                                       *)
(***************************************************************************)
EXTENDS Naturals, Sequences

CONSTANT MaxItems (* the number of items ever put, a natural number *)

VARIABLES
  put,      (* the number of items put so far *)
  served,   (* the items served so far, oldest first *)
  spoiled   (* whether the queue has been spoiled *)

vars == <<put, served, spoiled>>

Init ==
  /\ put = 0
  /\ served = <<>>
  /\ spoiled = FALSE

Put ==
  /\ put < MaxItems
  /\ put' = put + 1
  /\ UNCHANGED <<served, spoiled>>

Serve ==
  /\ \E item \in 1..put :
       /\ ~spoiled => item = Len(served) + 1
       /\ served' = Append(served, item)
  /\ UNCHANGED <<put, spoiled>>

Spoil ==
  /\ spoiled' = TRUE
  /\ UNCHANGED <<put, served>>

Next == Put \/ Serve \/ Spoil

Spec == Init /\ [][Next]_vars
==============================================================================

------------------------------ MODULE Lifetime ------------------------------
(***************************************************************************)
(* The working-hour file (csv_life.c): how many minutes the service has    *)
(* worked in all, in this run and in the last one, and how often it was    *)
(* started.  Every process of the program reads the file first of all      *)
(* (csv_life_init), and makes one of zeros if there is nothing in it; only *)
(* then it asks for the pid lock, which makes it the service, or exits.    *)
(* The service counts its start when csv_init is over (csv_life_start) and *)
(* then each minute (csv_life_update).  csv_file_write_data truncates the  *)
(* file, then writes it.                                                   *)
(*                                                                         *)
(* A process may be started at any time: by hand, to print the hours (-t), *)
(* or by the heartbeat daemon; it may crash or be killed at any step.  The *)
(* disk has room.  The counters do not reach 2^32 minutes.                 *)
(***************************************************************************)
EXTENDS Naturals

CONSTANTS
  Proc,        (* the processes that may exist at a time                    *)
  MaxLaunched, (* bound: the processes ever started                         *)
  MaxMinutes   (* bound: the minutes the service works                      *)

ASSUME LifetimeAssumption == MaxLaunched \in Nat /\ MaxMinutes \in Nat

Hours == [total : Nat, current : Nat, last : Nat, count : Nat]
Zero == [total |-> 0, current |-> 0, last |-> 0, count |-> 0]
Nothing == [empty |-> TRUE]     \* no file, or an empty one

(* What csv_life_start and csv_life_update make of the hours h. *)
Started(h) ==
  [total |-> h.total, current |-> 0, last |-> h.current, count |-> h.count + 1]
Worked(h) ==
  [total |-> h.total + 1, current |-> h.current + 1, last |-> h.last, count |-> h.count]

VARIABLES
  file,      \* what the file holds
  lock,      \* the processes that hold the pid lock
  pc,        \* of each process: where it is
  life,      \* of each process: pLIFE
  launched, minutes, \* how many there were
  truth,     \* history: the hours of the service that it has finished writing
  fresh,     \* history: the processes that have the last hours written
  zeroed,    \* history: a process made zeros of the hours of a service
  stale      \* history: a process took the lock with old hours

past == <<truth, fresh, zeroed, stale>>
lifeVars == <<file, lock, pc, life, launched, minutes, past>>

LifeInit ==
  /\ file = Nothing /\ lock = {}
  /\ pc = [p \in Proc |-> "off"] /\ life = [p \in Proc |-> Zero]
  /\ launched = 0 /\ minutes = 0
  /\ truth = Zero /\ fresh = {} /\ zeroed = FALSE /\ stale = FALSE

Go(p, from, to) == pc[p] = from /\ pc' = [pc EXCEPT ![p] = to]

Launch(p) ==
  /\ launched < MaxLaunched /\ launched' = launched + 1
  /\ Go(p, "off", "read")
  /\ life' = [life EXCEPT ![p] = Zero]
  /\ UNCHANGED <<file, lock, minutes, past>>

(* csv_life_init: there may be nothing to read. *)
Read(p) ==
  /\ IF file = Nothing
     THEN Go(p, "read", "truncate0") /\ UNCHANGED life
     ELSE Go(p, "read", "lock") /\ life' = [life EXCEPT ![p] = file]
  /\ fresh' = fresh \cup {p}
  /\ UNCHANGED <<file, lock, launched, minutes, truth, zeroed, stale>>

(* csv_file_write_data for csv_life_init: fopen, then fwrite of zeros.     *)
TruncateZero(p) ==
  /\ Go(p, "truncate0", "write0")
  /\ file' = Nothing
  /\ zeroed' = (zeroed \/ truth # Zero)
  /\ UNCHANGED <<lock, life, launched, minutes, truth, fresh, stale>>

WriteZero(p) ==
  /\ Go(p, "write0", "lock")
  /\ file' = life[p]
  /\ zeroed' = (zeroed \/ truth # Zero)
  /\ UNCHANGED <<lock, life, launched, minutes, truth, fresh, stale>>

(* file_lifetime_write of the service: fopen. *)
Truncate(p) ==
  /\ Go(p, "truncate", "write")
  /\ file' = Nothing
  /\ UNCHANGED <<lock, life, launched, minutes, past>>

(* fwrite and fclose.  What the others have read is old now.               *)
Write(p) ==
  /\ Go(p, "write", "run")
  /\ file' = life[p]
  /\ truth' = IF life[p].current = 0 THEN Started(truth) ELSE Worked(truth)
  /\ fresh' = fresh \cap {p}
  /\ UNCHANGED <<lock, life, launched, minutes, zeroed, stale>>

(* csv_lock_pid, or `-t': one process is the service, the others exit.     *)
Lock(p) ==
  /\ lock = {} /\ Go(p, "lock", "init")
  /\ lock' = {p}
  /\ stale' = (stale \/ p \notin fresh)
  /\ UNCHANGED <<file, life, launched, minutes, truth, fresh, zeroed>>

Leave(p) ==
  /\ Go(p, "lock", "off")
  /\ fresh' = fresh \ {p}
  /\ UNCHANGED <<file, lock, life, launched, minutes, truth, zeroed, stale>>

(* A slip: csv_life_start clears the minutes before it keeps them.         *)
LifeStartReset(p) ==
  /\ Go(p, "init", "truncate")
  /\ life' = [life EXCEPT ![p] = [Started(life[p]) EXCEPT !.last = 0]]
  /\ UNCHANGED <<file, lock, launched, minutes, past>>

(* csv_life_start, at the end of csv_init. *)
LifeStart(p) ==
  /\ Go(p, "init", "truncate")
  /\ life' = [life EXCEPT ![p] = Started(life[p])]
  /\ UNCHANGED <<file, lock, launched, minutes, past>>

(* csv_life_update, in the tick of each minute. *)
LifeUpdate(p) ==
  /\ minutes < MaxMinutes /\ minutes' = minutes + 1
  /\ Go(p, "run", "truncate")
  /\ life' = [life EXCEPT ![p] = Worked(life[p])]
  /\ UNCHANGED <<file, lock, launched, past>>

Crash(p) ==
  /\ pc[p] # "off" /\ pc' = [pc EXCEPT ![p] = "off"]
  /\ lock' = lock \ {p}
  /\ fresh' = fresh \ {p}
  /\ UNCHANGED <<file, life, launched, minutes, truth, zeroed, stale>>

LifeNext == \E p \in Proc :
  \/ Launch(p) \/ Read(p) \/ TruncateZero(p) \/ WriteZero(p)
  \/ Truncate(p) \/ Write(p) \/ Lock(p) \/ Leave(p) \/ LifeStart(p) \/ LifeUpdate(p) \/ Crash(p)

LifeSpec == LifeInit /\ [][LifeNext]_lifeVars

-----------------------------------------------------------------------------
State == {"off", "read", "truncate0", "write0", "lock", "init", "truncate",
          "write", "run"}
Serving == {"init", "truncate", "write", "run"}

LifeTypeOK ==
  /\ file \in Hours \cup {Nothing} /\ lock \subseteq Proc
  /\ pc \in [Proc -> State] /\ life \in [Proc -> Hours]
  /\ launched \in Nat /\ minutes \in Nat
  /\ truth \in Hours /\ fresh \subseteq Proc
  /\ zeroed \in BOOLEAN /\ stale \in BOOLEAN

(* While the service works, its hours and those in the file are what the   *)
(* services so far have worked, with the start of each: whatever crashed,  *)
(* was started twice, or printed the hours in between.  Except that a      *)
(* process which meets the file while it is truncated (after a crash, or   *)
(* because it reads before it has the lock) makes all of them zero, and    *)
(* one that reads before a service's last write but gets the lock after it *)
(* goes on from the old hours.                                             *)
HoursKept ==
  ~zeroed /\ ~stale =>
    \A p \in lock : pc[p] = "run" => life[p] = truth /\ file = truth

(* HoursKept and what it rests on: the lock is exclusive, and as long as   *)
(* no hours were made zero, the file holds nothing or the hours, and each  *)
(* process that has read the last hours has them still.                    *)
LockHeld ==
  \A p, q \in Proc : /\ p \in lock <=> pc[p] \in Serving
                     /\ p \in lock /\ q \in lock => p = q

HoursKnown ==
  /\ file \in {Nothing, truth}
  /\ \A p \in Proc :
       /\ pc[p] = "lock" /\ p \in fresh => life[p] = truth
       /\ pc[p] = "init" => life[p] = truth
       /\ pc[p] \in {"truncate", "write"} => life[p] \in {Started(truth), Worked(truth)}
       /\ pc[p] = "run" => life[p] = truth /\ file = truth
       /\ pc[p] = "run" => truth # Zero

LifeIInv ==
  /\ LifeTypeOK
  /\ LockHeld
  /\ \A p \in Proc : pc[p] \in {"read", "truncate0", "write0"} => life[p] = Zero
  /\ ~zeroed /\ ~stale => HoursKnown
=============================================================================

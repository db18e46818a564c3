------------------------------ MODULE Watchdog ------------------------------
(***************************************************************************)
(* The heartbeat daemon of csv_hb.c.  The service forks it before csv_init *)
(* and then writes a beacon into a pipe once per second, from the tick of  *)
(* its main loop.  The daemon selects on the pipe for 2 s at a time; after *)
(* 5 timeouts in a row, or when the pipe breaks, it kills the service,     *)
(* runs its command line again and exits.                                  *)
(*                                                                         *)
(* The main loop also reads client commands and pushes them to thr_msg     *)
(* under mutex_msg, which thr_msg holds while it executes (MsgQueue): a    *)
(* command sent while another is being executed stops the loop, and with   *)
(* it the beacons, until that one is done.                                 *)
(*                                                                         *)
(* Time passes in seconds.  Whatever is ready to run does so before the    *)
(* next second: the machine's scheduling delays are below a second.        *)
(***************************************************************************)
EXTENDS Integers

CONSTANTS
  MaxInit,    (* the longest csv_init can take, in seconds                  *)
  MaxCmd,     (* the longest thr_msg holds mutex_msg, in seconds            *)
  MaxAhead,   (* how many commands the client may send, between two beacons,*)
              (* while an earlier one is still being executed               *)
  MaxLaunch   (* bound: the number of relaunches modelled                   *)

ASSUME WatchdogAssumption ==
  /\ MaxInit \in Nat /\ MaxCmd \in Nat /\ MaxAhead \in Nat /\ MaxLaunch \in Nat

TICKS == 10        \* TICKS_PER_SECOND
SELECT == 2        \* the select timeout of the daemon, in seconds
(* A slip: one timeout more before the service is given up. *)
HEARTBEAT_TIMEO_LATE == 6
HEARTBEAT_TIMEO == 5
Limit == 10        \* SELECT * HEARTBEAT_TIMEO: the silence that kills

VARIABLES
  proc,     \* the service: what its main thread is doing
  initLeft, \* seconds of csv_init to go
  cmd,      \* seconds for which thr_msg will hold mutex_msg
  ahead,    \* pushes that waited for mutex_msg since the last beacon
  cnt,      \* pTICK->cnt modulo TICKS
  due,      \* the tick that writes the beacon is ready
  late,     \* a tick passed in the round that was stopped, after its select:
            \* the timer is in the next snapshot
  pipe,     \* beacons in the pipe
  silent,   \* history: seconds since the last beacon was written
  daemon,   \* the daemon
  wait,     \* seconds until its select times out
  timeo,    \* consecutive timeouts
  launches  \* relaunches so far

svc == <<proc, initLeft, cmd, ahead, cnt, due, late>>
dmn == <<daemon, wait, timeo, launches>>
vars == <<proc, initLeft, cmd, ahead, cnt, due, late, pipe, silent, daemon, wait,
          timeo, launches>>

Running == {"init", "loop", "blocked"}
ProcState == Running \cup {"hung", "dying", "gone"}
DaemonState == {"watch", "relaunch", "stopped", "failed"}

(* csv_hb_init: the process has the pid lock and forks the daemon. *)
Start ==
  /\ proc' = "init"
  /\ initLeft' \in 0..MaxInit
  /\ cmd' = 0 /\ ahead' = 0 /\ cnt' = 0 /\ due' = FALSE /\ late' = FALSE
  /\ pipe' = 0 /\ silent' = 0
  /\ daemon' = "watch" /\ wait' = SELECT /\ timeo' = 0

Init ==
  /\ proc = "init"
  /\ initLeft \in 0..MaxInit
  /\ cmd = 0 /\ ahead = 0 /\ cnt = 0 /\ due = FALSE /\ late = FALSE
  /\ pipe = 0 /\ silent = 0
  /\ daemon = "watch" /\ wait = SELECT /\ timeo = 0
  /\ launches = 0

-----------------------------------------------------------------------------
(* The service. *)

MainLoop ==
  /\ proc = "init" /\ initLeft = 0
  /\ proc' = "loop"
  /\ UNCHANGED <<initLeft, cmd, ahead, cnt, due, late, pipe, silent, dmn>>

(* A beacon is lost if nobody holds the other end of the pipe. *)
WriteBeacon ==
  /\ pipe' = IF daemon = "watch" THEN pipe + 1 ELSE 0
  /\ silent' = 0
  /\ ahead' = 0

(* The tenth tick of a second in which the loop was never stopped. *)
Beat ==
  /\ proc = "loop" /\ due /\ ~late
  /\ due' = FALSE
  /\ WriteBeacon
  /\ UNCHANGED <<proc, initLeft, cmd, cnt, late, dmn>>

(* One tick is read, however many periods of the timer have passed. *)
ReadTick ==
  /\ late' = FALSE /\ due' = FALSE
  /\ cnt' = IF due THEN cnt ELSE (cnt + 1) % TICKS
  /\ \/ (due \/ cnt' = 0) /\ WriteBeacon
     \/ ~due /\ cnt' # 0 /\ UNCHANGED <<ahead, pipe, silent>>

(* The round after one that was stopped, without a command of its own. *)
LateTick ==
  /\ proc = "loop" /\ late
  /\ ReadTick
  /\ UNCHANGED <<proc, initLeft, cmd, dmn>>

(* A command arrives while thr_msg is waiting: it runs for d seconds. *)
Command ==
  /\ proc = "loop" /\ cmd = 0
  /\ \E d \in 1..MaxCmd : cmd' = d
  /\ UNCHANGED <<proc, initLeft, ahead, cnt, due, late, pipe, silent, dmn>>

(* A command arrives while thr_msg executes another: csv_msg_push blocks,  *)
(* in a round whose snapshot may have the timer, which is read after it.   *)
CommandAhead ==
  /\ proc = "loop" /\ cmd > 0
  /\ ahead < MaxAhead
  /\ ahead' = ahead + 1
  /\ proc' = "blocked"
  /\ UNCHANGED <<initLeft, cmd, cnt, due, late, pipe, silent, dmn>>

(* thr_msg waits, the push goes through and its command starts.  The same  *)
(* round of the loop then reads the timer if the snapshot has it.  If its  *)
(* period passed only after select, the next round reads it, and again     *)
(* after the client's next command if that has come by then.               *)
Unblock ==
  /\ proc = "blocked" /\ cmd = 0
  /\ proc' = "loop"
  /\ \E d \in 1..MaxCmd : cmd' = d
  /\ \/ ReadTick
     \/ ~late /\ late' = TRUE /\ UNCHANGED <<ahead, cnt, due, pipe, silent>>
  /\ UNCHANGED <<initLeft, dmn>>

(* The main thread stops for good: a deadlock, a driver that never answers. *)
Hang ==
  /\ proc \in Running
  /\ proc' = "hung"
  /\ UNCHANGED <<initLeft, cmd, ahead, cnt, due, late, pipe, silent, dmn>>

(* The process ends and closes the pipe: csv_stop on SIGINT, csv_trace on  *)
(* SIGSEGV or SIGABRT, any other fatal signal.                             *)
Exit ==
  /\ proc \in Running \cup {"hung"}
  /\ proc' = "gone"
  /\ UNCHANGED <<initLeft, cmd, ahead, cnt, due, late, pipe, silent, dmn>>

(* SIGINT from the terminal reaches the service and the daemon together.   *)
Interrupt ==
  /\ proc \in Running \cup {"hung"}
  /\ daemon = "watch"
  /\ proc' = "gone"
  /\ daemon' = "stopped"
  /\ UNCHANGED <<initLeft, cmd, ahead, cnt, due, late, pipe, silent, wait, timeo,
                 launches>>

(* A process that was sent SIGKILL is gone once the kernel is done with it. *)
Reap ==
  /\ proc = "dying"
  /\ proc' = "gone"
  /\ UNCHANGED <<initLeft, cmd, ahead, cnt, due, late, pipe, silent, dmn>>

-----------------------------------------------------------------------------
(* The daemon: csv_hb_server_init. *)

(* A slip: a beacon does not reset the count of timeouts. *)
DaemonReadOnly ==
  /\ daemon = "watch" /\ pipe > 0
  /\ pipe' = IF pipe > 4 THEN pipe - 4 ELSE 0
  /\ wait' = SELECT
  /\ UNCHANGED <<svc, silent, daemon, timeo, launches>>

(* csv_hb_read takes up to 16 bytes, four beacons. *)
DaemonRead ==
  /\ daemon = "watch" /\ pipe > 0
  /\ pipe' = IF pipe > 4 THEN pipe - 4 ELSE 0
  /\ timeo' = 0
  /\ wait' = SELECT
  /\ UNCHANGED <<svc, silent, daemon, launches>>

Silence == daemon = "watch" /\ pipe = 0 /\ proc # "gone" /\ wait = 0

DaemonTimeout ==
  /\ Silence
  /\ timeo + 1 < HEARTBEAT_TIMEO
  /\ timeo' = timeo + 1
  /\ wait' = SELECT
  /\ UNCHANGED <<svc, pipe, silent, daemon, launches>>

DaemonLost ==
  /\ Silence
  /\ timeo + 1 >= HEARTBEAT_TIMEO
  /\ timeo' = timeo + 1
  /\ daemon' = "relaunch"
  /\ proc' = "dying"
  /\ UNCHANGED <<initLeft, cmd, ahead, cnt, due, late, pipe, silent, wait, launches>>

(* A slip: the end of file is not noticed. *)
DaemonDeaf == FALSE

(* End of file. *)
DaemonBroken ==
  /\ daemon = "watch" /\ pipe = 0 /\ proc = "gone"
  /\ daemon' = "relaunch"
  /\ UNCHANGED <<svc, pipe, silent, wait, timeo, launches>>

(* The command line runs again: the new process gets the pid lock and      *)
(* forks a daemon of its own, or finds the lock still held and exits.  The *)
(* old daemon exits either way.                                            *)
DaemonRelaunch ==
  /\ daemon = "relaunch"
  /\ \/ /\ proc = "gone"
        /\ launches < MaxLaunch
        /\ launches' = launches + 1
        /\ Start
     \/ /\ proc = "dying"
        /\ daemon' = "failed"
        /\ UNCHANGED <<svc, pipe, silent, wait, timeo, launches>>

(* The daemon is killed, or its select fails. *)
DaemonStops ==
  /\ daemon = "watch"
  /\ daemon' = "stopped"
  /\ pipe' = 0
  /\ UNCHANGED <<svc, silent, wait, timeo, launches>>

-----------------------------------------------------------------------------
(* Nothing is ready to run. *)
Quiescent ==
  /\ ~(proc = "loop" /\ (due \/ late))
  /\ ~(proc = "blocked" /\ cmd = 0)
  /\ ~(proc = "init" /\ initLeft = 0)
  /\ ~(daemon = "watch" /\ (pipe > 0 \/ wait = 0 \/ proc = "gone"))
  /\ daemon # "relaunch"

Down(n) == IF n > 0 THEN n - 1 ELSE 0

Clock ==
  /\ Quiescent
  /\ proc \in Running \cup {"hung"}
  /\ initLeft' = Down(initLeft)
  /\ cmd' = Down(cmd)
  /\ due' = (due \/ proc = "loop")
  /\ silent' = IF silent > Limit THEN silent ELSE silent + 1
  /\ wait' = Down(wait)
  /\ UNCHANGED <<proc, ahead, cnt, late, pipe, daemon, timeo, launches>>

Service ==
  \/ MainLoop \/ Beat \/ LateTick \/ Unblock \/ Reap
Watch ==
  \/ DaemonRead \/ DaemonTimeout \/ DaemonLost \/ DaemonBroken
  \/ DaemonRelaunch
Environment ==
  \/ Command \/ CommandAhead \/ Hang \/ Exit \/ Interrupt \/ DaemonStops

Next == Service \/ Watch \/ Environment \/ Clock

(* Processes that can run do run, and time passes. *)
Fairness ==
  /\ WF_vars(MainLoop) /\ WF_vars(Beat \/ LateTick) /\ WF_vars(Unblock)
  /\ WF_vars(Reap)
  /\ WF_vars(Watch)
  /\ WF_vars(Clock)

Spec == Init /\ [][Next]_vars
FairSpec == Spec /\ Fairness

-----------------------------------------------------------------------------
TypeOK ==
  /\ proc \in ProcState /\ daemon \in DaemonState
  /\ initLeft \in 0..MaxInit /\ cmd \in 0..MaxCmd /\ ahead \in 0..MaxAhead
  /\ cnt \in 0..(TICKS - 1) /\ due \in BOOLEAN /\ late \in BOOLEAN
  /\ pipe \in Nat /\ silent \in Nat /\ launches \in 0..MaxLaunch
  /\ wait \in 0..SELECT /\ timeo \in 0..HEARTBEAT_TIMEO

(***************************************************************************)
(* The daemon kills only a service whose main thread really has stopped:   *)
(* never one that is starting up, going round its loop, or waiting for     *)
(* thr_msg to finish a command.                                            *)
(***************************************************************************)
HealthySpared == [][proc' = "dying" /\ proc # "dying" => proc = "hung"]_vars

(***************************************************************************)
(* While the daemon watches, the service is never silent for more than     *)
(* five selects of two seconds: by then a stopped one has been killed.     *)
(***************************************************************************)
SilenceBounded ==
  daemon = "watch" /\ proc # "gone" => silent <= Limit

(***************************************************************************)
(* A watched service that ends is eventually running again, short of the   *)
(* daemon being stopped or of the bound on relaunches; so is one that      *)
(* hangs, unless the process just killed still holds the pid lock when its *)
(* replacement asks for it.                                                *)
(***************************************************************************)
Replaced == proc \in Running \/ daemon = "stopped" \/ launches = MaxLaunch
LostIsReplaced ==
  /\ (daemon = "watch" /\ proc = "gone") ~> Replaced
  /\ (daemon = "watch" /\ proc = "hung") ~> (Replaced \/ daemon = "failed")

=============================================================================

---------------------------- MODULE ServiceProofs ----------------------------
(***************************************************************************)
(* The service from outside: the daemon that watches it, and the hours it  *)
(* keeps from one process to the next.                                     *)
(* Watchdog, for any durations of csv_init and of commands: a service that *)
(* the daemon watches is never silent for longer than five selects, and if *)
(* start-up and the commands that may wait for mutex_msg between two       *)
(* beacons take less than that, only a hung service is killed.             *)
(* Lifetime, for any number of processes, of starts and of crashes: the    *)
(* invariant follows the hours from the file to the process that reads     *)
(* them, through the pid lock, into the service and back to the file.      *)
(***************************************************************************)
EXTENDS Watchdog, Lifetime, TLAPS

LEMMA Bounds ==
  /\ MaxInit \in Nat /\ MaxCmd \in Nat /\ MaxAhead \in Nat /\ MaxLaunch \in Nat
  /\ TICKS = 10 /\ SELECT = 2 /\ HEARTBEAT_TIMEO = 5 /\ Limit = 10
BY WatchdogAssumption DEF TICKS, SELECT, HEARTBEAT_TIMEO, Limit

LEMMA Ranges ==
  /\ 0 \in 0..MaxInit /\ 0 \in 0..MaxCmd /\ 0 \in 0..MaxAhead /\ 0 \in 0..MaxLaunch
  /\ 0 \in 0..(TICKS - 1) /\ 0 \in 0..SELECT /\ SELECT \in 0..SELECT
  /\ 0 \in 0..HEARTBEAT_TIMEO
  /\ 1..MaxCmd \subseteq 0..MaxCmd
  /\ \A t \in 0..HEARTBEAT_TIMEO :
       t < HEARTBEAT_TIMEO => t + 1 \in 0..HEARTBEAT_TIMEO
BY Bounds

LEMMA DownBelow ==
  ASSUME NEW b \in Nat, NEW n \in 0..b
  PROVE  Down(n) \in 0..b /\ (n > 0 => Down(n) = n - 1)
BY DEF Down

-----------------------------------------------------------------------------
(* What the daemon has measured: while it watches an empty pipe, its       *)
(* timeouts and the select under way add up to the silence; a beacon in    *)
(* the pipe is not a second old.                                           *)
Measured ==
  daemon = "watch" /\ proc # "gone" =>
    /\ proc # "dying"
    /\ timeo < HEARTBEAT_TIMEO
    /\ pipe > 0 => silent = 0
    /\ pipe = 0 => silent = SELECT * timeo + (SELECT - wait)

(* TypeOK in two parts, one for each prover. *)
Numbers ==
  /\ initLeft \in 0..MaxInit /\ cmd \in 0..MaxCmd /\ ahead \in 0..MaxAhead
  /\ cnt \in 0..(TICKS - 1)
  /\ pipe \in Nat /\ silent \in Nat /\ launches \in 0..MaxLaunch
  /\ wait \in 0..SELECT /\ timeo \in 0..HEARTBEAT_TIMEO
Flags == proc \in ProcState /\ daemon \in DaemonState /\ due \in BOOLEAN /\ late \in BOOLEAN

LEMMA TypeParts ==
  /\ TypeOK <=> (Numbers /\ Flags)
  /\ TypeOK' <=> (Numbers' /\ Flags')
BY Zenon DEF TypeOK, Numbers, Flags

LEMMA TypeInit == Init => TypeOK
<1>1. Init => Numbers
  BY Ranges DEF Init, Numbers
<1>2. Init => Flags
  BY Zenon DEF Init, Flags, ProcState, Running, DaemonState
<1> QED
  BY <1>1, <1>2, TypeParts

LEMMA FlagsStep ==
  ASSUME TypeOK, [Next]_vars
  PROVE  Flags'
<1> USE DEF TypeOK, Flags, ProcState, Running, DaemonState, dmn, svc
<1>1. CASE Service
  BY <1>1, Zenon DEF Service, MainLoop, Beat, LateTick, ReadTick, Unblock, Reap
<1>2. CASE Watch
  BY <1>2, Zenon DEF Watch, DaemonRead, DaemonTimeout, DaemonLost, DaemonBroken,
                     DaemonRelaunch, Start
<1>3. CASE Environment
  BY <1>3, Zenon DEF Environment, Command, CommandAhead, Hang, Exit, Interrupt,
                     DaemonStops
<1>4. CASE Clock
  BY <1>4, Zenon DEF Clock
<1>5. CASE UNCHANGED vars
  BY <1>5, Zenon DEF vars
<1> QED
  BY <1>1, <1>2, <1>3, <1>4, <1>5 DEF Next

LEMMA NumbersStep ==
  ASSUME TypeOK, Measured, [Next]_vars
  PROVE  Numbers'
<1>0. Numbers
  BY TypeParts
<1> USE <1>0, Bounds, Ranges DEF Numbers, dmn, svc
<1>1. CASE Service
  <2>1. CASE MainLoop \/ Reap
    BY <2>1 DEF MainLoop, Reap
  <2>2. CASE Beat
    BY <2>2 DEF Beat, WriteBeacon
  <2>3. CASE Unblock \/ LateTick
    BY <2>3 DEF Unblock, LateTick, ReadTick, WriteBeacon
  <2> QED
    BY <1>1, <2>1, <2>2, <2>3 DEF Service
<1>2. CASE Watch
  <2>1. CASE DaemonRead
    BY <2>1 DEF DaemonRead
  <2>2. CASE DaemonTimeout
    BY <2>2 DEF DaemonTimeout
  <2>3. CASE DaemonLost
    BY <2>3 DEF DaemonLost, Silence, Measured
  <2>4. CASE DaemonBroken
    BY <2>4 DEF DaemonBroken
  <2>5. CASE DaemonRelaunch
    BY <2>5 DEF DaemonRelaunch, Start
  <2> QED
    BY <1>2, <2>1, <2>2, <2>3, <2>4, <2>5 DEF Watch
<1>3. CASE Environment
  BY <1>3 DEF Environment, Command, CommandAhead, Hang, Exit, Interrupt, DaemonStops
<1>4. CASE Clock
  <2>1. Down(initLeft) \in 0..MaxInit /\ Down(cmd) \in 0..MaxCmd /\ Down(wait) \in 0..SELECT
    BY DownBelow
  <2> QED
    BY <1>4, <2>1 DEF Clock
<1>5. CASE UNCHANGED vars
  BY <1>5 DEF vars
<1> QED
  BY <1>1, <1>2, <1>3, <1>4, <1>5 DEF Next

-----------------------------------------------------------------------------
LEMMA MeasuredInit == Init => Measured
BY Bounds DEF Init, Measured

LEMMA MeasuredStep ==
  ASSUME TypeOK, Measured, [Next]_vars
  PROVE  Measured'
<1> USE Bounds DEF TypeOK, Measured, dmn, svc
<1>1. CASE Service
  BY <1>1 DEF Service, MainLoop, Beat, LateTick, ReadTick, Unblock, Reap, WriteBeacon
<1>2. CASE Watch
  <2>1. CASE DaemonRead
    BY <2>1 DEF DaemonRead
  <2>2. CASE DaemonTimeout
    BY <2>2 DEF DaemonTimeout, Silence
  <2>3. CASE DaemonLost \/ DaemonBroken
    BY <2>3 DEF DaemonLost, DaemonBroken
  <2>4. CASE DaemonRelaunch
    BY <2>4 DEF DaemonRelaunch, Start
  <2> QED
    BY <1>2, <2>1, <2>2, <2>3, <2>4 DEF Watch
<1>3. CASE Environment
  BY <1>3 DEF Environment, Command, CommandAhead, Hang, Exit, Interrupt, DaemonStops,
              Running
<1>4. CASE Clock
  <2>1. wait > 0 => Down(wait) = wait - 1
    BY DownBelow
  <2> QED
    BY <1>4, <2>1 DEF Clock, Quiescent
<1>5. CASE UNCHANGED vars
  BY <1>5 DEF vars
<1> QED
  BY <1>1, <1>2, <1>3, <1>4, <1>5 DEF Next

-----------------------------------------------------------------------------
(* Why a service that works is silent: start-up, the pushes that had to    *)
(* wait since the last beacon, and the second in which a tick is due.      *)
Excused(n) == MaxInit + n * MaxCmd + (IF due THEN 1 ELSE 0)
Accounted ==
  /\ proc = "init" => silent + initLeft <= Excused(ahead)
  /\ proc = "loop" => silent <= Excused(ahead)
  /\ proc = "blocked" => silent + cmd <= Excused(ahead)

LEMMA OneMore ==
  ASSUME NEW n \in Nat, NEW c \in Nat
  PROVE  n * c \in Nat /\ (n + 1) * c = n * c + c
OBVIOUS

LEMMA NoMore ==
  ASSUME NEW n \in Nat, NEW m \in Nat, NEW c \in Nat, n <= m
  PROVE  n * c \in Nat /\ m * c \in Nat /\ n * c <= m * c
<1>1. PICK d \in Nat : m = n + d
  <2> WITNESS m - n \in Nat
  <2> QED
    OBVIOUS
<1>2. m * c = n * c + d * c /\ d * c \in Nat /\ n * c \in Nat
  BY <1>1
<1> QED
  BY <1>2

LEMMA AccountedInit == Init => Accounted
BY Bounds DEF Init, Accounted, Excused

LEMMA AccountedStep ==
  ASSUME TypeOK, Accounted, [Next]_vars
  PROVE  Accounted'
<1> DEFINE waited == ahead * MaxCmd
<1>a. waited \in Nat /\ (ahead + 1) * MaxCmd = waited + MaxCmd /\ 0 * MaxCmd = 0
  BY Bounds, OneMore DEF TypeOK
<1>b. ahead' = ahead => ahead' * MaxCmd = waited
  OBVIOUS
<1>c. ahead' = ahead + 1 => ahead' * MaxCmd = waited + MaxCmd
  BY <1>a
<1>d. ahead' = 0 => ahead' * MaxCmd = 0
  BY <1>a
<1>e. Excused(ahead) = MaxInit + waited + (IF due THEN 1 ELSE 0)
  BY DEF Excused
<1>f. Excused(ahead)' = MaxInit + ahead' * MaxCmd + (IF due' THEN 1 ELSE 0)
  BY DEF Excused
<1> HIDE DEF waited
<1> USE Bounds, <1>a, <1>b, <1>c, <1>d, <1>e, <1>f DEF TypeOK, Accounted, dmn, svc
<1>1. CASE Service
  <2>1. CASE MainLoop
    BY <2>1 DEF MainLoop
  <2>2. CASE Beat
    BY <2>2 DEF Beat, WriteBeacon
  <2>3. CASE Unblock \/ LateTick
    BY <2>3 DEF Unblock, LateTick, ReadTick, WriteBeacon
  <2>4. CASE Reap
    BY <2>4 DEF Reap
  <2> QED
    BY <1>1, <2>1, <2>2, <2>3, <2>4 DEF Service
<1>2. CASE Watch
  <2>1. CASE DaemonRelaunch
    BY <2>1 DEF DaemonRelaunch, Start
  <2>2. CASE DaemonRead \/ DaemonTimeout \/ DaemonLost \/ DaemonBroken
    BY <2>2 DEF DaemonRead, DaemonTimeout, DaemonLost, DaemonBroken
  <2> QED
    BY <1>2, <2>1, <2>2 DEF Watch
<1>3. CASE Environment
  <2>1. CASE CommandAhead
    BY <2>1 DEF CommandAhead
  <2>2. CASE Command \/ Hang \/ Exit \/ Interrupt \/ DaemonStops
    BY <2>2 DEF Command, Hang, Exit, Interrupt, DaemonStops
  <2> QED
    BY <1>3, <2>1, <2>2 DEF Environment
<1>4. CASE Clock
  <2>1. /\ initLeft > 0 => Down(initLeft) = initLeft - 1
        /\ cmd > 0 => Down(cmd) = cmd - 1
    BY DownBelow
  <2>2. /\ silent' \in Nat /\ silent' <= silent + 1
        /\ due => due'
        /\ proc' = proc /\ ahead' = ahead
        /\ initLeft' = Down(initLeft) /\ cmd' = Down(cmd)
    BY <1>4 DEF Clock
  <2>3. CASE proc = "init"
    BY <1>4, <2>1, <2>2, <2>3 DEF Clock, Quiescent
  <2>4. CASE proc = "loop"
    <3>1. ~due /\ due'
      BY <1>4, <2>4 DEF Clock, Quiescent
    <3>2. silent <= MaxInit + waited
      BY <2>4, <3>1
    <3>3. Excused(ahead)' = MaxInit + waited + 1
      BY <2>2, <3>1
    <3>4. silent' <= Excused(ahead)'
      BY <2>2, <3>2, <3>3
    <3> QED
      BY <2>2, <2>4, <3>4
  <2>5. CASE proc = "blocked"
    BY <1>4, <2>1, <2>2, <2>5 DEF Clock, Quiescent
  <2> QED
    BY <2>2, <2>3, <2>4, <2>5
<1>5. CASE UNCHANGED vars
  BY <1>5 DEF vars
<1> QED
  BY <1>1, <1>2, <1>3, <1>4, <1>5 DEF Next

-----------------------------------------------------------------------------
IInv == TypeOK /\ Measured /\ Accounted

(* Types are right, the daemon's count agrees with the silence, and the    *)
(* silence of a service that works has its reasons.                        *)
THEOREM Invariance == Spec => []IInv
<1>1. Init => IInv
  BY TypeInit, MeasuredInit, AccountedInit DEF IInv
<1>2. IInv /\ [Next]_vars => IInv'
  BY TypeParts, FlagsStep, NumbersStep, MeasuredStep, AccountedStep DEF IInv
<1> QED
  BY <1>1, <1>2, PTL DEF Spec

(* TypeOK of Watchdog, whatever commands and start-up take.                *)
THEOREM TypeCorrect == Spec => []TypeOK
<1>1. IInv => TypeOK
  BY DEF IInv
<1> QED
  BY <1>1, Invariance, PTL

(* The daemon of csv_hb.c never lets a silence pass the limit.             *)
THEOREM Bounded == Spec => []SilenceBounded
<1>1. IInv => SilenceBounded
  BY Bounds DEF IInv, TypeOK, Measured, SilenceBounded
<1> QED
  BY <1>1, Invariance, PTL

(* csv_init, the commands that may hold mutex_msg between two beacons and  *)
(* the second before the next beacon take less than the daemon waits.      *)
Roomy == MaxInit + MaxAhead * MaxCmd + 1 < Limit

(* If start-up and commands are that short, the daemon kills only a        *)
(* service that hangs.                                                     *)
THEOREM Spared == Roomy => (Spec => HealthySpared)
<1> SUFFICES ASSUME Roomy
             PROVE  Spec => HealthySpared
  OBVIOUS
<1>1. ASSUME IInv, [Next]_vars, proc' = "dying", proc # "dying"
      PROVE  proc = "hung"
  <2>1. DaemonLost
    BY <1>1 DEF Next, Service, MainLoop, Beat, LateTick, Unblock, Reap, Watch, DaemonRead,
            DaemonTimeout, DaemonBroken, DaemonRelaunch, Start, Environment,
            Command, CommandAhead, Hang, Exit, Interrupt, DaemonStops, Clock,
            vars, svc, dmn
  <2>2. silent = Limit /\ proc # "gone"
    BY <1>1, <2>1, Bounds DEF IInv, TypeOK, Measured, DaemonLost, Silence
  <2>3. ahead \in Nat /\ ahead <= MaxAhead
    BY <1>1, Bounds DEF IInv, TypeOK
  <2>4. ahead * MaxCmd \in Nat /\ MaxAhead * MaxCmd \in Nat
        /\ ahead * MaxCmd <= MaxAhead * MaxCmd
    BY <2>3, Bounds, NoMore
  <2>5. Excused(ahead) < Limit
    BY <2>4, Bounds DEF Excused, Roomy
  <2>6. proc \notin {"init", "loop", "blocked"}
    BY <1>1, <2>2, <2>5, Bounds DEF IInv, TypeOK, Accounted, Excused
  <2> QED
    BY <1>1, <2>2, <2>6 DEF IInv, TypeOK, ProcState, Running
<1>2. IInv /\ [Next]_vars => [proc' = "dying" /\ proc # "dying" => proc = "hung"]_vars
  BY <1>1
<1>3. [][proc' = "dying" /\ proc # "dying" => proc = "hung"]_vars <=> HealthySpared
  BY DEF HealthySpared
<1> QED
  BY <1>2, <1>3, Invariance, PTL DEF Spec
-----------------------------------------------------------------------------
(* A start and a minute make hours of hours, which tell which it was, and  *)
(* are never zeros again.                                                  *)
LEMMA LifeCounted ==
  ASSUME NEW h \in Hours
  PROVE  /\ Started(h) \in Hours /\ Worked(h) \in Hours
         /\ Started(h).current = 0 /\ Worked(h).current # 0
         /\ Started(h) # Zero /\ Worked(h) # Zero
<1>1. Started(h).count # 0 /\ Worked(h).total # 0
  BY DEF Hours, Started, Worked
<1>2. Zero.count = 0 /\ Zero.total = 0
  BY DEF Zero
<1> QED
  BY <1>1, <1>2 DEF Hours, Started, Worked

LEMMA LifeZeroHours == Zero \in Hours
BY DEF Zero, Hours

-----------------------------------------------------------------------------
LEMMA LifeInitIInv == LifeInit => LifeIInv
<1> SUFFICES ASSUME LifeInit PROVE LifeIInv
  OBVIOUS
<1>2. LifeTypeOK
  BY LifeZeroHours DEF LifeInit, LifeTypeOK, State
<1>3. LockHeld
  BY DEF LifeInit, LockHeld, Serving
<1>4. HoursKnown
  BY DEF LifeInit, HoursKnown
<1> QED
  BY <1>2, <1>3, <1>4 DEF LifeInit, LifeIInv

LEMMA LifeTypeStep ==
  ASSUME LifeTypeOK, [LifeNext]_lifeVars
  PROVE  LifeTypeOK'
<1> USE DEF LifeTypeOK, Go, past, State
<1>2. ASSUME NEW p \in Proc, Launch(p) PROVE LifeTypeOK'
  BY LifeZeroHours, <1>2 DEF Launch
<1>3. ASSUME NEW p \in Proc, Read(p) PROVE LifeTypeOK'
  BY <1>3 DEF Read
<1>4. ASSUME NEW p \in Proc, TruncateZero(p) PROVE LifeTypeOK'
  BY <1>4 DEF TruncateZero
<1>5. ASSUME NEW p \in Proc, WriteZero(p) PROVE LifeTypeOK'
  BY <1>5 DEF WriteZero
<1>6. ASSUME NEW p \in Proc, Truncate(p) PROVE LifeTypeOK'
  BY <1>6 DEF Truncate
<1>7. ASSUME NEW p \in Proc, Write(p) PROVE LifeTypeOK'
  <2>1. truth' = Started(truth) \/ truth' = Worked(truth)
    BY <1>7 DEF Write
  <2>2. truth' \in Hours
    BY <2>1, LifeCounted
  <2>3. file' \in Hours
    BY <1>7 DEF Write
  <2> QED
    BY <1>7, <2>2, <2>3 DEF Write
<1>8. ASSUME NEW p \in Proc, Lock(p) PROVE LifeTypeOK'
  BY <1>8 DEF Lock
<1>9. ASSUME NEW p \in Proc, Leave(p) PROVE LifeTypeOK'
  BY <1>9 DEF Leave
<1>10. ASSUME NEW p \in Proc, LifeStart(p) PROVE LifeTypeOK'
  <2>1. Started(life[p]) \in Hours
    BY LifeCounted
  <2> QED
    BY <1>10, <2>1 DEF LifeStart
<1>11. ASSUME NEW p \in Proc, LifeUpdate(p) PROVE LifeTypeOK'
  <2>1. Worked(life[p]) \in Hours
    BY LifeCounted
  <2> QED
    BY <1>11, <2>1 DEF LifeUpdate
<1>12. ASSUME NEW p \in Proc, Crash(p) PROVE LifeTypeOK'
  BY <1>12 DEF Crash
<1>13. CASE UNCHANGED lifeVars
  BY <1>13 DEF lifeVars
<1> QED
  BY <1>2, <1>3, <1>4, <1>5, <1>6, <1>7, <1>8, <1>9, <1>10, <1>11, <1>12, <1>13
     DEF LifeNext

(* One process at a time has the pid lock, from csv_lock_pid to its end. *)
LEMMA LifeLockStep ==
  ASSUME LifeTypeOK, LockHeld, [LifeNext]_lifeVars
  PROVE  LockHeld'
<1> USE DEF LifeTypeOK, LockHeld, Go, past, State, Serving
<1>1. ASSUME NEW p \in Proc, Lock(p) PROVE LockHeld'
  BY <1>1 DEF Lock
<1>2. ASSUME NEW p \in Proc, Crash(p) PROVE LockHeld'
  BY <1>2 DEF Crash
<1>3. ASSUME NEW p \in Proc,
             Launch(p) \/ Read(p) \/ TruncateZero(p) \/ WriteZero(p) \/ Leave(p)
      PROVE  LockHeld'
  BY <1>3 DEF Launch, Read, TruncateZero, WriteZero, Leave
<1>4. ASSUME NEW p \in Proc, Truncate(p) \/ Write(p) \/ LifeStart(p) \/ LifeUpdate(p)
      PROVE  LockHeld'
  BY <1>4 DEF Truncate, Write, LifeStart, LifeUpdate
<1>5. CASE UNCHANGED lifeVars
  BY <1>5 DEF lifeVars
<1> QED
  BY <1>1, <1>2, <1>3, <1>4, <1>5 DEF LifeNext

(* A process that makes the file of zeros has zeros itself. *)
ZerosOwn == \A p \in Proc : pc[p] \in {"read", "truncate0", "write0"} => life[p] = Zero

LEMMA LifeZerosStep ==
  ASSUME LifeTypeOK, ZerosOwn, [LifeNext]_lifeVars
  PROVE  ZerosOwn'
<1> USE DEF LifeTypeOK, ZerosOwn, Go, past
<1>1. ASSUME NEW p \in Proc, Launch(p) PROVE ZerosOwn'
  BY <1>1 DEF Launch
<1>2. ASSUME NEW p \in Proc, Read(p) PROVE ZerosOwn'
  BY <1>2 DEF Read
<1>3. ASSUME NEW p \in Proc, TruncateZero(p) \/ WriteZero(p) \/ Lock(p) \/ Leave(p)
      PROVE  ZerosOwn'
  BY <1>3 DEF TruncateZero, WriteZero, Lock, Leave
<1>4. ASSUME NEW p \in Proc, Truncate(p) \/ Write(p) \/ Crash(p) PROVE ZerosOwn'
  BY <1>4 DEF Truncate, Write, Crash
<1>5. ASSUME NEW p \in Proc, LifeStart(p) \/ LifeUpdate(p) PROVE ZerosOwn'
  BY <1>5 DEF LifeStart, LifeUpdate
<1>6. CASE UNCHANGED lifeVars
  BY <1>6 DEF lifeVars
<1> QED
  BY <1>1, <1>2, <1>3, <1>4, <1>5, <1>6 DEF LifeNext

-----------------------------------------------------------------------------
(* As long as nothing zeroes the hours and no stale reader gets the lock,  *)
(* a step keeps what each process and the file know of the hours.          *)
LEMMA LifeKnownStep ==
  ASSUME LifeTypeOK, LockHeld, ZerosOwn, ~zeroed /\ ~stale => HoursKnown, [LifeNext]_lifeVars
  PROVE  ~zeroed' /\ ~stale' => HoursKnown'
<1> SUFFICES ASSUME ~zeroed', ~stale' PROVE HoursKnown'
  OBVIOUS
<1> USE DEF Go, past
<1>0. ~zeroed /\ ~stale
  <2>1. CASE UNCHANGED lifeVars
    BY <2>1 DEF lifeVars
  <2>2. ASSUME NEW p \in Proc, TruncateZero(p) PROVE ~zeroed /\ ~stale
    BY <2>2, Zenon DEF TruncateZero
  <2>3. ASSUME NEW p \in Proc, WriteZero(p) PROVE ~zeroed /\ ~stale
    BY <2>3, Zenon DEF WriteZero
  <2>4. ASSUME NEW p \in Proc, Lock(p) PROVE ~zeroed /\ ~stale
    BY <2>4, Zenon DEF Lock
  <2>5. ASSUME NEW p \in Proc, \/ Launch(p) \/ Read(p) \/ Truncate(p) \/ Write(p)
                               \/ Leave(p) \/ LifeStart(p) \/ LifeUpdate(p) \/ Crash(p)
        PROVE  ~zeroed /\ ~stale
    BY <2>5 DEF Launch, Read, Truncate, Write, Leave, LifeStart, LifeUpdate, Crash
  <2> QED
    BY <2>1, <2>2, <2>3, <2>4, <2>5 DEF LifeNext
<1>1. HoursKnown
  BY <1>0
<1> USE DEF LifeTypeOK, HoursKnown
<1>2. ASSUME NEW p \in Proc, Launch(p) PROVE HoursKnown'
  BY <1>1, <1>2 DEF Launch
<1>3. ASSUME NEW p \in Proc, Read(p) PROVE HoursKnown'
  BY <1>1, <1>3 DEF Read
<1>4. ASSUME NEW p \in Proc, TruncateZero(p) PROVE HoursKnown'
  BY <1>1, <1>4 DEF TruncateZero
<1>5. ASSUME NEW p \in Proc, WriteZero(p) PROVE HoursKnown'
  <2>1. truth = Zero /\ life[p] = Zero
    BY <1>5 DEF WriteZero, ZerosOwn
  <2> QED
    BY <1>1, <1>5, <2>1 DEF WriteZero
<1>6. ASSUME NEW p \in Proc, Truncate(p) PROVE HoursKnown'
  BY <1>1, <1>6 DEF Truncate, LockHeld, Serving
<1>7. ASSUME NEW p \in Proc, Write(p) PROVE HoursKnown'
  <2>1. life[p] = Started(truth) \/ life[p] = Worked(truth)
    BY <1>1, <1>7 DEF Write
  <2>2. truth' = life[p] /\ truth' # Zero
    BY <1>7, <2>1, LifeCounted DEF Write
  <2>3. \A q \in Proc \ {p} : pc[q] \notin Serving
    BY <1>7 DEF Write, LockHeld, Serving
  <2> QED
    BY <1>1, <1>7, <2>2, <2>3 DEF Write, Serving
<1>8. ASSUME NEW p \in Proc, Lock(p) PROVE HoursKnown'
  BY <1>1, <1>8 DEF Lock
<1>9. ASSUME NEW p \in Proc, Leave(p) PROVE HoursKnown'
  BY <1>1, <1>9 DEF Leave
<1>10. ASSUME NEW p \in Proc, LifeStart(p) PROVE HoursKnown'
  BY <1>1, <1>10 DEF LifeStart
<1>11. ASSUME NEW p \in Proc, LifeUpdate(p) PROVE HoursKnown'
  BY <1>1, <1>11 DEF LifeUpdate
<1>12. ASSUME NEW p \in Proc, Crash(p) PROVE HoursKnown'
  BY <1>1, <1>12 DEF Crash
<1>13. CASE UNCHANGED lifeVars
  BY <1>1, <1>13 DEF lifeVars
<1> QED
  BY <1>2, <1>3, <1>4, <1>5, <1>6, <1>7, <1>8, <1>9, <1>10, <1>11, <1>12, <1>13
     DEF LifeNext

(* The inductive invariant of csv_life.c holds in every state. *)
THEOREM LifeInvariance == LifeSpec => []LifeIInv
<1>1. LifeIInv /\ [LifeNext]_lifeVars => LifeIInv'
  BY LifeTypeStep, LifeLockStep, LifeZerosStep, LifeKnownStep DEF LifeIInv, ZerosOwn
<1> QED
  BY <1>1, LifeInitIInv, PTL DEF LifeSpec

(* The hours of the service are kept by every process, crash and restart,  *)
(* but for the two windows that HoursKept names.                           *)
THEOREM HoursSafe == LifeSpec => []HoursKept
<1>1. LifeIInv => HoursKept
  BY DEF LifeIInv, LifeTypeOK, HoursKnown, HoursKept
<1> QED
  BY <1>1, LifeInvariance, PTL
====

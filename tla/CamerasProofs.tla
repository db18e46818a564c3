---------------------------- MODULE CamerasProofs ----------------------------
(***************************************************************************)
(* The safety properties of Cameras hold for any number of cameras, of     *)
(* searches and of stream threads.  IInv is inductive: each of its parts   *)
(* is preserved by every step from the states that satisfy all of them.    *)
(* Those of GrabTrigger, at the end, for any number of triggers.           *)
(***************************************************************************)
EXTENDS Cameras, GrabTrigger, TLAPS

(* The initial states satisfy the invariant. *)
LEMMA InitIInv == Init => IInv
<1> SUFFICES ASSUME Init PROVE IInv
  OBVIOUS
<1>1. Total \in Nat \ {0} /\ Tries \in Nat \ {0} /\ Plugs \in Nat
  BY CamerasAssumption
<1>2. CameraType /\ StreamType
  BY DEF Init, CameraType, StreamType
<1>3. WorkerType
  BY <1>1 DEF Init, WorkerType, Job
<1>4. SearchCursor /\ CountRight
  BY <1>1 DEF Init, SearchCursor, CountRight
<1>5. SearchType
  <2>1. plugged \in 0..Plugs /\ event \in BOOLEAN
    BY <1>1 DEF Init
  <2>2. cnt \in 0..(IF mpc = "clamp" THEN Plugs ELSE Total)
    BY <1>1 DEF Init
  <2>3. mcam \in 1..(Total + 1) /\ tries \in 0..(Tries - 1)
    BY <1>1 DEF Init
  <2>4. missed \in BOOLEAN /\ failed \subseteq Cam
    BY DEF Init
  <2> QED
    BY <2>1, <2>2, <2>3, <2>4 DEF Init, SearchType
<1>6. WorkerCursor /\ FlagReleased
  BY DEF Init, WorkerCursor, FlagReleased
<1>7. DeadExpected /\ HandlesLive /\ OpenedRight /\ misuse \in BOOLEAN
  BY DEF Init, DeadExpected, HandlesLive, OpenedRight
<1> QED
  BY <1>2, <1>3, <1>4, <1>5, <1>6, <1>7 DEF IInv, TypeOK

-----------------------------------------------------------------------------
(* thr_mvs and the plug events. *)
LEMMA SearchStep ==
  ASSUME SearchType, SearchCursor, CountRight, [Next]_vars
  PROVE  SearchType' /\ SearchCursor' /\ CountRight'
<1>0. Total \in Nat \ {0} /\ Tries \in Nat \ {0} /\ Plugs \in Nat
  BY CamerasAssumption
<1>1. CASE Plug \/ Uevent \/ Spurious \/ Wait
  <2>1. plugged' \in 0..Plugs /\ event' \in BOOLEAN /\ missed' \in BOOLEAN
    BY <1>1 DEF SearchType, Plug, Uevent, Spurious, Wait, device, work, search
  <2>2. cnt' \in 0..(IF mpc' = "clamp" THEN Plugs ELSE Total)
    BY <1>0, <1>1 DEF SearchType, Plug, Uevent, Spurious, Wait, device, work, search
  <2>3. mcam' \in 1..(Total + 1)
    BY <1>0, <1>1 DEF SearchType, Plug, Uevent, Spurious, Wait, device, work, search, SearchCursor
  <2>4. tries' \in 0..(Tries - 1)
    BY <1>0, <1>1 DEF SearchType, Plug, Uevent, Spurious, Wait, device, work, search
  <2>5. mpc' \in {"search", "clamp", "handle", "device", "sleep", "wait", "down", "clear"}
    BY <1>1 DEF SearchType, Plug, Uevent, Spurious, Wait, device, work, search
  <2>6. failed' \subseteq Cam
    BY <1>0, <1>1 DEF SearchType, Plug, Uevent, Spurious, Wait, device, work, search, SearchCursor, Cam
  <2>7. SearchCursor'
    BY <1>0, <1>1 DEF SearchType, Plug, Uevent, Spurious, Wait, device, work, search, SearchCursor
  <2>8. CountRight'
    BY <1>0, <1>1 DEF SearchType, Plug, Uevent, Spurious, Wait, device, work, search, CountRight, Least
  <2> QED
    BY <2>1, <2>2, <2>3, <2>4, <2>5, <2>6, <2>7, <2>8 DEF SearchType
<1>2. CASE Search
  <2>1. plugged' \in 0..Plugs /\ event' \in BOOLEAN /\ missed' \in BOOLEAN
    BY <1>2 DEF SearchType, Search, Searched
  <2>2. cnt' \in 0..(IF mpc' = "clamp" THEN Plugs ELSE Total)
    BY <1>0, <1>2 DEF SearchType, Search, Searched
  <2>3. mcam' \in 1..(Total + 1)
    BY <1>0, <1>2 DEF SearchType, Search, Searched, SearchCursor
  <2>4. tries' \in 0..(Tries - 1)
    BY <1>0, <1>2 DEF SearchType, Search, Searched
  <2>5. mpc' \in {"search", "clamp", "handle", "device", "sleep", "wait", "down", "clear"}
    BY <1>2 DEF SearchType, Search, Searched
  <2>6. failed' \subseteq Cam
    BY <1>0, <1>2 DEF SearchType, Search, Searched, SearchCursor, Cam
  <2>7. SearchCursor'
    BY <1>0, <1>2 DEF SearchType, Search, Searched, SearchCursor
  <2>8. CountRight'
    BY <1>0, <1>2 DEF SearchType, Search, Searched, CountRight, Least
  <2> QED
    BY <2>1, <2>2, <2>3, <2>4, <2>5, <2>6, <2>7, <2>8 DEF SearchType
<1>20. CASE Clamp
  <2>1. plugged' \in 0..Plugs /\ event' \in BOOLEAN /\ missed' \in BOOLEAN
    BY <1>20 DEF SearchType, Clamp, Searched
  <2>2. cnt' \in 0..(IF mpc' = "clamp" THEN Plugs ELSE Total)
    BY <1>0, <1>20 DEF SearchType, Clamp, Searched
  <2>3. mcam' \in 1..(Total + 1)
    BY <1>0, <1>20 DEF SearchType, Clamp, Searched, SearchCursor
  <2>4. tries' \in 0..(Tries - 1)
    BY <1>0, <1>20 DEF SearchType, Clamp, Searched
  <2>5. mpc' \in {"search", "clamp", "handle", "device", "sleep", "wait", "down", "clear"}
    BY <1>20 DEF SearchType, Clamp, Searched
  <2>6. failed' \subseteq Cam
    BY <1>0, <1>20 DEF SearchType, Clamp, Searched, SearchCursor, Cam
  <2>7. SearchCursor'
    BY <1>0, <1>20 DEF SearchType, Clamp, Searched, SearchCursor
  <2>8. CountRight'
    BY <1>0, <1>20 DEF SearchType, Clamp, Searched, CountRight, Least
  <2> QED
    BY <2>1, <2>2, <2>3, <2>4, <2>5, <2>6, <2>7, <2>8 DEF SearchType
<1>3. CASE CreateHandle
  <2>1. plugged' \in 0..Plugs /\ event' \in BOOLEAN /\ missed' \in BOOLEAN
    BY <1>3 DEF SearchType, CreateHandle, NextCam
  <2>2. cnt' \in 0..(IF mpc' = "clamp" THEN Plugs ELSE Total)
    BY <1>0, <1>3 DEF SearchType, CreateHandle, NextCam
  <2>3. mcam' \in 1..(Total + 1)
    BY <1>0, <1>3 DEF SearchType, CreateHandle, NextCam, SearchCursor
  <2>4. tries' \in 0..(Tries - 1)
    BY <1>0, <1>3 DEF SearchType, CreateHandle, NextCam
  <2>5. mpc' \in {"search", "clamp", "handle", "device", "sleep", "wait", "down", "clear"}
    BY <1>3 DEF SearchType, CreateHandle, NextCam
  <2>6. failed' \subseteq Cam
    BY <1>0, <1>3 DEF SearchType, CreateHandle, NextCam, SearchCursor, Cam
  <2>7. SearchCursor'
    BY <1>0, <1>3 DEF SearchType, CreateHandle, NextCam, SearchCursor
  <2>8. CountRight'
    BY <1>0, <1>3 DEF SearchType, CreateHandle, NextCam, CountRight, Least
  <2> QED
    BY <2>1, <2>2, <2>3, <2>4, <2>5, <2>6, <2>7, <2>8 DEF SearchType
<1>4. CASE OpenDevice
  <2>1. plugged' \in 0..Plugs /\ event' \in BOOLEAN /\ missed' \in BOOLEAN
    BY <1>4 DEF SearchType, OpenDevice, NextCam
  <2>2. cnt' \in 0..(IF mpc' = "clamp" THEN Plugs ELSE Total)
    BY <1>0, <1>4 DEF SearchType, OpenDevice, NextCam
  <2>3. mcam' \in 1..(Total + 1)
    BY <1>0, <1>4 DEF SearchType, OpenDevice, NextCam, SearchCursor
  <2>4. tries' \in 0..(Tries - 1)
    BY <1>0, <1>4 DEF SearchType, OpenDevice, NextCam
  <2>5. mpc' \in {"search", "clamp", "handle", "device", "sleep", "wait", "down", "clear"}
    BY <1>4 DEF SearchType, OpenDevice, NextCam
  <2>6. failed' \subseteq Cam
    <3>1. mcam \in Cam
      BY <1>0, <1>4 DEF SearchType, SearchCursor, OpenDevice, Cam
    <3> QED
      BY <1>4, <3>1 DEF SearchType, OpenDevice
  <2>7. SearchCursor'
    BY <1>0, <1>4 DEF SearchType, OpenDevice, NextCam, SearchCursor
  <2>8. CountRight'
    BY <1>0, <1>4 DEF SearchType, OpenDevice, NextCam, CountRight, Least
  <2> QED
    BY <2>1, <2>2, <2>3, <2>4, <2>5, <2>6, <2>7, <2>8 DEF SearchType
<1>5. CASE Destroy
  <2>1. plugged' \in 0..Plugs /\ event' \in BOOLEAN /\ missed' \in BOOLEAN
    BY <1>5 DEF SearchType, Destroy
  <2>2. cnt' \in 0..(IF mpc' = "clamp" THEN Plugs ELSE Total)
    BY <1>0, <1>5 DEF SearchType, Destroy
  <2>3. mcam' \in 1..(Total + 1)
    BY <1>0, <1>5 DEF SearchType, Destroy, SearchCursor
  <2>4. tries' \in 0..(Tries - 1)
    BY <1>0, <1>5 DEF SearchType, Destroy
  <2>5. mpc' \in {"search", "clamp", "handle", "device", "sleep", "wait", "down", "clear"}
    BY <1>5 DEF SearchType, Destroy
  <2>6. failed' \subseteq Cam
    BY <1>0, <1>5 DEF SearchType, Destroy, SearchCursor, Cam
  <2>7. SearchCursor'
    BY <1>0, <1>5 DEF SearchType, Destroy, SearchCursor
  <2>8. CountRight'
    BY <1>0, <1>5 DEF SearchType, Destroy, CountRight, Least
  <2> QED
    BY <2>1, <2>2, <2>3, <2>4, <2>5, <2>6, <2>7, <2>8 DEF SearchType
<1>6. CASE Clear \/ DownDone
  <2>1. plugged' \in 0..Plugs /\ event' \in BOOLEAN /\ missed' \in BOOLEAN
    BY <1>6 DEF SearchType, Clear, DownDone
  <2>2. cnt' \in 0..(IF mpc' = "clamp" THEN Plugs ELSE Total)
    BY <1>0, <1>6 DEF SearchType, Clear, DownDone
  <2>3. mcam' \in 1..(Total + 1)
    BY <1>0, <1>6 DEF SearchType, Clear, DownDone, SearchCursor
  <2>4. tries' \in 0..(Tries - 1)
    BY <1>0, <1>6 DEF SearchType, Clear, DownDone
  <2>5. mpc' \in {"search", "clamp", "handle", "device", "sleep", "wait", "down", "clear"}
    BY <1>6 DEF SearchType, Clear, DownDone
  <2>6. failed' \subseteq Cam
    BY <1>0, <1>6 DEF SearchType, Clear, DownDone, SearchCursor, Cam
  <2>7. SearchCursor'
    BY <1>0, <1>6 DEF SearchType, Clear, DownDone, SearchCursor
  <2>8. CountRight'
    BY <1>0, <1>6 DEF SearchType, Clear, DownDone, CountRight, Least
  <2> QED
    BY <2>1, <2>2, <2>3, <2>4, <2>5, <2>6, <2>7, <2>8 DEF SearchType
<1>7. ASSUME UNCHANGED <<plugged, event, search>>
      PROVE  SearchType' /\ SearchCursor' /\ CountRight'
  BY <1>7 DEF search, SearchType, SearchCursor, CountRight
<1>8. CASE Edge \/ Order
  BY <1>7, <1>8 DEF Edge, Order
<1>9. ASSUME NEW t \in Worker, Work(t)
      PROVE  UNCHANGED <<plugged, event, search>>
  BY <1>9 DEF Work, OpenCam, StartCam, OpenDone, NextRound, Check, Claim, Take, Save, Frame, CloseCam,
                    StopCam, StoppedCam, CloseDone, Beyond
<1>10. CASE \E c \in Cam : PortZero(c)
  BY <1>7, <1>10 DEF PortZero
<1>11. ASSUME NEW s \in Stream, PortSet(s) \/ StreamWork(s)
      PROVE  UNCHANGED <<plugged, event, search>>
  BY <1>11 DEF PortSet, StreamWork, StreamStart, StreamBegin, StreamMark, StreamRun, StreamLoop, StreamTake,
               StreamFrame, StreamExit, StreamEnd
<1>12. CASE UNCHANGED vars
  BY <1>7, <1>12 DEF vars, search
<1> QED
  BY <1>1, <1>2, <1>3, <1>4, <1>5, <1>6, <1>7, <1>8, <1>9, <1>10, <1>11, <1>12, <1>20
     DEF Next, Manage

-----------------------------------------------------------------------------
(* The fields of the cameras. *)
LEMMA CameraStep == CameraType /\ [Next]_vars => CameraType'
<1> SUFFICES ASSUME CameraType, [Next]_vars PROVE CameraType'
  OBVIOUS
<1> USE DEF CameraType
<1>1. CASE UNCHANGED <<device, status>>
  BY <1>1 DEF device
<1>2. ASSUME NEW t \in Worker, Work(t)
      PROVE  CameraType'
  BY <1>1, <1>2 DEF Work, OpenCam, StartCam, OpenDone, NextRound, Check, Claim, Take, Save, Frame, CloseCam,
                    StopCam, StoppedCam, CloseDone, Beyond, device
<1>3. ASSUME NEW c \in Cam, PortZero(c)
      PROVE  CameraType'
  BY <1>3 DEF PortZero, device
<1>4. ASSUME NEW s \in Stream, PortSet(s) \/ StreamWork(s)
      PROVE  CameraType'
  BY <1>1, <1>4 DEF PortSet, StreamWork, StreamStart, StreamBegin, StreamMark, StreamRun, StreamLoop, StreamTake,
                    StreamFrame, StreamExit, StreamEnd, device
<1>5. CASE CreateHandle \/ OpenDevice
  BY <1>5 DEF CreateHandle, OpenDevice
<1>6. CASE Destroy \/ Clear
  BY <1>6 DEF Destroy, Clear
<1>7. CASE Edge \/ Order \/ Plug \/ Uevent \/ Spurious \/ Search \/ Clamp \/ Wait \/ DownDone \/ UNCHANGED vars
  BY <1>1, <1>7 DEF Edge, Order, Plug, Uevent, Spurious, Search, Clamp, Wait, DownDone, vars, device
<1> QED
  BY <1>2, <1>3, <1>4, <1>5, <1>6, <1>7 DEF Next, Manage

(* The threads that use them. *)
LEMMA StreamStep == StreamType /\ [Next]_vars => StreamType'
<1> SUFFICES ASSUME StreamType, [Next]_vars PROVE StreamType'
  OBVIOUS
<1> USE DEF StreamType
<1>1. ASSUME NEW s \in Stream, PortSet(s) \/ StreamWork(s)
      PROVE  StreamType'
  BY <1>1 DEF PortSet, StreamWork, StreamStart, StreamBegin, StreamMark, StreamRun, StreamLoop, StreamTake,
              StreamFrame, StreamExit, StreamEnd, StreamGo
<1>2. ASSUME NEW t \in Worker, Work(t)
      PROVE  StreamType'
  BY <1>2 DEF Work, OpenCam, StartCam, OpenDone, NextRound, Check, Claim, Take, Save, Frame, CloseCam,
                    StopCam, StoppedCam, CloseDone, Beyond
<1>3. CASE Manage \/ \E c \in Cam : PortZero(c)
  BY <1>3 DEF Manage, Search, Clamp, Wait, CreateHandle, OpenDevice, Destroy, Clear, DownDone, PortZero
<1>4. CASE Edge \/ Order \/ Plug \/ Uevent \/ Spurious \/ UNCHANGED vars
  BY <1>4 DEF Edge, Order, Plug, Uevent, Spurious, vars
<1> QED
  BY <1>1, <1>2, <1>3, <1>4 DEF Next

LEMMA WorkerStep ==
  ASSUME WorkerType, WorkerCursor, [Next]_vars
  PROVE  WorkerType' /\ WorkerCursor'
<1>1. ASSUME UNCHANGED work
      PROVE  WorkerType' /\ WorkerCursor'
  BY <1>1 DEF work, WorkerType, WorkerCursor
<1>2. ASSUME NEW t \in Worker, NEW j \in Job,
             NEW p \in {"idle", "open", "check", "close"}, Begin(t, j, p)
      PROVE  WorkerType' /\ WorkerCursor'
  BY <1>2 DEF WorkerType, WorkerCursor, Begin, Go
<1>3. ASSUME NEW t \in Worker, Advance(t), job' \in [Worker -> Job],
             \A u \in Worker \ {t} : job'[u] = job[u],
             \/ UNCHANGED pc /\ pc[t] \in {"open", "check", "close"}
             \/ \E p \in {"open", "check", "close"} : Go(t, p)
      PROVE  WorkerType' /\ WorkerCursor'
  <2>1. cam[t] \in Nat /\ cam[t] + 1 \in Nat \ {0}
    BY DEF WorkerType
  <2>2. cam' = [cam EXCEPT ![t] = cam[t] + 1]
    BY <1>3 DEF Advance
  <2>3. cam' \in [Worker -> Nat \ {0}]
    BY <2>1, <2>2 DEF WorkerType
  <2>4. /\ pc'[t] \in {"open", "check", "close"}
        /\ \A u \in Worker : u # t => pc'[u] = pc[u] /\ cam'[u] = cam[u]
        /\ pc' \in [Worker -> {"idle", "open", "start", "check", "claim", "take", "frame",
                              "save", "close", "stop", "stopped"}]
    BY <1>3, <2>2 DEF WorkerType, Go
  <2> QED
    BY <1>3, <2>3, <2>4 DEF WorkerType, WorkerCursor
<1>4. ASSUME NEW t \in Worker, Work(t)
      PROVE  WorkerType' /\ WorkerCursor'
  <2>1. "none" \in Job /\ "series" \in Job /\ "failed" \in Job
    BY DEF Job, Depth
  <2>2. job \in [Worker -> Job]
    BY DEF WorkerType
  <2>3. ASSUME Return(t)
        PROVE  WorkerType' /\ WorkerCursor'
    BY <1>2, <2>1, <2>3 DEF Return
  <2>4. ASSUME NEW p \in {"start", "claim", "take", "frame", "save", "stop", "stopped"}, Go(t, p),
               UNCHANGED <<job, cam>>, cam[t] \in Cam, p = "claim" => job[t] \notin Depth
        PROVE  WorkerType' /\ WorkerCursor'
    BY <2>4 DEF Go, WorkerType, WorkerCursor
  <2>5. CASE OpenCam(t)
    BY <1>3, <2>2, <2>4, <2>5 DEF OpenCam
  <2>6. CASE StartCam(t) \/ StoppedCam(t)
    BY <1>3, <2>2, <2>6 DEF StartCam, StoppedCam
  <2>7. CASE OpenDone(t)
    BY <1>2, <2>1, <2>7 DEF OpenDone
  <2>8. CASE NextRound(t)
    <3>1. CASE cam' = [cam EXCEPT ![t] = 1] /\ UNCHANGED <<pc, job>>
      BY <3>1, <2>8 DEF NextRound, WorkerType, WorkerCursor
    <3> QED
      BY <2>3, <2>8, <3>1 DEF NextRound
  <2>9. CASE Check(t)
    <3>1. cam[t] \in Cam /\ pc[t] = "check"
      BY <2>9 DEF Check
    <3>2. CASE UNCHANGED <<job, cam>> /\ Go(t, IF job[t] \in Depth THEN "take" ELSE "claim")
      BY <2>4, <3>1, <3>2
    <3>3. CASE Advance(t) /\ UNCHANGED pc
              /\ job' = IF job[t] = "depth" THEN [job EXCEPT ![t] = "failed"] ELSE job
      <4>1. job' \in [Worker -> Job]
        BY <2>1, <2>2, <3>3
      <4> QED
        BY <1>3, <3>1, <3>3, <4>1
    <3> QED
      BY <2>3, <2>9, <3>2, <3>3 DEF Check
  <2>10. CASE Claim(t) \/ Take(t) \/ Save(t) \/ StopCam(t)
    <3>1. cam[t] \in Cam
      BY <2>10 DEF Claim, Take, Save, StopCam, WorkerCursor
    <3> QED
      BY <2>4, <2>10, <3>1 DEF Claim, Take, Save, StopCam
  <2>11. CASE Frame(t)
    <3>1. CASE Advance(t) /\ Go(t, "check") /\ UNCHANGED job
      BY <1>3, <2>2, <3>1
    <3> QED
      BY <2>3, <2>11, <3>1 DEF Frame
  <2>12. CASE CloseCam(t)
    BY <1>3, <2>2, <2>4, <2>12 DEF CloseCam
  <2>13. CASE CloseDone(t)
    BY <1>2, <2>1, <2>13 DEF CloseDone
  <2>14. CASE Beyond(t)
    BY <1>3, <2>2, <2>3, <2>14 DEF Beyond
  <2> QED
    BY <1>4, <2>5, <2>6, <2>7, <2>8, <2>9, <2>10, <2>11, <2>12, <2>13, <2>14 DEF Work
<1>5. CASE Edge \/ Order
  BY <1>2, <1>5 DEF Edge, Order, Worker, Job, Depth
<1>6. CASE Plug \/ Uevent \/ Spurious \/ Manage \/ UNCHANGED vars
  BY <1>1, <1>6 DEF Plug, Uevent, Spurious, Manage, Search, Clamp, Wait, CreateHandle,
                    OpenDevice, Destroy, Clear, DownDone, vars, work
<1>7. CASE \E c \in Cam : PortZero(c)
  BY <1>1, <1>7 DEF PortZero
<1>8. ASSUME NEW s \in Stream, PortSet(s) \/ StreamWork(s)
      PROVE  WorkerType' /\ WorkerCursor'
  BY <1>1, <1>8 DEF PortSet, StreamWork, StreamStart, StreamBegin, StreamMark, StreamRun,
                    StreamLoop, StreamTake, StreamFrame, StreamExit, StreamEnd
<1> QED
  BY <1>4, <1>5, <1>6, <1>7, <1>8 DEF Next

-----------------------------------------------------------------------------
(* A flag that is set has a thread that will clear it. *)
LEMMA FlagStep ==
  ASSUME CameraType, WorkerType, WorkerCursor, StreamType, FlagReleased, [Next]_vars
  PROVE  FlagReleased'
<1> USE DEF FlagReleased, Marks, Streams
<1>1. ASSUME UNCHANGED <<grabbing, work, spc>>
      PROVE  FlagReleased'
  BY <1>1 DEF work
(* A worker that is not in a frame clears no more than its own claim. *)
<1>2. ASSUME NEW t \in Worker, pc[t] \notin {"take", "frame", "save"}, UNCHANGED spc,
             \A u \in Worker \ {t} : pc'[u] = pc[u] /\ job'[u] = job[u] /\ cam'[u] = cam[u],
             \A c \in Cam : grabbing'[c] => grabbing[c]
      PROVE  FlagReleased'
  BY <1>2
<1>3. ASSUME NEW t \in Worker, Work(t)
      PROVE  FlagReleased'
  <2>1. CASE \/ OpenCam(t) \/ StartCam(t) \/ OpenDone(t) \/ NextRound(t) \/ Check(t)
             \/ CloseCam(t) \/ StopCam(t) \/ CloseDone(t) \/ Beyond(t)
    <3>1. pc[t] \notin {"take", "frame", "save"} /\ UNCHANGED <<spc, grabbing>>
      BY <2>1 DEF OpenCam, StartCam, OpenDone, NextRound, Check, CloseCam, StopCam, CloseDone,
                  Beyond, device
    <3>2. \A u \in Worker \ {t} : pc'[u] = pc[u] /\ job'[u] = job[u] /\ cam'[u] = cam[u]
      BY <2>1 DEF OpenCam, StartCam, OpenDone, NextRound, Check, CloseCam, StopCam, CloseDone,
                  Beyond, Begin, Return, Go, Advance, WorkerType
    <3> QED
      BY <1>2, <3>1, <3>2
  <2>2. CASE StoppedCam(t)
    <3>1. /\ pc[t] \notin {"take", "frame", "save"} /\ UNCHANGED spc
          /\ \A c \in Cam : grabbing'[c] => grabbing[c]
      BY <2>2 DEF StoppedCam, CameraType
    <3>2. \A u \in Worker \ {t} : pc'[u] = pc[u] /\ job'[u] = job[u] /\ cam'[u] = cam[u]
      BY <2>2 DEF StoppedCam, Advance, Go, WorkerType
    <3> QED
      BY <1>2, <3>1, <3>2
  <2>3. CASE Claim(t)
    BY <2>3 DEF Claim, Go, CameraType, WorkerType, WorkerCursor
  <2>4. CASE Take(t) \/ Save(t)
    BY <2>4 DEF Take, Save, Go, WorkerType, device
  <2>5. CASE Frame(t)
    BY <2>5 DEF Frame, Go, Advance, Return, Begin, CameraType, WorkerType
  <2> QED
    BY <1>3, <2>1, <2>2, <2>3, <2>4, <2>5 DEF Work
<1>4. CASE Edge \/ Order
  <2>1. PICK t \in Worker : pc[t] = "idle" /\ \E j \in Job, p \in {"open", "close", "check"} : Begin(t, j, p)
    BY <1>4 DEF Edge, Order, Worker, Job, Depth
  <2> QED
    BY <1>2, <1>4, <2>1 DEF Edge, Order, Begin, Go, WorkerType, device
<1>5. ASSUME NEW s \in Stream, PortSet(s) \/ StreamWork(s)
      PROVE  FlagReleased'
  <2>1. CASE PortSet(s) \/ StreamStart(s) \/ StreamBegin(s) \/ StreamRun(s) \/ StreamLoop(s)
             \/ StreamTake(s) \/ StreamFrame(s) \/ StreamEnd(s)
    BY <2>1 DEF PortSet, StreamStart, StreamBegin, StreamRun, StreamLoop, StreamTake,
                StreamFrame, StreamEnd, StreamGo, StreamType, device, work
  <2>2. CASE StreamMark(s)
    BY <2>2 DEF StreamMark, StreamGo, StreamType, CameraType, work
  <2>3. CASE StreamExit(s)
    BY <2>3 DEF StreamExit, StreamGo, StreamType, CameraType, work
  <2> QED
    BY <1>5, <2>1, <2>2, <2>3 DEF StreamWork
<1>6. CASE Plug \/ Uevent \/ Spurious \/ UNCHANGED vars
  BY <1>1, <1>6 DEF Plug, Uevent, Spurious, vars, device, work
<1>7. CASE \E c \in Cam : PortZero(c)
  BY <1>1, <1>7 DEF PortZero, device
<1>8. CASE Manage
  <2>1. UNCHANGED <<work, spc>> /\ \A c \in Cam : grabbing'[c] => grabbing[c]
    <3>1. CASE Search \/ Clamp \/ Wait \/ OpenDevice \/ Destroy \/ DownDone
      BY <3>1 DEF Search, Clamp, Wait, OpenDevice, Destroy, DownDone, device, work
    <3>2. CASE CreateHandle \/ Clear
      BY <3>2 DEF CreateHandle, Clear, CameraType
    <3> QED
      BY <1>8, <3>1, <3>2 DEF Manage
  <2> QED
    BY <2>1 DEF work
<1> QED
  BY <1>3, <1>4, <1>5, <1>6, <1>7, <1>8 DEF Next

-----------------------------------------------------------------------------
(* Destroyed handles are where they are expected, so no call misuses one.  *)
LEMMA CallSafe ==
  ASSUME DeadExpected, misuse \in BOOLEAN, NEW c \in Cam, Load(c)
  PROVE  UNCHANGED misuse
<1>1. misuse' = (misuse \/ FALSE)
  BY DEF DeadExpected, Load
<1> QED
  BY <1>1

LEMMA HandleStep ==
  ASSUME CameraType, WorkerCursor, SearchType, SearchCursor,
         DeadExpected, misuse \in BOOLEAN, [Next]_vars
  PROVE  DeadExpected' /\ UNCHANGED misuse
<1>1. ASSUME UNCHANGED <<handle, failed, mpc, mcam, misuse>>
      PROVE  DeadExpected' /\ UNCHANGED misuse
  BY <1>1 DEF DeadExpected, Expected
<1>2. ASSUME NEW t \in Worker, Work(t)
      PROVE  UNCHANGED <<handle, failed, mpc, mcam, misuse>>
  <2>1. CASE StartCam(t) \/ Take(t) \/ Save(t) \/ StopCam(t)
    <3>1. cam[t] \in Cam /\ Load(cam[t]) /\ UNCHANGED <<device, search>>
      BY <2>1 DEF StartCam, Take, Save, StopCam, WorkerCursor
    <3>2. UNCHANGED misuse
      BY <3>1, CallSafe
    <3> QED
      BY <3>1, <3>2 DEF device, search
  <2>2. CASE \/ OpenCam(t) \/ OpenDone(t) \/ NextRound(t) \/ Check(t) \/ Claim(t) \/ Frame(t)
             \/ CloseCam(t) \/ StoppedCam(t) \/ CloseDone(t) \/ Beyond(t)
    BY <2>2 DEF OpenCam, OpenDone, NextRound, Check, Claim, Frame, CloseCam, StoppedCam,
                CloseDone, Beyond, device, search
  <2> QED
    BY <1>2, <2>1, <2>2 DEF Work
<1>3. ASSUME NEW s \in Stream, PortSet(s) \/ StreamWork(s)
      PROVE  UNCHANGED <<handle, failed, mpc, mcam, misuse>>
  <2>1. CASE StreamBegin(s) \/ StreamTake(s)
    <3>1. s[1] \in Cam /\ Load(s[1]) /\ UNCHANGED <<device, search>>
      BY <2>1 DEF StreamBegin, StreamTake, Stream
    <3>2. UNCHANGED misuse
      BY <3>1, CallSafe
    <3> QED
      BY <3>1, <3>2 DEF device, search
  <2>2. CASE \/ PortSet(s) \/ StreamStart(s) \/ StreamMark(s) \/ StreamRun(s) \/ StreamLoop(s)
             \/ StreamFrame(s) \/ StreamExit(s) \/ StreamEnd(s)
    BY <2>2 DEF PortSet, StreamStart, StreamMark, StreamRun, StreamLoop, StreamFrame, StreamExit,
                StreamEnd, device, search
  <2> QED
    BY <1>3, <2>1, <2>2 DEF StreamWork
<1>4. CASE Edge \/ Order \/ Plug \/ UNCHANGED vars
  BY <1>1, <1>4 DEF Edge, Order, Plug, vars, device, search
<1>5. CASE \E c \in Cam : PortZero(c)
  BY <1>1, <1>5 DEF PortZero, device, search
<1>6. CASE Uevent \/ Spurious \/ Search \/ Clamp \/ Wait \/ DownDone
  BY <1>6 DEF Uevent, Spurious, Search, Searched, Clamp, Wait, DownDone, device,
              DeadExpected, Expected
<1>7. CASE CreateHandle
  BY <1>7 DEF CreateHandle, NextCam, DeadExpected, Expected, CameraType
<1>8. CASE OpenDevice
  BY <1>8 DEF OpenDevice, NextCam, DeadExpected, Expected, CameraType
<1>9. CASE Destroy
  BY <1>9 DEF Destroy, DeadExpected, Expected, CameraType
<1>10. CASE Clear
  BY <1>10 DEF Clear, DeadExpected, Expected, CameraType
<1> QED
  BY <1>1, <1>2, <1>3, <1>4, <1>5, <1>6, <1>7, <1>8, <1>9, <1>10 DEF Next, Manage

-----------------------------------------------------------------------------
(* What is open is what thr_mvs has opened and not yet taken down. *)
LEMMA OpenedStep ==
  ASSUME CameraType, SearchType, SearchCursor, OpenedRight, [Next]_vars
  PROVE  OpenedRight'
<1>0. Total \in Nat /\ cnt \in Nat /\ mcam \in Nat /\ \A c \in Cam : c \in Nat
  BY CamerasAssumption DEF SearchType, Cam
<1>1. ASSUME UNCHANGED <<handle, opened, cnt, mpc, mcam>>
      PROVE  OpenedRight'
  BY <1>1 DEF OpenedRight
<1>2. ASSUME NEW t \in Worker, Work(t)
      PROVE  OpenedRight'
  BY <1>1, <1>2 DEF Work, OpenCam, StartCam, OpenDone, NextRound, Check, Claim, Take, Save, Frame, CloseCam,
                    StopCam, StoppedCam, CloseDone, Beyond, device, search
<1>3. ASSUME NEW s \in Stream, PortSet(s) \/ StreamWork(s)
      PROVE  OpenedRight'
  BY <1>1, <1>3 DEF PortSet, StreamWork, StreamStart, StreamBegin, StreamMark, StreamRun, StreamLoop, StreamTake,
                    StreamFrame, StreamExit, StreamEnd, device, search
<1>4. CASE Edge \/ Order \/ Plug \/ UNCHANGED vars
  BY <1>1, <1>4 DEF Edge, Order, Plug, vars, device, search
<1>5. CASE \E c \in Cam : PortZero(c)
  BY <1>1, <1>5 DEF PortZero, device, search
<1>6. CASE Uevent \/ Spurious \/ Wait
  BY <1>0, <1>6 DEF Uevent, Spurious, Wait, device, OpenedRight, SearchCursor, Cam
<1>7. CASE Search \/ Clamp
  <2>1. \A c \in Cam : ~opened'[c]
    BY <1>7 DEF Search, Clamp, device, OpenedRight
  <2> QED
    BY <2>1 DEF OpenedRight
<1>8. CASE DownDone
  <2>1. \A c \in Cam : ~opened'[c]
    BY <1>0, <1>8 DEF DownDone, device, OpenedRight
  <2> QED
    BY <2>1 DEF OpenedRight
<1>9. SUFFICES ASSUME CreateHandle \/ OpenDevice \/ Destroy \/ Clear, NEW c \in Cam, opened'[c]
               PROVE  /\ handle'[c] # "null"
                      /\ c <= cnt'
                      /\ mpc' \notin {"search", "clamp"}
                      /\ mpc' = "handle" => c < mcam'
                      /\ mpc' = "device" => c <= mcam'
                      /\ mpc' \in {"down", "clear"} => c >= mcam'
  BY <1>2, <1>3, <1>4, <1>5, <1>6, <1>7, <1>8 DEF Next, Manage, OpenedRight
<1>10. c = mcam \/ opened[c]
  BY <1>9 DEF CreateHandle, OpenDevice, Destroy, Clear, CameraType
<1>11. CASE CreateHandle
  BY <1>0, <1>9, <1>10, <1>11
     DEF CreateHandle, NextCam, CameraType, OpenedRight, SearchCursor
<1>12. CASE OpenDevice
  BY <1>0, <1>9, <1>10, <1>12 DEF OpenDevice, NextCam, CameraType, OpenedRight, SearchCursor
<1>13. CASE Destroy
  BY <1>0, <1>9, <1>10, <1>13 DEF Destroy, Usable, CameraType, OpenedRight, SearchCursor
<1>14. CASE Clear
  BY <1>0, <1>9, <1>10, <1>14 DEF Clear, CameraType, OpenedRight, SearchCursor
<1> QED
  BY <1>9, <1>11, <1>12, <1>13, <1>14

-----------------------------------------------------------------------------
(***************************************************************************)
(* The inductive invariant of csv_mvs.c and csv_gev.c's grab threads holds *)
(* in every reachable state.                                               *)
(***************************************************************************)
THEOREM Invariance == Spec => []IInv
<1>1. IInv /\ [Next]_vars => IInv'
  <2> SUFFICES ASSUME IInv, [Next]_vars PROVE IInv'
    OBVIOUS
  <2>1. DeadExpected' /\ UNCHANGED misuse
    BY HandleStep DEF IInv, TypeOK
  <2> QED
    BY <2>1, SearchStep, CameraStep, StreamStep, WorkerStep, FlagStep, OpenedStep
       DEF IInv, TypeOK, HandlesLive
<1> QED
  BY InitIInv, <1>1, PTL DEF Spec

(***************************************************************************)
(* Every variable keeps its type, for any number of cameras, of searches   *)
(* and of threads of a stream.                                             *)
(***************************************************************************)
THEOREM TypeCorrect == Spec => []TypeOK
<1>1. IInv => TypeOK
  BY DEF IInv
<1> QED
  BY Invariance, <1>1, PTL

(***************************************************************************)
(* pCAM->grabbing is never left set: a thread is on its way to clear it.   *)
(***************************************************************************)
THEOREM FlagsReleased == Spec => []FlagReleased
<1>1. IInv => FlagReleased
  BY DEF IInv
<1> QED
  BY Invariance, <1>1, PTL

(***************************************************************************)
(* Destroyed handles reach the SDK in the two expected ways only.          *)
(***************************************************************************)
THEOREM HandlesSafe == Spec => []HandlesLive
<1>1. IInv => HandlesLive
  BY DEF IInv
<1> QED
  BY Invariance, <1>1, PTL

(***************************************************************************)
(* thr_mvs sleeps over a change of the cameras only if it missed an event  *)
(* or its enumeration failed, and leaves nothing open beyond cnt_mvs.      *)
(***************************************************************************)
THEOREM CountsCurrent == Spec => []CamerasCurrent
<1>1. IInv => CamerasCurrent
  BY DEF IInv, CountRight, OpenedRight, CamerasCurrent
<1> QED
  BY Invariance, <1>1, PTL

-----------------------------------------------------------------------------
(* The triggers of thr_grab (GrabTrigger), for any number of them.         *)
LEMMA StoreStep ==
  ASSUME TrigInv, Store
  PROVE  TrigInv'
<1> DEFINE n == last + 1
<1>1. /\ last \in Nat /\ grab_type = last /\ calling = 0
      /\ woke \in 0..last /\ crossed \subseteq 0..last /\ lost \subseteq 1..last
      /\ grab # "woken" => woke = 0
  BY DEF TrigInv, TrigTypeOK, Store
<1>2. /\ last' = n /\ grab_type' = n /\ calling' = n
      /\ UNCHANGED <<grab, woke, taken, lost>>
      /\ crossed' = crossed \cup (IF Opening = {} THEN {} ELSE Opening \cup {n})
  BY DEF Store
<1>3. n \in Nat /\ n > last /\ n # 0 /\ 0..last \subseteq 0..n /\ 1..last \subseteq 1..n
      /\ n \in 1..n /\ n \in 0..n /\ n \notin 0..last
      /\ \A k \in 1..n : k = n \/ k \in 1..last
  BY <1>1
<1> HIDE DEF n
<1>4. Opening \subseteq 0..last
  BY <1>1 DEF Opening
<1>5. TrigTypeOK'
  <2>1. crossed' \subseteq 0..n
    BY <1>1, <1>2, <1>3, <1>4
  <2> QED
    BY <1>1, <1>2, <1>3, <2>1 DEF TrigInv, TrigTypeOK
<1>6. crossed \subseteq crossed' /\ Opening \subseteq crossed'
  BY <1>2
<1>7. Calling' = {n} /\ Calling = {} /\ Opening' = Opening
  BY <1>1, <1>2, <1>3 DEF Calling, Opening
<1>8. Opening # {} => n \in crossed'
  BY <1>2
<1>9. Alone'
  <2>1. ASSUME grab' = "woken"
        PROVE  n \in crossed'
    BY <1>2, <1>8, <2>1 DEF Opening
  <2>2. ASSUME NEW k \in UnderWay' \ crossed'
        PROVE  k = last' /\ \A i \in 1..Len(taken') : taken'[i].type # k
    <3>1. k = n
      BY <1>6, <1>7, <2>2 DEF UnderWay
    <3>2. ASSUME NEW i \in 1..Len(taken) PROVE taken[i].type # n
      BY <1>3 DEF TrigInv, Known
    <3> QED
      BY <1>2, <3>1, <3>2
  <2> QED
    BY <1>2, <2>1, <2>2 DEF Alone
<1>10. Known'
  BY <1>2, <1>3 DEF TrigInv, Known
<1>11. OwnKind' /\ OneSeriesEach'
  BY <1>2, <1>6 DEF TrigInv, OwnKind, OneSeriesEach
<1>12. NoneForgotten'
  <2> SUFFICES ASSUME NEW k \in (1..n) \ crossed'
               PROVE  k \in lost \cup UnderWay' \cup {taken[i].type : i \in 1..Len(taken)}
    BY <1>2 DEF NoneForgotten
  <2>1. CASE k = n
    BY <1>3, <1>7, <2>1 DEF UnderWay
  <2>2. CASE k # n
    <3>1. k \in lost \cup UnderWay \cup {taken[i].type : i \in 1..Len(taken)}
      BY <1>3, <1>6, <2>2 DEF TrigInv, NoneForgotten
    <3>2. UnderWay \subseteq UnderWay'
      BY <1>7 DEF UnderWay
    <3> QED
      BY <3>1, <3>2
  <2> QED
    BY <2>1, <2>2
<1> QED
  BY <1>2, <1>5, <1>9, <1>10, <1>11, <1>12 DEF TrigInv

(* Of the two ways it can come, one wakes thr_grab, the other is lost. *)
LEMMA BroadcastStep ==
  ASSUME TrigInv, Broadcast
  PROVE  TrigInv'
<1>1. /\ last \in Nat /\ calling \in 1..last
      /\ grab # "woken" => woke = 0
  BY DEF TrigInv, TrigTypeOK, Broadcast
<1>2. /\ calling' = 0
      /\ UNCHANGED <<last, grab_type, taken, crossed>>
  BY DEF Broadcast
<1>3. Calling' = {} /\ Calling = {calling}
  BY <1>1, <1>2 DEF Calling
<1>4. Known' /\ OwnKind' /\ OneSeriesEach'
  BY <1>2 DEF TrigInv, Known, OwnKind, OneSeriesEach
<1>5. CASE /\ grab = "wait" /\ grab' = "woken"
           /\ woke' = calling
           /\ lost' = lost
  <2>1. UnderWay' = UnderWay
    BY <1>3, <1>5 DEF UnderWay, Opening
  <2>2. Alone'
    BY <1>2, <2>1 DEF TrigInv, Alone
  <2>3. NoneForgotten'
    BY <1>2, <1>5, <2>1 DEF TrigInv, NoneForgotten
  <2> QED
    BY <1>1, <1>2, <1>4, <1>5, <2>2, <2>3 DEF TrigInv, TrigTypeOK
<1>6. CASE /\ grab # "wait" /\ UNCHANGED <<grab, woke>>
           /\ lost' = lost \cup {calling}
  <2>1. UnderWay' \subseteq UnderWay /\ UnderWay \subseteq UnderWay' \cup lost'
    BY <1>3, <1>6 DEF UnderWay, Opening
  <2>2. Alone'
    BY <1>2, <2>1 DEF TrigInv, Alone
  <2>3. NoneForgotten'
    BY <1>2, <1>6, <2>1 DEF TrigInv, NoneForgotten
  <2> QED
    BY <1>1, <1>2, <1>4, <1>6, <2>2, <2>3 DEF TrigInv, TrigTypeOK
<1> QED
  BY <1>5, <1>6 DEF Broadcast

LEMMA SpuriousStep ==
  ASSUME TrigInv, SpuriousWakeup
  PROVE  TrigInv'
<1>1. /\ grab = "wait" /\ grab' = "woken" /\ woke' = 0
      /\ crossed' = crossed \cup Calling
      /\ UNCHANGED <<last, grab_type, calling, taken, lost>>
  BY DEF SpuriousWakeup
<1>2. /\ last \in Nat /\ calling \in 0..last
  BY DEF TrigInv, TrigTypeOK
<1>3. Calling' = Calling /\ UnderWay' = UnderWay
  BY <1>1 DEF Calling, UnderWay, Opening
<1>4. calling # 0 => calling \in crossed'
  BY <1>1 DEF Calling
<1>5. Alone'
  BY <1>1, <1>3, <1>4 DEF TrigInv, Alone
<1>6. Known' /\ OwnKind' /\ OneSeriesEach'
  BY <1>1 DEF TrigInv, Known, OwnKind, OneSeriesEach
<1>7. NoneForgotten'
  BY <1>1, <1>3 DEF TrigInv, NoneForgotten
<1>8. crossed' \subseteq 0..last
  BY <1>1, <1>2 DEF TrigInv, TrigTypeOK, Calling
<1> QED
  BY <1>1, <1>2, <1>5, <1>6, <1>7, <1>8 DEF TrigInv, TrigTypeOK

(* What woke thr_grab is the last trigger, with no series yet, or crossed. *)
LEMMA SwitchStep ==
  ASSUME TrigInv, Switch
  PROVE  TrigInv'
<1> DEFINE e == [woke |-> woke, type |-> grab_type]
           m == Len(taken)
<1>1. /\ grab = "woken" /\ grab' = "away" /\ woke' = 0 /\ taken' = Append(taken, e)
      /\ UNCHANGED <<last, grab_type, calling, lost, crossed>>
  BY DEF Switch
<1>2. /\ last \in Nat /\ grab_type = last /\ calling \in 0..last
      /\ woke \in 0..last /\ taken \in Seq([woke : Nat, type : Nat])
  BY DEF TrigInv, TrigTypeOK
<1>3. /\ e.woke = woke /\ e.type = last /\ e \in [woke : Nat, type : Nat]
  BY <1>2
<1> HIDE DEF e
<1>4. /\ m \in Nat /\ Len(taken') = m + 1 /\ taken'[m + 1] = e
      /\ \A i \in 1..m : taken'[i] = taken[i]
      /\ taken' \in Seq([woke : Nat, type : Nat])
  BY <1>1, <1>2, <1>3
<1> HIDE DEF m
<1>5. /\ 1..Len(taken') = (1..m) \cup {m + 1}
      /\ 1..Len(taken) = 1..m
      /\ \A i, j \in 1..Len(taken') : i < j => i \in 1..m
  BY <1>4 DEF m
<1>6. Calling' = Calling /\ Opening = {woke} /\ Opening' = {}
  BY <1>1 DEF Calling, Opening
<1>7. woke \notin crossed \cup {0} => woke = last /\ \A i \in 1..m : taken[i].type # woke
  BY <1>5, <1>6 DEF TrigInv, Alone, UnderWay
<1>8. Alone'
  <2>1. Calling \subseteq crossed
    BY <1>1 DEF TrigInv, Alone, Calling
  <2>2. UnderWay' \ crossed' = {}
    BY <1>1, <1>6, <2>1 DEF UnderWay
  <2> QED
    BY <1>1, <2>2 DEF TrigInv, Alone
<1>9. Known'
  BY <1>1, <1>2, <1>3, <1>4, <1>5 DEF TrigInv, Known
<1>10. OwnKind'
  BY <1>1, <1>3, <1>4, <1>5, <1>7 DEF TrigInv, OwnKind
<1>11. OneSeriesEach'
  <2> SUFFICES ASSUME NEW i \in 1..Len(taken'), NEW j \in 1..Len(taken'), i < j,
                      taken'[i].type = taken'[j].type
               PROVE  taken'[j].woke \in crossed \cup {0}
    BY <1>1 DEF OneSeriesEach
  <2>1. i \in 1..m /\ taken'[i] = taken[i]
    BY <1>4, <1>5
  <2>2. CASE j \in 1..m
    BY <1>4, <1>5, <2>1, <2>2 DEF TrigInv, OneSeriesEach
  <2>3. CASE j = m + 1
    BY <1>3, <1>4, <1>7, <2>1, <2>3
  <2> QED
    BY <1>5, <2>2, <2>3
<1>12. NoneForgotten'
  <2> SUFFICES ASSUME NEW n \in (1..last) \ crossed
               PROVE  n \in lost \cup UnderWay' \cup {taken'[i].type : i \in 1..Len(taken')}
    BY <1>1 DEF NoneForgotten
  <2>1. n \in lost \cup UnderWay \cup {taken[i].type : i \in 1..m}
    BY <1>5 DEF TrigInv, NoneForgotten
  <2>2. {taken[i].type : i \in 1..m} \subseteq {taken'[i].type : i \in 1..Len(taken')}
    BY <1>4, <1>5
  <2>3. last \in {taken'[i].type : i \in 1..Len(taken')}
    BY <1>3, <1>4, <1>5
  <2>4. n \in UnderWay => n \in UnderWay' \/ n = last
    BY <1>6, <1>7 DEF UnderWay
  <2> QED
    BY <2>1, <2>2, <2>3, <2>4
<1> QED
  BY <1>1, <1>2, <1>4, <1>8, <1>9, <1>10, <1>11, <1>12 DEF TrigInv, TrigTypeOK

LEMMA WaitAgainStep ==
  ASSUME TrigInv, WaitAgain
  PROVE  TrigInv'
<1>1. /\ grab = "away" /\ grab' = "wait"
      /\ UNCHANGED <<last, grab_type, calling, woke, taken, lost, crossed>>
  BY DEF WaitAgain
<1>2. UnderWay' = UnderWay
  BY <1>1 DEF UnderWay, Opening, Calling
<1> QED
  BY <1>1, <1>2 DEF TrigInv, TrigTypeOK, Alone, Known, OwnKind, OneSeriesEach, NoneForgotten

LEMMA TrigStart == TrigInit => TrigInv
<1> SUFFICES ASSUME TrigInit PROVE TrigInv
  OBVIOUS
<1>1. /\ last = 0 /\ grab_type = 0 /\ calling = 0
      /\ grab = "away" /\ woke = 0
      /\ taken = <<>> /\ lost = {} /\ crossed = {}
  BY DEF TrigInit
<1>2. UnderWay = {}
  BY <1>1 DEF UnderWay, Opening, Calling
<1>3. Alone
  BY <1>1, <1>2 DEF Alone
<1>4. Known /\ OwnKind /\ OneSeriesEach /\ NoneForgotten
  BY <1>1 DEF Known, OwnKind, OneSeriesEach, NoneForgotten
<1>5. TrigTypeOK
  BY <1>1 DEF TrigTypeOK
<1> QED
  BY <1>1, <1>3, <1>4, <1>5 DEF TrigInv

LEMMA TrigNextStep == TrigInv /\ [TrigNext]_trigVars => TrigInv'
<1> SUFFICES ASSUME TrigInv, [TrigNext]_trigVars PROVE TrigInv'
  OBVIOUS
<1>1. CASE UNCHANGED trigVars
  BY <1>1 DEF trigVars, TrigInv, TrigTypeOK, Alone, Known, OwnKind, OneSeriesEach,
       NoneForgotten, UnderWay, Opening, Calling
<1> QED
  BY <1>1, StoreStep, BroadcastStep, SpuriousStep, SwitchStep, WaitAgainStep DEF TrigNext

(***************************************************************************)
(* The stores of grab_type, the broadcasts of cond_grab and what thr_grab  *)
(* makes of them, at any step: a trigger under way that has crossed no     *)
(* other is the last and has no series yet.                                *)
(***************************************************************************)
THEOREM TriggerInvariance == TrigSpec => []TrigInv
<1> QED
  BY TrigStart, TrigNextStep, PTL DEF TrigSpec

(***************************************************************************)
(* A trigger that crosses no other starts a series of its own kind: the    *)
(* cameras are opened between the wakeup and the switch over grab_type,    *)
(* but nothing is stored in between (csv_mvs_grab_loop).                   *)
(***************************************************************************)
THEOREM SeriesOfItsKind == TrigSpec => []OwnKind
<1>1. TrigInv => OwnKind
  BY DEF TrigInv
<1> QED
  BY <1>1, TriggerInvariance, PTL

(***************************************************************************)
(* A trigger has a second series only if it crossed another, or by a       *)
(* wakeup without a broadcast.                                             *)
(***************************************************************************)
THEOREM OneSeriesPerTrigger == TrigSpec => []OneSeriesEach
<1>1. TrigInv => OneSeriesEach
  BY DEF TrigInv
<1> QED
  BY <1>1, TriggerInvariance, PTL

(***************************************************************************)
(* A trigger that crosses no other is under way, has had its series, or    *)
(* was broadcast while thr_grab did not wait: the wait has no predicate,   *)
(* and nothing else loses a trigger.                                       *)
(***************************************************************************)
THEOREM NoTriggerForgotten == TrigSpec => []NoneForgotten
<1>1. TrigInv => NoneForgotten
  BY DEF TrigInv
<1> QED
  BY <1>1, TriggerInvariance, PTL
=============================================================================

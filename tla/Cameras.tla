------------------------------ MODULE Cameras ------------------------------
(***************************************************************************)
(* The cameras of csv_mvs.c and the threads that use them without a lock.  *)
(* thr_mvs searches, opens and, at a plug event, takes down the cameras;   *)
(* thr_grab runs a series of grabs for each trigger of csv_gpi.c; thr_msg  *)
(* runs the commands of the client; each start of a GVSP stream (csv_gev.c)*)
(* spawns one more thread.  What keeps them apart is pCAM->grabbing, which *)
(* every one of them tests, sets and clears on its own.                    *)
(*                                                                         *)
(* The tests of the fields of a camera, the load of its handle for a call  *)
(* of the vendor's SDK, the return of that call and every store are steps  *)
(* of their own.  The SDK is external: its calls may fail and may last,    *)
(* and calls one after the other are as one that lasts.  A series goes     *)
(* round the cameras any number of times.  Memory is never exhausted, and  *)
(* a process that survives the misuse of a handle goes on.                 *)
(***************************************************************************)
EXTENDS Naturals

CONSTANTS
  Total,      (* TOTAL_CAMS: the cameras the service can use                *)
  Plugs,      (* bound: the cameras that may be plugged in at a time        *)
  Tries,      (* MVS_WAIT_TIMEO: the searches for missing cameras           *)
  Starts      (* bound: the threads of one stream alive at the same time    *)

ASSUME CamerasAssumption ==
  {Total, Plugs, Tries, Starts} \subseteq Nat \ {0}

Cam == 1..Total
Worker == {"grab", "msg"}           \* thr_grab, thr_msg
Stream == Cam \X (1..Starts)
(* csv_mvs_cams_img_depth, before and after its first error. *)
Depth == {"depth", "failed"}
Job == Depth \cup {"none", "series", "both", "open", "close"}

VARIABLES
  plugged,   \* the cameras plugged in
  event,     \* a plug event is on its way to the main loop
  cnt,       \* pMVS->cnt_mvs
  handle,    \* pCAM->pHandle: NULL, valid, or destroyed and not NULL
  opened,    \* pCAM->opened
  grabbing,  \* pCAM->grabbing
  status,    \* pStream->grab_status; GRAB_STATUS_NONE is as good as STOP
  pc, job, cam,          \* of each worker: where it is, and its loops
  spc,       \* of each stream thread: where it is
  mpc, mcam, tries,      \* of thr_mvs
  misuse,    \* history: an SDK call was handed a destroyed handle, other
             \* than one that Expected allows for
  missed,    \* history: since thr_mvs last enumerated the cameras a plug
             \* event has come before it waited, or that enumeration failed
  failed     \* history: the cameras whose MV_CC_OpenDevice has failed since
             \* their handle was created

device == <<handle, opened, grabbing>>
work == <<pc, job, cam>>
search == <<mpc, mcam, tries, cnt, missed, failed>>
vars == <<plugged, event, cnt, handle, opened, grabbing, status, pc, job, cam,
          spc, mpc, mcam, tries, misuse, missed, failed>>

Init ==
  /\ plugged \in 0..Plugs /\ event = FALSE
  /\ cnt = 0
  /\ handle = [c \in Cam |-> "null"]
  /\ opened = [c \in Cam |-> FALSE] /\ grabbing = [c \in Cam |-> FALSE]
  /\ status = [c \in Cam |-> "stop"]
  /\ pc = [t \in Worker |-> "idle"] /\ job = [t \in Worker |-> "none"]
  /\ cam = [t \in Worker |-> 1]
  /\ spc = [s \in Stream |-> "none"]
  /\ mpc = "search" /\ mcam = 1 /\ tries = 0
  /\ misuse = FALSE /\ missed = FALSE /\ failed = {}

(* A destroyed handle is kept when the device could not be opened, and     *)
(* while csv_mvs_camera_deinit has not come to clear it.                   *)
Expected(c) == c \in failed \/ (mpc = "clear" /\ mcam = c)

(* A call of the SDK loads the handle of camera c.                         *)
Load(c) == misuse' = (misuse \/ (handle[c] = "dead" /\ ~Expected(c)))

(* pCAM->imgData: allocated last by csv_mvs_cameras_init. *)
Image(c) == opened[c] /\ ~(mpc = "device" /\ mcam = c)

Usable(c) == opened[c] /\ handle[c] # "null"

-----------------------------------------------------------------------------
(* The workers. *)

Go(t, p) == pc' = [pc EXCEPT ![t] = p]

Begin(t, j, p) ==
  /\ job' = [job EXCEPT ![t] = j]
  /\ cam' = [cam EXCEPT ![t] = 1]
  /\ Go(t, p)

(* A falling edge on an input: thr_grab is woken, if it waits.             *)
Edge ==
  /\ pc["grab"] = "idle"
  /\ Begin("grab", "none", "open")
  /\ UNCHANGED <<plugged, event, device, status, spc, search, misuse>>

Order ==
  /\ pc["msg"] = "idle"
  /\ \/ Begin("msg", "open", "open")
     \/ Begin("msg", "close", "close")
     \/ Begin("msg", "both", "check")
     \/ Begin("msg", "depth", "check")
  /\ UNCHANGED <<plugged, event, device, status, spc, search, misuse>>

Advance(t) == cam' = [cam EXCEPT ![t] = @ + 1]

(* The series returns: csv_mvs_grab_loop closes, a command answers. *)
Return(t) == Begin(t, "none", IF t = "grab" THEN "close" ELSE "idle")

(* csv_mvs_cams_open, one camera: it asks for a handle only. *)
OpenCam(t) ==
  /\ pc[t] = "open" /\ cam[t] <= cnt /\ cam[t] \in Cam
  /\ \/ /\ handle[cam[t]] # "null" /\ ~grabbing[cam[t]]
        /\ Go(t, "start")
        /\ UNCHANGED cam
     \/ /\ handle[cam[t]] = "null" \/ grabbing[cam[t]]
        /\ Advance(t)
        /\ UNCHANGED pc
  /\ UNCHANGED <<plugged, event, device, status, job, spc, search, misuse>>

StartCam(t) ==
  /\ pc[t] = "start"
  /\ Load(cam[t])
  /\ Advance(t) /\ Go(t, "open")
  /\ UNCHANGED <<plugged, event, device, status, job, spc, search>>

(* thr_grab goes on to csv_mvs_cams_demarcate or csv_mvs_cams_highspeed,   *)
(* of which the former may return at once, for want of a directory for its *)
(* images; thr_msg answers.                                                *)
OpenDone(t) ==
  /\ pc[t] = "open" /\ cam[t] > cnt
  /\ \/ t = "msg" /\ Begin(t, "none", "idle")
     \/ t = "grab" /\ Begin(t, "series", "check")
     \/ t = "grab" /\ Begin(t, "none", "close")
  /\ UNCHANGED <<plugged, event, device, status, spc, search, misuse>>

(* A loop reads cnt_mvs before it is clamped and visits a camera that is   *)
(* not there: what it finds is not a camera's, and what it may do with it  *)
(* is left out.                                                            *)
Beyond(t) ==
  /\ pc[t] \in {"open", "check", "close"} /\ cam[t] <= cnt /\ cam[t] \notin Cam
  /\ \/ Advance(t) /\ UNCHANGED <<pc, job>>
     \/ pc[t] = "check" /\ Return(t)
  /\ UNCHANGED <<plugged, event, device, status, spc, search, misuse>>

NextRound(t) ==
  /\ pc[t] = "check" /\ cam[t] > cnt
  /\ \/ Return(t)
     \/ /\ job[t] \in {"series", "depth"}
        /\ cam' = [cam EXCEPT ![t] = 1]
        /\ UNCHANGED <<pc, job>>
  /\ UNCHANGED <<plugged, event, device, status, spc, search, misuse>>

(* The tests before a frame. csv_mvs_cams_img_depth ignores the flag, and  *)
(* ends with this round if a camera is not open.                           *)
Check(t) ==
  /\ pc[t] = "check" /\ cam[t] <= cnt /\ cam[t] \in Cam
  /\ LET c == cam[t]
         ready == Usable(c) /\ (job[t] = "both" => Image(c))
     IN  \/ /\ job[t] \notin Depth /\ grabbing[c]
            /\ Return(t)
         \/ /\ job[t] \in Depth \/ ~grabbing[c]
            /\ ready
            /\ Go(t, IF job[t] \in Depth THEN "take" ELSE "claim")
            /\ UNCHANGED <<job, cam>>
         \/ /\ job[t] \in Depth \/ ~grabbing[c]
            /\ ~ready
            /\ Advance(t)
            /\ job' = IF job[t] = "depth" THEN [job EXCEPT ![t] = "failed"] ELSE job
            /\ UNCHANGED pc
  /\ UNCHANGED <<plugged, event, device, status, spc, search, misuse>>

(* grabbing = true, but for csv_mvs_cams_img_depth. *)
Claim(t) ==
  /\ pc[t] = "claim"
  /\ grabbing' = [grabbing EXCEPT ![cam[t]] = TRUE]
  /\ Go(t, "take")
  /\ UNCHANGED <<plugged, event, handle, opened, status, job, cam, spc, search,
                 misuse>>

(* MV_CC_GetOneFrameTimeout begins, of up to 3 s. *)
Take(t) ==
  /\ pc[t] = "take"
  /\ Load(cam[t])
  /\ Go(t, "frame")
  /\ UNCHANGED <<plugged, event, device, status, job, cam, spc, search>>

(* The frame has arrived.  save_image_to_bmp and save_image_to_jpeg are    *)
(* given the handle; they hand it to MV_CC_SaveImageEx2 after they have    *)
(* allocated their buffer.                                                 *)
Save(t) ==
  /\ pc[t] = "frame" /\ job[t] # "both"
  /\ Load(cam[t])
  /\ Go(t, "save")
  /\ UNCHANGED <<plugged, event, device, status, job, cam, spc, search>>

(* A slip: a camera without data is left marked. *)
FrameLeft(t) ==
  /\ pc[t] \in {"frame", "save"}
  /\ \/ /\ grabbing' = IF job[t] \in Depth THEN grabbing
                       ELSE [grabbing EXCEPT ![cam[t]] = FALSE]
        /\ Advance(t) /\ Go(t, "check") /\ UNCHANGED job
     \/ pc[t] = "frame" /\ job[t] # "both" /\ Return(t) /\ UNCHANGED grabbing
  /\ UNCHANGED <<plugged, event, handle, opened, status, spc, search, misuse>>

(* grabbing = false, after the frame or its image.  A camera without data  *)
(* ends a series, and so does any failure in csv_mvs_cams_img_depth.       *)
Frame(t) ==
  /\ pc[t] \in {"frame", "save"}
  /\ grabbing' = IF job[t] \in Depth THEN grabbing
                 ELSE [grabbing EXCEPT ![cam[t]] = FALSE]
  /\ \/ Advance(t) /\ Go(t, "check") /\ UNCHANGED job
     \/ pc[t] = "frame" /\ job[t] # "both" /\ Return(t)
  /\ UNCHANGED <<plugged, event, handle, opened, status, spc, search, misuse>>

(* csv_mvs_cams_close, one camera. *)
CloseCam(t) ==
  /\ pc[t] = "close" /\ cam[t] <= cnt /\ cam[t] \in Cam
  /\ LET c == cam[t]
     IN  \/ handle[c] # "null" /\ grabbing[c] /\ Go(t, "stop") /\ UNCHANGED cam
         \/ (handle[c] = "null" \/ ~grabbing[c]) /\ Advance(t) /\ UNCHANGED pc
  /\ UNCHANGED <<plugged, event, device, status, job, spc, search, misuse>>

StopCam(t) ==
  /\ pc[t] = "stop"
  /\ Load(cam[t])
  /\ Go(t, "stopped")
  /\ UNCHANGED <<plugged, event, device, status, job, cam, spc, search>>

StoppedCam(t) ==
  /\ pc[t] = "stopped"
  /\ grabbing' = [grabbing EXCEPT ![cam[t]] = FALSE]
  /\ Advance(t) /\ Go(t, "close")
  /\ UNCHANGED <<plugged, event, handle, opened, status, job, spc, search, misuse>>

CloseDone(t) ==
  /\ pc[t] = "close" /\ cam[t] > cnt
  /\ Begin(t, "none", "idle")
  /\ UNCHANGED <<plugged, event, device, status, spc, search, misuse>>

-----------------------------------------------------------------------------
(* The streams.  The main loop writes the stream port of a camera.         *)

StreamGo(s, p) == spc' = [spc EXCEPT ![s] = p]

PortZero(c) ==
  /\ status' = [status EXCEPT ![c] = "stop"]
  /\ UNCHANGED <<plugged, event, device, work, spc, search, misuse>>

(* csv_gvsp_cam_grab_thread *)
PortSet(s) ==
  /\ status[s[1]] # "running"
  /\ spc[s] = "none"
  /\ \A k \in 1..(s[2] - 1) : spc[<<s[1], k>>] # "none"
  /\ StreamGo(s, "start")
  /\ UNCHANGED <<plugged, event, device, status, work, search, misuse>>

(* csv_gvsp_cam_grab_loop: the tests. *)
StreamStart(s) ==
  /\ spc[s] = "start"
  /\ \/ (grabbing[s[1]] \/ ~Usable(s[1])) /\ StreamGo(s, "exit")
     \/ ~grabbing[s[1]] /\ Usable(s[1]) /\ StreamGo(s, "begin")
  /\ UNCHANGED <<plugged, event, device, status, work, search, misuse>>

(* MV_CC_StartGrabbing, which may fail. *)
StreamBegin(s) ==
  /\ spc[s] = "begin"
  /\ Load(s[1])
  /\ StreamGo(s, "mark") \/ StreamGo(s, "exit")
  /\ UNCHANGED <<plugged, event, device, status, work, search>>

StreamMark(s) ==
  /\ spc[s] = "mark"
  /\ grabbing' = [grabbing EXCEPT ![s[1]] = TRUE]
  /\ StreamGo(s, "run")
  /\ UNCHANGED <<plugged, event, handle, opened, status, work, search, misuse>>

StreamRun(s) ==
  /\ spc[s] = "run"
  /\ status' = [status EXCEPT ![s[1]] = "running"]
  /\ StreamGo(s, "loop")
  /\ UNCHANGED <<plugged, event, device, work, search, misuse>>

(* The next frame, or the end. *)
StreamLoop(s) ==
  /\ spc[s] = "loop"
  /\ StreamGo(s, IF status[s[1]] = "running" THEN "take" ELSE "stop")
  /\ UNCHANGED <<plugged, event, device, status, work, search, misuse>>

(* MV_CC_GetOneFrameTimeout, MV_CC_StopGrabbing *)
StreamTake(s) ==
  /\ spc[s] \in {"take", "stop"}
  /\ Load(s[1])
  /\ StreamGo(s, IF spc[s] = "take" THEN "frame" ELSE "exit")
  /\ UNCHANGED <<plugged, event, device, status, work, search>>

StreamFrame(s) ==
  /\ spc[s] = "frame"
  /\ StreamGo(s, "loop")
  /\ UNCHANGED <<plugged, event, device, status, work, search, misuse>>

(* exit_thr, also for a thread that has not started the camera. *)
StreamExit(s) ==
  /\ spc[s] = "exit"
  /\ grabbing' = [grabbing EXCEPT ![s[1]] = FALSE]
  /\ StreamGo(s, "end")
  /\ UNCHANGED <<plugged, event, handle, opened, status, work, search, misuse>>

StreamEnd(s) ==
  /\ spc[s] = "end"
  /\ status' = [status EXCEPT ![s[1]] = "stop"]
  /\ StreamGo(s, "none")
  /\ UNCHANGED <<plugged, event, device, work, search, misuse>>

-----------------------------------------------------------------------------
(* thr_mvs. *)

Plug ==
  /\ plugged' \in 0..Plugs
  /\ plugged' # plugged
  /\ event' = TRUE
  /\ UNCHANGED <<device, status, work, spc, search, misuse>>

(* csv_uevent_trigger: a broadcast to thr_mvs, lost unless it waits. *)
Uevent ==
  /\ event
  /\ event' = FALSE
  /\ mpc' = IF mpc = "wait" THEN "down" ELSE mpc
  /\ missed' = (missed \/ mpc # "wait")
  /\ UNCHANGED <<plugged, device, status, work, spc, mcam, tries, cnt, failed,
                 misuse>>

(* The search is repeated while cameras are missing. *)
Searched(n) ==
  IF n < Total /\ tries + 1 < Tries
  THEN tries' = tries + 1 /\ mpc' = "search"
  ELSE tries' = 0 /\ mpc' = IF n > 0 THEN "handle" ELSE "sleep"

(* csv_mvs_cameras_search: cnt_mvs = 0, and MV_CC_EnumDevices, which may   *)
(* fail or find none.  cnt_mvs is all that it finds ...                    *)
Search ==
  /\ mpc = "search"
  /\ \/ /\ plugged > Total
        /\ cnt' = plugged /\ missed' = FALSE
        /\ mpc' = "clamp" /\ UNCHANGED tries
     \/ plugged <= Total /\ cnt' = plugged /\ missed' = FALSE /\ Searched(plugged)
     \/ cnt' = 0 /\ missed' = TRUE /\ Searched(0)
  /\ UNCHANGED <<plugged, event, device, status, work, spc, mcam, misuse, failed>>

(* ... and then no more than the array has. *)
Clamp ==
  /\ mpc = "clamp"
  /\ cnt' = Total
  /\ Searched(Total)
  /\ UNCHANGED <<plugged, event, device, status, work, spc, mcam, misuse, missed,
                 failed>>

NextCam(c) ==
  IF c < cnt THEN mcam' = c + 1 /\ mpc' = "handle"
             ELSE mcam' = 1 /\ mpc' = "sleep"

(* csv_mvs_cameras_init, one camera: opened is set before it is. *)
CreateHandle ==
  /\ mpc = "handle"
  /\ grabbing' = [grabbing EXCEPT ![mcam] = FALSE]
  /\ \/ /\ handle' = [handle EXCEPT ![mcam] = "open"]
        /\ opened' = [opened EXCEPT ![mcam] = TRUE]
        /\ mpc' = "device" /\ UNCHANGED mcam
     \/ /\ handle' = [handle EXCEPT ![mcam] = "null"]
        /\ NextCam(mcam)
        /\ UNCHANGED opened
  /\ failed' = failed \ {mcam}
  /\ UNCHANGED <<plugged, event, status, work, spc, tries, cnt, missed, misuse>>

(* If the device cannot be opened its handle is destroyed, not cleared. *)
OpenDevice ==
  /\ mpc = "device"
  /\ \/ UNCHANGED <<handle, opened, failed>>
     \/ /\ handle' = [handle EXCEPT ![mcam] = "dead"]
        /\ opened' = [opened EXCEPT ![mcam] = FALSE]
        /\ failed' = failed \cup {mcam}
  /\ NextCam(mcam)
  /\ UNCHANGED <<plugged, event, grabbing, status, pc, job, cam, spc, tries,
                 cnt, missed, misuse>>

(* pthread_cond_wait: until here a broadcast is lost. *)
Wait ==
  /\ mpc = "sleep"
  /\ mpc' = "wait"
  /\ UNCHANGED <<plugged, event, device, status, work, spc, mcam, tries, cnt,
                 missed, failed, misuse>>

(* A spurious wakeup is taken for a plug event. *)
Spurious ==
  /\ mpc = "wait"
  /\ mpc' = "down"
  /\ UNCHANGED <<plugged, event, device, status, work, spc, mcam, tries, cnt,
                 missed, failed, misuse>>

(* csv_mvs_camera_deinit, one camera: the SDK's part, then the fields. *)
Destroy ==
  /\ mpc = "down" /\ mcam <= cnt
  /\ \/ /\ Usable(mcam)
        /\ handle' = [handle EXCEPT ![mcam] = "dead"]
        /\ mpc' = "clear"
        /\ UNCHANGED mcam
     \/ /\ ~Usable(mcam)
        /\ mcam' = mcam + 1
        /\ UNCHANGED <<handle, mpc>>
  /\ UNCHANGED <<plugged, event, opened, grabbing, status, pc, job, cam, spc,
                 tries, cnt, missed, failed, misuse>>

(* A slip: the handle is not cleared. *)
ClearKept ==
  /\ mpc = "clear"
  /\ opened' = [opened EXCEPT ![mcam] = FALSE]
  /\ grabbing' = [grabbing EXCEPT ![mcam] = FALSE]
  /\ mcam' = mcam + 1
  /\ mpc' = "down"
  /\ UNCHANGED <<plugged, event, handle, status, work, spc, tries, cnt, missed,
                 failed, misuse>>

Clear ==
  /\ mpc = "clear"
  /\ handle' = [handle EXCEPT ![mcam] = "null"]
  /\ opened' = [opened EXCEPT ![mcam] = FALSE]
  /\ grabbing' = [grabbing EXCEPT ![mcam] = FALSE]
  /\ mcam' = mcam + 1
  /\ mpc' = "down"
  /\ UNCHANGED <<plugged, event, status, work, spc, tries, cnt, missed, failed,
                 misuse>>

(* A slip: the cameras are opened again without a search. *)
DownDoneReopen ==
  /\ mpc = "down" /\ mcam > cnt
  /\ mcam' = 1
  /\ mpc' = IF cnt > 0 THEN "handle" ELSE "wait"
  /\ UNCHANGED <<plugged, event, device, status, work, spc, tries, cnt, missed,
                 failed, misuse>>

DownDone ==
  /\ mpc = "down" /\ mcam > cnt
  /\ cnt' = 0 /\ mcam' = 1
  /\ mpc' = "search"
  /\ UNCHANGED <<plugged, event, device, status, work, spc, tries, missed,
                 failed, misuse>>

-----------------------------------------------------------------------------
Work(t) ==
  \/ OpenCam(t) \/ StartCam(t) \/ OpenDone(t)
  \/ NextRound(t) \/ Check(t) \/ Claim(t) \/ Take(t) \/ Save(t) \/ Frame(t)
  \/ CloseCam(t) \/ StopCam(t) \/ StoppedCam(t) \/ CloseDone(t)
  \/ Beyond(t)
StreamWork(s) ==
  \/ StreamStart(s) \/ StreamBegin(s) \/ StreamMark(s) \/ StreamRun(s)
  \/ StreamLoop(s) \/ StreamTake(s) \/ StreamFrame(s)
  \/ StreamExit(s) \/ StreamEnd(s)
Manage ==
  \/ Search \/ Clamp \/ CreateHandle \/ OpenDevice \/ Wait
  \/ Destroy \/ Clear \/ DownDone

Next ==
  \/ Edge \/ Order \/ Plug \/ Uevent \/ Spurious
  \/ \E t \in Worker : Work(t)
  \/ \E c \in Cam : PortZero(c)
  \/ \E s \in Stream : PortSet(s) \/ StreamWork(s)
  \/ Manage

Spec == Init /\ [][Next]_vars

-----------------------------------------------------------------------------
CameraType ==
  /\ handle \in [Cam -> {"null", "open", "dead"}]
  /\ opened \in [Cam -> BOOLEAN] /\ grabbing \in [Cam -> BOOLEAN]
  /\ status \in [Cam -> {"running", "stop"}]
WorkerType ==
  /\ pc \in [Worker -> {"idle", "open", "start", "check", "claim", "take",
                        "frame", "save", "close", "stop", "stopped"}]
  /\ job \in [Worker -> Job]
  /\ cam \in [Worker -> Nat \ {0}]
StreamType ==
  spc \in [Stream -> {"none", "start", "begin", "mark", "run", "loop", "take", "frame",
                      "stop", "exit", "end"}]
SearchType ==
  /\ plugged \in 0..Plugs /\ event \in BOOLEAN
  /\ cnt \in 0..(IF mpc = "clamp" THEN Plugs ELSE Total)
  /\ mpc \in {"search", "clamp", "handle", "device", "sleep", "wait",
              "down", "clear"}
  /\ mcam \in 1..(Total + 1) /\ tries \in 0..(Tries - 1)
  /\ missed \in BOOLEAN /\ failed \subseteq Cam
TypeOK == CameraType /\ WorkerType /\ StreamType /\ SearchType /\ misuse \in BOOLEAN

(***************************************************************************)
(* pCAM->grabbing is never left set: while it is, some thread is on its    *)
(* way to clear it.  A flag that stays would keep the camera from every    *)
(* later grab.                                                             *)
(***************************************************************************)
Marks(t, c) ==
  pc[t] \in {"take", "frame", "save"} /\ job[t] \notin Depth /\ cam[t] = c
Streams(s, c) ==
  s[1] = c /\ spc[s] \in {"run", "loop", "take", "frame", "stop", "exit"}
FlagReleased ==
  \A c \in Cam : grabbing[c] =>
    (\E t \in Worker : Marks(t, c)) \/ (\E s \in Stream : Streams(s, c))

(***************************************************************************)
(* Although no thread holds a lock, and csv_mvs_cameras_init sets opened   *)
(* before it opens, a call of the SDK is handed a destroyed handle only if *)
(* the device of the camera could not be opened, or between the two steps  *)
(* of csv_mvs_camera_deinit that destroy and clear it.  What a call has    *)
(* been handed may still be destroyed before it returns, in the 3 s of     *)
(* MV_CC_GetOneFrameTimeout as in the buffer that save_image_to_bmp and    *)
(* save_image_to_jpeg allocate before they use it: nothing prevents that,  *)
(* and this property does not speak of it.                                 *)
(***************************************************************************)
HandlesLive == ~misuse

(***************************************************************************)
(* When thr_mvs waits and no plug event is under way, the service has the  *)
(* cameras that are plugged in, as many as it can use, unless an event     *)
(* came between their enumeration and the wait, or the enumeration failed; *)
(* and beyond those nothing is open.                                       *)
(***************************************************************************)
Least(m, n) == IF m < n THEN m ELSE n
CamerasCurrent ==
  /\ mpc = "wait" /\ ~event /\ ~missed => cnt = Least(plugged, Total)
  /\ mpc = "wait" => \A c \in Cam : opened[c] => c <= cnt

-----------------------------------------------------------------------------
(* The inductive invariant behind the safety properties. *)

(* A worker that has left the tests of its loop is at a camera of the      *)
(* array, as Beyond has the others; csv_mvs_cams_img_depth claims nothing. *)
WorkerCursor ==
  \A t \in Worker :
    /\ pc[t] \in {"start", "claim", "take", "frame", "save", "stop", "stopped"} =>
         cam[t] \in Cam
    /\ pc[t] = "claim" => job[t] \notin Depth
SearchCursor ==
  /\ mcam <= cnt + 1
  /\ mpc \in {"handle", "device", "clear"} => mcam <= cnt
  /\ mpc \in {"search", "clamp", "sleep", "wait"} => mcam = 1

(* What thr_mvs has opened so far, or has yet to take down. *)
OpenedRight ==
  \A c \in Cam : opened[c] =>
    /\ handle[c] # "null"
    /\ c <= cnt
    /\ mpc \notin {"search", "clamp"}
    /\ mpc = "handle" => c < mcam
    /\ mpc = "device" => c <= mcam
    /\ mpc \in {"down", "clear"} => c >= mcam

DeadExpected == \A c \in Cam : handle[c] = "dead" => Expected(c)

CountRight ==
  ~event /\ ~missed =>
    /\ mpc = "clamp" => Total < plugged
    /\ mpc \in {"handle", "device", "sleep", "wait"} => cnt = Least(plugged, Total)

IInv ==
  /\ TypeOK
  /\ WorkerCursor /\ SearchCursor
  /\ FlagReleased
  /\ DeadExpected /\ HandlesLive
  /\ OpenedRight /\ CountRight

=============================================================================

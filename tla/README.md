# d3cam: specifications, model checking and proofs

d3cam is the daemon of a structured-light 3D camera: it serves one TCP client
with camera commands, speaks GigE Vision (GVCP/GVSP) on UDP, drives two
industrial cameras through the vendor's SDK and a DLP projector through a
serial port, and is watched by a forked heartbeat process. It is written in C
(about 13 000 lines of its own under `src/src` and `src/include`, with the
vendored `libs`, `libweb`, `libspng`, `libzip` and headers besides) and has no
tests. Almost everything hard about it comes from threads that share structures
with few locks, or with locks that are not taken where one would expect.

This directory holds TLA+ modules translated from that source, the TLC
configurations that check them, and theorems proved with TLAPS. Paths below are
relative to the repository.

## 1. Inventory

### Threads and processes

| thread | started in | loop | shares with others |
|---|---|---|---|
| main | `csv_main.c:340` | one `select` over tick timer, TCP, GVCP, UDP, GPI, uevent | everything |
| heartbeat daemon (process) | `csv_hb.c:188` | `csv_hb_server_init` | a pipe; the pid lock file |
| `thr_msg` | `csv_msg.c:825` | `csv_msg_loop` | command list, TCP descriptor, cameras |
| `thr_mvs` | `csv_mvs.c:1343` | `csv_mvs_loop` | cameras |
| `thr_grab` | `csv_mvs.c:1237` | `csv_mvs_grab_loop` | cameras, image lists |
| GVSP stream thread, one per camera | `csv_gev.c:1930` | `csv_gvsp_client_loop` | image list of the stream |
| GVSP grab thread, one per start of a stream | `csv_gev.c:1577` | `csv_gvsp_cam_grab_loop` | camera, image list, `grab_status` |
| `thr_png` | `csv_png.c` | `csv_png_loop` | image list |
| `thr_dlp` | `csv_dlp.c` | serial commands | serial port |

All threads are created detached; some are nevertheless cancelled and joined at
shutdown.

### Components

State, operations, what is hard, and what makes the component correct.
`PROJECT.json` lists all of them with their files and status.

* **Command queue** (`csv_msg.c`, `list.h`). A kernel-style doubly linked list,
  a mutex, a condition variable. `csv_msg_push` (main thread) links a command;
  `csv_msg_loop` walks the list, executes, unlinks and frees. *Hard*: the loop
  never calls `pthread_mutex_lock`. Its first walk and its first
  `pthread_cond_timedwait` run without the mutex; it then owns the mutex because
  the wait returned with it, and holds it while it executes. *Correct* if each
  command is executed once, in order, none is lost or sleeps on the list, and no
  freed entry is touched.
* **Client connection** (`csv_tcp.c`, the TCP part of `csv_main.c`). One client,
  a descriptor, `accepted`, an error counter. Accept (which takes over from the
  current client), receive of a header and of the rest of a command, send of an
  answer from `thr_msg`, giving a client up. *Hard*: descriptor numbers are
  reused between `select` and the read; two threads use and clear the same
  fields; framing relies on how TCP delivers. *Correct* if answers go to who
  asked, descriptors are closed, clients are closed for a reason and served.
* **Heartbeat daemon** (`csv_hb.c`), **tick** (`csv_tick.c`), **main loop and
  start-up** (`csv_main.c`). A pipe, a count of timeouts, the pid lock. *Hard*:
  telling a slow service from a stopped one, end of file behind unread beacons,
  and a restart that races with the death of the process it replaces. *Correct*
  if a healthy service is spared and a stopped one replaced.
* **Cameras** (`csv_mvs.c`), with **GPI trigger** (`csv_gpi.c`), **hot-plug
  events** (`csv_uevent.c`) and the **GVSP grab threads** (`csv_gev.c`). Per
  camera: SDK handle, `opened`, `grabbing`, an image buffer; `cnt_mvs`.
  Search, open, take down at a plug event; series of grabs, single grabs, depth,
  streams. *Hard*: four kinds of threads and not one lock; condition waits
  without predicates; a teardown while others grab. *Correct* if the flag does
  not stick, handles are valid when used, plug events are noticed, and streams
  can be stopped.
* **GigE Vision control** (`csv_gev.c`, GVCP). A register file and the
  configuration in force (`gigecfg`); single and multiple reads and writes of
  registers, writes of memory, FORCEIP, acknowledges over UDP; `csv_ether_refresh`
  brings the address register up to date. The code stores the control-channel
  privilege and the heartbeat timeout and never reads either: any client may write
  at any time. *Hard*: a write of several registers that stops at the first that
  fails; lost, repeated and late datagrams; two copies of each value. *Correct* if
  the copies agree, an answer tells how much of a write is done, and the address
  told is the one in use.
* **GigE Vision streaming** (`csv_gev.c`, GVSP). An image list per stream, block
  identifiers, leader/payload/trailer packets. *Correct* if each image is sent
  once, in order, with all of its bytes and consecutive packet identifiers.
* **Scan series**: the series of images of `csv_mvs.c`, the **image writer**
  (`csv_png.c`) and the start of the **3D reconstruction** (`csv_3d.cpp`). Group
  numbers of 8 bits, image files named after group, frame and camera, a list of
  images to encode. *Hard*: three threads write and read those files, and share
  the group numbers, without a lock; the main thread sets the numbers and the format to
  what the XML file says; errors of saving go unseen; the last image carries the order to
  calculate; the image writer holds its mutex while it calculates, and a push does
  not wake it. *Correct* if a cloud is calculated from the images of its series,
  no series overwrites another, and everything comes to its end.
* **Lifetime counter** (`csv_life.c`, `csv_file.c`). A file of working hours that
  is truncated and rewritten once a minute, and read before the pid lock is taken.
  *Hard*: a crash between truncation and write, processes that start meanwhile.
  *Correct* if no hour is lost.
* **XML configuration** (`csv_xml.c`). One document, one node and one flag shared
  by the main thread, `thr_msg` and `thr_grab`; a file that a user may edit too.
  *Hard*: no lock, no atomic replacement, times of modification of one second.
  *Correct* if settings survive, edits are noticed and documents are not used
  after they are freed.
* **Built-in configuration** (`csv_cfg.c`). Defaults, set once at start-up.
* **Byte ring queue** (`queue.c`). Put, get, peek, copy; nothing calls it.
* **Connection timer** (`csv_beat.c`). Never created: nothing sets its enable flag.
* **DLP projector** (`csv_dlp.c`), **serial, network and statistics drivers**,
  **UDP log**, **utilities**, **web server**: I/O or sequential start-up code.

### How they interact

The main thread receives a command from the TCP client and pushes it to
`thr_msg`, which executes it on the cameras and sends the answer to whatever
client is connected by then. Because `thr_msg` holds `mutex_msg` while it
executes, a second command stops the main loop, and with it the tick, the
beacons, GVCP and the triggers, which also run in it. A GPI edge or a plug event is a broadcast from
the main thread to `thr_grab` or `thr_mvs`; a write of the stream port register
(GVCP, main thread) starts or stops a GVSP grab thread on the same camera. The
images of a series pass from `thr_grab` or `thr_msg` to `thr_png`, whose last one
starts the calculation. A command that sets rate or
brightness, and a calibration series, are followed by a save of the XML file, which the
tick of the main thread reads again when it has changed: formats, switches and group
numbers may so change under a series.

## 2. Modules

| module | models | extends / uses |
|---|---|---|
| `Handoff` | abstract: what a work queue between two threads promises | |
| `MsgQueue` | command queue, `csv_msg.c` and `list.h` | instantiates `Handoff` |
| `Watchdog` | `csv_hb.c`, the tick, the beacon side of `main` | |
| `TcpLink` | `csv_tcp.c`, the TCP side of `main` and of `thr_msg` | |
| `Cameras` | `csv_mvs.c`, triggers, plug events, GVSP grab threads | |
| `GrabTrigger` | how `csv_gpi.c` asks `thr_grab` for a series | |
| `GvspStream` | one GVSP stream of `csv_gev.c`, from the port register to the packets | instantiates `Handoff` |
| `ScanSeries` | series, image files, `csv_png.c`, the start of `csv_3d.cpp` | |
| `GvcpControl` | the control channel of `csv_gev.c`, `csv_ether_refresh` | `MCGvcp` gives TLC its requests |
| `XmlStore` | `csv_xml.c` | |
| `Lifetime` | `csv_life.c`, `csv_file.c`, the pid lock | |
| `MsgQueueProofs`, `TcpLinkProofs`, `GvspStreamProofs`, `ScanSeriesProofs`, `GvcpControlProofs`, `XmlStoreProofs` | theorems about the module of that name | that module, `TLAPS` |
| `CamerasProofs` | theorems about `Cameras` and `GrabTrigger` | `Cameras`, `GrabTrigger`, `TLAPS` |
| `ServiceProofs` | theorems about `Watchdog` and `Lifetime` | `Watchdog`, `Lifetime`, `TLAPS` |

`PROJECT.json` maps every definition to the lines it stands for. Definitions
introduced by a comment "A slip: ..." are not part of any specification: each is
a plausible bug of the definition next to it, and some property fails when it
takes that definition's place.

### `MsgQueue`

Pointer level. `next` and `prev` are the fields of `struct list_head`; a command
is its number in the order of pushes, 0 is the list head. A list operation reads
the pointers it needs (`MainTail`, `ThrDel`) and leaves a set of outstanding
stores (`addNext`, `addPrev`, `delNext`, `delPrev`), which become visible one by
one in any order (`MainStore`, `ThrStore`): between two synchronisation points
neither the compiler nor aarch64 orders plain stores. `locked` is the lock word
of the mutex, without an owner, since the first timed wait releases a mutex that
its caller does not own. `ThrTimeout` is both the five-second timeout and a
spurious wakeup. `overlap` is a history variable: the first, unlocked walk has
met a push. What the list then looks like is also modelled, including the NULL
dereference that ends the process.

Abstractions: what a command does; a freed entry keeps its contents until it is
touched, when the process may also crash (`Fault`), and its address is not given
out again; `csv_msg_deinit` is not modelled.

### `Watchdog`

Time passes in seconds (`Clock`), and whatever is ready runs before the next
second, that is, scheduling delays are below a second. The two real constants,
a select of 2 s and five timeouts, are kept. The time `csv_init` takes
(`MaxInit`), the time `thr_msg` holds `mutex_msg` (`MaxCmd`) and the number of
pushes that may wait for it between two beacons (`MaxAhead`) are parameters:
the point of the module is how they relate to the limit of 10 s. A tick that falls due
while a push waits is read in the same round if `select` had seen the timer before the
push, and otherwise in the next (`late`, `LateTick`). `Hang` stops
the main thread for good, `Exit` ends it, `Interrupt` is a SIGINT that both
processes get. `DaemonRelaunch` runs the command line again through
`csv_lock_pid`, which fails if the killed process still holds the lock.

### `TcpLink`

`Select` takes the snapshot of ready descriptors; `Accept` and the reads follow
in the order of `main`, on whatever descriptor number is then in `pTCPL->fd`.
`owner` is the descriptor table: a new connection may get any free number, that of the one just closed included. TCP cuts a command into up to `Pieces` pieces and
delivers each when it likes (`Deliver`), also for a client that writes whole commands and
waits for each answer. A receive takes all that have arrived, and the loop receives once
more for the rest of a command and no more: `torn` names the clients of which a command
was still not whole then. `thr_msg` tests `pTCPL->fd`, then sends to
whatever it is at that later moment, and after `MaxErr` failures gives the client up
by clearing `accepted`. An answer goes out at once (`ThrSend`) or in two parts
(`ThrSendPart`, then `ThrSend` or `ThrSendFails`), each to the `pTCPL->fd` of its
moment. `part` is the client that got the first, `cut` those left with a part of an
answer although no send to them failed.

Abstractions: `close` and `fd = -1` are one step; an answer in more than two parts
adds nothing to one in two; descriptor exhaustion (EMFILE) and the cap of 100 receive chunks are
left out; the connection timer of `csv_beat.c` never runs, as in the code.

### `Cameras`

The tests of the fields of a camera, the load of its handle for a call of the SDK, the
stores that follow the call, and every other store of a shared field are steps of their
own. The workers `grab` (`thr_grab`) and `msg` (`thr_msg`) run a series, a single grab of
both cameras, a depth grab, an open or a close; `mpc` follows `thr_mvs` through search,
clamp, handle creation, device opening, the moment before the wait, the wait and the
takedown; `spc` follows each GVSP grab thread. `handle` is NULL, open or destroyed.
`Load` is an SDK call that is handed the handle; `misuse` records that one was handed a
destroyed one, other than in the two ways the code has (`Expected`, see `HandlesLive`).
`save_image_to_bmp` and `save_image_to_jpeg` are handed it in `Save`. Between the store
of `cnt_mvs` and its clamp a loop of another thread may leave the array (`Beyond`).
`missed` and `failed` are history variables that name the windows of the properties: any
plug event between the enumeration and `pthread_cond_wait` is missed, also when the
enumeration found no camera.

Abstractions: the SDK is external and any of its calls may fail at any time; a
series goes round the cameras any number of times (23 or 13 in the code), and
which of the two kinds it is is left out; what a loop reads beyond the array; the
parameters of a camera, the files of images and the point cloud; `imgData` is derived
(`Image`); memory is not exhausted; `csv_mvs_deinit` and the re-created uevent socket
are not modelled.

### `GvspStream`

One stream, with the camera to itself (`Cameras` has the other users of a
camera). `WritePort` and `WritePortZero` are the main thread's writes of the
stream port register; each write that finds `grab_status` other than RUNNING
starts one more grab thread (`gpc`), whose steps are one test or one store each
up to `GrabReset`. `GrabLock` to `GrabBroadcast` are `csv_gvsp_cam_grab_fetch`.
The stream thread (`tpc`) walks the list, and dispatches an image one packet at
a time (`ThrLeader`, `ThrPayload`, `ThrTrailer`), with `packet_id32` in the last
packet `wire`; `ThrCount` and `ThrStore` are the two halves of `block_id64++`.
`Word` and `Overhead` scale the 32-bit arithmetic and the 48 bytes of headers.

Abstractions: a list operation is one step, and `overlap` records that two
threads were in the list together, which `MsgQueue` has pointer by pointer; the
length of an image and the packet size are chosen when its dispatch begins,
before which nothing reads them; what the bytes are, whether `sendto` succeeds
(its result is ignored, and the address it is given is that of a parameter) and
the delay between packets are left out. Packet sizes below the headers are left
out too: `packsize` then wraps round and an image is a single packet, larger
than the buffer it is copied to.

### `ScanSeries`

`Begin` is a trigger of `thr_grab` (kinds `calib` and `highspeed`) or the depth
command of `thr_msg`. Each worker then takes an image (`Take`, with the name made
from the group number and the format of that moment), saves it to its file or, for PNG,
pushes it (`Save`), and goes on (`Advance`). `Skip`, `SkipDepth` and `Abort` are the error
paths of a frame, which differ between the two threads; `SaveFails` and the second half of
`Encode` are the errors of saving and encoding, which the series never hears of and which
leave the file of an earlier series, or a broken one, in place. `Finish` is what follows the last
frame in each of the three kinds. `PngWake`, `PngEncode` are `thr_png`, and
`LoadLeft`, `LoadRight`, `Count` are `point_cloud_calc`, in whichever thread calls
it: the group it reads is the one current at that step, and the suffix that of the last
name made by anybody (`suffix`). `disk` maps a file name to the series whose image it holds.

`Reread` is `csv_xml_check` on the main thread, between any two steps: it sets the format,
`enable`, the calibration file or a group number to what the file has. `groupPointCloud`
is never written to the file, so that a re-read sets it back. `turn` counts how far each
group number has been advanced; one that a re-read sets counts as having gone on, round
if need be, to where it is set. `under` has the settings that each series began with.
`skipped` are the series with a frame skipped or an image not saved, `tainted` those
that met another or a re-read, `whole` those that went through their frames.

Abstractions: both cameras are found, a file is written in one step and the images
of one camera are read in one; the format that a name is made with and the one that
`save_image_to_file` is then called with are read in one step; BMP and JPEG are one format;
a re-read changes one setting; the bytes of an image and the calculation are left out; the first walk of `thr_png`, without the mutex, is that of `MsgQueue`; a
trigger while `thr_grab` is busy is lost, as `GrabTrigger` shows.

`Work` measures what the threads have left: the images to take, the entries of the
list and the steps to the end of each loop. `Waits`, `Resting` and `CanGoOn` say of a
thread that it waits for `mutex_png`, that it has nothing to do, and that it can take a
step.

### `GrabTrigger`

An edge on a GPI input (main loop) stores `grab_type` (`Store`) and then broadcasts
`cond_grab` (`Broadcast`), without a lock; `msg_cameras_demarcate` and
`msg_cameras_highspeed`, which would do the same, are not enrolled as commands. `thr_grab`
waits (`WaitAgain`), is woken by a broadcast or for no reason (`SpuriousWakeup`), opens
the cameras and then looks at `grab_type` (`Switch`). A trigger is its number in the
order of the stores, and stands for the kind that it asks for. `crossed` holds the
triggers of which one was stored while another, or a spurious wakeup, was under way,
that is, between its store and the switch; `lost` those broadcast while `thr_grab` did
not wait.

Abstractions: `pthread_cond_wait` does not fail (the loop would end); the series is one
step, since nothing that happens in it but a trigger reaches `grab_type`; the mutex of
the wait is left out, as nobody else locks it.

### `GvcpControl`

A datagram in `rxbuf` (`cmd`, `id`) is handled register by register (`WriteOne`,
`ReadOne`), so that what a failing write leaves behind is a state of its own. A
register stands for its kind: one whose value is clamped (`heartbeat`), cut to 16
bits (`port`), set at start-up although its configuration is not (`sourceport`, which
`csv_gev_init` gives the port of the message channel, `OwnPort`: `csv_gev.c:1968`),
refused when it makes no sense (`destination`, `packetsize`), stored
only (`persistent`), write-only or read-only. `Refused` and `InForce` are
`csv_gvcp_writereg_effective`, `conf` is `gigecfg`. `Refresh` is
`csv_ether_refresh`. The client and the network are external: every request ever
sent may arrive at any time, repeatedly or never. `believed` is what the client
concludes from the answers it gets; `late` are the places that a delayed request
has overwritten with an older value.

Faithful details: a refused write is answered with status SUCCESS and the number of
writes done as index; FORCEIP is acknowledged before the address changes; a write
of memory does not touch the configuration. Left out: discovery, reads of memory,
packet resend, action commands and the message channel, which change no state; the
register with the number of streams, which `thr_mvs` brings up to date
(`csv_mvs.c:425`) and no request changes; checks of lengths; what a write of a stream port starts is in `GvspStream`.

### `XmlStore`

One operation is `Load`, `Node`, `Get` or `Set`, `Unload`, `Truncate`, `WriteOut`,
`Stat`, `Free`, on the one `csv_xml_t` that all three threads share (`pDoc`,
`pNode`, `SaveFile`); each step uses whatever document these name by then. A
document is named after the thread that has loaded it, and `live` says which are
allocated. `Edit` is a user's editor, `Tick` the clock whose seconds are the
resolution of `mtime`, `Restart` a crash at any step followed by a start. A use of
a document that is not allocated sets `misused`, after which nothing is modelled.

What `thr_msg` saves is not what a command has set. `msg_cameras_rate_set` and
`msg_cameras_brightness_set` change `gCSV->dlp` (`csv_msg.c:330`, 369), while
`csv_xml_write_DeviceParameters` saves `cfg.devicecfg.dlpcfg` (`csv_xml.c:433`), which has its value from `csv_cfg_init` or the file, and `csv_dlp_just_write` replaces the former by the latter
(`csv_dlp.c:69`). `Change` of `thr_msg` therefore leaves `conf` as it is and only starts
the save; that of `thr_grab` counts `groupDemarcate`, which is saved.

Abstractions: a section is one key; what the sections say, `gCSV->dlp`, the directories
made and the backup file (taken only when there is no file at all) are left out.

### `Lifetime`

Any number of processes: each reads the file (`Read`), makes zeros of an empty one
(`TruncateZero`, `WriteZero`), and only then asks for the pid lock (`Lock`,
`Leave`). The one that has it counts its start and each minute (`LifeStart`, `LifeUpdate`),
each time with `Truncate` and `Write` as two steps. `Crash` ends a process at any
step. `truth` is what the hours ought to be.

## 3. Runs

| run | checks | size | result |
|---|---|---|---|
| `msg_queue` | exclusion, no use after free, order, wakeups, `IInv`, refinement of `Handoff`, execution | 3 commands | holds |
| `msg_queue_retry` | `RetryFindsCommand` | 2 commands | violated |
| `watchdog` | `SilenceBounded`, `HealthySpared`, `LostIsReplaced` | 3 s commands, 2 ahead, 2 s start-up, 2 relaunches | holds |
| `watchdog_busy` | `HealthySpared` | 2 s commands, 6 ahead | violated |
| `tcp_link` | `NoOtherLeak`, `StrayAnswers`, `AnswersWhole`, `CommandsFramed`, `ClosedForReason`, `ClientsServed` | 2 clients, 2 commands each of 2 pieces, 2 descriptors | holds |
| `tcp_link_eof` | `ClosedOnlyAtEof` | 2 clients | violated |
| `cameras` | `FlagReleased`, `HandlesLive`, `CamerasCurrent` | 1 camera of up to 2 plugged in, 2 searches, 1 stream thread | holds |
| `gvsp_stream` | types, `BlockComplete`, `NoSleepingImage`, `BlocksNumbered`, refinement of `Handoff`, `FallsSilent`, `OpenStreams`, `ImagesTaken` | 2 grab threads, 2 images, packsize 0, 1 and 2 for 3 bytes | holds |
| `scan_series` | `CloudOwn`, `SeriesKept`, `NoneStuck`, `SeriesAdvance`, `SeriesOver` | 2 series of 1 frame by 2 cameras, 2 group numbers, 1 fault or re-read | holds |
| `gvcp` | `ConfFollows`, `ClientKnows`, `AddressTold` | 3 of 10 requests, 2 interfaces, 2 addresses, 1 change of the network | holds |
| `xml` | `SettingsKept`, `DocumentOwned`, `Noticed` | 2 saves, 1 edit, 1 crash, 2 seconds | holds |
| `lifetime` | `HoursKept` | 2 processes at a time, 4 launches, 3 minutes | holds |

**Why these bounds.** Three commands give a list with a first, a middle and a
last entry, and pushes before, during and after a walk. In `watchdog`, 2 + 2·3
seconds of silence stay below the limit, and two relaunches let a relaunched
service fail again; `watchdog_busy` differs by exceeding the limit. In `tcp_link`
two clients make an answer stray and a take-over happen, two pieces distinguish
the header from what follows, and a second command meets what the first has left.
One camera already has both workers, the stream thread and `thr_mvs` compete for
the same flag; two searches let `thr_mvs` go round its inner loop, and a second camera
plugged in makes it clamp. In
`gvsp_stream`, two grab threads are needed for a restart to meet the thread of the
stream before, two images for one to be added while another is sent; three bytes
are divided by packsize 1 and not by 2, and never consumed by packsize 0. In
`scan_series`, two series overlap or follow one another in every combination of
kinds, one image may be missed or not saved or one setting read again, at any point, and
two group numbers wrap round at once; the frame of one camera is the last image and that of
the other is not. In `gvcp`, three requests let a
late one arrive between two others, and the requests of `MCGvcp` fail at their
first, second or last register. In `xml`, two saves overlap each other or the
check, an edit falls into the same second as a save or not, and a crash falls on
any step. Two processes and four launches in `lifetime` let a process read before,
and take the lock after, another has served and crashed. What larger numbers would
add to most of the safety properties is settled by proof (section 4).

`GrabTrigger` is settled by proof for any number of triggers and is no run of its own.
`GrabTrigger.cfg` checks its properties on four triggers, in seconds: one is stored while
another opens the cameras, a third comes while the series is taken, a fourth after it. The types of
`Watchdog` and `ScanSeries` are proved too and not checked again by a run.

**Deadlock** is checked in `cameras` and `gvcp`. The other runs stop legitimately:
all commands sent and executed, all clients gone, the service given up, all series
taken, or all processes launched and gone.

**Fairness.** A thread that can run does run (weak fairness of its steps, per
thread). In `MsgQueue` both requests for the mutex (`MainLock`, `ThrRelock`)
are strongly fair: each holder releases it again and again, and Linux' futex
does not starve a waiter for ever. `Watchdog` also lets time pass. `GvspStream`
needs the stream thread and the grab
threads, `ScanSeries` its three threads, and `XmlStore` the tick that calls
`csv_xml_check` and the threads that are in an operation; there weak fairness is
enough. Clients, operators, users, plugs, failures and crashes owe nothing.

### What the violations show (`findings`)

1. A push during the first walk can leave a command linked in one direction
   only, or not at all; the timed "retry" of the loop walks the same list and
   never finds it.
2. Commands that queue up behind `mutex_msg` stop the main loop for more than
   10 s, and the daemon kills a service that works. Depth captures take seconds
   each, so a client that does not wait for answers gets there.
3. A client accepted on the descriptor number of the one it replaces is read in
   the same round because the old number was ready; the read finds nothing,
   takes that for end of file and closes the new client.

### What passing properties make exceptions of

No document promises otherwise, so these are not findings; the properties hold
outside the situations they name, and would fail without the exception.

* `LostIsReplaced`: the daemon relaunches right after SIGKILL; if the process just
  killed still holds the pid lock, the new one exits, and so does the daemon.
* `StrayAnswers`, `AnswersWhole`: a client that takes over gets the answers, or the
  rest of an answer, to the commands of the one before it; and an answer is cut
  short when a send meets a full buffer (`csv_tcp_local_send` returns what it has
  written, and no caller sends the rest).
* `CommandsFramed`, `ClientsServed`: a command whose rest has not come by the second
  receive is dropped, or pushed with what an earlier one left in the buffer, and what
  comes later of it is taken for the start of a command (`csv_msg.c:721`). A client that
  writes whole commands and waits for its answers is not safe from that, as TCP may
  deliver a command in pieces.
* `HandlesLive`: a destroyed handle is handed to the SDK when the device could not be
  opened, and between the two steps of `csv_mvs_camera_deinit`. A handle may also be
  destroyed under the call that was handed it, in the 3 s of `MV_CC_GetOneFrameTimeout`
  or before `MV_CC_SaveImageEx2` gets it: nothing prevents that, and no property says
  otherwise.
* `CamerasCurrent`: a plug event between the enumeration and the wait, and a failed
  enumeration, leave `thr_mvs` waiting with the cameras of before.
* `FlagReleased`: a camera's flag `grabbing` may be cleared while another thread
  grabs, by a close or by the exit of a stream thread.
* `OwnKind`, `OneSeriesEach`: a trigger stored while another is under way changes the
  kind of the series that the other has asked for, and has a second one of its own if
  its broadcast meets the wait that follows; a wakeup with no broadcast repeats the last.
* `NoneForgotten`: a trigger broadcast while `thr_grab` does not wait is lost.
* `BlocksNumbered`: `block_id64` is set to 1 by a starting grab thread and
  incremented by the stream thread, so the first block after a restart may be 2.
* `BlockComplete`: the last packet of an image that packsize divides is empty, and
  the image lacks its last packsize bytes.
* `FallsSilent`: a channel closed while its grab thread is between its start and the
  store of RUNNING (`csv_gev.c:1531`) streams on although the register says it is closed,
  until it is closed again.
* `OpenStreams`: a stream opened again before the earlier grab thread has left may
  not start although the register says it is open.
* `ImagesTaken`: a block with packsize 0 ends only when the stream is stopped; and once
  two threads have been in the list at once, an image may be lost for good, as the
  pointers of `MsgQueue` show. What `Handoff` and `NoSleepingImage` say of the list also
  ends there.
* `CloudOwn`: a cloud may be calculated from other images if a frame was skipped, an image
  not saved, two series met or the XML file was read again under the series, and a depth
  command with PNG calculates from files that `thr_png` has not written yet.
* `SeriesKept`: group numbers wrap round after 256 series, and the end of some
  series never advances them (`Uncounted`), so that the next one overwrites it. A re-read
  sets `groupPointCloud` back to what the file has: that counts as going round (`turn`), and
  every series since may be overwritten. A series under which a setting was read again is
  not safe either.
* `ConfFollows`: the source port of the message channel has a register from start-up on and
  a configuration only once a client has written it.
* `ClientKnows`: an old request that arrives late overwrites a newer one, as
  nothing compares `nReqId`.
* `AddressTold`: an interface that takes the default route with an address that
  was already seen is not told.
* `SettingsKept`: it is about what is configured, which a rate or brightness set by command
  never becomes. Operations that overlap share one document; an edit in the second
  of a save is not noticed; a crash between truncation and write loses the file.
* `DocumentOwned`: operations that overlap may free each other's document.
* `HoursKept`: a process that meets the truncated file makes the hours zero, and
  one that reads before and locks after the last write goes on from old hours.

## 4. Proofs

**`MsgQueueProofs`** proves, for any number of commands, `TypeOK`,
`ListExclusive`, `NoUseAfterFree`, `ExactlyOnceInOrder`, `NoLostWakeup` and that
`MsgQueue` implements `Handoff`. The only assumption is `MsgQueueAssumption`
(the bounds are natural numbers). The inductive invariant `IInv` has two layers.
`TypeOK` with `LinksKnown` holds always, also on a corrupted list: every link
leads to a command that has been pushed. `Intact` holds until an overlap: the
list, *followed through the stores still outstanding* (`NextOf`, `PrevOf`),
holds exactly the commands `Removed + 1 .. Added` in order; stores are
outstanding only inside the operation that makes them (`StoresConfined`), and
only to live entries; the cursor of the walk is at the first of them; and the
lock word is set while the main thread is in the list (`LockRight`). None of the
properties is inductive without it: exclusion rests on who can have left the
lock word set, order on the pointers, memory safety on both. `Quiet` and
`NothingFreedUsed` are the lemmas that derive the absence of use after free.

**`CamerasProofs`** proves, for any number of cameras, searches and stream
threads (`CamerasAssumption`: they are positive), `TypeOK`, `FlagReleased`,
`HandlesLive` and `CamerasCurrent`. Its `IInv` adds where destroyed handles are
(`DeadExpected`), what is open at each point of `thr_mvs` (`OpenedRight`), that
its count is right from the clamp on (`CountRight`), and that what is done to a camera is
done to one of the array (`WorkerCursor`, `SearchCursor`). `TypeOK` says that `cnt_mvs`
exceeds the array only between its store and its clamp. Each part has a lemma of its own that goes through the actions.

It also proves `OwnKind`, `OneSeriesEach` and `NoneForgotten` of `GrabTrigger` (which
names its specification `TrigSpec`) for any number of triggers. `grab_type` is the last
trigger stored, so what has to be known is that the trigger that woke `thr_grab` is the
last one when it is read: `Alone` says that a trigger not yet broadcast while the cameras
are opened has crossed another, and that one that has not crossed is the last and has no
series yet. `Known` keeps the numbers of past series
apart from those to come.

**`ServiceProofs`** proves of `Watchdog`: `TypeOK` and `SilenceBounded` for any durations, and
`HealthySpared` under one more assumption, `Roomy`: `MaxInit + MaxAhead * MaxCmd + 1`
is below the limit of 10 s, the condition that `watchdog_busy` breaks. The invariant
says what the daemon has measured (`Measured`: its timeouts and the select under way
add up to the silence) and why a working service is silent (`Accounted`: start-up,
the pushes that had to wait since the last beacon, and the second in which a tick is
due). `TypeOK` is not inductive without `Measured`, which bounds `timeo`.

**`TcpLinkProofs`** proves `NoOtherLeak`, `StrayAnswers`, `AnswersWhole`,
`ClosedForReason` and `CommandsFramed` for any number of clients, commands, pieces and
failed sends (`TcpLinkAssumption`). Its `IInv` has the descriptor table one to one with
the open connections (`Table`), what `pTCPL->fd` is when `accepted` is set and when
`thr_msg` has cleared it (`Held`), that clients are accepted in the order of their
numbers and the current one is the last (`Order`), that commands come from clients once
accepted (`Pushed`), that an answer under way began with such a client (`Answers`), and
that the snapshot is right about a connection that was current before it (`Snapshot`).
For `CommandsFramed`, `Framed` adds, for every client, that the commands pushed for it
come in the order of their pieces (`Once`), and for one that waits for each answer and of
which none was torn, that it has whole commands received and at most one more under way,
so that `recv` never joins two (`Frame`, `Halfway`).

**`GvspStreamProofs`** proves `TypeOK`, `NoSleepingImage`, `BlocksNumbered`,
`BlockComplete` and that `GvspStream` implements `Handoff`, for any image lengths,
packet sizes, word width, grab threads and images (`GvspStreamAssumption`: a length
plus one fits the word). The parts of `IInv`: packets sent times packsize and what is
left add up to the length (`Sent`; `Unique` and `LastPacket` are the facts about
division it ends in); what has been put and not taken is on the list, in order, with
the cursor at its first image (`Listed`); a grab thread about to put an image has room
for it (`Promised`, which keeps a count over the threads within `MaxImg`); each image
taken ends one block at most, and `block_id64` is one of a few values at each point of
the block (`Numbered`, `Blocks`); and, as long as no two threads were in the list at
once, a thread about to sleep has left the list empty (`Awake`).

**`ScanSeriesProofs`** proves `TypeOK`, `CloudOwn` and `SeriesKept` for any frames,
groups, series and faults (`ScanAssumption`). The first two come from `CloudInv`. A
series that met no other is *alone* (`Alone`): whatever a thread has in hand or on the
list is of that series, so nobody else writes or counts. As long as a series is needed
(somebody will still calculate for it) its group number stays (`GroupKept`). Every image
taken so far is then on disk, or on the list on its way there, under that number
(`TakenBy`), with the format it began with: no setting changes under a series that is not
tainted (`Steady`), nor does the suffix of the last name; the entry with `end_pc` is the last of its series (`EndsAt`); and a
calculation finds all images on disk (`CloudAt`). `SeriesKept` comes from `KeptInv`. An
image has the name of the turn in which it was taken (`Named`); when a series meets no
other, all before it is over (`Settled`), while calibration series, which are all of
`thr_grab`, stay in order (`Ordered`); a series that went through its frames has advanced
the group number since, or will when its cloud is calculated (`Advanced`), which is where
the exceptions in `Uncounted` are needed (`Due`); so a later series has a later turn (`Newer`),
and two turns with the same 8-bit number are `Groups` apart (`FarApart`). A re-read moves
turn and number alike and taints what is open (`RereadKept`); calibration series, whose
number only it and their end change, keep their order even so.

That every series ends (`SeriesOver`) is liveness, but what it rests on is proved for
any frames, series and faults. `SeriesEnd` proves `SeriesAdvance`: every step but the
start of a series and a re-read lowers `Work`, which is a natural number (`WorkLeft`), so that workers
and image writer cannot keep each other going. `SomeoneGoesOn` proves `NoneStuck`: a
worker that waits for `mutex_png` waits for an image writer that can go on, and while
anything is left to do some thread can. Together: if no further series begins, the
threads come to rest after at most `Work` steps of their own, and not before all is done. What
remains with TLC is that a thread that can go on does, that is, the fairness.

**`GvcpControlProofs`** proves `TypeOK`, `ConfFollows`, `AddressTold` and `ClientKnows`
for any registers, requests and interfaces (`GvcpAssumption`). The first three are
inductive together; what `ConfFollows` leaves open of the source port ends with the first
write of it. `ClientKnows` needs what `KnowInv` says of a datagram protocol with
loss, duplication and delay: the loop index of a WRITEREG has carried out the writes
before it (`Shape`); a register holds the effect of the newest request that touched it,
or of the part carried out so far, unless a late duplicate wrote it (`Touched`,
`Stands`); an acknowledge for the request that the client waits for means that all it
reports has been carried out (`Answered`); what the client believes is the effect of
some request after which none touched the register but the one it waits for (`Known`);
and the values of a READREG, read one by one, agree with it (`ReadsTell`).

**`XmlStoreProofs`** proves `TypeOK`, `DocumentOwned` and `SettingsKept` for any values,
times, edits and crashes (`XmlAssumption`). `Alone` is the strengthening for the
document: while no two operations have overlapped, the one under way has loaded the only
document there is, `pDoc`, `pNode` and its own argument name it, and none is left
behind. `Agreed` is the one for the settings: configuration, file and document under way
agree with the last value that a counted series or an edit gave, as far as the operation
under way has come: reading at start (`WhileReading`), the rest of the start
(`WhileBooting`), a writer before its file is written (`WhileWriting`, where the file lacks
at most the key that this writer has `Changed`), and nobody writing (`WhileServing`, where the
user may have edited the file and `csv_xml_check` is due).

**`ServiceProofs`** also proves `HoursKept` of `Lifetime` (which names its specification
`LifeSpec`, so that both modules can be extended at once), for any number of processes,
launches and minutes.
`LockHeld` is the exclusion of the pid lock, and `HoursKnown` says at each point of a
process what it knows of the hours, as long as no zeros were made and no old hours were
taken.

**Only model-checked**: all liveness (`CommandsExecuted`, `LostIsReplaced`,
`ClientsServed`, `FallsSilent`, `OpenStreams`, `ImagesTaken`,
`SeriesOver`, `Noticed`), which needs fairness and is out of the prover's reach. Every
invariant and every action property of the passing runs is a theorem.

## 5. Hazards without a property

`PROJECT.json` lists every hazard at its line. Three have no property of a run:
`csv_msg_deinit` releases the list under a running `thr_msg` (`csv_msg.c:923`), right
before the process ends; the wait of `thr_grab` has no predicate
(`csv_mvs.c:1208`), of which `GrabTrigger` and its three theorems say what can happen; and
`cnt_mvs` leaves the array until it is clamped (`csv_mvs.c:377`), a window that
`Cameras` has and `TypeCorrect` bounds. That what a command sets is never used nor saved
(`csv_msg.c:330`) is no matter of order: it is so in every run of the program.

## 6. How the modules fit together, and what could follow

`Watchdog` uses of `MsgQueue` only that `thr_msg` holds the mutex while it executes;
`TcpLink` uses of it that commands are executed once and in order, which is what
`Handoff` says and `MsgQueueProofs` proves. `GvspStream` implements the same
`Handoff`. `Cameras` has the other users of the camera whose stream `GvspStream`
models, and `GvcpControl` the write of the port register that opens it. `ScanSeries`
takes from `Cameras` that a series may miss or abort a frame, and its
series of `thr_grab` are of any kind, at any time the thread is free: `GrabTrigger` says
which trigger each of them answers.

What could follow: shutdown (`csv_msg_deinit`,
`csv_mvs_deinit` and their cancelled threads).

## 7. Not modelled

* Vendored code (`libs`, `libweb` with its SQLite and PCRE, `libzip`, `libspng`,
  headers of OpenCV and the camera SDK), which is by far most of the lines of the
  repository: it is not this program's logic. The camera SDK, the kernel and the
  clients appear as nondeterministic choices in the modules that use them.
* `queue.c` and the web server: no part of the running program in the default
  build.
* The DLP projector, the serial, network and statistics drivers, the UDP log,
  utilities, logging and CRC: I/O or formatting without state of their own.
* The numerics of the 3D reconstruction, the parameters of a camera and the bytes
  of images and packets.
* Shutdown: the release and cancel of `csv_msg_deinit` and `csv_mvs_deinit`.

## 8. Running

    tlc -workers 2 -config MsgQueue.cfg MsgQueue.tla
    tlc -workers 2 -config Gvcp.cfg MCGvcp.tla
    tlapm MsgQueueProofs.tla
    tlc -workers 2 -config GrabTrigger.cfg GrabTrigger.tla

A configuration belongs to the module named in `PROJECT.json` (`GrabTrigger.cfg` to
`GrabTrigger`). The longest runs,
`gvsp_stream`, `scan_series`, `gvcp` and `xml`, take about two minutes each,
`tcp_link` three; each proof module takes from ten seconds to a minute,
`ScanSeriesProofs` about three.

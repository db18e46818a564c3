----------------------------- MODULE ScanSeries -----------------------------
(***************************************************************************)
(* A series of images and the point cloud calculated from it.  thr_grab    *)
(* takes calibration and high-speed series, thr_msg takes the series of a  *)
(* depth command (csv_mvs.c); every image goes to a file named after the   *)
(* group of its series, at once or, for PNG, through the list of thr_png   *)
(* (csv_png.c); point_cloud_calc (csv_3d.cpp), called by any of the three, *)
(* reads the files of the group that is current when it reads.  The group  *)
(* numbers and the files are shared without a lock;                        *)
(* mutex_png, which thr_png holds while it encodes and calculates, guards  *)
(* the list alone.  At any time the main thread may read the XML file      *)
(* again (csv_xml_check), whose settings and group numbers then count;     *)
(* groupPointCloud, which only the user ever writes to the file, is set    *)
(* back by it.                                                             *)
(*                                                                         *)
(* Both cameras are found.  A file is written in one step, and the images  *)
(* of one camera are read in one.  The first walk of thr_png, which takes  *)
(* no lock, has ended: it meets an empty list seconds before a camera can  *)
(* be open (MsgQueue models that loop store by store).  Its timed wait may *)
(* end at any time, so a broadcast adds nothing to what it can do.  Paths  *)
(* are left out; of the formats, BMP and JPEG are one.                     *)
(***************************************************************************)
EXTENDS Naturals, Sequences

CONSTANTS
  Frames,      (* nFrames of a series: 23 of calibration, 13 of the others  *)
  Groups,      (* the values of an 8-bit group number                       *)
  MaxSeries,   (* bound: the series begun                                   *)
  MaxFaults    (* bound: the frames that fail or are not saved, and the     *)
               (* changed settings of the XML file that are read            *)

ASSUME ScanAssumption ==
  /\ {Frames, MaxSeries} \subseteq Nat \ {0}
  /\ Groups \in Nat \ {0, 1} /\ MaxFaults \in Nat

Cam == 1..2                            \* TOTAL_CAMS
Worker == {"grab", "msg"}              \* thr_grab, thr_msg
Thread == Worker \cup {"png"}
Series == 1..MaxSeries
Kind == {"calib", "highspeed", "depth"}
Content == [series : Series, turn : Nat]
NoFile == [series |-> 0, turn |-> 0]
NoRun == [kind |-> "none", series |-> 0, frame |-> 1, cam |-> 1,
          group |-> 0, turn |-> 0, png |-> FALSE, errNum |-> 0]

VARIABLES
  png, enable, \* SaveImageFormat is SUFFIX_PNG; pointcloudcfg.enable
  suffix,      \* strSuffix is that of PNG
  calib,       \* the calibration file that point_cloud_calc needs exists
  group,       \* groupPointCloud and groupDemarcate
  disk,        \* file name -> what it holds
  list,        \* head_png
  pc,          \* of each thread: where it is
  run,         \* of each worker: its loops and the name it has made
  cloudOf,     \* of each thread: the series whose end made it calculate
  own,         \* of each thread: loadSrcImageEx found that series only
  kinds,       \* the kinds of the series begun, in their order
  faults,      \* the frames that have failed
  rereads,     \* the settings read again
  turn,        \* history: how far each group number has been advanced
  under,       \* history: the settings that each series began with
  skipped,     \* history: series that miss a frame, or a good file of one
  tainted,     \* history: series that met another one, see Meets, or a re-read
  whole        \* history: series that went through all their frames

config == <<png, enable, calib>>
calc == <<cloudOf, own>>
past == <<skipped, tainted, whole>>
vars == <<config, suffix, group, disk, list, pc, run, calc, kinds, under, turn, faults,
          rereads, past>>

Dir(kind) == IF kind = "calib" THEN "calib" ELSE "cloud"

Init ==
  /\ png \in BOOLEAN /\ enable \in BOOLEAN /\ calib \in BOOLEAN
  /\ suffix = FALSE
  /\ group = [calib |-> 1, cloud |-> 1]
  /\ turn = [calib |-> 0, cloud |-> 0]
  /\ disk = <<>> /\ list = <<>>
  /\ pc = [t \in Thread |-> IF t = "png" THEN "wait" ELSE "idle"]
  /\ run = [w \in Worker |-> NoRun]
  /\ cloudOf = [t \in Thread |-> 0] /\ own = [t \in Thread |-> TRUE]
  /\ kinds = <<>> /\ under = <<>> /\ faults = 0 /\ rereads = 0
  /\ skipped = {} /\ tainted = {} /\ whole = {}

Go(t, p) == pc' = [pc EXCEPT ![t] = p]

(* Series not over yet: with frames to take, images listed, or a cloud due. *)
Unfinished(w) == {run[w].series, cloudOf[w]} \ {0}
Listed == ({list[i].of : i \in 1..Len(list)} \cup {cloudOf["png"]}) \ {0}

Open == Unfinished("grab") \cup Unfinished("msg") \cup Listed

(* A new series of worker w meets those that are not over: it is tainted,  *)
(* and so are they unless w itself has taken them.                         *)
Meets(w) ==
  LET others == (UNION {Unfinished(v) : v \in Worker}) \cup Listed
  IN IF others = {} THEN {}
     ELSE {Len(kinds) + 1} \cup (IF w = "grab" THEN Unfinished("msg") ELSE others)

(* A trigger for thr_grab, or the depth command. *)
Begin(w, kind) ==
  /\ pc[w] = "idle" /\ Len(kinds) < MaxSeries
  /\ (kind = "depth") <=> (w = "msg")
  /\ kinds' = Append(kinds, kind)
  /\ under' = Append(under, [png |-> png, enable |-> enable, calib |-> calib])
  /\ run' = [run EXCEPT ![w] = [NoRun EXCEPT !.kind = kind,
                                             !.series = Len(kinds) + 1]]
  /\ Go(w, "take")
  /\ tainted' = tainted \cup Meets(w)
  /\ UNCHANGED <<config, suffix, group, disk, list, calc, turn, faults, rereads,
                 skipped, whole>>

(* MV_CC_GetOneFrameTimeout, the name of the file from the group and the   *)
(* format, and the format that save_image_to_file is called with.          *)
Take(w) ==
  LET r == run[w] IN
  /\ pc[w] = "take"
  /\ run' = [run EXCEPT ![w].group = group[Dir(r.kind)],
                        ![w].turn = turn[Dir(r.kind)],
                        ![w].png = png]
  /\ suffix' = png
  /\ Go(w, "save")
  /\ UNCHANGED <<config, group, disk, list, calc, kinds, under, turn, faults,
                 rereads, past>>

(* The next camera, the next frame, or the end of the loops. *)
Advance(w) ==
  LET r == [run[w] EXCEPT !.group = 0, !.turn = 0, !.png = FALSE] IN
  \/ /\ r.cam = 1
     /\ run' = [run EXCEPT ![w] = [r EXCEPT !.cam = 2]] /\ Go(w, "take")
  \/ /\ r.cam = 2 /\ r.errNum > 0
     /\ run' = [run EXCEPT ![w] = NoRun] /\ Go(w, "idle")
  \/ /\ r.cam = 2 /\ r.errNum = 0
     /\ run' = [run EXCEPT ![w] = [r EXCEPT !.cam = 1, !.frame = r.frame + 1]]
     /\ Go(w, IF r.frame = Frames THEN "end" ELSE "take")

Fault == faults + rereads < MaxFaults /\ faults' = faults + 1

(* A camera that is not open, or an error other than MV_E_NODATA: thr_grab *)
(* goes on without this frame.                                             *)
Skip(w) ==
  /\ pc[w] = "take" /\ run[w].kind # "depth" /\ Fault
  /\ Advance(w)
  /\ skipped' = skipped \cup {run[w].series}
  /\ UNCHANGED <<config, suffix, group, disk, list, calc, kinds, under, turn,
                 rereads, tainted, whole>>

(* A slip: thr_msg tries the same camera again. *)
SkipDepthAgain(w) ==
  LET r == run[w] IN
  /\ pc[w] = "take" /\ r.kind = "depth" /\ r.cam = 1 /\ Fault
  /\ run' = [run EXCEPT ![w] = [r EXCEPT !.errNum = 1]]
  /\ UNCHANGED <<config, suffix, group, disk, list, pc, calc, kinds, under,
                 turn, rereads, past>>

(* thr_msg goes on to the other camera when the first is not open, but     *)
(* ends the series then.                                                   *)
SkipDepth(w) ==
  LET r == run[w] IN
  /\ pc[w] = "take" /\ r.kind = "depth" /\ r.cam = 1 /\ Fault
  /\ run' = [run EXCEPT ![w] = [r EXCEPT !.cam = 2, !.errNum = 1]]
  /\ UNCHANGED <<config, suffix, group, disk, list, pc, calc, kinds, under,
                 turn, rereads, past>>

(* MV_E_NODATA, or a camera that something else is grabbing from, ends a   *)
(* series of thr_grab; any error ends one of thr_msg.                      *)
Abort(w) ==
  /\ pc[w] = "take" /\ Fault
  /\ Go(w, "idle")
  /\ run' = [run EXCEPT ![w] = NoRun]
  /\ UNCHANGED <<config, suffix, group, disk, list, calc, kinds, under, turn,
                 rereads, past>>

Name(r) == <<Dir(r.kind), r.group, r.frame, r.cam, r.png>>

(* Writing a file replaces what one of the same name held. *)
Write(name, what) ==
  disk' = [n \in (DOMAIN disk) \cup {name} |-> IF n = name THEN what ELSE disk[n]]

(* A slip: every camera's last image ends the series. *)
LastOfAny(r) == r.kind # "calib" /\ r.frame = Frames
(* end_pc: the image whose encoding starts the calculation. *)
Last(r) == r.kind # "calib" /\ r.frame = Frames /\ r.cam = 2

(* save_image_to_file: to the file, or to the list once mutex_png is free. *)
Save(w) ==
  LET r == run[w]
      what == [series |-> r.series, turn |-> r.turn]
  IN
  /\ pc[w] = "save"
  /\ IF r.png
     THEN /\ pc["png"] = "wait"
          /\ list' = Append(list, [name |-> Name(r), what |-> what,
                                   end |-> Last(r), of |-> r.series])
          /\ UNCHANGED disk
     ELSE /\ Write(Name(r), what)
          /\ UNCHANGED list
  /\ Advance(w)
  /\ UNCHANGED <<config, suffix, group, calc, kinds, under, turn, faults,
                 rereads, past>>

(* No memory, or an error of MV_CC_SaveImageEx2 or of the file, which is   *)
(* then left as it was or broken: the series goes on all the same.         *)
SaveFails(w) ==
  LET r == run[w] IN
  /\ pc[w] = "save" /\ Fault
  /\ \/ UNCHANGED disk
     \/ ~r.png /\ Write(Name(r), [series |-> r.series, turn |-> r.turn])
  /\ Advance(w)
  /\ skipped' = skipped \cup {r.series}
  /\ UNCHANGED <<config, suffix, group, list, calc, kinds, under, turn, rereads,
                 tainted, whole>>

(* A slip: the group number stays. *)
IncrementNothing(d) == UNCHANGED <<group, turn>>
(* The next group, of 8 bits. *)
Increment(d) ==
  /\ group' = [group EXCEPT ![d] = (@ + 1) % Groups]
  /\ turn' = [turn EXCEPT ![d] = @ + 1]

(* point_cloud_calc called by thread t for series s; without its           *)
(* calibration file it returns, and t goes on at p.                        *)
Calculate(t, s, p) ==
  IF calib
  THEN Go(t, "left") /\ cloudOf' = [cloudOf EXCEPT ![t] = s]
  ELSE Go(t, p) /\ UNCHANGED cloudOf

(* After the last frame. *)
Finish(w) ==
  LET r == run[w] IN
  /\ pc[w] = "end"
  /\ whole' = whole \cup {r.series}
  /\ CASE r.kind = "calib" ->
            Increment("calib") /\ Go(w, "idle") /\ UNCHANGED cloudOf
       [] r.kind = "highspeed" /\ png ->
            Go(w, "idle") /\ UNCHANGED <<cloudOf, group, turn>>
       [] r.kind = "highspeed" /\ ~png /\ ~enable ->
            Increment("cloud") /\ Go(w, "idle") /\ UNCHANGED cloudOf
       [] OTHER ->
            Calculate(w, r.series, "idle") /\ UNCHANGED <<group, turn>>
  /\ run' = [run EXCEPT ![w] = NoRun]
  /\ UNCHANGED <<config, suffix, disk, list, own, kinds, under, faults, rereads,
                 skipped, tainted>>

-----------------------------------------------------------------------------
(* A slip: the walk goes on at the end of the list. *)
WalkOn(rest) == "walk"
(* Where the walk of thr_png goes on; at the end of the list it waits,     *)
(* which releases mutex_png.                                               *)
Walk(rest) == IF rest = <<>> THEN "wait" ELSE "walk"

(* point_cloud_calc, by any thread: the images of camera c in the group    *)
(* that is current now, with the suffix of the last name made; a missing   *)
(* file gives an empty image.                                              *)
Load(t, c) ==
  LET File(f) == <<"cloud", group["cloud"], f, c, suffix>>
      Holds(f) == IF File(f) \in DOMAIN disk THEN disk[File(f)] ELSE NoFile
  IN own' = [own EXCEPT ![t] =
               @ /\ \A f \in 1..Frames : Holds(f).series = cloudOf[t]]

LoadLeft(t) ==
  /\ pc[t] = "left" /\ Load(t, 1) /\ Go(t, "right")
  /\ UNCHANGED <<config, suffix, group, disk, list, run, cloudOf, kinds, under,
                 turn, faults, rereads, past>>

LoadRight(t) ==
  /\ pc[t] = "right" /\ Load(t, 2) /\ Go(t, "count")
  /\ UNCHANGED <<config, suffix, group, disk, list, run, cloudOf, kinds, under,
                 turn, faults, rereads, past>>

(* The cloud is there; the next series gets the next group. *)
Count(t) ==
  /\ pc[t] = "count"
  /\ Increment("cloud")
  /\ Go(t, IF t = "png" THEN Walk(list) ELSE "idle")
  /\ cloudOf' = [cloudOf EXCEPT ![t] = 0]
  /\ own' = [own EXCEPT ![t] = TRUE]
  /\ UNCHANGED <<config, suffix, disk, list, run, kinds, under, faults, rereads,
                 past>>

-----------------------------------------------------------------------------
(* thr_png leaves its wait at a broadcast or after ten seconds; with an    *)
(* empty list it waits again at once.                                      *)
PngWake ==
  /\ pc["png"] = "wait" /\ list # <<>> /\ Go("png", "walk")
  /\ UNCHANGED <<config, suffix, group, disk, list, run, calc, kinds, under,
                 turn, faults, rereads, past>>

(* encode_image, whose errors nobody sees. *)
Encode(image) ==
  \/ Write(image.name, image.what) /\ UNCHANGED <<faults, skipped>>
  \/ /\ Fault /\ skipped' = skipped \cup {image.of}
     /\ UNCHANGED disk \/ Write(image.name, image.what)

(* It encodes each image, and calculates at the last of a series. *)
PngEncode ==
  /\ pc["png"] = "walk" /\ list # <<>>
  /\ Encode(Head(list))
  /\ list' = Tail(list)
  /\ IF Head(list).end /\ enable
     THEN Calculate("png", Head(list).of, Walk(Tail(list)))
     ELSE Go("png", Walk(Tail(list))) /\ UNCHANGED cloudOf
  /\ UNCHANGED <<config, suffix, group, run, own, kinds, under, turn, rereads,
                 tainted, whole>>

-----------------------------------------------------------------------------
(* csv_xml_check, on the main thread: a setting that differs in the file,  *)
(* where the user may have put anything, is that of the file again.  A     *)
(* group number that it sets counts as having gone on, and round, to there. *)
Reread ==
  /\ faults + rereads < MaxFaults /\ rereads' = rereads + 1
  /\ \/ png' = ~png /\ UNCHANGED <<enable, calib, group, turn>>
     \/ enable' = ~enable /\ UNCHANGED <<png, calib, group, turn>>
     \/ calib' = ~calib /\ UNCHANGED <<png, enable, group, turn>>
     \/ \E d \in {"calib", "cloud"} : \E g \in (0..(Groups - 1)) \ {group[d]} :
          /\ group' = [group EXCEPT ![d] = g]
          /\ turn' = [turn EXCEPT ![d] = @ + ((g + Groups - group[d]) % Groups)]
          /\ UNCHANGED config
  /\ tainted' = tainted \cup Open
  /\ UNCHANGED <<suffix, disk, list, pc, run, calc, kinds, under, faults,
                 skipped, whole>>

WorkerStep(w) ==
  \/ Take(w) \/ Skip(w) \/ SkipDepth(w) \/ Abort(w) \/ Save(w) \/ SaveFails(w)
  \/ Finish(w)
CalcStep(t) == LoadLeft(t) \/ LoadRight(t) \/ Count(t)
PngStep == PngWake \/ PngEncode

(* What the program does, unless it reads the XML file again. *)
Step ==
  \/ \E w \in Worker, kind \in Kind : Begin(w, kind)
  \/ \E w \in Worker : WorkerStep(w)
  \/ \E t \in Thread : CalcStep(t)
  \/ PngStep

Next == Step \/ Reread

Spec == Init /\ [][Next]_vars

(* A thread that can go on does.  A push that waits for mutex_png needs no *)
(* more: thr_png waits for up to ten seconds between two walks, and here   *)
(* it only wakes for an image.                                             *)
FairSpec ==
  /\ Spec
  /\ \A w \in Worker : WF_vars(WorkerStep(w) \/ CalcStep(w))
  /\ WF_vars(PngStep \/ CalcStep("png"))

-----------------------------------------------------------------------------
TypeOK ==
  /\ {png, enable, calib, suffix} \subseteq BOOLEAN
  /\ group \in [{"calib", "cloud"} -> 0..Groups - 1]
  /\ \A n \in DOMAIN disk : disk[n] \in Content
  /\ \A i \in 1..Len(list) : /\ list[i].what \in Content
                             /\ list[i].of \in Series
  /\ pc \in [Thread -> {"idle", "take", "save", "end", "left", "right",
                        "count", "wait", "walk"}]
  /\ \A w \in Worker : run[w].series \in 0..MaxSeries
  /\ Len(kinds) <= MaxSeries

(***************************************************************************)
(* A point cloud is calculated from all the images of the series that      *)
(* asked for it and no other, whoever calculates it and however long after *)
(* the last image: unless a frame was skipped or not saved, another series *)
(* was under way, the XML file was read again meanwhile, or a depth        *)
(* command calculates before thr_png has encoded.                          *)
(***************************************************************************)
CloudOwn ==
  \A t \in Thread : pc[t] = "count" =>
    \/ own[t]
    \/ cloudOf[t] \in skipped \cup tainted
    \/ under[cloudOf[t]].png /\ kinds[cloudOf[t]] = "depth"

(***************************************************************************)
(* No image of a series that went through all its frames is replaced by    *)
(* one of another series before the group numbers have gone round: unless  *)
(* the series met another or a re-read, or its end never advanced the      *)
(* group number, as when the calibration file is missing, and for PNG when *)
(* clouds are disabled or an image, that may carry end_pc, was skipped or  *)
(* not saved.  Calibration series have none of these exceptions.  But a    *)
(* re-read that sets a group number back goes round at once (turn): all    *)
(* the series since that number may be replaced.                           *)
(***************************************************************************)
Uncounted(s) ==
  LET c == under[s] IN
  \/ ~c.calib /\ (c.enable \/ kinds[s] = "depth")
  \/ c.png /\ kinds[s] = "highspeed" /\ (~c.enable \/ s \in skipped)
SeriesKept ==
  [][\A n \in DOMAIN disk :
       LET old == disk[n]
           new == disk'[n]
       IN /\ new.series # old.series
          /\ old.series \in whole /\ Dir(kinds[old.series]) = n[1]
          =>
          \/ new.turn - old.turn >= Groups
          \/ /\ n[1] = "cloud"
             /\ \/ Uncounted(old.series)
                \/ {old.series, new.series} \cap tainted # {}]_vars

(***************************************************************************)
(* Every step but the start of a series and a re-read uses up something    *)
(* that is to be done: the loops of the workers and the walk of thr_png,   *)
(* which the workers feed while it walks, cannot keep each other going.    *)
(***************************************************************************)
Steps == [idle |-> 0, walk |-> 0, wait |-> 1, count |-> 2, right |-> 3, left |-> 4,
          save |-> 4, take |-> 5, end |-> 5]
Images(w) ==
  IF pc[w] \in {"take", "save"} THEN 2 * (Frames - run[w].frame) + 3 - run[w].cam ELSE 0
Work ==
  Steps[pc["grab"]] + Steps[pc["msg"]] + Steps[pc["png"]]
  + 8 * (Images("grab") + Images("msg")) + 6 * Len(list)
SeriesAdvance ==
  [][Work' < Work \/ Len(kinds') > Len(kinds) \/ rereads' > rereads]_vars

(***************************************************************************)
(* A thread that is not idle can go on, or it waits for mutex_png, and     *)
(* then thr_png can: no series is left over with every thread asleep, and  *)
(* no worker waits for a walk that is over.                                *)
(***************************************************************************)
Waits(t) == t \in Worker /\ pc[t] = "save" /\ run[t].png /\ pc["png"] # "wait"
Resting(t) == pc[t] = "idle" \/ (pc[t] \in {"wait", "walk"} /\ list = <<>>)
CanGoOn(t) == ~Resting(t) /\ ~Waits(t)
NoneStuck ==
  /\ \A w \in Worker : Waits(w) => CanGoOn("png")
  /\ Open # {} => \E t \in Thread : CanGoOn(t)

(***************************************************************************)
(* Every series comes to its end, and so does the writing of its images:   *)
(* although each push waits while thr_png encodes and calculates with      *)
(* mutex_png held, a push wakes nobody, and a series that is cut short     *)
(* never broadcasts.  (The series are bounded, so that all end at last.)   *)
(***************************************************************************)
SeriesOver == Open # {} ~> Open = {}
=============================================================================

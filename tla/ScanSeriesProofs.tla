-------------------------- MODULE ScanSeriesProofs --------------------------
(***************************************************************************)
(* A series of images and its point cloud, for any number of frames,       *)
(* groups, series and faults: types are right, a point cloud is calculated *)
(* from the images of the series that asked for it (CloudInv), images are  *)
(* kept until the group numbers have gone round (KeptInv), and every step  *)
(* but the start of a series and a re-read of the XML file leaves less     *)
(* work, while some thread that has any can go on: what SeriesOver needs   *)
(* besides fairness.                                                       *)
(***************************************************************************)
EXTENDS ScanSeries, TLAPS

LEMMA Numbers ==
  /\ Frames \in Nat /\ Frames > 0 /\ MaxSeries \in Nat /\ MaxSeries > 0
  /\ Groups \in Nat /\ Groups > 1 /\ MaxFaults \in Nat
BY ScanAssumption

LEMMA Threads ==
  /\ Worker \subseteq Thread /\ "png" \in Thread \ Worker
  /\ {"grab", "msg"} = Worker /\ Thread = Worker \cup {"png"}
BY DEF Thread, Worker

-----------------------------------------------------------------------------
(* The types of all the variables.                                         *)
Dirs == {"calib", "cloud"}
Pc == {"idle", "take", "save", "end", "left", "right", "count", "wait", "walk"}
Run == [kind : Kind \cup {"none"}, series : 0..MaxSeries, frame : Nat \ {0},
        cam : Cam, group : Nat, turn : Nat, png : BOOLEAN, errNum : {0, 1}]
Entry == [name : Dirs \X Nat \X Nat \X Cam \X BOOLEAN, what : Content,
          end : BOOLEAN, of : Series]
Settings == [png : BOOLEAN, enable : BOOLEAN, calib : BOOLEAN]

Types ==
  /\ png \in BOOLEAN /\ enable \in BOOLEAN /\ calib \in BOOLEAN
  /\ suffix \in BOOLEAN
  /\ group \in [Dirs -> 0..Groups - 1] /\ turn \in [Dirs -> Nat]
  /\ \A n \in DOMAIN disk : disk[n] \in Content
  /\ list \in Seq(Entry)
  /\ pc \in [Thread -> Pc] /\ run \in [Worker -> Run]
  /\ cloudOf \in [Thread -> 0..MaxSeries] /\ own \in [Thread -> BOOLEAN]
  /\ kinds \in Seq(Kind) /\ Len(kinds) <= MaxSeries
  /\ under \in Seq(Settings) /\ Len(under) = Len(kinds)

(* A worker has a series while it takes, saves or ends one.                *)
Taking(w) == pc[w] \in {"take", "save", "end"}
RunRight(w) ==
  LET r == run[w] IN
  /\ pc[w] \notin {"wait", "walk"}
  /\ Taking(w) <=> r.series # 0
  /\ r.series # 0 =>
       /\ r.series \in 1..Len(kinds) /\ r.kind = kinds[r.series]
       /\ r.kind = "depth" <=> w = "msg"
       /\ r.kind # "depth" => r.errNum = 0
  /\ pc[w] \in {"take", "save"} => r.frame <= Frames
  /\ pc[w] = "end" => r.frame = Frames + 1 /\ r.cam = 1 /\ r.errNum = 0

(* A thread calculates for a series that has begun; thr_msg, and not       *)
(* thr_grab, for depth commands.                                           *)
Calculating(t) == pc[t] \in {"left", "right", "count"}
CloudRight(t) ==
  /\ Calculating(t) <=> cloudOf[t] # 0
  /\ cloudOf[t] # 0 =>
       /\ cloudOf[t] \in 1..Len(kinds) /\ kinds[cloudOf[t]] # "calib"
       /\ t = "grab" => kinds[cloudOf[t]] # "depth"
       /\ t = "msg" => kinds[cloudOf[t]] = "depth"
  /\ cloudOf[t] = 0 => own[t]

(* The list of thr_png.                                                    *)
ListRight ==
  /\ \A i \in 1..Len(list) :
       /\ list[i].of \in 1..Len(kinds) /\ list[i].what.series = list[i].of
       /\ list[i].end => kinds[list[i].of] # "calib"
       /\ list[i].name[5] = TRUE
  /\ pc["png"] \in {"wait", "walk", "left", "right", "count"}
  /\ pc["png"] = "walk" => list # <<>>

Shape ==
  /\ \A w \in Worker : RunRight(w)
  /\ \A t \in Thread : CloudRight(t)
  /\ ListRight

-----------------------------------------------------------------------------
(* Types and shape are kept by every step.                                 *)

LEMMA NoRunType == NoRun \in Run /\ NoRun.series = 0
BY Numbers DEF NoRun, Run, Cam

LEMMA DirOf == \A k : Dir(k) \in Dirs
BY DEF Dir, Dirs

LEMMA InitShape == Init => Types /\ Shape
<1> SUFFICES ASSUME Init PROVE Types /\ Shape
  OBVIOUS
<1> USE DEF Init
<1>1. \A n \in DOMAIN disk : disk[n] \in Content
  <2>1. DOMAIN disk = {}
    OBVIOUS
  <2> QED
    BY <2>1
<1>2. run \in [Worker -> Run]
  BY NoRunType
<1>3. pc \in [Thread -> Pc]
  BY DEF Pc
<1>4. group \in [Dirs -> 0..Groups - 1] /\ turn \in [Dirs -> Nat]
  BY Numbers DEF Dirs
<1>5. Types
  <2>1. /\ kinds = <<>> /\ under = <<>> /\ list = <<>> /\ suffix = FALSE
        /\ png \in BOOLEAN /\ enable \in BOOLEAN /\ calib \in BOOLEAN
    OBVIOUS
  <2>2. /\ cloudOf \in [Thread -> 0..MaxSeries] /\ own \in [Thread -> BOOLEAN]
        /\ 0 <= MaxSeries
    BY Numbers
  <2>3. kinds \in Seq(Kind) /\ Len(kinds) = 0
    BY <2>1
  <2>4. under \in Seq(Settings) /\ Len(under) = 0
    BY <2>1
  <2>5. list \in Seq(Entry)
    BY <2>1
  <2> HIDE DEF Init
  <2> QED
    BY <1>1, <1>2, <1>3, <1>4, <2>1, <2>2, <2>3, <2>4, <2>5 DEF Types
<1>6. \A w \in Worker : RunRight(w)
  BY NoRunType DEF RunRight, Taking, Thread, Worker
<1>7. \A t \in Thread : CloudRight(t)
  BY DEF CloudRight, Calculating
<1>8. ListRight
  BY DEF ListRight, Thread, Worker
<1> QED
  BY <1>5, <1>6, <1>7, <1>8 DEF Shape

(* Where a worker is after an image: its run is over, or goes on with the  *)
(* same series at the next position.                                       *)
LEMMA Advances ==
  ASSUME Types, Shape, NEW w \in Worker, pc[w] \in {"take", "save"}, Advance(w)
  PROVE  /\ run' \in [Worker -> Run] /\ pc' \in [Thread -> Pc]
         /\ \A v \in Worker \ {w} : run'[v] = run[v]
         /\ \A t \in Thread \ {w} : pc'[t] = pc[t]
         /\ \/ run'[w] = NoRun /\ pc'[w] = "idle" /\ run[w].errNum # 0
            \/ /\ pc'[w] \in {"take", "end"}
               /\ run'[w].series = run[w].series /\ run'[w].kind = run[w].kind
               /\ run'[w].errNum = run[w].errNum
               /\ \A f \in Nat, c \in Cam :
                    \/ f < run'[w].frame
                    \/ f = run'[w].frame /\ c < run'[w].cam
                    =>
                    \/ f < run[w].frame
                    \/ f = run[w].frame /\ c <= run[w].cam
               /\ pc'[w] = "take" => run'[w].frame <= Frames
               /\ pc'[w] = "end" => /\ run'[w].frame = Frames + 1
                                    /\ run'[w].cam = 1 /\ run'[w].errNum = 0
                                    /\ run[w].cam = 2 /\ run[w].frame = Frames
               /\ run[w].cam = 2 /\ run[w].frame = Frames => pc'[w] = "end"
         /\ run[w].cam = 2 /\ run[w].frame = Frames /\ run[w].errNum = 0
              => pc'[w] = "end"
<1> DEFINE r == [run[w] EXCEPT !.group = 0, !.turn = 0, !.png = FALSE]
<1>1. /\ run \in [Worker -> Run] /\ run[w] \in Run /\ pc \in [Thread -> Pc]
      /\ w \in Thread /\ run[w].frame <= Frames
  BY Threads DEF Types, Shape, RunRight
<1>2. /\ r \in Run /\ r.series = run[w].series /\ r.kind = run[w].kind
      /\ r.frame = run[w].frame /\ r.cam = run[w].cam /\ r.errNum = run[w].errNum
      /\ [r EXCEPT !.cam = 2] \in Run
      /\ [r EXCEPT !.cam = 1, !.frame = r.frame + 1] \in Run
      /\ r.frame \in Nat /\ r.frame > 0 /\ r.cam \in {1, 2} /\ r.errNum \in {0, 1}
  <2>1. \A q \in Run :
          /\ q.frame \in Nat /\ q.frame > 0 /\ q.cam \in {1, 2}
          /\ q.errNum \in {0, 1}
    BY DEF Run, Cam
  <2>2. \A q \in Run : [q EXCEPT !.group = 0, !.turn = 0, !.png = FALSE] \in Run
    BY DEF Run
  <2>3. \A q \in Run : [q EXCEPT !.cam = 2] \in Run
    BY DEF Run, Cam
  <2>4. \A q \in Run, n \in Nat \ {0} : [q EXCEPT !.cam = 1, !.frame = n] \in Run
    <3>1. \A q \in Run : [q EXCEPT !.cam = 1] \in Run
      BY DEF Run, Cam
    <3>2. \A q \in Run, n \in Nat \ {0} : [q EXCEPT !.frame = n] \in Run
      BY DEF Run
    <3>3. \A q \in Run, n \in Nat \ {0} :
            [q EXCEPT !.cam = 1, !.frame = n] = [[q EXCEPT !.cam = 1] EXCEPT !.frame = n]
      BY DEF Run
    <3> QED
      BY <3>1, <3>2, <3>3
  <2>5. r \in Run
    BY <1>1, <2>2
  <2>6. /\ r.series = run[w].series /\ r.kind = run[w].kind
        /\ r.frame = run[w].frame /\ r.cam = run[w].cam
        /\ r.errNum = run[w].errNum
    BY <1>1 DEF Run
  <2>7. r.frame \in Nat /\ r.frame > 0
    BY <2>1, <2>5
  <2>8. r.frame + 1 \in Nat \ {0}
    BY <2>7
  <2> HIDE DEF r
  <2> QED
    BY <2>1, <2>3, <2>4, <2>5, <2>6, <2>8
<1>3. \/ /\ r.cam = 1
         /\ run' = [run EXCEPT ![w] = [r EXCEPT !.cam = 2]] /\ Go(w, "take")
      \/ /\ r.cam = 2 /\ r.errNum > 0
         /\ run' = [run EXCEPT ![w] = NoRun] /\ Go(w, "idle")
      \/ /\ r.cam = 2 /\ r.errNum = 0
         /\ run' = [run EXCEPT ![w] = [r EXCEPT !.cam = 1, !.frame = r.frame + 1]]
         /\ Go(w, IF r.frame = Frames THEN "end" ELSE "take")
  BY DEF Advance
<1>4. CASE /\ r.cam = 1
           /\ run' = [run EXCEPT ![w] = [r EXCEPT !.cam = 2]] /\ Go(w, "take")
  <2>1. run'[w] = [r EXCEPT !.cam = 2] /\ pc'[w] = "take"
    BY <1>1, <1>4 DEF Go
  <2>2. /\ run'[w].series = r.series /\ run'[w].kind = r.kind
        /\ run'[w].errNum = r.errNum /\ run'[w].frame = r.frame /\ run'[w].cam = 2
    BY <1>2, <2>1 DEF Run
  <2>3. run' \in [Worker -> Run] /\ pc' \in [Thread -> Pc]
    BY <1>1, <1>2, <1>4 DEF Go, Pc
  <2> QED
    BY <1>1, <1>2, <1>4, <2>1, <2>2, <2>3, Numbers DEF Go, Cam
<1>5. CASE /\ r.cam = 2 /\ r.errNum > 0
           /\ run' = [run EXCEPT ![w] = NoRun] /\ Go(w, "idle")
  BY <1>1, <1>2, <1>5, NoRunType DEF Go, Pc
<1>6. CASE /\ r.cam = 2 /\ r.errNum = 0
           /\ run' = [run EXCEPT ![w] = [r EXCEPT !.cam = 1, !.frame = r.frame + 1]]
           /\ Go(w, IF r.frame = Frames THEN "end" ELSE "take")
  <2>1. /\ run'[w] = [r EXCEPT !.cam = 1, !.frame = r.frame + 1]
        /\ pc'[w] = IF r.frame = Frames THEN "end" ELSE "take"
    BY <1>1, <1>6 DEF Go
  <2>2. /\ run'[w].series = r.series /\ run'[w].kind = r.kind
        /\ run'[w].errNum = r.errNum /\ run'[w].frame = r.frame + 1
        /\ run'[w].cam = 1
    BY <1>2, <2>1 DEF Run
  <2>3. run' \in [Worker -> Run] /\ pc' \in [Thread -> Pc]
    BY <1>1, <1>2, <1>6 DEF Go, Pc
  <2> QED
    BY <1>1, <1>2, <1>6, <2>1, <2>2, <2>3, Numbers DEF Go, Cam
<1> QED
  BY <1>3, <1>4, <1>5, <1>6

(* An image taken, missed or stored leaves the other threads alone.        *)
LEMMA ImageShape ==
  ASSUME Types, Shape, NEW w \in Worker, pc[w] \in {"take", "save"},
         Advance(w), kinds' = kinds, calc' = calc
  PROVE  /\ \A v \in Worker : RunRight(v)'
         /\ \A t \in Thread : CloudRight(t)'
         /\ pc'["png"] = pc["png"]
<1>1. /\ w # "png" /\ "png" \in Thread /\ w \in Thread /\ Worker \subseteq Thread
      /\ kinds \in Seq(Kind) /\ NoRun.series = 0
  BY Threads, NoRunType DEF Types
<1>2. /\ RunRight(w) /\ CloudRight(w)
  BY <1>1 DEF Shape
<1>3. RunRight(w)'
  BY <1>1, <1>2, Advances DEF RunRight, Taking
<1>4. ASSUME NEW v \in Worker PROVE RunRight(v)'
  <2>1. CASE v # w
    <3>1. RunRight(v) /\ run'[v] = run[v] /\ pc'[v] = pc[v]
      BY <1>1, <2>1, Advances DEF Shape
    <3> QED
      BY <3>1 DEF RunRight, Taking
  <2> QED
    BY <1>3, <2>1
<1>5. ASSUME NEW t \in Thread PROVE CloudRight(t)'
  <2>1. CloudRight(t)
    BY DEF Shape
  <2>2. Calculating(t)' <=> Calculating(t)
    <3>1. CASE t = w
      BY <1>1, <3>1, Advances DEF Calculating
    <3>2. CASE t # w
      BY <3>2, Advances DEF Calculating
    <3> QED
      BY <3>1, <3>2
  <2> QED
    BY <2>1, <2>2 DEF CloudRight, calc
<1> QED
  BY <1>1, <1>4, <1>5, Advances

Fresh(k, n) == [NoRun EXCEPT !.kind = k, !.series = n]

LEMMA NewRun ==
  ASSUME NEW k \in Kind, NEW n \in 0..MaxSeries
  PROVE  /\ Fresh(k, n) \in Run
         /\ Fresh(k, n).series = n /\ Fresh(k, n).kind = k
         /\ Fresh(k, n).frame = 1 /\ Fresh(k, n).cam = 1
         /\ Fresh(k, n).errNum = 0
<1>0. PICK p : p = Fresh(k, n)
  OBVIOUS
<1>1. p = [kind |-> k, series |-> n, frame |-> 1, cam |-> 1, group |-> 0,
           turn |-> 0, png |-> FALSE, errNum |-> 0]
  BY <1>0 DEF NoRun, Fresh
<1>2. 1 \in Nat \ {0} /\ 0 \in Nat /\ 1 \in Cam
  BY DEF Cam
<1>3. [kind |-> k, series |-> n, frame |-> 1, cam |-> 1, group |-> 0,
       turn |-> 0, png |-> FALSE, errNum |-> 0] \in Run
  BY <1>2 DEF Run
<1>4. /\ p.series = n /\ p.kind = k /\ p.frame = 1 /\ p.cam = 1
      /\ p.errNum = 0
  BY <1>0 DEF NoRun, Fresh
<1> QED
  BY <1>0, <1>1, <1>3, <1>4

LEMMA BeginShape ==
  ASSUME Types, Shape, NEW w \in Worker, NEW kind \in Kind, Begin(w, kind)
  PROVE  (Types /\ Shape)'
<1> DEFINE s == Len(kinds) + 1
           r == [NoRun EXCEPT !.kind = kind, !.series = s]
<1>1. /\ kinds \in Seq(Kind) /\ Len(kinds) \in Nat /\ s \in Series
      /\ kinds' \in Seq(Kind) /\ Len(kinds') = s /\ kinds'[s] = kind
      /\ \A k \in 1..Len(kinds) : kinds'[k] = kinds[k] /\ k \in 1..s
      /\ s \in 1..s /\ s # 0
  BY Numbers DEF Begin, Types, Series
<1>u. under' \in Seq(Settings) /\ Len(under') = s
  <2>1. /\ under \in Seq(Settings) /\ Len(under) = Len(kinds)
        /\ [png |-> png, enable |-> enable, calib |-> calib] \in Settings
    BY DEF Types, Settings
  <2> QED
    BY <2>1 DEF Begin
<1>2. /\ r \in Run /\ r.series = s /\ r.kind = kind /\ r.frame = 1 /\ r.errNum = 0
  <2>1. s \in 0..MaxSeries
    BY <1>1, Numbers DEF Series
  <2> HIDE DEF s
  <2> HIDE DEF s
  <2>2. r = Fresh(kind, s)
    BY DEF Fresh
  <2> HIDE DEF r
  <2> QED
    BY <2>1, <2>2, NewRun
<1> HIDE DEF s, r
<1>3. /\ run' = [run EXCEPT ![w] = r] /\ pc' = [pc EXCEPT ![w] = "take"]
      /\ pc[w] = "idle" /\ (kind = "depth" <=> w = "msg")
      /\ w \in Thread /\ w # "png" /\ "png" \in Thread /\ Worker \subseteq Thread
      /\ run \in [Worker -> Run] /\ pc \in [Thread -> Pc]
  BY Threads DEF Begin, Go, s, r, Types
<1>4. Types'
  BY <1>1, <1>u, <1>2, <1>3 DEF Begin, Types, config, calc, Pc, s, Series
<1>5. ASSUME NEW v \in Worker PROVE RunRight(v)'
  <2>1. CASE v = w
    BY <1>1, <1>2, <1>3, <2>1, Numbers DEF RunRight, Taking
  <2>2. CASE v # w
    <3>1. RunRight(v) /\ run'[v] = run[v] /\ pc'[v] = pc[v]
      BY <1>3, <2>2 DEF Shape
    <3> QED
      BY <1>1, <3>1 DEF RunRight, Taking
  <2> QED
    BY <2>1, <2>2
<1>6. ASSUME NEW t \in Thread PROVE CloudRight(t)'
  <2>1. CloudRight(t) /\ (Calculating(t)' <=> Calculating(t))
    BY <1>3 DEF Shape, Calculating
  <2>2. UNCHANGED calc
    BY DEF Begin
  <2> QED
    BY <1>1, <2>1, <2>2 DEF CloudRight, calc
<1>7. ListRight'
  <2>1. UNCHANGED list /\ pc'["png"] = pc["png"] /\ ListRight
    BY <1>3 DEF Begin, Shape
  <2> QED
    BY <1>1, <2>1 DEF ListRight
<1> QED
  BY <1>4, <1>5, <1>6, <1>7 DEF Shape

LEMMA TakeShape ==
  ASSUME Types, Shape, NEW w \in Worker, Take(w)
  PROVE  (Types /\ Shape)'
<1> DEFINE d == Dir(run[w].kind)
           r == [run[w] EXCEPT !.group = group[d], !.turn = turn[d], !.png = png]
<1>1. /\ run \in [Worker -> Run] /\ pc \in [Thread -> Pc] /\ pc[w] = "take"
      /\ w \in Thread /\ w # "png" /\ "png" \in Thread /\ Worker \subseteq Thread
      /\ group[d] \in Nat /\ turn[d] \in Nat /\ run[w] \in Run /\ png \in BOOLEAN
  BY Threads, DirOf, Numbers DEF Take, Types
<1>2. /\ r \in Run /\ r.series = run[w].series /\ r.kind = run[w].kind
      /\ r.frame = run[w].frame /\ r.errNum = run[w].errNum
  BY <1>1 DEF Run
<1>3. run' = [run EXCEPT ![w] = r] /\ pc' = [pc EXCEPT ![w] = "save"]
  BY <1>1 DEF Take, Go
<1> HIDE DEF r, d
<1>4. Types'
  BY <1>1, <1>2, <1>3 DEF Take, Types, config, calc, Pc
<1>5. ASSUME NEW v \in Worker PROVE RunRight(v)'
  <2>1. RunRight(v)
    BY DEF Shape
  <2>2. kinds' = kinds
    BY DEF Take
  <2> QED
    BY <1>1, <1>2, <1>3, <2>1, <2>2 DEF RunRight, Taking
<1>6. ASSUME NEW t \in Thread PROVE CloudRight(t)'
  <2>1. CloudRight(t) /\ (Calculating(t)' <=> Calculating(t))
    BY <1>1, <1>3 DEF Shape, Calculating
  <2>2. UNCHANGED <<calc, kinds>>
    BY DEF Take
  <2> QED
    BY <2>1, <2>2 DEF CloudRight, calc
<1>7. ListRight'
  <2>1. UNCHANGED <<list, kinds>> /\ pc'["png"] = pc["png"] /\ ListRight
    BY <1>1, <1>3 DEF Take, Shape
  <2> QED
    BY <2>1 DEF ListRight
<1> QED
  BY <1>4, <1>5, <1>6, <1>7 DEF Shape

LEMMA SkipShape ==
  ASSUME Types, Shape, NEW w \in Worker, Skip(w)
  PROVE  (Types /\ Shape)'
<1>1. /\ pc[w] \in {"take", "save"} /\ Advance(w)
      /\ UNCHANGED <<config, suffix, group, disk, list, calc, kinds, under, turn>>
  BY DEF Skip
<1>2. Types'
  BY <1>1, Advances DEF Types, config, calc
<1>3. ListRight'
  BY <1>1, ImageShape DEF Shape, ListRight, config
<1> QED
  BY <1>1, <1>2, <1>3, ImageShape DEF Shape, config

LEMMA SkipDepthShape ==
  ASSUME Types, Shape, NEW w \in Worker, SkipDepth(w)
  PROVE  (Types /\ Shape)'
<1> DEFINE r == [run[w] EXCEPT !.cam = 2, !.errNum = 1]
<1>1. /\ run \in [Worker -> Run] /\ run[w] \in Run /\ pc[w] = "take"
      /\ run[w].kind = "depth"
      /\ UNCHANGED <<config, suffix, group, disk, list, calc, kinds, under, turn, pc>>
  BY DEF SkipDepth, Types
<1>2. \A q \in Run : [q EXCEPT !.cam = 2, !.errNum = 1] \in Run
  <2>1. \A q \in Run : [q EXCEPT !.cam = 2] \in Run
    BY DEF Run, Cam
  <2>2. \A q \in Run : [q EXCEPT !.errNum = 1] \in Run
    BY DEF Run
  <2>3. \A q \in Run :
          [q EXCEPT !.cam = 2, !.errNum = 1] = [[q EXCEPT !.cam = 2] EXCEPT !.errNum = 1]
    BY DEF Run
  <2> QED
    BY <2>1, <2>2, <2>3
<1>3. /\ r \in Run /\ r.series = run[w].series /\ r.kind = run[w].kind
      /\ r.frame = run[w].frame
  <2>1. r \in Run
    BY <1>1, <1>2
  <2> QED
    BY <1>1, <2>1 DEF Run
<1>4. run' = [run EXCEPT ![w] = r]
  BY DEF SkipDepth
<1> HIDE DEF r
<1>5. Types'
  BY <1>1, <1>3, <1>4 DEF Types, config, calc
<1>6. ASSUME NEW v \in Worker PROVE RunRight(v)'
  <2>1. RunRight(v)
    BY DEF Shape
  <2> QED
    BY <1>1, <1>3, <1>4, <2>1 DEF RunRight, Taking
<1>7. ASSUME NEW t \in Thread PROVE CloudRight(t)'
  <2>1. CloudRight(t)
    BY DEF Shape
  <2> QED
    BY <1>1, <2>1 DEF CloudRight, Calculating, calc, config
<1>8. ListRight'
  BY <1>1 DEF Shape, ListRight, config
<1> QED
  BY <1>5, <1>6, <1>7, <1>8 DEF Shape

(* A run that is over, whatever becomes of its group. *)
LEMMA OverShape ==
  ASSUME Types, Shape, NEW w \in Worker, Taking(w),
         run' = [run EXCEPT ![w] = NoRun],
         UNCHANGED <<config, suffix, disk, list, kinds, under>>,
         group' \in [Dirs -> 0..Groups - 1], turn' \in [Dirs -> Nat],
         \/ /\ Go(w, "idle") /\ UNCHANGED calc
         \/ /\ Go(w, "left") /\ own' = own
            /\ cloudOf' = [cloudOf EXCEPT ![w] = run[w].series]
            /\ run[w].kind # "calib"
  PROVE  (Types /\ Shape)'
<1>1. /\ w \in Thread /\ w # "png" /\ "png" \in Thread /\ Worker \subseteq Thread
      /\ run \in [Worker -> Run] /\ pc \in [Thread -> Pc] /\ run[w] \in Run
      /\ cloudOf \in [Thread -> 0..MaxSeries] /\ NoRun \in Run /\ NoRun.series = 0
  BY Threads, NoRunType DEF Types
<1>2. /\ run[w].series \in 0..MaxSeries
      /\ run[w].series # 0 /\ run[w].series \in 1..Len(kinds)
      /\ kinds[run[w].series] = run[w].kind
      /\ run[w].kind = "depth" <=> w = "msg"
  BY <1>1 DEF Shape, RunRight, Run
<1>3. PICK p \in {"idle", "left"} : Go(w, p)
  OBVIOUS
<1>4. Types'
  BY <1>1, <1>2, <1>3 DEF Types, config, calc, Go, Pc
<1>5. ASSUME NEW v \in Worker PROVE RunRight(v)'
  <2>1. RunRight(v)
    BY DEF Shape
  <2> QED
    BY <1>1, <1>3, <2>1 DEF RunRight, Taking, Go
<1>6. ASSUME NEW t \in Thread PROVE CloudRight(t)'
  <2>1. CloudRight(t)
    BY DEF Shape
  <2>2. CASE t # w
    BY <1>1, <1>3, <2>1, <2>2 DEF CloudRight, Calculating, Go, calc, config
  <2>3. CASE t = w
    <3>1. ~Calculating(w)
      BY DEF Taking, Calculating
    <3> QED
      BY <1>1, <1>2, <2>1, <2>3, <3>1 DEF CloudRight, Calculating, Go, calc, config
  <2> QED
    BY <2>2, <2>3
<1>7. ListRight'
  BY <1>1, <1>3 DEF Shape, ListRight, config, Go
<1> QED
  BY <1>4, <1>5, <1>6, <1>7 DEF Shape

LEMMA AbortShape ==
  ASSUME Types, Shape, NEW w \in Worker, Abort(w)
  PROVE  (Types /\ Shape)'
<1>1. Taking(w) /\ group' \in [Dirs -> 0..Groups - 1] /\ turn' \in [Dirs -> Nat]
  BY DEF Abort, Taking, Types
<1> QED
  BY <1>1, OverShape DEF Abort

LEMMA Increments ==
  ASSUME Types, NEW d \in Dirs, Increment(d)
  PROVE  group' \in [Dirs -> 0..Groups - 1] /\ turn' \in [Dirs -> Nat]
<1>1. /\ group \in [Dirs -> 0..Groups - 1] /\ turn \in [Dirs -> Nat]
      /\ Groups \in Nat /\ Groups > 0 /\ group[d] \in Nat /\ turn[d] + 1 \in Nat
  BY Numbers DEF Types
<1>2. (group[d] + 1) % Groups \in 0..Groups - 1
  BY <1>1
<1> QED
  BY <1>1, <1>2 DEF Increment

LEMMA FinishShape ==
  ASSUME Types, Shape, NEW w \in Worker, Finish(w)
  PROVE  (Types /\ Shape)'
<1>1. /\ Taking(w) /\ RunRight(w) /\ run[w].series # 0
      /\ run' = [run EXCEPT ![w] = NoRun]
      /\ UNCHANGED <<config, suffix, disk, list, kinds, under, own>>
      /\ run[w].kind \in Kind
  BY DEF Finish, Taking, Shape, RunRight, Types
<1>2. /\ group \in [Dirs -> 0..Groups - 1] /\ turn \in [Dirs -> Nat]
      /\ "calib" \in Dirs /\ "cloud" \in Dirs
  BY DEF Types, Dirs
<1>3. CASE run[w].kind = "calib"
  BY <1>1, <1>2, <1>3, Increments, OverShape DEF Finish, calc
<1>4. CASE run[w].kind = "highspeed" /\ png
  BY <1>1, <1>2, <1>4, OverShape DEF Finish, calc
<1>5. CASE run[w].kind = "highspeed" /\ ~png /\ ~enable
  BY <1>1, <1>2, <1>5, Increments, OverShape DEF Finish, calc
<1>6. CASE run[w].kind = "depth" \/ (run[w].kind = "highspeed" /\ ~png /\ enable)
  <2>1. Calculate(w, run[w].series, "idle") /\ UNCHANGED <<group, turn>>
    BY <1>6 DEF Finish
  <2> QED
    BY <1>1, <1>2, <1>6, <2>1, OverShape DEF Calculate, calc
<1> QED
  BY <1>1, <1>3, <1>4, <1>5, <1>6 DEF Kind

(* What Save puts on the list or on disk. *)
Stamp(r) == [series |-> r.series, turn |-> r.turn]
Ticket(r) == [name |-> Name(r), what |-> Stamp(r), end |-> Last(r), of |-> r.series]

LEMMA TicketType ==
  ASSUME NEW r \in Run, r.series # 0
  PROVE  /\ Stamp(r) \in Content /\ Ticket(r) \in Entry
         /\ Ticket(r).of = r.series /\ Ticket(r).what = Stamp(r)
         /\ Stamp(r).series = r.series /\ Ticket(r).name = Name(r)
         /\ Ticket(r).name[5] = r.png
         /\ Ticket(r).end = Last(r) /\ Last(r) \in BOOLEAN
<1>1. /\ r.series \in Series /\ r.turn \in Nat /\ r.group \in Nat
      /\ r.frame \in Nat /\ r.cam \in Cam /\ r.png \in BOOLEAN
  BY Numbers DEF Run, Series
<1>2. Name(r) \in Dirs \X Nat \X Nat \X Cam \X BOOLEAN /\ Name(r)[5] = r.png
  BY <1>1, DirOf DEF Name
<1>3. Last(r) \in BOOLEAN
  BY DEF Last
<1>4. Stamp(r) \in Content /\ Stamp(r).series = r.series
  BY <1>1 DEF Stamp, Content
<1> QED
  BY <1>1, <1>2, <1>3, <1>4 DEF Ticket, Entry

LEMMA WriteType ==
  ASSUME NEW name, NEW what \in Content, Types, Write(name, what)
  PROVE  \A n \in DOMAIN disk' : disk'[n] \in Content
BY DEF Write, Types

LEMMA SaveShape ==
  ASSUME Types, Shape, NEW w \in Worker, Save(w)
  PROVE  (Types /\ Shape)'
<1>1. /\ pc[w] \in {"take", "save"} /\ Advance(w) /\ run[w] \in Run
      /\ UNCHANGED <<config, suffix, group, calc, kinds, under, turn>>
  BY DEF Save, Types
<1>2. run[w].series # 0 /\ run[w].series \in 1..Len(kinds)
      /\ run[w].kind = kinds[run[w].series]
  BY <1>1 DEF Shape, RunRight, Taking
<1>3. /\ \A v \in Worker : RunRight(v)'
      /\ \A t \in Thread : CloudRight(t)'
      /\ pc'["png"] = pc["png"]
  BY <1>1, ImageShape
<1>4. CASE run[w].png
  <2>1. /\ list' = Append(list, Ticket(run[w])) /\ UNCHANGED disk /\ pc["png"] = "wait"
    BY <1>4 DEF Save, Ticket, Stamp
  <2>2. list \in Seq(Entry) /\ Ticket(run[w]) \in Entry
    BY <1>1, <1>2, TicketType DEF Types
  <2>3. Types'
    BY <1>1, <2>1, <2>2, Advances DEF Types, config, calc
  <2>4. ListRight'
    <3>1. /\ Len(list') = Len(list) + 1 /\ Len(list) \in Nat
          /\ \A i \in 1..Len(list) : list'[i] = list[i]
          /\ list'[Len(list) + 1] = Ticket(run[w])
      BY <2>1, <2>2
    <3>2. ASSUME NEW i \in 1..Len(list')
          PROVE  /\ list'[i].of \in 1..Len(kinds)
                 /\ list'[i].what.series = list'[i].of
                 /\ list'[i].end => kinds[list'[i].of] # "calib"
                 /\ list'[i].name[5] = TRUE
      <4>1. CASE i = Len(list) + 1
        <5>1. /\ list'[i] = Ticket(run[w])
              /\ Ticket(run[w]).of = run[w].series
              /\ Ticket(run[w]).what.series = run[w].series
              /\ Ticket(run[w]).end = Last(run[w])
              /\ Ticket(run[w]).name[5] = TRUE
          BY <1>1, <1>2, <1>4, <3>1, <4>1, TicketType
        <5>2. Last(run[w]) => run[w].kind # "calib"
          BY DEF Last
        <5> QED
          BY <1>2, <5>1, <5>2
      <4>2. CASE i # Len(list) + 1
        <5>1. i \in 1..Len(list)
          BY <3>1, <4>2
        <5> QED
          BY <3>1, <5>1 DEF Shape, ListRight
      <4> QED
        BY <4>1, <4>2
    <3> QED
      BY <1>1, <1>3, <1>4, <2>1, <3>2 DEF ListRight, config
  <2> QED
    BY <1>3, <2>3, <2>4 DEF Shape
<1>5. CASE ~run[w].png
  <2>1. Write(Name(run[w]), Stamp(run[w])) /\ list' = list
    BY <1>5 DEF Save, Stamp
  <2>2. Types'
    <3>1. \A n \in DOMAIN disk' : disk'[n] \in Content
      BY <1>1, <1>2, <2>1, WriteType, TicketType
    <3> QED
      BY <1>1, <2>1, <3>1, Advances DEF Types, config, calc
  <2>3. ListRight'
    BY <1>1, <1>3, <2>1 DEF Shape, ListRight, config
  <2> QED
    BY <1>3, <2>2, <2>3 DEF Shape
<1> QED
  BY <1>4, <1>5

LEMMA SaveFailsShape ==
  ASSUME Types, Shape, NEW w \in Worker, SaveFails(w)
  PROVE  (Types /\ Shape)'
<1>1. /\ pc[w] \in {"take", "save"} /\ Advance(w) /\ run[w] \in Run
      /\ UNCHANGED <<config, suffix, group, list, calc, kinds, under, turn>>
      /\ disk' = disk \/ Write(Name(run[w]), Stamp(run[w]))
  BY DEF SaveFails, Types, Stamp
<1>2. run[w].series # 0
  BY DEF SaveFails, Shape, RunRight, Taking
<1>3. \A n \in DOMAIN disk' : disk'[n] \in Content
  BY <1>1, <1>2, WriteType, TicketType DEF Types
<1>4. Types'
  BY <1>1, <1>3, Advances DEF Types, config, calc
<1>5. ListRight'
  BY <1>1, ImageShape DEF Shape, ListRight
<1> QED
  BY <1>1, <1>4, <1>5, ImageShape DEF Shape

LEMMA LoadShape ==
  ASSUME Types, Shape, NEW t \in Thread, NEW c \in Cam, Calculating(t),
         Load(t, c), \/ Go(t, "right") \/ Go(t, "count"),
         UNCHANGED <<config, suffix, group, disk, list, run, cloudOf, kinds, under, turn>>
  PROVE  (Types /\ Shape)'
<1>1. /\ pc \in [Thread -> Pc] /\ own \in [Thread -> BOOLEAN]
      /\ Worker \subseteq Thread /\ "png" \in Thread
  BY Threads DEF Types
<1>2. PICK p \in {"right", "count"} : Go(t, p)
  OBVIOUS
<1>3. PICK x \in BOOLEAN : own' = [own EXCEPT ![t] = x]
  <2>1. own[t] \in BOOLEAN
    BY <1>1
  <2> QED
    BY <2>1 DEF Load
<1>4. Types'
  BY <1>1, <1>2, <1>3 DEF Types, config, Go, Pc
<1>5. ASSUME NEW v \in Worker PROVE RunRight(v)'
  <2>1. RunRight(v)
    BY DEF Shape
  <2> QED
    BY <1>1, <1>2, <2>1 DEF RunRight, Taking, Go, Calculating
<1>6. ASSUME NEW u \in Thread PROVE CloudRight(u)'
  <2>1. CloudRight(u)
    BY DEF Shape
  <2> QED
    BY <1>1, <1>2, <1>3, <2>1 DEF CloudRight, Calculating, Go, config
<1>7. ListRight'
  BY <1>1, <1>2 DEF Shape, ListRight, config, Go, Calculating
<1> QED
  BY <1>4, <1>5, <1>6, <1>7 DEF Shape

LEMMA CountShape ==
  ASSUME Types, Shape, NEW t \in Thread, Count(t)
  PROVE  (Types /\ Shape)'
<1>1. /\ pc \in [Thread -> Pc] /\ own \in [Thread -> BOOLEAN]
      /\ cloudOf \in [Thread -> 0..MaxSeries] /\ 0 \in 0..MaxSeries
      /\ Worker \subseteq Thread /\ "png" \in Thread \ Worker /\ "cloud" \in Dirs
      /\ Thread = Worker \cup {"png"}
      /\ pc[t] = "count"
      /\ UNCHANGED <<config, suffix, disk, list, run, kinds, under>>
  BY Threads, Numbers DEF Types, Count, Dirs
<1>2. PICK p \in {"wait", "walk", "idle"} :
        /\ Go(t, p) /\ (t # "png" => p = "idle")
        /\ t = "png" => p # "idle" /\ (p = "walk" => list # <<>>)
  BY DEF Count, Walk
<1>3. /\ group' \in [Dirs -> 0..Groups - 1] /\ turn' \in [Dirs -> Nat]
  BY <1>1, Increments DEF Count
<1>4. Types'
  BY <1>1, <1>2, <1>3 DEF Count, Types, config, Go, Pc
<1>5. ASSUME NEW v \in Worker PROVE RunRight(v)'
  <2>1. RunRight(v)
    BY DEF Shape
  <2> QED
    BY <1>1, <1>2, <2>1 DEF RunRight, Taking, Go
<1>6. ASSUME NEW u \in Thread PROVE CloudRight(u)'
  <2>1. CloudRight(u)
    BY DEF Shape
  <2> QED
    BY <1>1, <1>2, <2>1 DEF Count, CloudRight, Calculating, Go, config
<1>7. ListRight'
  BY <1>1, <1>2 DEF Shape, ListRight, config, Go
<1> QED
  BY <1>4, <1>5, <1>6, <1>7 DEF Shape

LEMMA PngShape ==
  ASSUME Types, Shape, PngStep
  PROVE  (Types /\ Shape)'
<1>1. /\ pc \in [Thread -> Pc] /\ cloudOf \in [Thread -> 0..MaxSeries]
      /\ Worker \subseteq Thread /\ "png" \in Thread \ Worker
      /\ list \in Seq(Entry) /\ list # <<>> /\ pc["png"] \in {"wait", "walk"}
      /\ UNCHANGED <<config, suffix, group, run, own, kinds, under, turn>>
  BY Threads DEF Types, PngStep, PngWake, PngEncode, calc
<1>2. /\ Head(list) \in Entry /\ Tail(list) \in Seq(Entry) /\ Len(list) > 0
      /\ Head(list) = list[1] /\ Len(Tail(list)) = Len(list) - 1
      /\ \A i \in 1..Len(Tail(list)) : Tail(list)[i] = list[i + 1] /\ i + 1 \in 1..Len(list)
      /\ 1 \in 1..Len(list)
  BY <1>1
<1>3. /\ Head(list).of \in 1..Len(kinds) /\ Head(list).of \in 0..MaxSeries
      /\ Head(list).of # 0 /\ Head(list).what \in Content
      /\ Head(list).end => kinds[Head(list).of] # "calib"
  <2>1. /\ list[1].of \in 1..Len(kinds)
        /\ list[1].end => kinds[list[1].of] # "calib"
    BY <1>1, <1>2 DEF Shape, ListRight
  <2>2. \A e \in Entry : e.what \in Content /\ e.of \in 1..MaxSeries
    BY DEF Entry, Series
  <2>3. \A n \in 1..MaxSeries : n \in 0..MaxSeries /\ n # 0
    BY Numbers
  <2> QED
    BY <1>2, <2>1, <2>2, <2>3
<1>4. /\ list' \in Seq(Entry) /\ (list' = list \/ list' = Tail(list))
      /\ \A n \in DOMAIN disk' : disk'[n] \in Content
  <2>1. CASE PngWake
    BY <1>1, <2>1 DEF PngWake, Types
  <2>2. CASE PngEncode
    <3>1. disk' = disk \/ Write(Head(list).name, Head(list).what)
      BY <2>2 DEF PngEncode, Encode
    <3>2. \A n \in DOMAIN disk' : disk'[n] \in Content
      BY <1>3, <3>1, WriteType DEF Types
    <3> QED
      BY <1>2, <2>2, <3>2 DEF PngEncode
  <2> QED
    BY <2>1, <2>2 DEF PngStep
<1>5. PICK p \in {"wait", "walk", "left"} :
        /\ Go("png", p) /\ (p = "walk" => list' # <<>>)
        /\ IF p = "left" THEN cloudOf' = [cloudOf EXCEPT !["png"] = Head(list).of]
                              /\ Head(list).end
           ELSE cloudOf' = cloudOf
  <2>1. CASE PngWake
    BY <1>1, <2>1 DEF PngWake, calc
  <2>2. CASE PngEncode
    BY <2>2 DEF PngEncode, Calculate, Walk
  <2> QED
    BY <2>1, <2>2 DEF PngStep
<1>6. Types'
  BY <1>1, <1>3, <1>4, <1>5 DEF Types, config, Go, Pc
<1>7. ASSUME NEW v \in Worker PROVE RunRight(v)'
  <2>1. RunRight(v)
    BY DEF Shape
  <2> QED
    BY <1>1, <1>5, <2>1 DEF RunRight, Taking, Go
<1>8. ASSUME NEW u \in Thread PROVE CloudRight(u)'
  <2>1. CloudRight(u)
    BY DEF Shape
  <2>2. CASE u # "png"
    BY <1>1, <1>5, <2>1, <2>2 DEF CloudRight, Calculating, Go, config
  <2>3. CASE u = "png"
    BY <1>1, <1>3, <1>5, <2>1, <2>3 DEF CloudRight, Calculating, Go, config
  <2> QED
    BY <2>2, <2>3
<1>9. ListRight'
  <2>1. ASSUME NEW i \in 1..Len(list')
        PROVE  /\ list'[i].of \in 1..Len(kinds)
               /\ list'[i].what.series = list'[i].of
               /\ list'[i].end => kinds[list'[i].of] # "calib"
               /\ list'[i].name[5] = TRUE
    <3>1. \E j \in 1..Len(list) : list'[i] = list[j]
      BY <1>2, <1>4
    <3> QED
      BY <3>1 DEF Shape, ListRight
  <2> QED
    BY <1>1, <1>3, <1>5, <2>1 DEF Shape, ListRight, config, Go
<1> QED
  BY <1>6, <1>7, <1>8, <1>9 DEF Shape

LEMMA RereadShape ==
  ASSUME Types, Shape, Reread
  PROVE  (Types /\ Shape)'
<1>1. UNCHANGED <<suffix, disk, list, pc, run, calc, kinds, under>>
  BY DEF Reread
<1>2. group \in [Dirs -> 0..Groups - 1] /\ turn \in [Dirs -> Nat]
  BY DEF Types
<1>3. group' \in [Dirs -> 0..Groups - 1] /\ turn' \in [Dirs -> Nat]
  <2>1. CASE UNCHANGED <<group, turn>>
    BY <1>2, <2>1
  <2>2. ASSUME NEW d \in Dirs, NEW g \in 0..(Groups - 1),
               group' = [group EXCEPT ![d] = g],
               turn' = [turn EXCEPT ![d] = @ + ((g + Groups - group[d]) % Groups)]
        PROVE  group' \in [Dirs -> 0..Groups - 1] /\ turn' \in [Dirs -> Nat]
    <3>1. /\ group[d] \in 0..(Groups - 1) /\ turn[d] \in Nat
          /\ Groups \in Nat /\ Groups > 0
      BY <1>2, Numbers
    <3>2. (g + Groups - group[d]) % Groups \in Nat
      BY <3>1
    <3>3. turn[d] + ((g + Groups - group[d]) % Groups) \in Nat
      BY <3>1, <3>2
    <3> QED
      BY <1>2, <2>2, <3>3
  <2> QED
    BY <2>1, <2>2 DEF Reread, Dirs
<1>4. png' \in BOOLEAN /\ enable' \in BOOLEAN /\ calib' \in BOOLEAN
  BY DEF Reread, Types, config
<1>5. Types'
  BY <1>1, <1>3, <1>4 DEF Types, calc
<1>6. Shape'
  BY <1>1 DEF Shape, RunRight, Taking, CloudRight, Calculating, ListRight, calc
<1> QED
  BY <1>5, <1>6

LEMMA ShapeStep ==
  ASSUME Types, Shape, [Next]_vars
  PROVE  (Types /\ Shape)'
<1>1. ASSUME NEW w \in Worker, WorkerStep(w) PROVE (Types /\ Shape)'
  BY <1>1, TakeShape, SkipShape, SkipDepthShape, AbortShape, SaveShape,
     SaveFailsShape, FinishShape
  DEF WorkerStep
<1>2. ASSUME NEW t \in Thread, CalcStep(t) PROVE (Types /\ Shape)'
  <2>1. CASE LoadLeft(t)
    BY <2>1, LoadShape DEF LoadLeft, Calculating, Cam
  <2>2. CASE LoadRight(t)
    BY <2>2, LoadShape DEF LoadRight, Calculating, Cam
  <2> QED
    BY <1>2, <2>1, <2>2, CountShape DEF CalcStep
<1>3. CASE UNCHANGED vars
  BY <1>3 DEF vars, config, calc, past, Types, Shape, RunRight, Taking, CloudRight,
              Calculating, ListRight
<1> QED
  BY <1>1, <1>2, <1>3, BeginShape, PngShape, RereadShape DEF Next, Step

-----------------------------------------------------------------------------
(* A series that met no other is alone: while a worker has it, the other   *)
(* worker has none and the list no other; while it is listed, thr_msg has  *)
(* no other, and its images are the first of the list.                     *)
AloneHere(s) ==
  /\ \A w \in Worker : s \in Unfinished(w) =>
       /\ \A v \in Worker \ {w} : Unfinished(v) = {}
       /\ Listed \subseteq {s}
  /\ s \in Listed => Unfinished("msg") \subseteq {s}
  /\ \A i \in 1..Len(list) : list[i].of = s =>
       /\ cloudOf["png"] \in {0, s}
       /\ \A j \in 1..(i - 1) : list[j].of = s
Alone == \A s \in 1..Len(kinds) : s \notin tainted => AloneHere(s)

(* No worker has more, and the list is the same or has lost its head.      *)
LEMMA AloneLess ==
  ASSUME Types, Alone, kinds' = kinds, tainted \subseteq tainted',
         \A w \in Worker : Unfinished(w)' \subseteq Unfinished(w),
         \/ list' = list /\ cloudOf'["png"] \in {0, cloudOf["png"]}
         \/ /\ list # <<>> /\ list' = Tail(list) /\ cloudOf["png"] = 0
            /\ cloudOf'["png"] \in {0, Head(list).of}
  PROVE  Alone'
<1>1. /\ list \in Seq(Entry) /\ "msg" \in Worker
      /\ list # <<>> =>
           /\ Len(Tail(list)) = Len(list) - 1 /\ Head(list) = list[1]
           /\ 1 \in 1..Len(list) /\ Len(list) \in Nat
           /\ \A i \in 1..Len(Tail(list)) :
                Tail(list)[i] = list[i + 1] /\ i + 1 \in 1..Len(list)
  BY Threads DEF Types
<1>2. Listed' \subseteq Listed
  <2> SUFFICES ASSUME NEW s \in Listed' PROVE s \in Listed
    OBVIOUS
  <2>1. s # 0 /\ (s = cloudOf'["png"] \/ \E i \in 1..Len(list') : s = list'[i].of)
    BY DEF Listed
  <2>2. s = cloudOf["png"] \/ \E i \in 1..Len(list) : s = list[i].of
    BY <1>1, <2>1
  <2> QED
    BY <2>1, <2>2 DEF Listed
<1>3. SUFFICES ASSUME NEW s \in 1..Len(kinds), s \notin tainted, AloneHere(s)
               PROVE  AloneHere(s)'
  BY DEF Alone
<1>4. ASSUME NEW w \in Worker, s \in Unfinished(w)'
      PROVE  /\ \A v \in Worker \ {w} : Unfinished(v)' = {}
             /\ Listed' \subseteq {s}
  <2>1. s \in Unfinished(w)
    BY <1>4
  <2>2. /\ \A v \in Worker \ {w} : Unfinished(v) = {}
        /\ Listed \subseteq {s}
    BY <1>3, <2>1 DEF AloneHere
  <2> QED
    BY <1>2, <2>2
<1>5. s \in Listed' => Unfinished("msg")' \subseteq {s}
  <2>1. s \in Listed => Unfinished("msg") \subseteq {s}
    BY <1>3 DEF AloneHere
  <2>2. Unfinished("msg")' \subseteq Unfinished("msg")
    BY <1>1
  <2> QED
    BY <1>2, <2>1, <2>2
<1>6. ASSUME NEW i \in 1..Len(list'), list'[i].of = s
      PROVE  /\ cloudOf'["png"] \in {0, s}
             /\ \A j \in 1..(i - 1) : list'[j].of = s
  <2>1. \A k \in 1..Len(list) : list[k].of = s =>
          /\ cloudOf["png"] \in {0, s}
          /\ \A j \in 1..(k - 1) : list[j].of = s
    BY <1>3 DEF AloneHere
  <2>2. CASE list' = list /\ cloudOf'["png"] \in {0, cloudOf["png"]}
    BY <1>6, <2>1, <2>2
  <2>3. CASE /\ list # <<>> /\ list' = Tail(list) /\ cloudOf["png"] = 0
             /\ cloudOf'["png"] \in {0, Head(list).of}
    <3>1. i + 1 \in 1..Len(list) /\ list[i + 1].of = s
      BY <1>1, <1>6, <2>3
    <3>2. \A j \in 1..i : list[j].of = s
      BY <2>1, <3>1
    <3>3. list[1].of = s
      BY <1>1, <1>6, <2>3, <3>2
    <3>4. ASSUME NEW j \in 1..(i - 1) PROVE list'[j].of = s
      <4>1. j \in 1..Len(Tail(list)) /\ j + 1 \in 1..i
        BY <1>1, <1>6, <2>3
      <4> QED
        BY <1>1, <2>3, <3>2, <4>1
    <3> QED
      BY <1>1, <2>3, <3>3, <3>4
  <2> QED
    BY <2>2, <2>3
<1> QED
  BY <1>4, <1>5, <1>6 DEF AloneHere

LEMMA InitAlone == Init => Alone
BY DEF Init, Alone

(* What is not over has begun. *)
LEMMA Begun ==
  ASSUME Types, Shape
  PROVE  /\ \A w \in Worker : Unfinished(w) \subseteq 1..Len(kinds)
         /\ Listed \subseteq 1..Len(kinds)
         /\ \A w \in Worker : pc[w] = "idle" => Unfinished(w) = {}
         /\ \A w \in Worker : Taking(w) => /\ Unfinished(w) = {run[w].series}
                                          /\ cloudOf[w] = 0 /\ run[w].series # 0
         /\ \A w \in Worker : Calculating(w) => /\ Unfinished(w) = {cloudOf[w]}
                                                /\ run[w].series = 0
<1>1. Worker \subseteq Thread /\ "png" \in Thread
  BY Threads
<1>2. ASSUME NEW w \in Worker
      PROVE  /\ run[w].series # 0 => run[w].series \in 1..Len(kinds)
             /\ cloudOf[w] # 0 => cloudOf[w] \in 1..Len(kinds)
             /\ Taking(w) <=> run[w].series # 0
             /\ Calculating(w) <=> cloudOf[w] # 0
  BY <1>1 DEF Shape, RunRight, CloudRight
<1>3. Listed \subseteq 1..Len(kinds)
  BY <1>1 DEF Shape, CloudRight, ListRight, Listed
<1> QED
  BY <1>2, <1>3 DEF Unfinished, Taking, Calculating

LEMMA BeginAlone ==
  ASSUME Types, Shape, Alone, NEW w \in Worker, NEW kind \in Kind, Begin(w, kind)
  PROVE  Alone'
<1> DEFINE others == (UNION {Unfinished(v) : v \in Worker}) \cup Listed
<1>0. PICK new : new = Len(kinds) + 1
  OBVIOUS
<1>1. /\ Len(kinds) \in Nat /\ Len(kinds') = new /\ kinds \in Seq(Kind)
      /\ pc[w] = "idle" /\ tainted' = tainted \cup Meets(w)
      /\ list' = list /\ cloudOf' = cloudOf
      /\ run \in [Worker -> Run]
  BY <1>0 DEF Types, Begin, calc
<1>2. run' = [run EXCEPT ![w] = Fresh(kind, new)]
  BY <1>0 DEF Begin, Fresh
<1>3. Fresh(kind, new).series = new
  <2>1. new \in 0..MaxSeries
    BY <1>0, <1>1, Numbers DEF Begin
  <2> QED
    BY <2>1, NewRun
<1>4. /\ Unfinished(w) = {} /\ Unfinished(w)' = {new}
      /\ \A v \in Worker \ {w} : Unfinished(v)' = Unfinished(v)
      /\ Listed' = Listed
  <2>1. Unfinished(w) = {}
    BY <1>1, Begun
  <2>2. cloudOf[w] = 0
    BY <2>1 DEF Unfinished
  <2>3. run'[w].series = new /\ new # 0
    BY <1>0, <1>1, <1>2, <1>3
  <2> QED
    BY <1>1, <1>2, <2>1, <2>2, <2>3 DEF Unfinished, Listed
<1>5. /\ \A v \in Worker : Unfinished(v) \subseteq others
      /\ Listed \subseteq others
      /\ \A v \in Worker : new \notin Unfinished(v)
      /\ new \notin Listed
  <2>1. new \notin 1..Len(kinds)
    BY <1>0, <1>1
  <2>2. /\ \A v \in Worker : Unfinished(v) \subseteq 1..Len(kinds)
        /\ Listed \subseteq 1..Len(kinds)
    BY Begun
  <2>3. \A v \in Worker : Unfinished(v) \subseteq others
    OBVIOUS
  <2>4. \A s \in Listed : s \in others
    OBVIOUS
  <2> HIDE DEF others
  <2> QED
    BY <2>1, <2>2, <2>3, <2>4
<1>6. /\ others # {} => new \in Meets(w)
      /\ others # {} /\ w = "grab" => Unfinished("msg") \subseteq Meets(w)
      /\ others # {} /\ w # "grab" => others \subseteq Meets(w)
  BY <1>0 DEF Meets
<1> HIDE DEF others
<1>7. ASSUME NEW s \in 1..Len(kinds), s \notin tainted'
      PROVE  AloneHere(s)'
  <2>1. AloneHere(s) /\ s \notin Meets(w) /\ s # new
    BY <1>0, <1>1, <1>7 DEF Alone
  <2>2. \A u \in Worker : s \notin Unfinished(u)'
    <3>1. ASSUME NEW u \in Worker, s \in Unfinished(u)' PROVE FALSE
      <4>1. u # w /\ s \in Unfinished(u)
        BY <1>4, <2>1, <3>1
      <4>2. s \in others
        BY <1>5, <4>1
      <4>3. w = "grab" /\ u = "msg"
        BY <1>6, <2>1, <4>1, <4>2, Threads
      <4> QED
        BY <1>6, <2>1, <4>1, <4>2, <4>3
    <3> QED
      BY <3>1
  <2>3. s \in Listed' => Unfinished("msg")' \subseteq {s}
    <3>1. SUFFICES ASSUME s \in Listed PROVE Unfinished("msg")' \subseteq {s}
      BY <1>4
    <3>2. w = "grab"
      BY <1>5, <1>6, <2>1, <3>1
    <3>3. Unfinished("msg")' = Unfinished("msg")
      BY <1>4, <3>2, Threads
    <3> QED
      BY <2>1, <3>1, <3>3 DEF AloneHere
  <2> QED
    BY <1>1, <2>1, <2>2, <2>3 DEF AloneHere
<1>8. ASSUME new \notin tainted' PROVE AloneHere(new)'
  <2>1. others = {}
    BY <1>1, <1>6, <1>8
  <2>2. /\ \A v \in Worker \ {w} : Unfinished(v)' = {}
        /\ Listed' = {}
    BY <1>4, <1>5, <2>1
  <2>3. \A i \in 1..Len(list') : list'[i].of # new
    BY <1>0, <1>1 DEF Shape, ListRight
  <2> QED
    BY <1>4, <2>2, <2>3 DEF AloneHere
<1>9. \A s \in 1..Len(kinds') : s \in 1..Len(kinds) \/ s = new
  BY <1>0, <1>1
<1> QED
  BY <1>7, <1>8, <1>9 DEF Alone

(* An image of w comes to the list. *)
LEMMA ListedAlone ==
  ASSUME Types, Shape, Alone, NEW w \in Worker, Save(w), run[w].png
  PROVE  Alone'
<1> DEFINE x == run[w].series
           n == Len(list) + 1
<1>1. /\ pc[w] = "save" /\ Taking(w) /\ Advance(w) /\ run[w] \in Run
      /\ list \in Seq(Entry) /\ Len(list) \in Nat
      /\ UNCHANGED <<kinds, tainted, cloudOf>>
      /\ Worker = {"grab", "msg"}
  BY DEF Save, Taking, Types, calc, past, Worker
<1>2. list' = Append(list, Ticket(run[w])) /\ Ticket(run[w]).of = x /\ x # 0
  BY <1>1, Begun, TicketType DEF Save, Ticket, Stamp
<1>3. /\ Len(list') = n /\ list'[n].of = x
      /\ \A i \in 1..Len(list) : list'[i] = list[i]
      /\ \A i \in 1..n : i \in 1..Len(list) \/ i = n
  BY <1>1, <1>2
<1>4. \A v \in Worker : Unfinished(v)' \subseteq Unfinished(v)
  <2>1. run'[w].series \in {0, x} /\ \A v \in Worker \ {w} : run'[v] = run[v]
    BY <1>1, Advances, NoRunType
  <2> QED
    BY <1>1, <2>1 DEF Unfinished
<1>5. Unfinished(w) = {x} /\ x \in Unfinished(w) /\ x \in 1..Len(kinds)
  BY <1>1, Begun
<1>6. Listed' \subseteq Listed \cup {x}
  BY <1>1, <1>3 DEF Listed
<1> HIDE DEF x, n
<1>7. SUFFICES ASSUME NEW s \in 1..Len(kinds), s \notin tainted, AloneHere(s)
               PROVE  AloneHere(s)'
  BY <1>1 DEF Alone
<1>8. s = x => /\ \A v \in Worker \ {w} : Unfinished(v) = {}
               /\ Listed \subseteq {s}
  BY <1>5, <1>7 DEF AloneHere
<1>9. ASSUME NEW u \in Worker, s \in Unfinished(u)'
      PROVE  /\ \A v \in Worker \ {u} : Unfinished(v)' = {}
             /\ Listed' \subseteq {s}
  <2>1. s \in Unfinished(u)
    BY <1>4, <1>9
  <2>2. /\ \A v \in Worker \ {u} : Unfinished(v) = {}
        /\ Listed \subseteq {s}
    BY <1>7, <2>1 DEF AloneHere
  <2>3. u = w /\ s = x
    BY <1>5, <2>1, <2>2
  <2> QED
    BY <1>4, <1>6, <2>2, <2>3
<1>10. s \in Listed' => Unfinished("msg")' \subseteq {s}
  <2>1. CASE s \in Listed
    BY <1>1, <1>4, <1>7, <2>1 DEF AloneHere
  <2>2. CASE s = x
    <3>1. CASE w = "msg"
      BY <1>1, <1>4, <1>5, <2>2, <3>1
    <3>2. CASE w # "msg"
      BY <1>1, <1>4, <1>8, <2>2, <3>2
    <3> QED
      BY <3>1, <3>2
  <2> QED
    BY <1>6, <2>1, <2>2
<1>11. ASSUME NEW i \in 1..Len(list'), list'[i].of = s
       PROVE  /\ cloudOf'["png"] \in {0, s}
              /\ \A j \in 1..(i - 1) : list'[j].of = s
  <2>1. CASE i \in 1..Len(list)
    <3>1. /\ cloudOf["png"] \in {0, s}
          /\ \A j \in 1..(i - 1) : list[j].of = s
      BY <1>3, <1>7, <1>11, <2>1 DEF AloneHere
    <3>2. \A j \in 1..(i - 1) : j \in 1..Len(list)
      BY <1>1, <2>1
    <3> QED
      BY <1>1, <1>3, <3>1, <3>2
  <2>2. CASE i = n
    <3>1. s = x
      BY <1>3, <1>11, <2>2
    <3>2. /\ \A j \in 1..Len(list) : list[j].of \in {0, s}
          /\ cloudOf["png"] \in {0, s}
      BY <1>8, <3>1 DEF Listed
    <3>3. \A j \in 1..Len(list) : list[j].of # 0
      BY <1>1 DEF Shape, ListRight
    <3>4. \A j \in 1..(i - 1) : j \in 1..Len(list)
      BY <1>1, <2>2 DEF n
    <3> QED
      BY <1>1, <1>3, <3>2, <3>3, <3>4
  <2> QED
    BY <1>3, <2>1, <2>2
<1> QED
  BY <1>9, <1>10, <1>11 DEF AloneHere

(* A worker whose run stays or is over, and whose cloud is of that run. *)
LEMMA FewerUnfinished ==
  ASSUME Types, Shape, NEW w \in Worker, Taking(w),
         run'[w].series \in {0, run[w].series},
         cloudOf'[w] \in {0, run[w].series},
         \A v \in Worker \ {w} : run'[v] = run[v] /\ cloudOf'[v] = cloudOf[v]
  PROVE  \A v \in Worker : Unfinished(v)' \subseteq Unfinished(v)
<1>1. Unfinished(w)' \subseteq {run[w].series} /\ Unfinished(w) = {run[w].series}
  BY Begun DEF Unfinished
<1>2. \A v \in Worker \ {w} : Unfinished(v)' = Unfinished(v)
  BY DEF Unfinished
<1> QED
  BY <1>1, <1>2

LEMMA WorkerAlone ==
  ASSUME Types, Shape, Alone, NEW w \in Worker, WorkerStep(w)
  PROVE  Alone'
<1>1. /\ run \in [Worker -> Run] /\ cloudOf \in [Thread -> 0..MaxSeries]
      /\ w \in Thread /\ w # "png" /\ Worker \subseteq Thread /\ "png" \in Thread
      /\ NoRun.series = 0
  BY Threads, NoRunType DEF Types
<1>2. Taking(w)
  BY DEF WorkerStep, Take, Skip, SkipDepth, Abort, Save, SaveFails, Finish, Taking
<1>3. cloudOf[w] = 0
  BY <1>2, Begun
<1>4. /\ run'[w].series \in {0, run[w].series}
      /\ cloudOf'[w] \in {0, run[w].series}
      /\ \A v \in Worker \ {w} : run'[v] = run[v] /\ cloudOf'[v] = cloudOf[v]
      /\ kinds' = kinds /\ tainted' = tainted /\ cloudOf'["png"] = cloudOf["png"]
  <2>1. CASE Take(w)
    <3>1. run'[w].series = run[w].series
      BY <1>1, <2>1 DEF Take, Run
    <3> QED
      BY <1>1, <1>3, <2>1, <3>1 DEF Take, calc, past
  <2>2. CASE Skip(w)
    <3>1. /\ run'[w].series \in {0, run[w].series}
          /\ \A v \in Worker \ {w} : run'[v] = run[v]
      BY <1>1, <2>2, Advances DEF Skip
    <3> QED
      BY <1>1, <1>3, <2>2, <3>1 DEF Skip, calc
  <2>3. CASE SkipDepth(w)
    <3>1. run'[w].series = run[w].series
      BY <1>1, <2>3 DEF SkipDepth, Run
    <3> QED
      BY <1>1, <1>3, <2>3, <3>1 DEF SkipDepth, calc, past
  <2>4. CASE Abort(w)
    BY <1>1, <1>3, <2>4 DEF Abort, calc, past
  <2>5. CASE Save(w)
    <3>1. /\ run'[w].series \in {0, run[w].series}
          /\ \A v \in Worker \ {w} : run'[v] = run[v]
      BY <1>1, <2>5, Advances DEF Save
    <3> QED
      BY <1>1, <1>3, <2>5, <3>1 DEF Save, calc, past
  <2>7. CASE SaveFails(w)
    <3>1. /\ run'[w].series \in {0, run[w].series}
          /\ \A v \in Worker \ {w} : run'[v] = run[v]
      BY <1>1, <2>7, Advances DEF SaveFails
    <3> QED
      BY <1>1, <1>3, <2>7, <3>1 DEF SaveFails, calc
  <2>6. CASE Finish(w)
    <3>1. cloudOf' = cloudOf \/ cloudOf' = [cloudOf EXCEPT ![w] = run[w].series]
      BY <2>6 DEF Finish, Calculate
    <3>2. run' = [run EXCEPT ![w] = NoRun] /\ kinds' = kinds /\ tainted' = tainted
      BY <2>6 DEF Finish
    <3> QED
      BY <1>1, <1>3, <3>1, <3>2
  <2> QED
    BY <2>1, <2>2, <2>3, <2>4, <2>5, <2>6, <2>7 DEF WorkerStep
<1>5. CASE Save(w) /\ run[w].png
  BY <1>5, ListedAlone
<1>6. CASE ~(Save(w) /\ run[w].png)
  <2>1. list' = list
    BY <1>6 DEF WorkerStep, Take, Skip, SkipDepth, Abort, Save, SaveFails, Finish
  <2> QED
    BY <1>2, <1>4, <2>1, FewerUnfinished, AloneLess
<1> QED
  BY <1>5, <1>6

LEMMA CalcAlone ==
  ASSUME Types, Shape, Alone, NEW t \in Thread, CalcStep(t)
  PROVE  Alone'
<1>1. /\ cloudOf \in [Thread -> 0..MaxSeries] /\ Worker \subseteq Thread
      /\ "png" \in Thread
  BY Threads DEF Types
<1>2. /\ UNCHANGED <<run, list, kinds, tainted>>
      /\ \A u \in Thread : cloudOf'[u] \in {0, cloudOf[u]}
  BY <1>1 DEF CalcStep, LoadLeft, LoadRight, Count, past
<1>3. \A v \in Worker : Unfinished(v)' \subseteq Unfinished(v)
  BY <1>1, <1>2 DEF Unfinished
<1> QED
  BY <1>1, <1>2, <1>3, AloneLess

LEMMA PngAlone ==
  ASSUME Types, Shape, Alone, PngStep
  PROVE  Alone'
<1>1. /\ cloudOf \in [Thread -> 0..MaxSeries] /\ Worker \subseteq Thread
      /\ "png" \in Thread \ Worker /\ list # <<>>
  BY Threads DEF Types, PngStep, PngWake, PngEncode
<1>2. /\ UNCHANGED <<run, kinds, tainted>>
      /\ \A v \in Worker : cloudOf'[v] = cloudOf[v]
      /\ \/ list' = list /\ cloudOf'["png"] = cloudOf["png"]
         \/ /\ list' = Tail(list) /\ pc["png"] = "walk"
            /\ cloudOf'["png"] \in {cloudOf["png"], Head(list).of}
  BY <1>1 DEF PngStep, PngWake, PngEncode, Calculate, past, calc
<1>3. pc["png"] = "walk" => cloudOf["png"] = 0
  BY <1>1 DEF Shape, CloudRight, Calculating
<1>4. \A v \in Worker : Unfinished(v)' \subseteq Unfinished(v)
  BY <1>2 DEF Unfinished
<1> QED
  BY <1>1, <1>2, <1>3, <1>4, AloneLess

LEMMA AloneStep ==
  ASSUME Types, Shape, Alone, [Next]_vars
  PROVE  Alone'
<1>1. CASE UNCHANGED vars
  <2>1. UNCHANGED <<run, cloudOf, list, kinds, tainted>>
    BY <1>1 DEF vars, calc, past
  <2>2. \A w \in Worker : Unfinished(w)' \subseteq Unfinished(w)
    BY <2>1 DEF Unfinished
  <2> QED
    BY <2>1, <2>2, AloneLess
<1>2. CASE Reread
  <2>1. UNCHANGED <<run, cloudOf, list, kinds>> /\ tainted \subseteq tainted'
    BY <1>2 DEF Reread, calc
  <2>2. \A w \in Worker : Unfinished(w)' \subseteq Unfinished(w)
    BY <2>1 DEF Unfinished
  <2> QED
    BY <2>1, <2>2, AloneLess
<1> QED
  BY <1>1, <1>2, BeginAlone, WorkerAlone, CalcAlone, PngAlone DEF Next, Step

-----------------------------------------------------------------------------
(* While a series is not over that met neither another nor a re-read, the  *)
(* settings are those it began with, and images are listed only for PNG.   *)
Steady ==
  \A s \in Open \ tainted :
    /\ under[s] = [png |-> png, enable |-> enable, calib |-> calib]
    /\ \A w \in Worker : pc[w] = "save" => run[w].png = png
    /\ ~png => list = <<>> /\ cloudOf["png"] = 0
    /\ png => cloudOf["grab"] = 0

(* The images of a series that CloudOwn makes no exception of are stored,  *)
(* on disk or on the list, under the group and the suffix that are current. *)
Good(s) ==
  /\ s \in 1..Len(kinds) /\ s \notin skipped \cup tainted
  /\ kinds[s] # "calib" /\ (under[s].png => kinds[s] # "depth")

CloudFile(f, c) == <<"cloud", group["cloud"], f, c, suffix>>
OnDisk(s, f, c) ==
  /\ suffix = png
  /\ CloudFile(f, c) \in DOMAIN disk /\ disk[CloudFile(f, c)].series = s
InList(s, f, c) ==
  /\ suffix = png
  /\ \E i \in 1..Len(list) : list[i].of = s /\ list[i].name = CloudFile(f, c)
Stored(s, f, c) == OnDisk(s, f, c) \/ InList(s, f, c)

(* Position (f, c) comes before the one that r is at. *)
Before(r, f, c) == f < r.frame \/ (f = r.frame /\ c < r.cam)

(* What has been taken so far; with PNG, thr_png may be done with a series *)
(* before thr_grab gets to the end of its loops.                           *)
TakenBy(w) ==
  Good(run[w].series) =>
    /\ pc[w] = "save" => run[w].group = group["cloud"] /\ suffix = png
    /\ run[w].errNum = 0 /\ (png => pc[w] # "end") =>
         \A f \in 1..Frames, c \in Cam :
           Before(run[w], f, c) => Stored(run[w].series, f, c)

(* When thr_png comes to end_pc, it has come to the last image.            *)
EndsAt(i) ==
  list[i].end /\ Good(list[i].of) =>
    /\ \A f \in 1..Frames, c \in Cam : Stored(list[i].of, f, c)
    /\ \A j \in (i + 1)..Len(list) : list[j].of # list[i].of
    /\ run["grab"].series = list[i].of => pc["grab"] = "end"

(* A cloud under way finds all the images of its series.                   *)
CloudAt(t) ==
  Good(cloudOf[t]) =>
    /\ own[t]
    /\ \A f \in 1..Frames, c \in Cam : OnDisk(cloudOf[t], f, c)
    /\ t = "png" => /\ \A j \in 1..Len(list) : list[j].of # cloudOf[t]
                    /\ run["grab"].series = cloudOf[t] => pc["grab"] = "end"

Held ==
  /\ \A w \in Worker : TakenBy(w)
  /\ \A i \in 1..Len(list) : EndsAt(i)
  /\ \A t \in Thread : CloudAt(t)

CloudInv == Types /\ Shape /\ Alone /\ Steady /\ Held

(* A series whose images are still to be read. *)
Needed(s) ==
  \/ \E w \in Worker : run[w].series = s /\ (png => pc[w] # "end")
  \/ \E t \in Thread : cloudOf[t] = s
  \/ \E i \in 1..Len(list) : list[i].of = s

LEMMA StillGood ==
  ASSUME Types, [Step]_vars, NEW s \in 1..Len(kinds), Good(s)'
  PROVE  Good(s)
<1>1. /\ skipped \subseteq skipped' /\ tainted \subseteq tainted'
  BY DEF Step, Begin, WorkerStep, Take, Skip, SkipDepth, Abort, Save, SaveFails, Finish, CalcStep,
         LoadLeft, LoadRight, Count, PngStep, PngWake, PngEncode, Encode, vars, past
<1>2. kinds'[s] = kinds[s] /\ under'[s] = under[s]
  <2>1. /\ kinds \in Seq(Kind) /\ under \in Seq(Settings)
        /\ Len(under) = Len(kinds)
    BY DEF Types
  <2>2. ASSUME NEW w \in Worker, NEW kind \in Kind, Begin(w, kind)
        PROVE  kinds'[s] = kinds[s] /\ under'[s] = under[s]
    <3>1. /\ kinds' = Append(kinds, kind) /\ \E u : under' = Append(under, u)
      BY <2>2 DEF Begin
    <3> QED
      BY <2>1, <3>1
  <2>3. CASE kinds' = kinds /\ under' = under
    BY <2>3
  <2> QED
    BY <2>2, <2>3
    DEF Step, WorkerStep, Take, Skip, SkipDepth, Abort, Save, SaveFails, Finish, CalcStep,
        LoadLeft, LoadRight, Count, PngStep, PngWake, PngEncode, vars
<1> QED
  BY <1>1, <1>2 DEF Good

(* What may happen to a worker that has a series already begun.            *)
LEMMA SameRun ==
  ASSUME CloudInv, [Step]_vars, NEW w \in Worker, NEW s \in 1..Len(kinds),
         run'[w].series = s
  PROVE  /\ run[w].series = s
         /\ \/ run'[w] = run[w] /\ pc'[w] = pc[w]
            \/ /\ pc[w] \in {"take", "save"}
               /\ \/ Take(w) \/ Skip(w) \/ SkipDepth(w) \/ Save(w)
                  \/ SaveFails(w)
<1>1. /\ s # 0 /\ s # Len(kinds) + 1 /\ Len(kinds) \in Nat /\ NoRun.series = 0
      /\ run \in [Worker -> Run] /\ pc \in [Thread -> Pc] /\ Worker \subseteq Thread
      /\ "png" \notin Worker
  BY Threads, NoRunType DEF CloudInv, Types
<1>2. ASSUME NEW v \in Worker, NEW kind \in Kind, Begin(v, kind)
      PROVE  run'[w] = run[w] /\ pc'[w] = pc[w]
  <2>1. /\ Len(kinds) + 1 \in 0..MaxSeries
        /\ run' = [run EXCEPT ![v] = Fresh(kind, Len(kinds) + 1)]
    BY <1>1, <1>2, Numbers DEF Begin, Fresh
  <2>2. Fresh(kind, Len(kinds) + 1).series # s
    BY <1>1, <2>1, NewRun
  <2> QED
    BY <1>1, <1>2, <2>1, <2>2 DEF Begin, Go
<1>3. ASSUME NEW v \in Worker, WorkerStep(v), v # w
      PROVE  run'[w] = run[w] /\ pc'[w] = pc[w]
  <2>1. CASE Skip(v) \/ Save(v) \/ SaveFails(v)
    BY <1>1, <1>3, <2>1, Advances DEF Skip, Save, SaveFails, CloudInv
  <2>2. CASE Take(v) \/ SkipDepth(v) \/ Abort(v)
    BY <1>1, <1>3, <2>2 DEF Take, SkipDepth, Abort, Go
  <2>3. CASE Finish(v)
    BY <1>1, <1>3, <2>3 DEF Finish, Calculate, Go
  <2> QED
    BY <1>3, <2>1, <2>2, <2>3 DEF WorkerStep
<1>4. CASE WorkerStep(w)
  <2>1. CASE Skip(w) \/ Save(w) \/ SaveFails(w)
    BY <1>1, <2>1, Advances DEF Skip, Save, SaveFails, CloudInv
  <2>2. CASE Take(w)
    <3>1. run'[w].series = run[w].series
      BY <1>1, <2>2 DEF Take, Run
    <3> QED
      BY <2>2, <3>1 DEF Take
  <2>3. CASE SkipDepth(w)
    <3>1. run'[w].series = run[w].series
      BY <1>1, <2>3 DEF SkipDepth, Run
    <3> QED
      BY <2>3, <3>1 DEF SkipDepth
  <2>4. CASE Abort(w) \/ Finish(w)
    BY <1>1, <2>4 DEF Abort, Finish
  <2> QED
    BY <1>4, <2>1, <2>2, <2>3, <2>4 DEF WorkerStep
<1>5. ASSUME NEW t \in Thread, CalcStep(t)
      PROVE  run'[w] = run[w] /\ pc'[w] = pc[w]
  <2>1. run' = run /\ Calculating(t) /\ \A u \in Thread \ {t} : pc'[u] = pc[u]
    BY <1>1, <1>5 DEF CalcStep, LoadLeft, LoadRight, Count, Go, Calculating
  <2>2. t # w
    BY <1>1, <2>1, Begun DEF CloudInv
  <2> QED
    BY <1>1, <2>1, <2>2
<1>6. CASE PngStep
  BY <1>1, <1>6 DEF PngStep, PngWake, PngEncode, Calculate, Go
<1>7. CASE UNCHANGED vars
  BY <1>7 DEF vars
<1> QED
  BY <1>2, <1>3, <1>4, <1>5, <1>6, <1>7 DEF Step

(* What becomes of the list. *)
LEMMA ListStep ==
  ASSUME CloudInv, [Step]_vars
  PROVE  /\ png' = png
         /\ \/ list' = list
            \/ \E w \in Worker : /\ Save(w) /\ run[w].png
                               /\ list' = Append(list, Ticket(run[w]))
            \/ PngEncode /\ list # <<>> /\ list' = Tail(list)
<1>1. png' = png
  BY DEF Step, Begin, WorkerStep, Take, Skip, SkipDepth, Abort, Save, SaveFails, Finish, CalcStep,
         LoadLeft, LoadRight, Count, PngStep, PngWake, PngEncode, vars, config
<1>2. ASSUME NEW w \in Worker, Save(w)
      PROVE  list' = list \/ (run[w].png /\ list' = Append(list, Ticket(run[w])))
  BY <1>2 DEF Save, Ticket, Stamp
<1>3. CASE PngEncode
  BY <1>1, <1>3 DEF PngEncode
<1> QED
  BY <1>1, <1>2, <1>3
  DEF Step, Begin, WorkerStep, Take, Skip, SkipDepth, Abort, SaveFails, Finish, CalcStep, LoadLeft,
      LoadRight, Count, PngStep, PngWake, vars

(* Where an entry of the list comes from. *)
LEMMA EntryStep ==
  ASSUME CloudInv, [Step]_vars, NEW i \in 1..Len(list')
  PROVE  \/ \E j \in 1..Len(list) : list'[i] = list[j]
         \/ \E w \in Worker : Save(w) /\ run[w].png /\ list'[i] = Ticket(run[w])
<1>1. list \in Seq(Entry)
  BY DEF CloudInv, Types
<1>2. CASE list' = list
  BY <1>2
<1>3. ASSUME NEW w \in Worker, Save(w), run[w].png, list' = Append(list, Ticket(run[w]))
      PROVE  \/ \E j \in 1..Len(list) : list'[i] = list[j]
             \/ list'[i] = Ticket(run[w])
  BY <1>1, <1>3
<1>4. CASE list # <<>> /\ list' = Tail(list)
  <2>1. i + 1 \in 1..Len(list) /\ list'[i] = list[i + 1]
    BY <1>1, <1>4
  <2> QED
    BY <2>1
<1> QED
  BY <1>2, <1>3, <1>4, ListStep

(* What becomes of a cloud under way, and where a new one comes from. *)
LEMMA CloudStep ==
  ASSUME CloudInv, [Step]_vars, NEW t \in Thread
  PROVE  \/ cloudOf'[t] = 0
         \/ cloudOf'[t] = cloudOf[t] /\ own'[t] = own[t]
         \/ /\ cloudOf'[t] = cloudOf[t]
            /\ \E c \in Cam : Load(t, c)
         \/ /\ t \in Worker /\ Finish(t) /\ cloudOf'[t] = run[t].series
            /\ own'[t] = TRUE
         \/ /\ t = "png" /\ PngEncode /\ cloudOf'[t] = Head(list).of
            /\ Head(list).end /\ own'[t] = TRUE
<1>1. /\ cloudOf \in [Thread -> 0..MaxSeries] /\ own \in [Thread -> BOOLEAN]
      /\ Worker \subseteq Thread /\ "png" \in Thread \ Worker
  BY Threads DEF CloudInv, Types
<1>2. ASSUME NEW w \in Worker, Finish(w)
      PROVE  /\ own' = own /\ (t # w => cloudOf'[t] = cloudOf[t])
             /\ t = w => own[t] = TRUE
             /\ t = w => cloudOf'[t] = cloudOf[t] \/ cloudOf'[t] = run[t].series
  <2>1. own[w] = TRUE
    <3>1. Taking(w)
      BY <1>2 DEF Finish, Taking
    <3>2. cloudOf[w] = 0 /\ own[w] \in BOOLEAN
      BY <1>1, <3>1, Begun DEF CloudInv
    <3> QED
      BY <1>1, <3>2 DEF CloudInv, Shape, CloudRight
  <2> QED
    BY <1>1, <1>2, <2>1 DEF Finish, Calculate
<1>3. ASSUME PngEncode
      PROVE  /\ own' = own /\ (t # "png" => cloudOf'[t] = cloudOf[t])
             /\ t = "png" => own[t] = TRUE
             /\ t = "png" => \/ cloudOf'[t] = cloudOf[t]
                             \/ cloudOf'[t] = Head(list).of /\ Head(list).end
  <2>1. own["png"] = TRUE
    <3>1. pc["png"] = "walk"
      BY <1>3 DEF PngEncode
    <3>2. cloudOf["png"] = 0 /\ own["png"] \in BOOLEAN
      BY <1>1, <3>1 DEF CloudInv, Shape, CloudRight, Calculating
    <3> QED
      BY <1>1, <3>2 DEF CloudInv, Shape, CloudRight
  <2> QED
    BY <1>1, <1>3, <2>1 DEF PngEncode, Calculate
<1>4. ASSUME NEW u \in Thread, LoadLeft(u) \/ LoadRight(u)
      PROVE  /\ cloudOf' = cloudOf
             /\ IF t = u THEN \E c \in Cam : Load(t, c) ELSE own'[t] = own[t]
  <2>1. 1 \in Cam /\ 2 \in Cam
    BY DEF Cam
  <2>2. PICK c \in Cam : Load(u, c)
    BY <1>4, <2>1 DEF LoadLeft, LoadRight
  <2>3. t # u => own'[t] = own[t]
    BY <1>1, <2>2 DEF Load
  <2> QED
    BY <1>4, <2>2, <2>3 DEF LoadLeft, LoadRight
<1>5. ASSUME NEW u \in Thread, Count(u)
      PROVE  IF t = u THEN cloudOf'[t] = 0
             ELSE cloudOf'[t] = cloudOf[t] /\ own'[t] = own[t]
  BY <1>1, <1>5 DEF Count
<1>6. CASE cloudOf' = cloudOf /\ own' = own
  BY <1>6
<1>7. CASE \E w \in Worker : Finish(w)
  BY <1>2, <1>7
<1>8. CASE PngEncode
  BY <1>3, <1>8
<1>9. CASE \E u \in Thread : LoadLeft(u) \/ LoadRight(u)
  BY <1>4, <1>9
<1>10. CASE \E u \in Thread : Count(u)
  BY <1>5, <1>10
<1> QED
  BY <1>6, <1>7, <1>8, <1>9, <1>10
  DEF Step, Begin, WorkerStep, Take, Skip, SkipDepth, Abort, Save, SaveFails, CalcStep, PngStep,
      PngWake, vars, calc

(* A series that is over stays over.                                       *)
LEMMA StayOver ==
  ASSUME CloudInv, [Step]_vars, NEW x \in 1..Len(kinds), x \in Open'
  PROVE  x \in Open
<1>1. /\ x # 0 /\ Worker = {"grab", "msg"} /\ Worker \subseteq Thread
      /\ "png" \in Thread \ Worker /\ list \in Seq(Entry)
  BY Threads DEF CloudInv, Types
<1>2. ASSUME NEW w \in Worker, run[w].series = x PROVE x \in Open
  BY <1>1, <1>2 DEF Open, Unfinished
<1>3. ASSUME NEW t \in Thread, cloudOf[t] = x PROVE x \in Open
  BY <1>1, <1>3, Threads DEF Open, Unfinished, Listed
<1>4. ASSUME NEW i \in 1..Len(list), list[i].of = x PROVE x \in Open
  BY <1>1, <1>4 DEF Open, Listed
<1>5. \/ \E w \in Worker : run'[w].series = x
      \/ \E t \in Thread : cloudOf'[t] = x
      \/ \E i \in 1..Len(list') : list'[i].of = x
  BY <1>1 DEF Open, Unfinished, Listed
<1>6. ASSUME NEW w \in Worker, run'[w].series = x PROVE x \in Open
  BY <1>2, <1>6, SameRun
<1>7. ASSUME NEW t \in Thread, cloudOf'[t] = x PROVE x \in Open
  <2>1. CASE cloudOf'[t] = cloudOf[t]
    BY <1>3, <1>7, <2>1
  <2>2. CASE t \in Worker /\ cloudOf'[t] = run[t].series
    BY <1>2, <1>7, <2>2
  <2>3. CASE PngEncode /\ cloudOf'[t] = Head(list).of
    <3>1. list # <<>>
      BY <2>3 DEF PngEncode
    <3>2. Head(list) = list[1] /\ 1 \in 1..Len(list)
      BY <1>1, <3>1
    <3> QED
      BY <1>4, <1>7, <2>3, <3>2
  <2> QED
    BY <1>1, <1>7, <2>1, <2>2, <2>3, CloudStep
<1>8. ASSUME NEW i \in 1..Len(list'), list'[i].of = x PROVE x \in Open
  <2>1. ASSUME NEW w \in Worker, list'[i] = Ticket(run[w]) PROVE x \in Open
    BY <1>2, <1>8, <2>1 DEF Ticket
  <2> QED
    BY <1>4, <1>8, <2>1, EntryStep
<1> QED
  BY <1>5, <1>6, <1>7, <1>8

LEMMA OpenBegun == Types /\ Shape => Open \subseteq 1..Len(kinds)
BY Begun, Threads DEF Open

(* The settings are those that a series began with until it is over.       *)
LEMMA SteadyStep ==
  ASSUME CloudInv, (Types /\ Shape)', [Step]_vars
  PROVE  Steady'
<1>1. /\ Types /\ Shape /\ Steady /\ Worker = {"grab", "msg"}
      /\ Worker \subseteq Thread /\ "png" \in Thread \ Worker
      /\ pc \in [Thread -> Pc] /\ run \in [Worker -> Run] /\ list \in Seq(Entry)
      /\ cloudOf \in [Thread -> 0..MaxSeries]
  BY Threads DEF CloudInv, Types
<1>2. SUFFICES ASSUME NEW s \in Open', s \notin tainted'
      PROVE  /\ under'[s] = [png |-> png', enable |-> enable', calib |-> calib']
             /\ \A w \in Worker : pc'[w] = "save" => run'[w].png = png'
             /\ ~png' => list' = <<>> /\ cloudOf'["png"] = 0
             /\ png' => cloudOf'["grab"] = 0
  BY DEF Steady
<1>3. /\ tainted \subseteq tainted' /\ UNCHANGED <<png, enable, calib>>
      /\ \/ kinds' = kinds /\ under' = under
         \/ \E w \in Worker, kind \in Kind : Begin(w, kind)
  BY DEF Step, Begin, WorkerStep, Take, Skip, SkipDepth, Abort, Save, SaveFails, Finish,
         CalcStep, LoadLeft, LoadRight, Count, PngStep, PngWake, PngEncode, Encode,
         vars, config, past
<1>4. s \in 1..Len(kinds')
  <2>1. (Types /\ Shape)' => (Open \subseteq 1..Len(kinds))'
    BY OpenBegun, PTL
  <2> QED
    BY <1>2, <2>1
<1>5. ASSUME NEW w \in Worker, NEW kind \in Kind, Begin(w, kind)
      PROVE  /\ under'[s] = [png |-> png, enable |-> enable, calib |-> calib]
             /\ \A v \in Worker : pc'[v] = "save" => run'[v].png = png
             /\ ~png => list = <<>> /\ cloudOf["png"] = 0
             /\ png => cloudOf["grab"] = 0
  <2>1. /\ kinds \in Seq(Kind) /\ kinds' = Append(kinds, kind) /\ pc[w] = "idle"
        /\ under \in Seq(Settings) /\ Len(under) = Len(kinds)
        /\ under' = Append(under, [png |-> png, enable |-> enable, calib |-> calib])
        /\ tainted' = tainted \cup Meets(w)
        /\ pc'[w] = "take"
        /\ \A v \in Worker \ {w} : pc'[v] = pc[v] /\ run'[v] = run[v]
    BY <1>1, <1>5 DEF Begin, Go, Types
  <2>2. CASE s \in 1..Len(kinds)
    <3>1. s \in Open /\ s \notin tainted
      BY <1>2, <1>3, <2>2, StayOver
    <3>2. under'[s] = under[s]
      BY <2>1, <2>2
    <3> QED
      BY <1>1, <2>1, <3>1, <3>2 DEF Steady
  <2>3. CASE s \notin 1..Len(kinds)
    <3>1. s = Len(kinds) + 1
      BY <1>4, <2>1, <2>3
    <3>2. (UNION {Unfinished(v) : v \in Worker}) \cup Listed = {}
      BY <1>2, <2>1, <3>1 DEF Meets
    <3>3. /\ \A v \in Worker : Unfinished(v) = {} /\ cloudOf[v] = 0 /\ run[v].series = 0
          /\ cloudOf["png"] = 0
      <4>1. Listed = {} /\ \A v \in Worker : Unfinished(v) = {}
        BY <3>2
      <4>2. \A v \in Worker : cloudOf[v] = 0 /\ run[v].series = 0
        BY <4>1 DEF Unfinished
      <4>3. cloudOf["png"] = 0
        BY <4>1 DEF Listed
      <4> QED
        BY <4>1, <4>2, <4>3
    <3>4. list = <<>>
      <4>1. ASSUME NEW i \in 1..Len(list) PROVE FALSE
        <5>1. list[i].of # 0
          BY <1>1 DEF Shape, ListRight
        <5> QED
          BY <3>2, <5>1 DEF Listed
      <4> QED
        BY <1>1, <4>1
    <3>5. \A v \in Worker : pc[v] # "save"
      BY <1>1, <3>3 DEF Shape, RunRight, Taking
    <3>6. under'[s] = [png |-> png, enable |-> enable, calib |-> calib]
      BY <2>1, <3>1
    <3> QED
      BY <1>1, <2>1, <3>3, <3>4, <3>5, <3>6
  <2> QED
    BY <2>2, <2>3
<1>6. CASE \E w \in Worker, kind \in Kind : Begin(w, kind)
  <2>1. UNCHANGED <<list, cloudOf>>
    BY <1>6 DEF Begin, calc
  <2> QED
    BY <1>3, <1>5, <1>6, <2>1
<1>7. CASE kinds' = kinds /\ under' = under
  <2>1. s \in Open /\ s \notin tainted
    BY <1>2, <1>3, <1>4, <1>7, StayOver
  <2>2. /\ under[s] = [png |-> png, enable |-> enable, calib |-> calib]
        /\ \A w \in Worker : pc[w] = "save" => run[w].png = png
        /\ ~png => list = <<>> /\ cloudOf["png"] = 0
        /\ png => cloudOf["grab"] = 0
    BY <1>1, <2>1 DEF Steady
  <2>3. ASSUME NEW w \in Worker, pc'[w] = "save" PROVE run'[w].png = png
    <3>1. run'[w].series \in 1..Len(kinds)
      BY <1>7, <2>3 DEF Shape, RunRight, Taking
    <3>2. CASE run'[w] = run[w] /\ pc'[w] = pc[w]
      BY <2>2, <2>3, <3>2
    <3>3. CASE Take(w)
      BY <1>1, <3>3 DEF Take, Run
    <3>4. CASE Skip(w) \/ Save(w) \/ SaveFails(w)
      <4>1. pc[w] \in {"take", "save"} /\ Advance(w)
        BY <3>4 DEF Skip, Save, SaveFails
      <4> QED
        BY <1>1, <2>3, <4>1, Advances
    <3>5. CASE SkipDepth(w)
      BY <2>3, <3>5 DEF SkipDepth
    <3> QED
      BY <3>1, <3>2, <3>3, <3>4, <3>5, SameRun
  <2>4. ASSUME ~png PROVE list' = <<>> /\ cloudOf'["png"] = 0
    <3>1. list = <<>> /\ cloudOf["png"] = 0
      BY <2>2, <2>4
    <3>2. ~PngEncode
      BY <3>1 DEF PngEncode
    <3>3. ASSUME NEW w \in Worker, Save(w) PROVE ~run[w].png
      BY <2>2, <2>4, <3>3 DEF Save
    <3>4. list' = <<>>
      BY <3>1, <3>2, <3>3, ListStep
    <3> QED
      BY <1>1, <3>1, <3>2, <3>4, CloudStep
  <2>5. ASSUME png PROVE cloudOf'["grab"] = 0
    <3>1. cloudOf["grab"] = 0 /\ "grab" \in Worker /\ "grab" # "png"
      BY <1>1, <2>2, <2>5
    <3>2. ASSUME Finish("grab") PROVE cloudOf' = cloudOf
      <4>1. run["grab"].kind \in Kind /\ run["grab"].kind # "depth"
        BY <1>1, <3>1, <3>2 DEF Finish, Shape, RunRight, Taking, Types
      <4> QED
        BY <2>5, <3>2, <4>1 DEF Finish, Kind
    <3> QED
      BY <1>1, <3>1, <3>2, CloudStep
  <2> QED
    BY <1>3, <1>7, <2>2, <2>3, <2>4, <2>5
<1> QED
  BY <1>3, <1>6, <1>7

LEMMA OpenSettings ==
  ASSUME CloudInv, NEW s, Good(s), s \in Open
  PROVE  /\ under[s].png = png /\ under[s].enable = enable /\ under[s].calib = calib
         /\ png => kinds[s] # "depth"
         /\ \A w \in Worker : pc[w] = "save" => run[w].png = png
         /\ ~png => list = <<>> /\ cloudOf["png"] = 0
         /\ png => cloudOf["grab"] = 0
BY DEF CloudInv, Steady, Good

LEMMA NeededOpen ==
  ASSUME NEW s, Needed(s), s # 0
  PROVE  s \in Open
BY Threads DEF Needed, Open, Unfinished, Listed

LEMMA NeededBefore ==
  ASSUME CloudInv, [Step]_vars, NEW s \in 1..Len(kinds), Needed(s)'
  PROVE  s \in Open
<1>1. s # 0
  BY DEF CloudInv, Types
<1>2. s \in Open'
  BY <1>1, Threads DEF Needed, Open, Unfinished, Listed
<1> QED
  BY <1>2, StayOver

(* The suffix is made that of the format.                                  *)
LEMMA SuffixStep ==
  ASSUME [Step]_vars
  PROVE  png' = png /\ suffix' \in {suffix, png}
BY DEF Step, Begin, WorkerStep, Take, Skip, SkipDepth, Abort, Save, SaveFails, Finish,
       CalcStep, LoadLeft, LoadRight, Count, PngStep, PngWake, PngEncode, vars, config

(* While the images of a series are to be read, the group number stays.    *)
LEMMA GroupKept ==
  ASSUME CloudInv, [Step]_vars, NEW s, Good(s), Needed(s)'
  PROVE  group'["cloud"] = group["cloud"]
<1>1. /\ s \in 1..Len(kinds) /\ s # 0 /\ AloneHere(s)
      /\ cloudOf \in [Thread -> 0..MaxSeries] /\ group \in [Dirs -> 0..Groups - 1]
      /\ Worker \subseteq Thread /\ "png" \in Thread \ Worker
      /\ Worker = {"grab", "msg"} /\ Thread = Worker \cup {"png"}
      /\ NoRun.series = 0 /\ run \in [Worker -> Run]
  BY Threads, NoRunType DEF CloudInv, Alone, Good, Types
<1>s. /\ png => kinds[s] # "depth"
      /\ ~png => list = <<>> /\ cloudOf["png"] = 0
      /\ png => cloudOf["grab"] = 0
  BY <1>1, NeededBefore, OpenSettings
<1>2. ASSUME NEW w \in Worker, Finish(w)
      PROVE  group'["cloud"] = group["cloud"]
  <2>1. CASE Increment("calib") \/ group' = group
    BY <1>1, <2>1 DEF Increment, Dirs
  <2>2. CASE /\ ~png /\ Go(w, "idle") /\ UNCHANGED cloudOf
    <3>1. run' = [run EXCEPT ![w] = NoRun] /\ list' = list /\ Taking(w)
      BY <1>2 DEF Finish, Taking
    <3>2. list = <<>> /\ cloudOf["png"] = 0 /\ cloudOf[w] = 0
      BY <1>1, <1>s, <2>2, <3>1, Begun DEF CloudInv
    <3>3. PICK v \in Worker \ {w} : run[v].series = s \/ cloudOf[v] = s
      BY <1>1, <2>2, <3>1, <3>2 DEF Needed
    <3>4. s \in Unfinished(v) /\ Unfinished(w) # {}
      BY <1>1, <3>1, <3>3, Begun, ZenonT(40) DEF Unfinished, CloudInv
    <3> QED
      BY <1>1, <3>4 DEF AloneHere
  <2> QED
    BY <1>2, <2>1, <2>2 DEF Finish, Kind
<1>3. ASSUME NEW t \in Thread, Count(t)
      PROVE  FALSE
  <2>1. /\ cloudOf[t] # 0 /\ cloudOf' = [cloudOf EXCEPT ![t] = 0]
        /\ UNCHANGED <<run, list, png>> /\ pc[t] = "count" /\ CloudRight(t)
        /\ \A u \in Thread \ {t} : pc'[u] = pc[u] /\ cloudOf'[u] = cloudOf[u]
    BY <1>1, <1>3 DEF Count, CloudInv, Shape, CloudRight, Calculating, config, Go, Types
  <2>2. CASE t \in Worker
    <3>1. Unfinished(t) = {cloudOf[t]} /\ run[t].series = 0
      BY <2>1, <2>2, Begun DEF CloudInv, Calculating
    <3>2. \A v \in Worker \ {t} : s \notin Unfinished(v)
      BY <1>1, <2>2, <3>1 DEF AloneHere
    <3>3. s \in Listed
      BY <1>1, <2>1, <2>2, <3>1, <3>2 DEF Needed, Unfinished, Listed
    <3>4. png
      BY <1>1, <1>s, <3>3 DEF Listed
    <3>5. t = "msg" /\ Unfinished("msg") \subseteq {s}
      BY <1>1, <1>s, <2>1, <2>2, <3>3, <3>4 DEF AloneHere
    <3> QED
      BY <1>1, <1>s, <2>1, <3>1, <3>4, <3>5 DEF CloudRight
  <2>3. CASE t = "png"
    <3>1. png /\ cloudOf["png"] \in Listed
      BY <1>1, <1>s, <2>1, <2>3 DEF Listed
    <3>2. CloudAt("png")
      BY <1>1 DEF CloudInv, Held
    <3>3. ASSUME NEW w \in Worker, run[w].series = s, pc[w] # "end" PROVE FALSE
      <4>1. cloudOf["png"] = s
        BY <1>1, <3>1, <3>3 DEF AloneHere, Unfinished
      <4>2. w = "msg"
        BY <1>1, <3>2, <3>3, <4>1 DEF CloudAt
      <4>3. kinds[s] = "depth"
        BY <1>1, <3>3, <4>2 DEF CloudInv, Shape, RunRight
      <4> QED
        BY <1>1, <1>s, <3>1, <4>3
    <3>4. ASSUME NEW w \in Worker, cloudOf[w] = s PROVE FALSE
      BY <1>1, <1>s, <3>1, <3>4 DEF CloudInv, Shape, CloudRight
    <3>5. ASSUME NEW i \in 1..Len(list), list[i].of = s PROVE FALSE
      <4>1. cloudOf["png"] = s
        BY <1>1, <2>1, <2>3, <3>5 DEF AloneHere
      <4> QED
        BY <3>2, <3>5, <4>1 DEF CloudAt
    <3> QED
      BY <1>1, <2>1, <2>3, <3>1, <3>3, <3>4, <3>5 DEF Needed
  <2> QED
    BY <1>1, <2>2, <2>3
<1>4. CASE group' = group
  BY <1>4
<1> QED
  BY <1>2, <1>3, <1>4
  DEF Step, Begin, WorkerStep, Take, Skip, SkipDepth, Abort, Save, SaveFails, CalcStep,
      LoadLeft, LoadRight, PngStep, PngWake, PngEncode, vars

LEMMA StillNeeded ==
  ASSUME CloudInv, [Step]_vars, NEW s, Good(s), Needed(s)'
  PROVE  Needed(s)
<1>1. /\ s \in 1..Len(kinds) /\ s # 0 /\ list \in Seq(Entry) /\ png' = png
      /\ kinds[s] # "calib"
  BY ListStep DEF CloudInv, Good, Types
<1>s. png => kinds[s] # "depth"
  BY <1>1, NeededBefore, OpenSettings
<1>2. ASSUME NEW w \in Worker, run'[w].series = s, png' => pc'[w] # "end"
      PROVE  Needed(s)
  <2>1. run[w].series = s /\ (png => pc[w] # "end")
    BY <1>1, <1>2, SameRun
  <2> QED
    BY <2>1 DEF Needed
<1>3. ASSUME NEW t \in Thread, cloudOf'[t] = s
      PROVE  Needed(s)
  <2>1. CASE cloudOf[t] = s
    BY <2>1 DEF Needed
  <2>2. CASE t \in Worker /\ Finish(t) /\ s = run[t].series /\ cloudOf[t] # s
    <3>1. run[t].kind = kinds[s] /\ kinds[s] \in Kind
      BY <1>1, <2>2 DEF CloudInv, Shape, RunRight, Types
    <3>2. run[t].kind = "highspeed" /\ png => cloudOf' = cloudOf
      BY <2>2 DEF Finish
    <3>3. ~png
      BY <1>1, <1>s, <1>3, <2>2, <3>1, <3>2 DEF Kind
    <3> QED
      BY <2>2, <3>3 DEF Needed
  <2>3. CASE PngEncode /\ s = Head(list).of
    <3>1. 1 \in 1..Len(list) /\ Head(list) = list[1]
      BY <1>1, <2>3 DEF PngEncode
    <3> QED
      BY <2>3, <3>1 DEF Needed
  <2> QED
    BY <1>1, <1>3, <2>1, <2>2, <2>3, CloudStep
<1>4. ASSUME NEW i \in 1..Len(list'), list'[i].of = s
      PROVE  Needed(s)
  <2>1. CASE \E j \in 1..Len(list) : list'[i] = list[j]
    BY <1>4, <2>1 DEF Needed
  <2>2. ASSUME NEW w \in Worker, Save(w), list'[i] = Ticket(run[w])
        PROVE  Needed(s)
    <3>1. run[w] \in Run /\ run[w].series # 0 /\ pc[w] # "end"
      BY <2>2, Begun DEF CloudInv, Types, Save, Taking
    <3>2. run[w].series = s
      BY <1>4, <2>2, <3>1, TicketType
    <3> QED
      BY <3>1, <3>2 DEF Needed
  <2> QED
    BY <2>1, <2>2, EntryStep
<1> QED
  BY <1>2, <1>3, <1>4 DEF Needed

(* While the images of a series are needed, no other series comes between. *)
LEMMA OnlySeries ==
  ASSUME CloudInv, NEW s, Good(s), Needed(s)
  PROVE  /\ \A w \in Worker : Taking(w) /\ ~png => run[w].series = s
         /\ pc["png"] = "walk" => Head(list).of = s
<1>1. /\ s \in 1..Len(kinds) /\ s # 0 /\ AloneHere(s)
      /\ Worker \subseteq Thread /\ "png" \in Thread \ Worker
      /\ Thread = Worker \cup {"png"} /\ list \in Seq(Entry)
  BY Threads DEF CloudInv, Alone, Good, Types
<1>2. /\ ~png => list = <<>> /\ cloudOf["png"] = 0
      /\ pc["png"] = "walk" => list # <<>> /\ cloudOf["png"] = 0
  <2>1. CloudRight("png") /\ ListRight
    BY <1>1 DEF CloudInv, Shape
  <2>2. ~png => list = <<>> /\ cloudOf["png"] = 0
    BY <1>1, NeededOpen, OpenSettings
  <2> QED
    BY <2>1, <2>2 DEF CloudRight, ListRight, Calculating
<1>3. ASSUME NEW w \in Worker, Taking(w), ~png
      PROVE  run[w].series = s
  <2>1. PICK v \in Worker : run[v].series = s \/ cloudOf[v] = s
    BY <1>1, <1>2, <1>3 DEF Needed
  <2>2. s \in Unfinished(v) /\ Unfinished(w) = {run[w].series}
    BY <1>1, <1>3, <2>1, Begun DEF Unfinished, CloudInv
  <2>3. v = w
    BY <1>1, <2>2 DEF AloneHere
  <2> QED
    BY <2>2, <2>3
<1>4. ASSUME pc["png"] = "walk"
      PROVE  Head(list).of = s
  <2>1. /\ list # <<>> /\ 1 \in 1..Len(list) /\ Head(list) = list[1]
        /\ list[1].of \in Listed /\ Len(list) \in Nat
    <3>1. list # <<>> /\ 1 \in 1..Len(list) /\ Head(list) = list[1]
      BY <1>1, <1>2, <1>4
    <3>2. list[1].of # 0
      BY <3>1 DEF CloudInv, Shape, ListRight
    <3> QED
      BY <1>1, <3>1, <3>2 DEF Listed
  <2>2. CASE \E w \in Worker : run[w].series = s \/ cloudOf[w] = s
    <3>1. Listed \subseteq {s}
      BY <1>1, <2>2 DEF AloneHere, Unfinished
    <3> QED
      BY <2>1, <3>1
  <2>3. CASE \E i \in 1..Len(list) : list[i].of = s
    <3>1. PICK i \in 1..Len(list) : list[i].of = s
      BY <2>3
    <3>2. i = 1 \/ 1 \in 1..(i - 1)
      BY <2>1
    <3> QED
      BY <1>1, <2>1, <3>1, <3>2 DEF AloneHere
  <2> QED
    BY <1>1, <1>2, <1>4, <2>2, <2>3 DEF Needed
<1> QED
  BY <1>3, <1>4

(* What is written to disk and what leaves the list. *)
LEMMA DiskStep ==
  ASSUME CloudInv, [Step]_vars
  PROVE  \/ disk' = disk /\ (list' = list \/ \E e \in Entry : list' = Append(list, e))
         \/ \E w \in Worker :
              /\ pc[w] = "save" /\ ~run[w].png /\ list' = list
              /\ Write(Name(run[w]), Stamp(run[w]))
         \/ /\ pc["png"] = "walk" /\ list # <<>> /\ list' = Tail(list)
            /\ \/ Write(Head(list).name, Head(list).what)
               \/ Head(list).of \in skipped'
<1>1. ASSUME NEW w \in Worker, Save(w)
      PROVE  \/ disk' = disk /\ \E e \in Entry : list' = Append(list, e)
             \/ /\ pc[w] = "save" /\ ~run[w].png /\ list' = list
                /\ Write(Name(run[w]), Stamp(run[w]))
  <2>1. /\ Taking(w) /\ run[w] \in Run /\ pc[w] = "save"
    BY <1>1 DEF Save, Taking, CloudInv, Types
  <2>2. Ticket(run[w]) \in Entry
    BY <2>1, Begun, TicketType DEF CloudInv
  <2>3. CASE run[w].png
    BY <1>1, <2>2, <2>3 DEF Save, Ticket, Stamp
  <2>4. CASE ~run[w].png
    BY <1>1, <2>1, <2>4 DEF Save, Stamp
  <2> QED
    BY <2>3, <2>4
<1>2. CASE PngEncode
  BY <1>2 DEF PngEncode, Encode
<1>3. CASE disk' = disk /\ list' = list
  BY <1>3
<1>4. ASSUME NEW w \in Worker, SaveFails(w), disk' # disk
      PROVE  /\ pc[w] = "save" /\ ~run[w].png /\ list' = list
             /\ Write(Name(run[w]), Stamp(run[w]))
  BY <1>4 DEF SaveFails, Stamp
<1>5. ASSUME NEW w \in Worker, SaveFails(w) PROVE list' = list
  BY <1>5 DEF SaveFails
<1>6. \/ disk' = disk /\ list' = list
      \/ PngEncode
      \/ \E w \in Worker : Save(w) \/ SaveFails(w)
  BY DEF Step, Begin, WorkerStep, Take, Skip, SkipDepth, Abort, Finish, CalcStep, LoadLeft,
         LoadRight, Count, PngStep, PngWake, vars
<1> QED
  BY <1>1, <1>2, <1>3, <1>4, <1>5, <1>6

LEMMA StoredKept ==
  ASSUME CloudInv, [Step]_vars, NEW s, Good(s), Good(s)', Needed(s)', NEW f, NEW c
  PROVE  /\ OnDisk(s, f, c) => OnDisk(s, f, c)'
         /\ Stored(s, f, c) => Stored(s, f, c)'
<1>1. Needed(s) /\ group'["cloud"] = group["cloud"]
  BY StillNeeded, GroupKept
<1>0. SUFFICES ASSUME suffix = png
               PROVE  /\ OnDisk(s, f, c) => OnDisk(s, f, c)'
                      /\ Stored(s, f, c) => Stored(s, f, c)'
  BY DEF OnDisk, InList, Stored
<1>s. suffix' = suffix /\ png' = png
  BY <1>0, SuffixStep
<1>2. /\ \A w \in Worker : pc[w] = "save" /\ ~run[w].png => run[w].series = s
      /\ pc["png"] = "walk" => Head(list).of = s
  <2>1. /\ \A w \in Worker : Taking(w) /\ ~png => run[w].series = s
        /\ pc["png"] = "walk" => Head(list).of = s
    BY <1>1, OnlySeries
  <2>2. \A w \in Worker : pc[w] = "save" => run[w].png = png
    <3>1. s # 0
      BY DEF Good, CloudInv, Types
    <3> QED
      BY <1>1, <3>1, NeededOpen, OpenSettings
  <2> QED
    BY <2>1, <2>2 DEF Taking
<1>3. PICK n : n = CloudFile(f, c) /\ n = CloudFile(f, c)'
  BY <1>1, <1>s DEF CloudFile
<1>4. /\ OnDisk(s, f, c) <=> n \in DOMAIN disk /\ disk[n].series = s
      /\ OnDisk(s, f, c)' <=> n \in DOMAIN disk' /\ disk'[n].series = s
      /\ InList(s, f, c) <=> \E i \in 1..Len(list) : list[i].of = s /\ list[i].name = n
      /\ InList(s, f, c)' <=>
           \E i \in 1..Len(list') : list'[i].of = s /\ list'[i].name = n
  BY <1>0, <1>s, <1>3 DEF OnDisk, InList
<1>5. list \in Seq(Entry)
  BY DEF CloudInv, Types
<1>6. CASE disk' = disk /\ (list' = list \/ \E e \in Entry : list' = Append(list, e))
  <2>1. \A i \in 1..Len(list) : i \in 1..Len(list') /\ list'[i] = list[i]
    BY <1>5, <1>6
  <2>2. InList(s, f, c) => InList(s, f, c)'
    BY <1>4, <2>1
  <2>3. OnDisk(s, f, c) => OnDisk(s, f, c)'
    BY <1>4, <1>6
  <2> QED
    BY <1>3, <2>2, <2>3 DEF Stored
<1>7. ASSUME NEW w \in Worker, pc[w] = "save", ~run[w].png, list' = list,
             Write(Name(run[w]), Stamp(run[w]))
      PROVE  /\ OnDisk(s, f, c) => OnDisk(s, f, c)'
             /\ Stored(s, f, c) => Stored(s, f, c)'
  <2>1. Stamp(run[w]).series = s
    BY <1>2, <1>7 DEF Stamp
  <2>2. OnDisk(s, f, c) => OnDisk(s, f, c)'
    BY <1>4, <1>7, <2>1 DEF Write
  <2> QED
    BY <1>4, <1>7, <2>2 DEF Stored
<1>8. CASE /\ pc["png"] = "walk" /\ list # <<>> /\ list' = Tail(list)
           /\ Write(Head(list).name, Head(list).what)
  <2>1. /\ Head(list) = list[1] /\ 1 \in 1..Len(list)
        /\ \A i \in 1..Len(list) :
             i = 1 \/ (i - 1 \in 1..Len(list') /\ list'[i - 1] = list[i])
    BY <1>5, <1>8
  <2>2. Head(list).what.series = s
    BY <1>2, <1>8, <2>1 DEF CloudInv, Shape, ListRight
  <2>3. OnDisk(s, f, c) => OnDisk(s, f, c)'
    BY <1>4, <1>8, <2>2 DEF Write
  <2>4. ASSUME InList(s, f, c) PROVE Stored(s, f, c)'
    <3>1. PICK i \in 1..Len(list) : list[i].of = s /\ list[i].name = n
      BY <1>4, <2>4
    <3>2. CASE i = 1
      <4>1. Head(list).name = n
        BY <2>1, <3>1, <3>2
      <4>2. OnDisk(s, f, c)'
        BY <1>4, <1>8, <2>2, <4>1 DEF Write
      <4> QED
        BY <4>2 DEF Stored
    <3>3. CASE i # 1
      <4>1. InList(s, f, c)'
        BY <1>4, <2>1, <3>1, <3>3
      <4> QED
        BY <4>1 DEF Stored
    <3> QED
      BY <3>2, <3>3
  <2> QED
    BY <1>3, <2>3, <2>4 DEF Stored
<1>9. CASE pc["png"] = "walk" /\ Head(list).of \in skipped'
  BY <1>2, <1>9 DEF Good
<1> QED
  BY <1>3, <1>6, <1>7, <1>8, <1>9, DiskStep

(* A good series of PNG images is one of thr_grab.                         *)
LEMMA PngByGrab ==
  ASSUME CloudInv, NEW w \in Worker, Good(run[w].series),
         png \/ (pc[w] = "save" /\ run[w].png)
  PROVE  /\ w = "grab" /\ run[w].errNum = 0 /\ run[w].kind = kinds[run[w].series]
         /\ pc[w] = "save" => run[w].png
<1>1. RunRight(w) /\ run[w].series # 0
  BY DEF CloudInv, Shape, Good, Types
<1>2. run[w].series \in Open
  BY <1>1, Threads DEF Open, Unfinished
<1>3. png /\ (pc[w] = "save" => run[w].png) /\ kinds[run[w].series] # "depth"
  BY <1>2, OpenSettings
<1> QED
  BY <1>1, <1>3, Threads DEF RunRight

LEMMA BegunSeries ==
  ASSUME CloudInv, [Step]_vars, NEW w \in Worker, NEW s, Good(s)', run'[w].series = s
  PROVE  \/ s \in 1..Len(kinds)
         \/ \E kind \in Kind : Begin(w, kind)
<1>1. s \in 1..Len(kinds') /\ s # 0
  BY DEF Good
<1>2. CASE kinds' = kinds
  BY <1>1, <1>2
<1>3. ASSUME NEW v \in Worker, NEW kind \in Kind, Begin(v, kind), v # w
      PROVE  s \in 1..Len(kinds)
  <2>1. run'[w] = run[w]
    BY <1>3 DEF Begin, CloudInv, Types
  <2> QED
    BY <1>1, <2>1 DEF CloudInv, Shape, RunRight
<1> QED
  BY <1>2, <1>3
  DEF Step, WorkerStep, Take, Skip, SkipDepth, Abort, Save, SaveFails, Finish, CalcStep,
      LoadLeft, LoadRight, Count, PngStep, PngWake, PngEncode, vars

(* The image that w has taken is stored under the current group. *)
LEMMA Saved ==
  ASSUME CloudInv, [Step]_vars, NEW w \in Worker, Save(w), NEW s, Good(s), Needed(s)',
         run[w].series = s, NEW f, NEW c, f = run[w].frame, c = run[w].cam
  PROVE  Stored(s, f, c)'
<1>1. /\ group'["cloud"] = group["cloud"] /\ run[w].group = group["cloud"]
      /\ s # 0 /\ run[w] \in Run /\ run[w].png = png /\ suffix = png
      /\ suffix' = suffix /\ png' = png
  <2>1. group'["cloud"] = group["cloud"] /\ s # 0
    BY GroupKept DEF Good
  <2>2. TakenBy(w) /\ pc[w] = "save"
    BY DEF CloudInv, Held, Save
  <2>3. run[w] \in Run
    BY DEF CloudInv, Types
  <2>4. run[w].png = png
    <3>1. s \in Open
      BY <2>1, Threads DEF Open, Unfinished
    <3> QED
      BY <2>2, <3>1, OpenSettings
  <2>5. suffix = png
    BY <2>2 DEF TakenBy
  <2>6. suffix' = suffix /\ png' = png
    BY <2>5, SuffixStep
  <2> QED
    BY <2>1, <2>2, <2>3, <2>4, <2>5, <2>6 DEF TakenBy
<1>2. Name(run[w]) = CloudFile(f, c)
  <2>1. RunRight(w) /\ run[w].series # 0
    BY <1>1 DEF CloudInv, Shape
  <2>2. Dir(run[w].kind) = "cloud"
    BY <2>1 DEF RunRight, Good, Dir
  <2> QED
    BY <1>1, <2>2 DEF Name, CloudFile
<1>3. PICK n : n = Name(run[w])
  OBVIOUS
<1>5. CloudFile(f, c)' = n
  BY <1>1, <1>2, <1>3 DEF CloudFile
<1>6. CASE png
  <2>1. list' = Append(list, Ticket(run[w])) /\ list \in Seq(Entry)
    BY <1>1, <1>6 DEF Save, Ticket, Stamp, CloudInv, Types
  <2>2. Ticket(run[w]).of = s /\ Ticket(run[w]).name = n
    BY <1>1, <1>3, TicketType
  <2>3. /\ Len(list) + 1 \in 1..Len(list')
        /\ list'[Len(list) + 1] = Ticket(run[w])
    BY <2>1
  <2>4. InList(s, f, c)'
    BY <1>1, <1>5, <2>2, <2>3 DEF InList
  <2> QED
    BY <2>4 DEF Stored
<1>7. CASE ~png
  <2>1. Write(n, Stamp(run[w]))
    BY <1>1, <1>3, <1>7 DEF Save, Stamp
  <2>2. Stamp(run[w]).series = s
    BY DEF Stamp
  <2>3. OnDisk(s, f, c)'
    BY <1>1, <1>5, <2>1, <2>2 DEF OnDisk, Write
  <2> QED
    BY <2>3 DEF Stored
<1> QED
  BY <1>6, <1>7

LEMMA TakenStep ==
  ASSUME CloudInv, [Step]_vars, NEW w \in Worker
  PROVE  TakenBy(w)'
<1>1. PICK s : s = run'[w].series
  OBVIOUS
<1>2. SUFFICES ASSUME Good(s)'
      PROVE  /\ pc'[w] = "save" => run'[w].group = group'["cloud"] /\ suffix' = png'
             /\ run'[w].errNum = 0 /\ (png' => pc'[w] # "end") =>
                  \A f \in 1..Frames, c \in Cam :
                    Before(run'[w], f, c) => Stored(s, f, c)'
  BY <1>1 DEF TakenBy
<1>3. /\ run \in [Worker -> Run] /\ pc \in [Thread -> Pc] /\ Worker \subseteq Thread
      /\ group \in [Dirs -> 0..Groups - 1]
      /\ 1..Frames \subseteq Nat \ {0} /\ Cam = {1, 2} /\ s # 0 /\ TakenBy(w)
  <2>1. 1..Frames \subseteq Nat \ {0} /\ Cam = {1, 2}
    BY Numbers DEF Cam
  <2>2. s # 0 /\ TakenBy(w)
    BY <1>2 DEF CloudInv, Good, Held
  <2> QED
    BY Threads, <2>1, <2>2 DEF CloudInv, Types
<1>4. ASSUME NEW kind \in Kind, Begin(w, kind)
      PROVE  /\ pc'[w] = "take"
             /\ \A f \in 1..Frames, c \in Cam : ~Before(run'[w], f, c)
  <2>1. /\ Len(kinds) + 1 \in 0..MaxSeries /\ pc'[w] = "take"
        /\ run'[w] = Fresh(kind, Len(kinds) + 1)
    BY <1>3, <1>4, Numbers DEF Begin, Fresh, Go, CloudInv, Types
  <2>2. run'[w].frame = 1 /\ run'[w].cam = 1
    BY <2>1, NewRun
  <2> QED
    BY <1>3, <2>1, <2>2 DEF Before
<1>5. ASSUME s \in 1..Len(kinds)
      PROVE  /\ pc'[w] = "save" => run'[w].group = group'["cloud"] /\ suffix' = png'
             /\ run'[w].errNum = 0 /\ (png' => pc'[w] # "end") =>
                  \A f \in 1..Frames, c \in Cam :
                    Before(run'[w], f, c) => Stored(s, f, c)'
  <2>1. Good(s) /\ run[w].series = s /\ png' = png
    BY <1>1, <1>2, <1>5, StillGood, SameRun, SuffixStep DEF CloudInv
  <2>2. ASSUME png' => pc'[w] # "end"
        PROVE  /\ Needed(s)' /\ group'["cloud"] = group["cloud"]
               /\ \A f \in 1..Frames, c \in Cam : Stored(s, f, c) => Stored(s, f, c)'
    <3>1. Needed(s)'
      BY <1>1, <2>2 DEF Needed
    <3> QED
      BY <1>2, <2>1, <3>1, GroupKept, StoredKept
  <2>3. CASE run'[w] = run[w] /\ pc'[w] = pc[w]
    BY <1>3, <2>1, <2>2, <2>3, SuffixStep DEF TakenBy
  <2>4. CASE Take(w)
    <3>1. /\ run'[w].frame = run[w].frame /\ run'[w].cam = run[w].cam
          /\ run'[w].errNum = run[w].errNum /\ pc'[w] = "save"
          /\ run'[w].group = group[Dir(run[w].kind)] /\ suffix' = png
      BY <1>3, <2>4 DEF Take, Go, Run
    <3>2. Dir(run[w].kind) = "cloud"
      <4>1. RunRight(w)
        BY DEF CloudInv, Shape
      <4> QED
        BY <1>3, <2>1, <4>1 DEF RunRight, Good, Dir
    <3>3. pc[w] = "take"
      BY <2>4 DEF Take
    <3> QED
      BY <1>3, <2>1, <2>2, <3>1, <3>2, <3>3 DEF TakenBy, Before
  <2>5. CASE Skip(w)
    <3>1. s \in skipped'
      BY <2>1, <2>5 DEF Skip
    <3> QED
      BY <1>2, <3>1 DEF Good
  <2>6. CASE SkipDepth(w)
    <3>1. run'[w].errNum = 1 /\ pc'[w] = "take"
      BY <1>3, <2>6 DEF SkipDepth, Run
    <3> QED
      BY <3>1
  <2>7. CASE Save(w)
    <3>1. /\ pc'[w] # "save" /\ run'[w].errNum = run[w].errNum /\ pc[w] = "save"
          /\ \A f \in Nat, c \in Cam :
               Before(run'[w], f, c) =>
                 Before(run[w], f, c) \/ (f = run[w].frame /\ c = run[w].cam)
      <4>1. pc[w] = "save" /\ Advance(w) /\ run'[w] # NoRun
        BY <1>1, <1>3, <2>7, NoRunType DEF Save
      <4>2. run[w] \in Run /\ run[w].cam \in {1, 2}
        BY <1>3 DEF Run
      <4> QED
        BY <1>3, <4>1, <4>2, Advances DEF CloudInv, Before
    <3>2. ASSUME run'[w].errNum = 0, png' => pc'[w] # "end",
                 NEW f \in 1..Frames, NEW c \in Cam, Before(run'[w], f, c)
          PROVE  Stored(s, f, c)'
      <4>1. CASE Before(run[w], f, c)
        BY <1>3, <2>1, <2>2, <3>1, <3>2, <4>1 DEF TakenBy
      <4>2. CASE f = run[w].frame /\ c = run[w].cam
        BY <2>1, <2>2, <2>7, <3>2, <4>2, Saved
      <4> QED
        BY <1>3, <3>1, <3>2, <4>1, <4>2
    <3> QED
      BY <3>1, <3>2
  <2>8. CASE SaveFails(w)
    <3>1. s \in skipped'
      BY <2>1, <2>8 DEF SaveFails
    <3> QED
      BY <1>2, <3>1 DEF Good
  <2> QED
    BY <1>1, <1>5, <2>3, <2>4, <2>5, <2>6, <2>7, <2>8, SameRun
<1> QED
  BY <1>1, <1>2, <1>4, <1>5, BegunSeries

(* thr_grab is done with s, or does not have it. *)
DoneBy(s) == run["grab"].series = s => pc["grab"] = "end"

LEMMA StillDone ==
  ASSUME CloudInv, [Step]_vars, NEW s \in 1..Len(kinds), DoneBy(s)
  PROVE  DoneBy(s)'
BY SameRun, Threads DEF DoneBy

LEMMA NoMoreImages ==
  ASSUME CloudInv, NEW w \in Worker, Save(w), run[w].png, NEW s, Good(s), DoneBy(s)
  PROVE  run[w].series # s
BY PngByGrab DEF DoneBy, Save, CloudInv

LEMMA OldEnds ==
  ASSUME CloudInv, [Step]_vars, NEW i \in 1..Len(list), NEW s, s = list[i].of,
         list[i].end, Good(s), Good(s)', Needed(s)'
  PROVE  /\ \A f \in 1..Frames, c \in Cam : Stored(s, f, c)'
         /\ \A j \in (i + 1)..Len(list) : list[j].of # s
         /\ DoneBy(s) /\ DoneBy(s)'
<1>1. EndsAt(i) /\ s \in 1..Len(kinds)
  BY DEF CloudInv, Held, Good
<1>2. /\ \A f \in 1..Frames, c \in Cam : Stored(s, f, c)
      /\ \A j \in (i + 1)..Len(list) : list[j].of # s
      /\ DoneBy(s)
  BY <1>1 DEF EndsAt, DoneBy
<1> QED
  BY <1>1, <1>2, StoredKept, StillDone

LEMMA EndsStep ==
  ASSUME CloudInv, Types', Shape', [Step]_vars, NEW i \in 1..Len(list')
  PROVE  EndsAt(i)'
<1>1. PICK s : s = list'[i].of
  OBVIOUS
<1>2. SUFFICES ASSUME list'[i].end, Good(s)'
      PROVE  /\ \A f \in 1..Frames, c \in Cam : Stored(s, f, c)'
             /\ \A j \in (i + 1)..Len(list') : list'[j].of # s
             /\ DoneBy(s)'
  BY <1>1 DEF EndsAt, DoneBy
<1>3. Needed(s)' /\ list \in Seq(Entry) /\ Len(list) \in Nat /\ png' = png
  <2>1. Needed(s)'
    BY <1>1 DEF Needed
  <2>2. list \in Seq(Entry)
    BY DEF CloudInv, Types
  <2> QED
    BY <2>1, <2>2, SuffixStep
<1>4. CASE list' = list
  <2>1. Good(s)
    <3>1. s \in 1..Len(kinds)
      BY <1>1, <1>4 DEF CloudInv, Shape, ListRight
    <3> QED
      BY <1>2, <3>1, StillGood DEF CloudInv
  <2> QED
    BY <1>1, <1>2, <1>3, <1>4, <2>1, OldEnds
<1>5. CASE PngEncode /\ list # <<>> /\ list' = Tail(list)
  <2>1. /\ i + 1 \in 1..Len(list) /\ list'[i] = list[i + 1] /\ Len(list') = Len(list) - 1
        /\ \A j \in (i + 1)..Len(list') : list'[j] = list[j + 1]
                                          /\ j + 1 \in (i + 2)..Len(list)
    BY <1>3, <1>5
  <2>2. Good(s)
    <3>1. s \in 1..Len(kinds)
      BY <1>1, <2>1 DEF CloudInv, Shape, ListRight
    <3> QED
      BY <1>2, <3>1, StillGood DEF CloudInv
  <2>3. PICK k \in 1..Len(list) : k = i + 1
    BY <2>1
  <2>4. /\ \A f \in 1..Frames, c \in Cam : Stored(s, f, c)'
        /\ \A j \in (k + 1)..Len(list) : list[j].of # s
        /\ DoneBy(s)'
    BY <1>1, <1>2, <1>3, <2>1, <2>2, <2>3, OldEnds
  <2> QED
    BY <2>1, <2>3, <2>4
<1>6. ASSUME NEW w \in Worker, Save(w), run[w].png, list' = Append(list, Ticket(run[w]))
      PROVE  /\ \A f \in 1..Frames, c \in Cam : Stored(s, f, c)'
             /\ \A j \in (i + 1)..Len(list') : list'[j].of # s
             /\ DoneBy(s)'
  <2>1. /\ run[w] \in Run /\ run[w].series # 0 /\ RunRight(w) /\ Advance(w)
        /\ run[w].series \in 1..Len(kinds)
        /\ pc[w] = "save"
    BY <1>6, Begun DEF Save, CloudInv, Types, Taking, Shape, RunRight
  <2>2. /\ Ticket(run[w]).of = run[w].series /\ Ticket(run[w]).end = Last(run[w])
        /\ Len(list') = Len(list) + 1 /\ list'[Len(list) + 1] = Ticket(run[w])
        /\ \A j \in 1..Len(list) : list'[j] = list[j]
    BY <1>3, <1>6, <2>1, TicketType
  <2>3. CASE i \in 1..Len(list)
    <3>1. Good(s)
      <4>1. s \in 1..Len(kinds)
        BY <1>1, <2>2, <2>3 DEF CloudInv, Shape, ListRight
      <4> QED
        BY <1>2, <4>1, StillGood DEF CloudInv
    <3>2. list[i].end /\ s = list[i].of
      BY <1>1, <1>2, <2>2, <2>3
    <3>3. /\ \A f \in 1..Frames, c \in Cam : Stored(s, f, c)'
          /\ \A j \in (i + 1)..Len(list) : list[j].of # s
          /\ DoneBy(s) /\ DoneBy(s)'
      BY <1>2, <1>3, <2>3, <3>1, <3>2, OldEnds
    <3>4. run[w].series # s
      BY <1>6, <3>1, <3>3, NoMoreImages
    <3>5. ASSUME NEW j \in (i + 1)..Len(list') PROVE list'[j].of # s
      <4>1. CASE j = Len(list) + 1
        BY <2>2, <3>4, <4>1
      <4>2. CASE j # Len(list) + 1
        <5>1. j \in (i + 1)..Len(list) /\ j \in 1..Len(list)
          BY <1>3, <2>2, <2>3, <4>2
        <5> QED
          BY <2>2, <3>3, <5>1
      <4> QED
        BY <4>1, <4>2
    <3> QED
      BY <3>3, <3>5
  <2>4. CASE i = Len(list) + 1
    <3>1. s = run[w].series /\ Last(run[w])
      BY <1>1, <1>2, <2>2, <2>4
    <3>2. Good(s)
      BY <1>2, <2>1, <3>1, StillGood DEF CloudInv
    <3>3. w = "grab" /\ run[w].errNum = 0 /\ TakenBy(w)
      BY <1>6, <2>1, <3>1, <3>2, PngByGrab DEF CloudInv, Held
    <3>4. run[w].frame = Frames /\ run[w].cam = 2
      BY <3>1 DEF Last
    <3>5. pc'["grab"] = "end"
      BY <2>1, <3>3, <3>4, Advances DEF CloudInv
    <3>6. ASSUME NEW f \in 1..Frames, NEW c \in Cam PROVE Stored(s, f, c)'
      <4>1. f < Frames \/ (f = Frames /\ c < 2) \/ (f = Frames /\ c = 2)
        BY Numbers DEF Cam
      <4>2. CASE Before(run[w], f, c)
        <5>1. Stored(s, f, c)
          BY <2>1, <3>1, <3>2, <3>3, <4>2 DEF TakenBy
        <5> QED
          BY <1>2, <1>3, <3>2, <5>1, StoredKept
      <4>3. CASE f = run[w].frame /\ c = run[w].cam
        BY <1>3, <1>6, <3>1, <3>2, <4>3, Saved
      <4> QED
        BY <3>4, <4>1, <4>2, <4>3 DEF Before
    <3>7. (i + 1)..Len(list') = {}
      BY <1>3, <2>2, <2>4
    <3>8. DoneBy(s)'
      BY <3>5 DEF DoneBy
    <3> QED
      BY <3>6, <3>7, <3>8
  <2>5. i \in 1..Len(list) \/ i = Len(list) + 1
    BY <1>3, <2>2
  <2> QED
    BY <2>3, <2>4, <2>5
<1> QED
  BY <1>4, <1>5, <1>6, ListStep

(* The end of the loops of a worker that calculates: all is on disk. *)
LEMMA FinishedCloud ==
  ASSUME CloudInv, [Step]_vars, NEW w \in Worker, Finish(w), NEW s, s = run[w].series,
         Good(s), Good(s)', Needed(s)', cloudOf'[w] = s
  PROVE  /\ ~png
         /\ \A f \in 1..Frames, c \in Cam : OnDisk(s, f, c)'
<1>1. /\ RunRight(w) /\ pc[w] = "end" /\ TakenBy(w) /\ s # 0 /\ cloudOf[w] = 0
      /\ run[w].kind = kinds[s] /\ run[w].kind # "calib" /\ (png => run[w].kind # "depth")
      /\ ~png => list = <<>>
  <2>1. RunRight(w) /\ pc[w] = "end" /\ TakenBy(w) /\ s # 0
    BY DEF CloudInv, Shape, Finish, Held, Good
  <2>2. cloudOf[w] = 0
    BY <2>1, Begun DEF CloudInv, Taking
  <2>3. s \in Open
    BY <2>1, Threads DEF Open, Unfinished
  <2> QED
    BY <2>1, <2>2, <2>3, OpenSettings DEF RunRight, Good
<1>2. ~png
  <2>1. run[w].kind \in {"highspeed", "depth"}
    BY <1>1 DEF Kind, Good, CloudInv, Types
  <2>2. run[w].kind = "highspeed" /\ png => cloudOf' = cloudOf
    BY DEF Finish
  <2> QED
    BY <1>1, <2>1, <2>2
<1>3. ASSUME NEW f \in 1..Frames, NEW c \in Cam PROVE OnDisk(s, f, c)'
  <2>1. Before(run[w], f, c)
    BY <1>1, Numbers DEF RunRight, Before
  <2>2. Stored(s, f, c)
    BY <1>1, <1>2, <2>1 DEF RunRight, TakenBy
  <2>3. list = <<>>
    BY <1>1, <1>2
  <2>4. OnDisk(s, f, c)
    BY <2>2, <2>3 DEF Stored, InList
  <2> QED
    BY <2>4, StoredKept
<1> QED
  BY <1>2, <1>3

(* The image that thr_png encodes last of a series: all is on disk then. *)
LEMMA EncodedCloud ==
  ASSUME CloudInv, [Step]_vars, PngEncode, NEW s, s = Head(list).of, Head(list).end,
         Good(s), Good(s)', Needed(s)'
  PROVE  /\ \A f \in 1..Frames, c \in Cam : OnDisk(s, f, c)'
         /\ \A j \in 1..Len(list') : list'[j].of # s
         /\ DoneBy(s)'
<1>1. /\ list \in Seq(Entry) /\ list # <<>> /\ 1 \in 1..Len(list) /\ Head(list) = list[1]
      /\ list' = Tail(list) /\ Len(list') = Len(list) - 1 /\ Len(list) \in Nat
      /\ \A j \in 1..Len(list') : list'[j] = list[j + 1] /\ j + 1 \in (1 + 1)..Len(list)
  <2>1. list \in Seq(Entry) /\ list # <<>> /\ list' = Tail(list)
    BY DEF CloudInv, Types, PngEncode
  <2> QED
    BY <2>1
<1>2. /\ \A f \in 1..Frames, c \in Cam : Stored(s, f, c)'
      /\ \A j \in (1 + 1)..Len(list) : list[j].of # s
      /\ DoneBy(s)'
  BY <1>1, OldEnds
<1>3. \A j \in 1..Len(list') : list'[j].of # s
  BY <1>1, <1>2
<1>4. ASSUME NEW f \in 1..Frames, NEW c \in Cam PROVE OnDisk(s, f, c)'
  <2>1. ~InList(s, f, c)'
    BY <1>3 DEF InList
  <2> QED
    BY <1>2, <2>1 DEF Stored
<1> QED
  BY <1>2, <1>3, <1>4

LEMMA CloudsStep ==
  ASSUME CloudInv, Types', Shape', [Step]_vars, NEW t \in Thread
  PROVE  CloudAt(t)'
<1>1. PICK s : s = cloudOf'[t]
  OBVIOUS
<1>2. SUFFICES ASSUME Good(s)'
      PROVE  /\ own'[t]
             /\ \A f \in 1..Frames, c \in Cam : OnDisk(s, f, c)'
             /\ t = "png" => /\ \A j \in 1..Len(list') : list'[j].of # s
                             /\ DoneBy(s)'
  BY <1>1 DEF CloudAt, DoneBy
<1>3. Needed(s)' /\ s # 0 /\ list \in Seq(Entry) /\ Len(list) \in Nat
  BY <1>1, <1>2 DEF Needed, CloudInv, Types, Good
<1>4. CASE s = cloudOf[t]
  <2>1. s \in 1..Len(kinds) /\ own \in [Thread -> BOOLEAN] /\ "png" \in Thread \ Worker
    BY <1>3, <1>4, Threads DEF CloudInv, Shape, CloudRight, Types
  <2>2. Good(s) /\ CloudAt(t)
    BY <1>2, <2>1, StillGood DEF CloudInv, Held
  <2>3. /\ own[t] /\ \A f \in 1..Frames, c \in Cam : OnDisk(s, f, c)
        /\ t = "png" => /\ \A j \in 1..Len(list) : list[j].of # s
                        /\ DoneBy(s)
    BY <1>4, <2>2 DEF CloudAt, DoneBy
  <2>4. \A f \in 1..Frames, c \in Cam : OnDisk(s, f, c)'
    BY <1>2, <1>3, <2>2, <2>3, StoredKept
  <2>5. own'[t]
    <3>1. ASSUME NEW c \in Cam, Load(t, c) PROVE own'[t]
      <4>1. \A f \in 1..Frames :
              /\ <<"cloud", group["cloud"], f, c, suffix>> \in DOMAIN disk
              /\ disk[<<"cloud", group["cloud"], f, c, suffix>>].series = cloudOf[t]
        BY <1>4, <2>3 DEF OnDisk, CloudFile
      <4> QED
        BY <2>1, <2>3, <3>1, <4>1 DEF Load
    <3>2. CASE own'[t] = own[t]
      BY <2>3, <3>2
    <3> QED
      BY <1>1, <1>3, <3>1, <3>2, CloudStep
  <2>6. ASSUME t = "png"
        PROVE  /\ \A j \in 1..Len(list') : list'[j].of # s
               /\ DoneBy(s)'
    <3>1. DoneBy(s)'
      BY <2>1, <2>3, <2>6, StillDone
    <3>2. CASE list' = list
      BY <2>3, <2>6, <3>1, <3>2
    <3>3. CASE list # <<>> /\ list' = Tail(list)
      <4>1. \A j \in 1..Len(list') : list'[j] = list[j + 1] /\ j + 1 \in 1..Len(list)
        BY <1>3, <3>3
      <4> QED
        BY <2>3, <2>6, <3>1, <4>1
    <3>4. ASSUME NEW w \in Worker, Save(w), run[w].png, list' = Append(list, Ticket(run[w]))
          PROVE  \A j \in 1..Len(list') : list'[j].of # s
      <4>1. run[w].series # s /\ run[w] \in Run /\ run[w].series # 0
        <5>1. run[w].series # s
          BY <2>2, <2>3, <2>6, <3>4, NoMoreImages
        <5> QED
          BY <3>4, <5>1, Begun DEF Save, Taking, CloudInv, Types
      <4>2. Ticket(run[w]).of # s
        BY <4>1, TicketType
      <4>3. \A j \in 1..Len(list') :
              (j \in 1..Len(list) /\ list'[j] = list[j]) \/ list'[j] = Ticket(run[w])
        BY <1>3, <3>4
      <4> QED
        BY <2>3, <2>6, <4>2, <4>3
    <3> QED
      BY <3>1, <3>2, <3>3, <3>4, ListStep
  <2> QED
    BY <2>4, <2>5, <2>6
<1>5. CASE /\ t \in Worker /\ Finish(t) /\ s = run[t].series /\ own'[t] = TRUE
  <2>1. s \in 1..Len(kinds)
    BY <1>3, <1>5 DEF CloudInv, Shape, RunRight
  <2>2. Good(s) /\ t # "png"
    BY <1>2, <1>5, <2>1, StillGood, Threads DEF CloudInv
  <2> QED
    BY <1>1, <1>2, <1>3, <1>5, <2>2, FinishedCloud
<1>6. CASE /\ t = "png" /\ PngEncode /\ s = Head(list).of
           /\ Head(list).end /\ own'[t] = TRUE
  <2>1. 1 \in 1..Len(list) /\ Head(list) = list[1]
    BY <1>3, <1>6 DEF PngEncode
  <2>2. s \in 1..Len(kinds)
    BY <1>6, <2>1 DEF CloudInv, Shape, ListRight
  <2>3. Good(s)
    BY <1>2, <2>2, StillGood DEF CloudInv
  <2> QED
    BY <1>2, <1>3, <1>6, <2>3, EncodedCloud
<1> QED
  BY <1>1, <1>3, <1>4, <1>5, <1>6, CloudStep

-----------------------------------------------------------------------------
LEMMA InitCloud == Init => CloudInv
<1> SUFFICES ASSUME Init PROVE CloudInv
  OBVIOUS
<1>1. Types /\ Shape /\ Alone
  BY InitShape, InitAlone
<1>2. \A s : ~Good(s)
  BY DEF Init, Good
<1>3. Held
  BY <1>2 DEF Held, TakenBy, EndsAt, CloudAt
<1>4. Steady
  BY NoRunType, Threads DEF Init, Steady, Open, Unfinished, Listed
<1> QED
  BY <1>1, <1>3, <1>4 DEF CloudInv

(* A re-read leaves no series that is not over without an excuse.          *)
LEMMA RereadCloud ==
  ASSUME CloudInv, Reread
  PROVE  CloudInv'
<1>1. Types' /\ Shape' /\ Alone'
  BY ShapeStep, AloneStep DEF CloudInv, Next
<1>2. UNCHANGED <<list, run, cloudOf>> /\ tainted' = tainted \cup Open /\ Open' = Open
  BY DEF Reread, calc, Open, Unfinished, Listed
<1>3. \A s : Good(s)' => s # 0 /\ s \notin Open
  BY <1>1, <1>2 DEF Good, Types
<1>4. /\ \A w \in Worker : ~Good(run[w].series)'
      /\ \A i \in 1..Len(list') : ~Good(list[i].of)'
      /\ \A t \in Thread : ~Good(cloudOf[t])'
  BY <1>2, <1>3, Threads DEF Open, Unfinished, Listed
<1>5. Held'
  BY <1>4 DEF Held, TakenBy, EndsAt, CloudAt
<1>6. Steady'
  BY <1>2 DEF Steady
<1> QED
  BY <1>1, <1>5, <1>6 DEF CloudInv

LEMMA CloudInvStep == CloudInv /\ [Next]_vars => CloudInv'
<1> SUFFICES ASSUME CloudInv, [Next]_vars PROVE CloudInv'
  OBVIOUS
<1>1. Types' /\ Shape' /\ Alone'
  BY ShapeStep, AloneStep DEF CloudInv
<1>2. CASE [Step]_vars
  <2>1. /\ \A w \in Worker : TakenBy(w)'
        /\ \A i \in 1..Len(list') : EndsAt(i)'
        /\ \A t \in Thread : CloudAt(t)'
    BY <1>1, <1>2, TakenStep, EndsStep, CloudsStep
  <2>2. Held'
    BY <2>1 DEF Held
  <2> QED
    BY <1>1, <1>2, <2>2, SteadyStep DEF CloudInv
<1> QED
  BY <1>2, RereadCloud DEF Next

(* Series that meet no other are alone at every step, and the settings     *)
(* stay those that they began with; every image of theirs that was saved   *)
(* is where point_cloud_calc will look for it.                             *)
THEOREM SeriesInvariance == Spec => []CloudInv
<1> QED
  BY InitCloud, CloudInvStep, PTL DEF Spec

(* Group numbers stay in their 8 bits, and files, list, loops and threads  *)
(* in their types.                                                         *)
THEOREM SeriesTypes == Spec => []TypeOK
<1>1. CloudInv => TypeOK
  <2> SUFFICES ASSUME CloudInv PROVE TypeOK
    OBVIOUS
  <2>1. \A i \in 1..Len(list) : list[i].what \in Content /\ list[i].of \in Series
    <3>1. \A i \in 1..Len(list) : list[i] \in Entry
      BY DEF CloudInv, Types
    <3>2. \A e \in Entry : e.what \in Content /\ e.of \in Series
      BY DEF Entry
    <3> QED
      BY <3>1, <3>2
  <2>2. \A w \in Worker : run[w].series \in 0..MaxSeries
    BY DEF CloudInv, Types, Run
  <2> QED
    BY <2>1, <2>2 DEF CloudInv, Types, TypeOK, Pc, Dirs
<1> QED
  BY <1>1, SeriesInvariance, PTL

(* A point cloud is calculated from all the images of the series that      *)
(* asked for it and no other, whoever calculates it and however late:      *)
(* unless an image of it was skipped or not saved, it met another series   *)
(* or a re-read of the XML file, or it is a depth series of PNG files.     *)
THEOREM CloudsOwn == Spec => []CloudOwn
<1>1. CloudInv => CloudOwn
  <2> SUFFICES ASSUME CloudInv, NEW t \in Thread, pc[t] = "count", ~own[t],
                      cloudOf[t] \notin skipped \cup tainted,
                      ~(under[cloudOf[t]].png /\ kinds[cloudOf[t]] = "depth")
               PROVE  FALSE
    BY DEF CloudOwn
  <2>1. cloudOf[t] \in 1..Len(kinds) /\ kinds[cloudOf[t]] # "calib"
    BY DEF CloudInv, Shape, CloudRight, Calculating
  <2>2. Good(cloudOf[t])
    BY <2>1 DEF Good
  <2> QED
    BY <2>2 DEF CloudInv, Held, CloudAt
<1> QED
  BY <1>1, SeriesInvariance, PTL

-----------------------------------------------------------------------------
(* The images: in hand between Take and Save, on the list, and on disk.    *)
Image(b) ==
  \/ \E n \in DOMAIN disk : disk[n] = b
  \/ \E i \in 1..Len(list) : list[i].what = b
  \/ \E w \in Worker : pc[w] = "save" /\ Stamp(run[w]) = b

(* Their numbers are those of their group when they were taken, and their  *)
(* names say so.                                                           *)
Fits(n, b) == n[1] = Dir(kinds[b.series]) /\ n[2] = (1 + b.turn) % Groups
Dated(b) ==
  /\ b.series \in 1..Len(kinds) /\ b.turn \in Nat
  /\ b.turn <= turn[Dir(kinds[b.series])]
Named ==
  /\ \A d \in Dirs : group[d] = (1 + turn[d]) % Groups
  /\ \A n \in DOMAIN disk : Fits(n, disk[n])
  /\ \A i \in 1..Len(list) : Fits(list[i].name, list[i].what)
  /\ \A w \in Worker : pc[w] = "save" => Fits(Name(run[w]), Stamp(run[w]))
  /\ \A b : Image(b) => Dated(b)

(* Nothing is left of what had begun before a series that met no other.    *)
Settled ==
  \A s \in 1..Len(kinds) : s \notin tainted => \A x \in 1..(s - 1) : x \notin Open

(* The images of calibration series, all of thr_grab, stay in their order, *)
(* and so do those files of theirs that thr_png has written.               *)
CalibOf(s) == kinds[s] = "calib"
Ordered ==
  /\ \A n \in DOMAIN disk, i \in 1..Len(list) :
       n[5] /\ CalibOf(disk[n].series) /\ CalibOf(list[i].of)
         => disk[n].series <= list[i].of
  /\ \A i, j \in 1..Len(list) :
       i < j /\ CalibOf(list[i].of) /\ CalibOf(list[j].of) => list[i].of <= list[j].of
  /\ run["grab"].series # 0 =>
       \A b : Image(b) /\ CalibOf(b.series) => b.series <= run["grab"].series

(* Once a series has gone through its frames, the group number has been    *)
(* advanced since its images were taken, or will be.                       *)
Due(s) == CalibOf(s) \/ (s \notin tainted /\ ~Uncounted(s))
Pending(s) ==
  \/ \E t \in Thread : cloudOf[t] = s
  \/ kinds[s] = "highspeed" /\ \E i \in 1..Len(list) : list[i].of = s /\ list[i].end
Counted(s) ==
  \A b : Image(b) /\ b.series = s => b.turn < turn[Dir(kinds[s])]
Advanced ==
  /\ whole \subseteq 1..Len(kinds)
  /\ \A s \in whole : \A w \in Worker : run[w].series # s
  /\ \A s \in whole : Due(s) => Pending(s) \/ Counted(s)
  /\ \A s \in 1..Len(kinds) :
       /\ png /\ pc["grab"] = "end" /\ run["grab"].series = s
       /\ kinds[s] = "highspeed" /\ Due(s)
       => Pending(s) \/ Counted(s)

(* So a later series gets a later number. *)
Later(a, b) ==
  /\ a.series < b.series /\ Dir(kinds[a.series]) = Dir(kinds[b.series])
  /\ a.series \in whole
  /\ CalibOf(a.series) \/ (b.series \notin tainted /\ Due(a.series))
Newer == \A a, b : Image(a) /\ Image(b) /\ Later(a, b) => a.turn < b.turn

KeptInv == CloudInv /\ Named /\ Settled /\ Ordered /\ Advanced /\ Newer

-----------------------------------------------------------------------------
(* Group numbers of eight bits.                                            *)

LEMMA Modulo ==
  ASSUME NEW x \in Nat, NEW g \in Nat, g > 0
  PROVE  \E q, r \in Nat : x \div g = q /\ x % g = r /\ r < g /\ x = g * q + r
<1>1. PICK q, r \in Nat : x \div g = q /\ x % g = r /\ r < g /\ x = q * g + r
  OBVIOUS
<1>2. q * g = g * q
  OBVIOUS
<1> QED
  BY <1>1, <1>2

LEMMA Multiples ==
  ASSUME NEW p \in Nat, NEW q \in Nat, NEW g \in Nat, p < q
  PROVE  g * p \in Nat /\ g * q \in Nat /\ g * p + g <= g * q
<1>1. PICK d \in Nat : q = p + 1 + d
  <2>1. q - p - 1 \in Nat /\ q = p + 1 + (q - p - 1)
    OBVIOUS
  <2> QED
    BY <2>1
<1>2. g * q = g * p + g + g * d
  BY <1>1
<1>3. g * d \in Nat /\ g * p \in Nat
  OBVIOUS
<1> QED
  BY <1>2, <1>3

(* The next number is the number of the next turn. *)
LEMMA NextNumber ==
  ASSUME NEW x \in Nat
  PROVE  ((x % Groups) + 1) % Groups = (x + 1) % Groups
<1>1. Groups \in Nat /\ Groups > 0
  BY Numbers
<1>2. PICK q, r \in Nat : x % Groups = r /\ r < Groups /\ x = Groups * q + r
  BY <1>1, Modulo
<1>3. x + 1 = Groups * q + (r + 1)
  BY <1>1, <1>2
<1>4. (Groups * q + (r + 1)) % Groups = (r + 1) % Groups
  BY <1>1, <1>2
<1> QED
  BY <1>2, <1>3, <1>4

(* Any number is that of a turn still to come.                             *)
LEMMA AnyNumber ==
  ASSUME NEW x \in Nat, NEW y \in Nat, NEW z, NEW g \in 0..(Groups - 1),
         y = (1 + x) % Groups, y < Groups, z = x + ((g + Groups - y) % Groups)
  PROVE  x <= z /\ g = (1 + z) % Groups
<1>1. Groups \in Nat /\ Groups > 1 /\ g < Groups /\ g \in Nat
  BY Numbers
<1>2. PICK q, t \in Nat : (1 + x) % Groups = t /\ 1 + x = Groups * q + t
  BY <1>1, Modulo
<1>3. PICK k \in Nat : k = (g + Groups - y) % Groups
  BY <1>1
<1>4. CASE g >= y
  <2>1. k = g - y
    <3>1. g + Groups - y = (g - y) + Groups /\ g - y \in 0..(Groups - 1)
      BY <1>1, <1>4
    <3> QED
      BY <1>1, <1>3, <3>1
  <2>2. 1 + z = Groups * q + g
    BY <1>1, <1>2, <1>3, <2>1
  <2> QED
    BY <1>1, <1>3, <2>2
<1>5. CASE g < y
  <2>1. k = g + Groups - y
    BY <1>1, <1>3, <1>5
  <2>2. 1 + z = Groups * q + (g + Groups)
    BY <1>1, <1>2, <1>3, <2>1
  <2>3. Groups * (q + 1) = Groups * q + Groups
    BY <1>1
  <2>4. PICK p \in Nat : p = q + 1 /\ 1 + z = Groups * p + g
    BY <1>1, <2>2, <2>3
  <2>5. (Groups * p + g) % Groups = g /\ x <= z
    BY <1>1, <1>3, <2>4
  <2> QED
    BY <2>4, <2>5
<1> QED
  BY <1>1, <1>4, <1>5

(* Images of the same name are of the same turn or of turns far apart.     *)
LEMMA SameRest ==
  ASSUME NEW u \in Nat, NEW v \in Nat, NEW g \in Nat, g > 0, u < v, u % g = v % g
  PROVE  v - u >= g
<1>1. PICK p, r \in Nat : u % g = r /\ u = g * p + r
  BY Modulo
<1>2. PICK q, t \in Nat : v % g = t /\ v = g * q + t
  BY Modulo
<1>3. r = t
  BY <1>1, <1>2
<1>4. PICK x, y \in Nat : x = g * p /\ y = g * q
  OBVIOUS
<1>5. x < y
  BY <1>1, <1>2, <1>3, <1>4
<1>6. p < q
  <2>1. CASE q < p
    <3>1. y + g <= x
      BY <2>1, <1>4, Multiples
    <3> QED
      BY <1>5, <3>1
  <2>2. CASE q = p
    BY <1>4, <1>5, <2>2
  <2> QED
    BY <2>1, <2>2
<1>7. x + g <= y
  BY <1>4, <1>6, Multiples
<1> QED
  BY <1>1, <1>2, <1>3, <1>4, <1>7

LEMMA FarApart ==
  ASSUME NEW x \in Nat, NEW y \in Nat, x < y, (1 + x) % Groups = (1 + y) % Groups
  PROVE  y - x >= Groups
<1>1. PICK u, v \in Nat : u = 1 + x /\ v = 1 + y
  OBVIOUS
<1>2. v - u >= Groups
  <2>1. u \in Nat /\ v \in Nat /\ u < v /\ u % Groups = v % Groups
    BY <1>1
  <2>2. Groups \in Nat /\ Groups > 0
    BY Numbers
  <2> QED
    BY <2>1, <2>2, SameRest, Zenon
<1> QED
  BY <1>1, <1>2, Numbers

-----------------------------------------------------------------------------
(* What every step leaves, and where images come from.                     *)

LEMMA KindsKept ==
  ASSUME Types, [Step]_vars
  PROVE  /\ UNCHANGED <<png, enable, calib>>
         /\ Len(kinds) \in Nat
         /\ \/ kinds' = kinds /\ tainted' = tainted
            \/ \E w \in Worker, kind \in Kind : Begin(w, kind)
         /\ tainted \subseteq tainted' /\ skipped \subseteq skipped'
         /\ \A s \in 1..Len(kinds) : /\ kinds'[s] = kinds[s] /\ under'[s] = under[s]
                                     /\ s \in 1..Len(kinds')
<1>1. /\ kinds \in Seq(Kind) /\ Len(kinds) \in Nat
      /\ under \in Seq(Settings) /\ Len(under) = Len(kinds)
  BY DEF Types
<1>2. ASSUME NEW w \in Worker, NEW kind \in Kind, Begin(w, kind)
      PROVE  /\ UNCHANGED <<png, enable, calib>>
             /\ tainted \subseteq tainted' /\ skipped \subseteq skipped'
             /\ kinds' = Append(kinds, kind) /\ \E u : under' = Append(under, u)
  BY <1>2 DEF Begin, config
<1>3. ASSUME ~\E w \in Worker, kind \in Kind : Begin(w, kind)
      PROVE  /\ UNCHANGED <<png, enable, calib, kinds, tainted>>
             /\ skipped \subseteq skipped'
  BY <1>1, <1>3
     DEF Step, WorkerStep, Take, Skip, SkipDepth, Abort, Save, SaveFails, Finish, CalcStep,
         LoadLeft, LoadRight, Count, PngStep, PngWake, PngEncode, Encode, vars, config, past
<1>4. ASSUME NEW kind \in Kind, kinds' = Append(kinds, kind), NEW u,
             under' = Append(under, u)
      PROVE  \A s \in 1..Len(kinds) : /\ kinds'[s] = kinds[s] /\ under'[s] = under[s]
                                      /\ s \in 1..Len(kinds')
  BY <1>1, <1>4
<1>5. CASE ~\E w \in Worker, kind \in Kind : Begin(w, kind)
  <2>1. under' = under
    BY <1>5
       DEF Step, WorkerStep, Take, Skip, SkipDepth, Abort, Save, SaveFails, Finish, CalcStep,
           LoadLeft, LoadRight, Count, PngStep, PngWake, PngEncode, vars
  <2> QED
    BY <1>1, <1>3, <1>5, <2>1
<1> QED
  BY <1>1, <1>2, <1>4, <1>5

(* Group and turn of a directory advance together, or stay.                *)
LEMMA TurnStep ==
  ASSUME Types, [Step]_vars, NEW d \in Dirs, group[d] = (1 + turn[d]) % Groups
  PROVE  /\ turn[d] \in Nat /\ turn'[d] \in Nat /\ turn[d] <= turn'[d]
         /\ group'[d] = (1 + turn'[d]) % Groups
<1>1. group \in [Dirs -> 0..Groups - 1] /\ turn \in [Dirs -> Nat] /\ turn[d] \in Nat
  BY DEF Types
<1>2. \/ UNCHANGED <<group, turn>>
      \/ \E e \in Dirs : Increment(e)
  BY DEF Dirs, Step, Begin, WorkerStep, Take, Skip, SkipDepth, Abort, Save, SaveFails, Finish,
         CalcStep, LoadLeft, LoadRight, Count, PngStep, PngWake, PngEncode, vars
<1>3. ASSUME Increment(d)
      PROVE  turn'[d] = turn[d] + 1 /\ group'[d] = (group[d] + 1) % Groups
  BY <1>1, <1>3 DEF Increment
<1>4. PICK u \in Nat : u = 1 + turn[d]
  BY <1>1
<1>5. ((u % Groups) + 1) % Groups = (u + 1) % Groups
  BY NextNumber
<1>6. ASSUME Increment(d) PROVE group'[d] = (1 + turn'[d]) % Groups
  <2>1. group[d] = u % Groups /\ 1 + turn'[d] = u + 1
    BY <1>1, <1>3, <1>4, <1>6
  <2> QED
    BY <1>3, <1>5, <1>6, <2>1
<1>7. ASSUME NEW e \in Dirs, e # d, Increment(e)
      PROVE  turn'[d] = turn[d] /\ group'[d] = group[d]
  BY <1>1, <1>7 DEF Increment
<1> QED
  BY <1>1, <1>2, <1>3, <1>6, <1>7

Shot(w) == [series |-> run[w].series, turn |-> turn[Dir(run[w].kind)]]

(* A file is that of before, or an image saved or encoded in this step.    *)
LEMMA DiskSource ==
  ASSUME Types, Shape, [Step]_vars, NEW n \in DOMAIN disk'
  PROVE  \/ n \in DOMAIN disk /\ disk'[n] = disk[n]
         \/ \E w \in Worker : /\ pc[w] = "save" /\ ~run[w].png /\ list' = list
                              /\ n = Name(run[w]) /\ disk'[n] = Stamp(run[w])
         \/ /\ PngEncode /\ list # <<>> /\ list' = Tail(list) /\ 1 \in 1..Len(list)
            /\ n = list[1].name /\ disk'[n] = list[1].what
<1>1. CASE disk' = disk
  BY <1>1
<1>2. ASSUME NEW w \in Worker, Save(w) \/ SaveFails(w), disk' # disk
      PROVE  /\ pc[w] = "save" /\ ~run[w].png /\ list' = list
             /\ Write(Name(run[w]), Stamp(run[w]))
  BY <1>2 DEF Save, SaveFails, Stamp
<1>3. ASSUME PngEncode, disk' # disk
      PROVE  /\ PngEncode /\ list # <<>> /\ list' = Tail(list) /\ 1 \in 1..Len(list)
             /\ Write(list[1].name, list[1].what)
  <2>1. list \in Seq(Entry) /\ list # <<>>
    BY <1>3 DEF Types, PngEncode
  <2>2. Head(list) = list[1] /\ 1 \in 1..Len(list)
    BY <2>1
  <2> QED
    BY <1>3, <2>1, <2>2 DEF PngEncode, Encode
<1>4. ASSUME NEW name, NEW what, Write(name, what)
      PROVE  IF n = name THEN disk'[n] = what ELSE n \in DOMAIN disk /\ disk'[n] = disk[n]
  BY <1>4 DEF Write
<1>5. \/ disk' = disk \/ PngEncode \/ \E w \in Worker : Save(w) \/ SaveFails(w)
  BY DEF Step, Begin, WorkerStep, Take, Skip, SkipDepth, Abort, Finish,
         CalcStep, LoadLeft, LoadRight, Count, PngStep, PngWake, vars
<1> QED
  BY <1>1, <1>2, <1>3, <1>4, <1>5

(* What a worker holds between Take and Save is from its last Take.        *)
LEMMA TakeHand ==
  ASSUME Types, Shape, NEW w \in Worker, Take(w)
  PROVE  /\ Stamp(run'[w]) = Shot(w) /\ run[w].series # 0
         /\ run[w].series \in 1..Len(kinds) /\ run[w].kind = kinds[run[w].series]
         /\ Name(run'[w])[1] = Dir(run[w].kind)
         /\ Name(run'[w])[2] = group[Dir(run[w].kind)]
         /\ kinds' = kinds /\ turn' = turn /\ whole' = whole
<1> DEFINE d == Dir(run[w].kind)
           r == [run[w] EXCEPT !.group = group[d], !.turn = turn[d], !.png = png]
<1>1. run \in [Worker -> Run] /\ run[w] \in Run
  BY DEF Types
<1>2. run' = [run EXCEPT ![w].group = group[d], ![w].turn = turn[d], ![w].png = png]
  BY DEF Take
<1>3. run'[w] = r
  BY <1>1, <1>2
<1>4. /\ r.series = run[w].series /\ r.kind = run[w].kind
      /\ r.group = group[d] /\ r.turn = turn[d]
  BY <1>1 DEF Run
<1>5. RunRight(w) /\ pc[w] = "take" /\ UNCHANGED <<kinds, turn, whole>>
  BY DEF Shape, Take, past
<1>6. /\ run[w].series # 0 /\ run[w].series \in 1..Len(kinds)
      /\ run[w].kind = kinds[run[w].series]
  BY <1>5 DEF RunRight, Taking
<1> HIDE DEF r
<1> QED
  BY <1>3, <1>4, <1>5, <1>6 DEF Stamp, Shot, Name

LEMMA HandStep ==
  ASSUME Types, Shape, [Step]_vars, NEW w \in Worker, pc'[w] = "save"
  PROVE  Take(w) \/ (pc[w] = "save" /\ run'[w] = run[w])
<1>1. /\ run \in [Worker -> Run] /\ pc \in [Thread -> Pc] /\ Worker \subseteq Thread
      /\ "png" \notin Worker /\ w \in Thread /\ w # "png"
  BY Threads DEF Types
<1>2. ASSUME NEW v \in Worker, NEW kind \in Kind, Begin(v, kind)
      PROVE  pc[w] = "save" /\ run'[w] = run[w]
  BY <1>1, <1>2 DEF Begin, Go
<1>3. ASSUME NEW v \in Worker, WorkerStep(v), ~Take(w)
      PROVE  pc[w] = "save" /\ run'[w] = run[w]
  <2>1. CASE Skip(v) \/ Save(v) \/ SaveFails(v)
    <3>1. pc[v] \in {"take", "save"} /\ Advance(v)
      BY <2>1 DEF Skip, Save, SaveFails
    <3> QED
      BY <1>1, <3>1, Advances
  <2>2. CASE Take(v)
    BY <1>1, <1>3, <2>2 DEF Take, Go
  <2>3. CASE SkipDepth(v) \/ Abort(v)
    BY <1>1, <2>3 DEF SkipDepth, Abort, Go
  <2>4. CASE Finish(v)
    <3>1. pc'[v] \in {"idle", "left"} /\ \A u \in Worker \ {v} : pc'[u] = pc[u]
      BY <1>1, <2>4 DEF Finish, Go, Calculate
    <3>2. run' = [run EXCEPT ![v] = NoRun]
      BY <2>4 DEF Finish
    <3> QED
      BY <1>1, <3>1, <3>2
  <2> QED
    BY <1>3, <2>1, <2>2, <2>3, <2>4 DEF WorkerStep
<1>4. ASSUME NEW t \in Thread, CalcStep(t)
      PROVE  pc[w] = "save" /\ run'[w] = run[w]
  <2>1. /\ pc'[t] \in {"right", "count", "wait", "walk", "idle"}
        /\ \A u \in Thread \ {t} : pc'[u] = pc[u]
        /\ run' = run
    BY <1>1, <1>4 DEF CalcStep, LoadLeft, LoadRight, Count, Go, Walk
  <2> QED
    BY <1>1, <2>1
<1>5. CASE PngStep
  BY <1>1, <1>5 DEF PngStep, PngWake, PngEncode, Go, Calculate, Walk
<1>6. CASE UNCHANGED vars
  BY <1>6 DEF vars
<1> QED
  BY <1>2, <1>3, <1>4, <1>5, <1>6 DEF Step

(* An image was there before, or is taken in this step.                    *)
LEMMA ImageStep ==
  ASSUME CloudInv, [Step]_vars, NEW b, Image(b)'
  PROVE  Image(b) \/ \E w \in Worker : Take(w) /\ b = Shot(w)
<1>1. Types /\ Shape
  BY DEF CloudInv
<1>2. ASSUME NEW n \in DOMAIN disk', disk'[n] = b
      PROVE  Image(b)
  <2>1. ASSUME NEW w \in Worker, pc[w] = "save", disk'[n] = Stamp(run[w])
        PROVE  Image(b)
    BY <1>2, <2>1 DEF Image
  <2> QED
    BY <1>1, <1>2, <2>1, DiskSource DEF Image
<1>3. ASSUME NEW i \in 1..Len(list'), list'[i].what = b
      PROVE  Image(b)
  <2>1. ASSUME NEW w \in Worker, Save(w), list'[i] = Ticket(run[w])
        PROVE  Image(b)
    BY <1>3, <2>1 DEF Image, Save, Ticket, Stamp
  <2> QED
    BY <1>3, <2>1, EntryStep DEF Image
<1>4. ASSUME NEW w \in Worker, pc'[w] = "save", Stamp(run'[w]) = b
      PROVE  Image(b) \/ (Take(w) /\ b = Shot(w))
  BY <1>1, <1>4, HandStep, TakeHand DEF Image
<1> QED
  BY <1>2, <1>3, <1>4 DEF Image

(* An image just taken is newer than any other number its group had.       *)
LEMMA ImagesDated ==
  ASSUME CloudInv, Named, [Step]_vars, NEW b, Image(b)'
  PROVE  Dated(b)' /\ b.series \in 1..Len(kinds) /\ kinds'[b.series] = kinds[b.series]
<1>1. Types /\ Shape
  BY DEF CloudInv
<1>2. \A d \in Dirs : /\ turn[d] \in Nat /\ turn'[d] \in Nat /\ turn[d] <= turn'[d]
  BY <1>1, TurnStep DEF Named
<1>3. /\ \A s \in 1..Len(kinds) : kinds'[s] = kinds[s] /\ s \in 1..Len(kinds')
  BY <1>1, KindsKept
<1>4. CASE Image(b)
  <2>1. /\ b.series \in 1..Len(kinds) /\ b.turn \in Nat
        /\ b.turn <= turn[Dir(kinds[b.series])]
    BY <1>4 DEF Named, Dated
  <2>2. PICK d \in Dirs : d = Dir(kinds[b.series])
    BY DirOf
  <2>3. b.turn <= turn'[d]
    BY <1>2, <2>1, <2>2
  <2> QED
    BY <1>3, <2>1, <2>2, <2>3 DEF Dated
<1>5. ASSUME NEW w \in Worker, Take(w), b = Shot(w)
      PROVE  Dated(b)' /\ b.series \in 1..Len(kinds) /\ kinds'[b.series] = kinds[b.series]
  <2>1. PICK d \in Dirs : d = Dir(run[w].kind)
    BY DirOf
  <2>2. b.series = run[w].series /\ b.turn = turn[d]
    BY <1>5, <2>1 DEF Shot
  <2>3. /\ run[w].series \in 1..Len(kinds) /\ run[w].kind = kinds[run[w].series]
        /\ kinds' = kinds /\ turn' = turn
    BY <1>1, <1>5, TakeHand
  <2> QED
    BY <1>2, <2>1, <2>2, <2>3 DEF Dated
<1> QED
  BY <1>4, <1>5, ImageStep

LEMMA FitsStep ==
  ASSUME CloudInv, Named, [Step]_vars
  PROVE  /\ \A n \in DOMAIN disk' : Fits(n, disk[n])'
         /\ \A i \in 1..Len(list') : Fits(list[i].name, list[i].what)'
         /\ \A w \in Worker : pc'[w] = "save" => Fits(Name(run[w]), Stamp(run[w]))'
<1>1. Types /\ Shape
  BY DEF CloudInv
<1>2. ASSUME NEW n, NEW b, Image(b), Fits(n, b)
      PROVE  n[1] = Dir(kinds'[b.series]) /\ n[2] = (1 + b.turn) % Groups
  <2>1. b.series \in 1..Len(kinds)
    BY <1>2 DEF Named, Dated
  <2>2. kinds'[b.series] = kinds[b.series]
    BY <1>1, <2>1, KindsKept
  <2> QED
    BY <1>2, <2>2 DEF Fits
<1> USE DEF Fits
<1>3. ASSUME NEW w \in Worker, pc[w] = "save"
      PROVE  Image(Stamp(run[w])) /\ Fits(Name(run[w]), Stamp(run[w]))
  BY <1>3 DEF Image, Named
<1>4. ASSUME NEW i \in 1..Len(list)
      PROVE  Image(list[i].what) /\ Fits(list[i].name, list[i].what)
  BY <1>4 DEF Image, Named
<1>5. ASSUME NEW n \in DOMAIN disk' PROVE Fits(n, disk[n])'
  <2>1. CASE n \in DOMAIN disk /\ disk'[n] = disk[n]
    <3>1. Image(disk[n]) /\ Fits(n, disk[n])
      BY <2>1 DEF Image, Named
    <3> QED
      BY <1>2, <2>1, <3>1
  <2>2. ASSUME NEW w \in Worker, pc[w] = "save", n = Name(run[w]),
               disk'[n] = Stamp(run[w])
        PROVE  Fits(n, disk[n])'
    BY <1>2, <1>3, <2>2
  <2>3. CASE 1 \in 1..Len(list) /\ n = list[1].name /\ disk'[n] = list[1].what
    BY <1>2, <1>4, <2>3
  <2> QED
    BY <1>1, <2>1, <2>2, <2>3, DiskSource
<1>6. ASSUME NEW i \in 1..Len(list') PROVE Fits(list[i].name, list[i].what)'
  <2>1. ASSUME NEW j \in 1..Len(list), list'[i] = list[j]
        PROVE  Fits(list[i].name, list[i].what)'
    BY <1>2, <1>4, <2>1
  <2>2. ASSUME NEW w \in Worker, Save(w), list'[i] = Ticket(run[w])
        PROVE  Fits(list[i].name, list[i].what)'
    <3>1. list'[i].name = Name(run[w]) /\ list'[i].what = Stamp(run[w])
      BY <2>2 DEF Ticket
    <3> QED
      BY <1>2, <1>3, <2>2, <3>1 DEF Save
  <2> QED
    BY <2>1, <2>2, EntryStep
<1>7. ASSUME NEW w \in Worker, pc'[w] = "save"
      PROVE  Fits(Name(run[w]), Stamp(run[w]))'
  <2>1. CASE pc[w] = "save" /\ run'[w] = run[w]
    <3>1. Image(Stamp(run[w])) /\ Fits(Name(run[w]), Stamp(run[w]))
      BY <2>1 DEF Image, Named
    <3> QED
      BY <1>2, <2>1, <3>1
  <2>2. CASE Take(w)
    <3>1. PICK d \in Dirs : d = Dir(run[w].kind)
      BY DirOf
    <3>2. /\ Stamp(run'[w]) = Shot(w) /\ run[w].kind = kinds[run[w].series]
          /\ Name(run'[w])[1] = d /\ Name(run'[w])[2] = group[d] /\ kinds' = kinds
      BY <1>1, <2>2, <3>1, TakeHand
    <3>3. Shot(w).series = run[w].series /\ Shot(w).turn = turn[d]
      BY <3>1 DEF Shot
    <3>4. group[d] = (1 + turn[d]) % Groups
      BY DEF Named
    <3> QED
      BY <3>1, <3>2, <3>3, <3>4 DEF Fits
  <2> QED
    BY <1>1, <1>7, <2>1, <2>2, HandStep
<1> QED
  BY <1>5, <1>6, <1>7

LEMMA NamedStep ==
  ASSUME CloudInv, Named, [Step]_vars
  PROVE  Named'
<1>1. \A d \in Dirs : group'[d] = (1 + turn'[d]) % Groups
  BY TurnStep DEF CloudInv, Named
<1>2. \A b : Image(b)' => Dated(b)'
  BY ImagesDated
<1> QED
  BY <1>1, <1>2, FitsStep DEF Named

-----------------------------------------------------------------------------
LEMMA SettledStep ==
  ASSUME CloudInv, Settled, [Step]_vars
  PROVE  Settled'
<1>1. Types
  BY DEF CloudInv
<1>2. SUFFICES ASSUME NEW s \in 1..Len(kinds'), s \notin tainted',
                      NEW x \in 1..(s - 1), x \in Open'
               PROVE  FALSE
  BY DEF Settled
<1>3. CASE s \in 1..Len(kinds)
  <2>1. x \in 1..Len(kinds) /\ s \notin tainted
    BY <1>1, <1>2, <1>3, KindsKept
  <2> QED
    BY <1>2, <1>3, <2>1, StayOver DEF Settled
<1>4. ASSUME NEW w \in Worker, NEW kind \in Kind, Begin(w, kind), s \notin 1..Len(kinds)
      PROVE  FALSE
  <2>1. kinds \in Seq(Kind) /\ kinds' = Append(kinds, kind)
    BY <1>1, <1>4 DEF Begin, Types
  <2>2. s = Len(kinds) + 1 /\ x \in 1..Len(kinds)
    BY <1>2, <1>4, <2>1
  <2>3. tainted' = tainted \cup Meets(w)
    BY <1>4 DEF Begin
  <2>4. (UNION {Unfinished(v) : v \in Worker}) \cup Listed = {}
    BY <1>2, <2>2, <2>3 DEF Meets
  <2>5. Open = {}
    BY <2>4, Threads DEF Open
  <2> QED
    BY <1>2, <2>2, <2>5, StayOver
<1>5. kinds' = kinds \/ \E w \in Worker, kind \in Kind : Begin(w, kind)
  BY <1>1, KindsKept
<1> QED
  BY <1>2, <1>3, <1>4, <1>5

(* The series of an image in hand or on the list is open.                  *)
LEMMA SourceOpen ==
  ASSUME CloudInv
  PROVE  /\ \A w \in Worker : /\ pc[w] = "save" => run[w].series # 0
                              /\ run[w].series # 0 => run[w].series \in Open
         /\ \A i \in 1..Len(list) :
              /\ list[i].of \in Open /\ list[i].what.series = list[i].of
              /\ list[i].of \in 1..Len(kinds)
<1>1. ASSUME NEW w \in Worker, pc[w] = "save" PROVE run[w].series # 0
  BY <1>1 DEF CloudInv, Shape, RunRight, Taking
<1>2. ASSUME NEW w \in Worker, run[w].series # 0 PROVE run[w].series \in Open
  BY <1>2, Threads DEF Open, Unfinished
<1>3. ASSUME NEW i \in 1..Len(list)
      PROVE  /\ list[i].of \in Open /\ list[i].what.series = list[i].of
             /\ list[i].of \in 1..Len(kinds)
  <2>1. list[i].what.series = list[i].of /\ list[i].of \in 1..Len(kinds)
    BY <1>3 DEF CloudInv, Shape, ListRight
  <2>2. list[i].of # 0
    BY <2>1
  <2> QED
    BY <1>3, <2>1, <2>2 DEF Open, Listed
<1> QED
  BY <1>1, <1>2, <1>3

(* A calibration series is one of thr_grab.                                *)
LEMMA CalibByGrab ==
  ASSUME CloudInv, NEW w \in Worker, run[w].series # 0, CalibOf(run[w].series)
  PROVE  w = "grab"
BY Threads DEF CloudInv, Shape, RunRight, CalibOf

LEMMA CalibKept ==
  ASSUME CloudInv, [Step]_vars, NEW s \in 1..Len(kinds)
  PROVE  CalibOf(s)' <=> CalibOf(s)
BY KindsKept DEF CloudInv, CalibOf

(* Images of calibration series reach list and disk in order.              *)
LEMMA OrderedList ==
  ASSUME CloudInv, Ordered, [Step]_vars,
         NEW i \in 1..Len(list'), NEW j \in 1..Len(list'), i < j,
         CalibOf(list[i].of)', CalibOf(list[j].of)'
  PROVE  list'[i].of <= list'[j].of
<1>1. list \in Seq(Entry) /\ Len(list) \in Nat
  BY DEF CloudInv, Types
<1>2. \A k \in 1..Len(list) : list[k].of \in 1..Len(kinds)
  BY SourceOpen
<1>3. CASE list' = list
  <2>1. CalibOf(list[i].of) /\ CalibOf(list[j].of)
    BY <1>2, <1>3, CalibKept DEF CalibOf
  <2> QED
    BY <1>3, <2>1 DEF Ordered
<1>4. ASSUME NEW w \in Worker, Save(w), list' = Append(list, Ticket(run[w]))
      PROVE  list'[i].of <= list'[j].of
  <2>1. /\ i \in 1..Len(list) /\ list'[i] = list[i]
        /\ j \in 1..Len(list) => list'[j] = list[j]
        /\ j \notin 1..Len(list) => list'[j] = Ticket(run[w])
    BY <1>1, <1>4
  <2>2. CalibOf(list[i].of)
    BY <1>2, <2>1, CalibKept DEF CalibOf
  <2>3. CASE j \in 1..Len(list)
    <3>1. CalibOf(list[j].of)
      BY <1>2, <2>1, <2>3, CalibKept DEF CalibOf
    <3> QED
      BY <2>1, <2>2, <2>3, <3>1 DEF Ordered
  <2>4. CASE j \notin 1..Len(list)
    <3>1. list'[j].of = run[w].series
      BY <2>1, <2>4 DEF Ticket
    <3>2. run[w].series # 0 /\ run[w].series \in 1..Len(kinds)
      BY <1>4 DEF CloudInv, Shape, RunRight, Save, Taking
    <3>3. CalibOf(run[w].series)
      BY <3>1, <3>2, CalibKept DEF CalibOf
    <3>4. w = "grab"
      BY <3>2, <3>3, CalibByGrab
    <3>5. Image(list[i].what) /\ list[i].what.series = list[i].of
      BY <2>1, SourceOpen DEF Image
    <3> QED
      BY <2>1, <2>2, <3>1, <3>2, <3>4, <3>5 DEF Ordered
  <2> QED
    BY <2>3, <2>4
<1>5. CASE list # <<>> /\ list' = Tail(list)
  <2>1. /\ i + 1 \in 1..Len(list) /\ j + 1 \in 1..Len(list) /\ i + 1 < j + 1
        /\ list'[i] = list[i + 1] /\ list'[j] = list[j + 1]
    BY <1>1, <1>5
  <2>2. CalibOf(list[i + 1].of) /\ CalibOf(list[j + 1].of)
    BY <1>2, <2>1, CalibKept DEF CalibOf
  <2> QED
    BY <2>1, <2>2 DEF Ordered
<1> QED
  BY <1>3, <1>4, <1>5, ListStep

LEMMA OrderedDisk ==
  ASSUME CloudInv, Named, Ordered, [Step]_vars,
         NEW n \in DOMAIN disk', n[5], NEW i \in 1..Len(list'),
         CalibOf(disk[n].series)', CalibOf(list[i].of)'
  PROVE  disk'[n].series <= list'[i].of
<1>1. Types /\ Shape /\ list \in Seq(Entry) /\ Len(list) \in Nat
  BY DEF CloudInv, Types
<1>2. \A k \in 1..Len(list) : list[k].of \in 1..Len(kinds)
  BY SourceOpen
<1>3. CASE n \in DOMAIN disk /\ disk'[n] = disk[n]
  <2>1. Image(disk[n])
    BY <1>3 DEF Image
  <2>2. CalibOf(disk[n].series)
    BY <1>3, <2>1, CalibKept DEF CalibOf, Named, Dated
  <2>3. ASSUME NEW j \in 1..Len(list), list'[i] = list[j]
        PROVE  disk'[n].series <= list'[i].of
    <3>1. CalibOf(list[j].of)
      BY <1>2, <2>3, CalibKept DEF CalibOf
    <3> QED
      BY <1>3, <2>2, <2>3, <3>1 DEF Ordered
  <2>4. ASSUME NEW w \in Worker, Save(w), list'[i] = Ticket(run[w])
        PROVE  disk'[n].series <= list'[i].of
    <3>1. list'[i].of = run[w].series
      BY <2>4 DEF Ticket
    <3>2. run[w].series # 0 /\ run[w].series \in 1..Len(kinds)
      BY <2>4 DEF CloudInv, Shape, RunRight, Save, Taking
    <3>3. CalibOf(run[w].series)
      BY <3>1, <3>2, CalibKept DEF CalibOf
    <3>4. w = "grab"
      BY <3>2, <3>3, CalibByGrab
    <3> QED
      BY <1>3, <2>1, <2>2, <3>1, <3>2, <3>4 DEF Ordered
  <2> QED
    BY <2>3, <2>4, EntryStep
<1>4. ASSUME NEW w \in Worker, ~run[w].png, n = Name(run[w]) PROVE FALSE
  BY <1>4 DEF Name
<1>5. CASE /\ list # <<>> /\ list' = Tail(list) /\ 1 \in 1..Len(list)
           /\ disk'[n] = list[1].what
  <2>1. i + 1 \in 1..Len(list) /\ list'[i] = list[i + 1] /\ 1 < i + 1
    BY <1>1, <1>5
  <2>2. disk'[n].series = list[1].of
    BY <1>5, SourceOpen
  <2>3. CalibOf(list[1].of) /\ CalibOf(list[i + 1].of)
    BY <1>2, <1>5, <2>1, <2>2, CalibKept DEF CalibOf
  <2> QED
    BY <1>5, <2>1, <2>2, <2>3 DEF Ordered
<1> QED
  BY <1>1, <1>3, <1>4, <1>5, DiskSource

LEMMA OrderedStep ==
  ASSUME CloudInv, CloudInv', Named, Ordered, [Step]_vars
  PROVE  Ordered'
<1>1. Types /\ Shape /\ "grab" \in Worker
  BY Threads DEF CloudInv
<1>2. ASSUME NEW b, Image(b)', CalibOf(b.series)', run'["grab"].series # 0
      PROVE  b.series <= run'["grab"].series
  <2>1. b.series \in 1..Len(kinds) /\ CalibOf(b.series)
    BY <1>2, ImagesDated, CalibKept DEF CalibOf
  <2>2. run'["grab"].series \in 1..Len(kinds')
    BY <1>1, <1>2 DEF CloudInv, Shape, RunRight
  <2>3. CASE run'["grab"].series \in 1..Len(kinds)
    <3>1. run'["grab"].series = run["grab"].series
      BY <1>1, <2>3, SameRun
    <3>2. ASSUME NEW w \in Worker, Take(w), b = Shot(w)
          PROVE  b.series = run["grab"].series
      <4>1. b.series = run[w].series /\ run[w].series # 0
        BY <1>1, <3>2, TakeHand DEF Shot
      <4>2. w = "grab"
        BY <2>1, <4>1, CalibByGrab
      <4> QED
        BY <4>1, <4>2
    <3> QED
      BY <1>2, <2>1, <3>1, <3>2, ImageStep DEF Ordered
  <2>4. CASE run'["grab"].series \notin 1..Len(kinds)
    <3>1. Len(kinds) \in Nat
      BY <1>1, KindsKept
    <3>2. PICK x \in Nat : x = run'["grab"].series
      BY <2>2
    <3> QED
      BY <2>1, <2>2, <2>4, <3>1, <3>2
  <2> QED
    BY <2>3, <2>4
<1>3. /\ \A n \in DOMAIN disk', i \in 1..Len(list') :
           n[5] /\ CalibOf(disk[n].series)' /\ CalibOf(list[i].of)'
             => disk'[n].series <= list'[i].of
      /\ \A i, j \in 1..Len(list') :
           i < j /\ CalibOf(list[i].of)' /\ CalibOf(list[j].of)'
             => list'[i].of <= list'[j].of
  BY OrderedList, OrderedDisk
<1> QED
  BY <1>2, <1>3 DEF Ordered

-----------------------------------------------------------------------------
(* What is excused stays excused.                                          *)
LEMMA StillUncounted ==
  ASSUME CloudInv, [Step]_vars, NEW s \in 1..Len(kinds)
  PROVE  /\ Uncounted(s) => Uncounted(s)'
         /\ Due(s)' => Due(s)
         /\ kinds'[s] = kinds[s] /\ under'[s] = under[s]
<1>1. /\ tainted \subseteq tainted' /\ skipped \subseteq skipped'
      /\ kinds'[s] = kinds[s] /\ under'[s] = under[s]
  BY KindsKept DEF CloudInv
<1>2. Uncounted(s) => Uncounted(s)'
  BY <1>1 DEF Uncounted
<1>3. CalibOf(s)' <=> CalibOf(s)
  BY <1>1 DEF CalibOf
<1> QED
  BY <1>1, <1>2, <1>3 DEF Due

(* A calculation goes on until the group number has been advanced.         *)
LEMMA CloudEnd ==
  ASSUME CloudInv, [Step]_vars, NEW t \in Thread, cloudOf[t] # 0
  PROVE  cloudOf'[t] = cloudOf[t] \/ Count(t)
<1>1. /\ cloudOf \in [Thread -> 0..MaxSeries] /\ Worker \subseteq Thread
      /\ Calculating(t)
  BY Threads DEF CloudInv, Types, Shape, CloudRight
<1>2. ASSUME NEW w \in Worker, Finish(w) PROVE cloudOf'[t] = cloudOf[t]
  <2>1. t # w
    BY <1>1, <1>2 DEF Calculating, Finish
  <2>2. cloudOf' = cloudOf \/ \E s : cloudOf' = [cloudOf EXCEPT ![w] = s]
    BY <1>2 DEF Finish, Calculate
  <2> QED
    BY <1>1, <2>1, <2>2
<1>3. ASSUME PngEncode PROVE cloudOf'[t] = cloudOf[t]
  <2>1. t # "png"
    BY <1>1, <1>3 DEF Calculating, PngEncode
  <2>2. cloudOf' = cloudOf \/ \E s : cloudOf' = [cloudOf EXCEPT !["png"] = s]
    BY <1>3 DEF PngEncode, Calculate
  <2> QED
    BY <1>1, <2>1, <2>2
<1>4. ASSUME NEW u \in Thread, Count(u), u # t PROVE cloudOf'[t] = cloudOf[t]
  BY <1>1, <1>4 DEF Count
<1>5. \/ cloudOf' = cloudOf \/ PngEncode
      \/ \E w \in Worker : Finish(w)
      \/ \E u \in Thread : Count(u)
  BY DEF Step, Begin, WorkerStep, Take, Skip, SkipDepth, Abort, Save, SaveFails,
         CalcStep, LoadLeft, LoadRight, PngStep, PngWake, vars, calc
<1> QED
  BY <1>2, <1>3, <1>4, <1>5

(* The last image of a series is on the list until it is encoded, and then *)
(* thr_png calculates.                                                     *)
LEMMA EndStep ==
  ASSUME CloudInv, [Step]_vars, NEW i \in 1..Len(list), list[i].end
  PROVE  \/ \E j \in 1..Len(list') : list'[j] = list[i]
         \/ enable /\ calib => cloudOf'["png"] = list[i].of
<1>1. /\ list \in Seq(Entry) /\ Len(list) \in Nat /\ "png" \in Thread
      /\ cloudOf \in [Thread -> 0..MaxSeries]
  BY Threads DEF CloudInv, Types
<1>2. CASE list' = list
  BY <1>2
<1>3. ASSUME NEW e, list' = Append(list, e)
      PROVE  i \in 1..Len(list') /\ list'[i] = list[i]
  BY <1>1, <1>3
<1>4. CASE PngEncode /\ list # <<>> /\ list' = Tail(list) /\ i # 1
  <2>1. i - 1 \in 1..Len(list') /\ list'[i - 1] = list[i]
    BY <1>1, <1>4
  <2> QED
    BY <2>1
<1>5. CASE PngEncode /\ list # <<>> /\ list' = Tail(list) /\ i = 1
  <2>1. Head(list) = list[1]
    BY <1>1, <1>5
  <2>2. enable /\ calib => cloudOf' = [cloudOf EXCEPT !["png"] = list[1].of]
    BY <1>5, <2>1 DEF PngEncode, Calculate
  <2> QED
    BY <1>1, <1>5, <2>2
<1> QED
  BY <1>2, <1>3, <1>4, <1>5, ListStep

(* Nobody takes images of s any more. *)
Taken(s) == \A w \in Worker : pc[w] = "take" => run[w].series # s

LEMMA CountedStep ==
  ASSUME CloudInv, Named, [Step]_vars, NEW s \in 1..Len(kinds), Taken(s), Counted(s)
  PROVE  Counted(s)'
<1>1. PICK d \in Dirs : d = Dir(kinds[s])
  BY DirOf
<1>2. turn[d] \in Nat /\ turn'[d] \in Nat /\ turn[d] <= turn'[d]
  BY TurnStep DEF CloudInv, Named
<1>3. kinds'[s] = kinds[s]
  BY StillUncounted
<1>4. ASSUME NEW b, Image(b)', b.series = s PROVE b.turn < turn'[d]
  <2>1. ASSUME NEW w \in Worker, Take(w), b = Shot(w) PROVE FALSE
    BY <1>4, <2>1 DEF Taken, Take, Shot
  <2>2. Image(b)
    BY <1>4, <2>1, ImageStep
  <2>3. b.turn \in Nat /\ b.turn < turn[d]
    BY <1>1, <1>4, <2>2 DEF Counted, Named, Dated
  <2> QED
    BY <1>2, <2>3
<1> QED
  BY <1>1, <1>3, <1>4 DEF Counted

(* An increment counts for all images so far.                              *)
LEMMA Increased ==
  ASSUME CloudInv, Named, [Step]_vars, NEW s \in 1..Len(kinds), Taken(s),
         Increment(Dir(kinds[s]))
  PROVE  Counted(s)'
<1>1. PICK d \in Dirs : d = Dir(kinds[s])
  BY DirOf
<1>2. turn \in [Dirs -> Nat] /\ turn' = [turn EXCEPT ![d] = @ + 1]
  BY <1>1 DEF CloudInv, Types, Increment
<1>3. turn[d] \in Nat /\ turn'[d] = turn[d] + 1
  BY <1>2
<1>4. kinds'[s] = kinds[s]
  BY StillUncounted
<1>5. ASSUME NEW b, Image(b)', b.series = s PROVE b.turn < turn'[d]
  <2>1. ASSUME NEW w \in Worker, Take(w), b = Shot(w) PROVE FALSE
    BY <1>5, <2>1 DEF Taken, Take, Shot
  <2>2. Image(b)
    BY <1>5, <2>1, ImageStep
  <2>3. b.turn \in Nat /\ b.turn <= turn[d]
    BY <1>1, <1>5, <2>2 DEF Named, Dated
  <2> QED
    BY <1>3, <2>3
<1> QED
  BY <1>1, <1>4, <1>5 DEF Counted

LEMMA PendingStep ==
  ASSUME CloudInv, Named, [Step]_vars, NEW s \in 1..Len(kinds), Taken(s), Due(s),
         Pending(s) \/ Counted(s)
  PROVE  (Pending(s) \/ Counted(s))'
<1>1. /\ s # 0 /\ kinds'[s] = kinds[s] /\ "png" \in Thread
      /\ png \in BOOLEAN
  BY StillUncounted, Threads DEF CloudInv, Types
<1>2. CASE Counted(s)
  BY <1>2, CountedStep
<1>3. ASSUME NEW t \in Thread, cloudOf[t] = s
      PROVE  (Pending(s) \/ Counted(s))'
  <2>1. CASE cloudOf'[t] = cloudOf[t]
    BY <1>3, <2>1 DEF Pending
  <2>2. CASE Count(t)
    <3>1. kinds[s] # "calib"
      BY <1>1, <1>3 DEF CloudInv, Shape, CloudRight
    <3>2. Increment(Dir(kinds[s]))
      BY <2>2, <3>1 DEF Count, Dir
    <3> QED
      BY <3>2, Increased
  <2> QED
    BY <1>1, <1>3, <2>1, <2>2, CloudEnd
<1>4. ASSUME kinds[s] = "highspeed", NEW i \in 1..Len(list), list[i].of = s, list[i].end
      PROVE  (Pending(s) \/ Counted(s))'
  <2>1. /\ ~Uncounted(s) /\ s \notin tainted /\ s \in Open
        /\ list # <<>> /\ enable \in BOOLEAN /\ calib \in BOOLEAN
    BY <1>4, SourceOpen DEF Due, CalibOf, CloudInv, Types
  <2>2. png /\ under[s] = [png |-> png, enable |-> enable, calib |-> calib]
    BY <2>1 DEF CloudInv, Steady
  <2>3. enable /\ calib
    BY <1>4, <2>1, <2>2 DEF Uncounted
  <2>4. ASSUME NEW j \in 1..Len(list'), list'[j] = list[i] PROVE Pending(s)'
    BY <1>1, <1>4, <2>4 DEF Pending
  <2>5. ASSUME cloudOf'["png"] = s PROVE Pending(s)'
    BY <1>1, <2>5 DEF Pending
  <2> QED
    BY <1>4, <2>3, <2>4, <2>5, EndStep
<1> QED
  BY <1>2, <1>3, <1>4 DEF Pending

(* A series that goes through its frames in this step.                     *)
LEMMA WholeStep ==
  ASSUME CloudInv, [Step]_vars
  PROVE  \/ whole' = whole
         \/ \E w \in Worker : /\ Finish(w) /\ whole' = whole \cup {run[w].series}
                              /\ run[w].series \in 1..Len(kinds) /\ kinds' = kinds
                              /\ run[w].kind = kinds[run[w].series]
                              /\ run[w].kind = "depth" <=> w = "msg"
<1>1. ASSUME NEW w \in Worker, Finish(w)
      PROVE  /\ whole' = whole \cup {run[w].series}
             /\ run[w].series \in 1..Len(kinds) /\ kinds' = kinds
             /\ run[w].kind = kinds[run[w].series]
             /\ run[w].kind = "depth" <=> w = "msg"
  BY <1>1 DEF Finish, CloudInv, Shape, RunRight, Taking
<1>2. \/ whole' = whole
      \/ \E w \in Worker : Finish(w)
  BY DEF Step, Begin, WorkerStep, Take, Skip, SkipDepth, Abort, Save, SaveFails,
         CalcStep, LoadLeft, LoadRight, Count, PngStep, PngWake, PngEncode, vars, past
<1> QED
  BY <1>1, <1>2

(* The two workers never have the same series.                             *)
LEMMA OwnSeries ==
  ASSUME CloudInv, NEW v \in Worker, NEW w \in Worker, v # w, run[v].series # 0
  PROVE  run[w].series # run[v].series
BY Threads DEF CloudInv, Shape, RunRight

LEMMA FinishedAdvanced ==
  ASSUME CloudInv, Named, Advanced, [Step]_vars, NEW w \in Worker, Finish(w),
         NEW s \in 1..Len(kinds), s = run[w].series, Due(s),
         run[w].kind = kinds[s], run[w].kind = "depth" <=> w = "msg"
  PROVE  (Pending(s) \/ Counted(s))'
<1>1. /\ w \in Thread /\ cloudOf \in [Thread -> 0..MaxSeries] /\ s # 0
      /\ pc[w] = "end" /\ kinds[s] \in Kind /\ png \in BOOLEAN /\ enable \in BOOLEAN
      /\ calib \in BOOLEAN
  BY Threads DEF CloudInv, Types, Finish
<1>2. Taken(s)
  <2>1. \A v \in Worker \ {w} : run[v].series # s
    BY <1>1, OwnSeries
  <2> QED
    BY <1>1, <2>1 DEF Taken
<1>3. CASE kinds[s] = "calib"
  <2>1. Increment(Dir(kinds[s]))
    BY <1>3 DEF Finish, Dir
  <2> QED
    BY <1>2, <2>1, Increased
<1>s. ASSUME kinds[s] # "calib"
      PROVE  /\ ~Uncounted(s)
             /\ under[s].png = png /\ under[s].enable = enable
             /\ under[s].calib = calib
  <2>1. s \notin tainted /\ ~Uncounted(s) /\ s \in Open
    BY <1>1, <1>s, SourceOpen DEF Due, CalibOf
  <2>2. under[s] = [png |-> png, enable |-> enable, calib |-> calib]
    BY <2>1 DEF CloudInv, Steady
  <2> QED
    BY <2>1, <2>2
<1>4. CASE kinds[s] = "highspeed" /\ png
  <2>1. w = "grab"
    BY <1>4, Threads
  <2>2. Pending(s) \/ Counted(s)
    BY <1>1, <1>4, <2>1 DEF Advanced
  <2> QED
    BY <1>2, <2>2, PendingStep
<1>5. CASE kinds[s] = "highspeed" /\ ~png /\ ~enable
  <2>1. Increment(Dir(kinds[s]))
    BY <1>5 DEF Finish, Dir
  <2> QED
    BY <1>2, <2>1, Increased
<1>6. CASE kinds[s] = "depth" \/ (kinds[s] = "highspeed" /\ ~png /\ enable)
  <2>1. calib
    BY <1>1, <1>6, <1>s DEF Uncounted
  <2>2. Calculate(w, s, "idle")
    BY <1>6 DEF Finish
  <2>3. cloudOf'[w] = s
    BY <1>1, <2>1, <2>2 DEF Calculate
  <2> QED
    BY <1>1, <2>3 DEF Pending
<1> QED
  BY <1>1, <1>3, <1>4, <1>5, <1>6 DEF Kind

(* The last image of a high-speed series carries end_pc.                   *)
LEMMA EndPushed ==
  ASSUME CloudInv, Named, Advanced, [Step]_vars, NEW s \in 1..Len(kinds'), png',
         pc'["grab"] = "end", run'["grab"].series = s, kinds'[s] = "highspeed",
         Due(s)'
  PROVE  (Pending(s) \/ Counted(s))'
<1>1. /\ "grab" \in Worker /\ Worker \subseteq Thread /\ "png" \in Thread \ Worker
      /\ Types /\ Shape /\ png' = png /\ s # 0 /\ list \in Seq(Entry) /\ Len(list) \in Nat
      /\ pc \in [Thread -> Pc] /\ run \in [Worker -> Run]
  <2>1. Types /\ Shape
    BY DEF CloudInv
  <2>2. png' = png
    BY <2>1, KindsKept
  <2>3. list \in Seq(Entry) /\ pc \in [Thread -> Pc] /\ run \in [Worker -> Run]
    BY <2>1 DEF Types
  <2>4. s # 0 /\ Len(list) \in Nat
    BY <2>3
  <2> QED
    BY <2>1, <2>2, <2>3, <2>4, Threads
<1>2. s \in 1..Len(kinds)
  <2>1. ASSUME NEW w \in Worker, NEW kind \in Kind, Begin(w, kind)
        PROVE  pc["grab"] = "end" /\ run'["grab"] = run["grab"]
    BY <1>1, <2>1 DEF Begin, Go
  <2>2. RunRight("grab")
    BY <1>1 DEF Shape
  <2> QED
    BY <1>1, <2>1, <2>2, KindsKept DEF RunRight, Taking
<1>3. run["grab"].series = s
  BY <1>1, <1>2, SameRun
<1>4. kinds[s] = "highspeed" /\ Due(s)
  BY <1>2, StillUncounted
<1>s. run["grab"].series \in Open /\ s \notin tainted /\ ~Uncounted(s)'
  <2>1. ~CalibOf(s)' /\ ~CalibOf(s)
    BY <1>2, <1>4, StillUncounted DEF CalibOf
  <2> QED
    BY <1>1, <1>3, <1>4, <2>1, SourceOpen DEF Due
<1>t. /\ under'[s].png = png
      /\ pc["grab"] = "save" => run["grab"].png
  <2>1. /\ under[s] = [png |-> png, enable |-> enable, calib |-> calib]
        /\ pc["grab"] = "save" => run["grab"].png = png
    BY <1>1, <1>3, <1>s DEF CloudInv, Steady
  <2> QED
    BY <1>1, <1>2, <2>1, StillUncounted
<1>5. CASE pc["grab"] = "end"
  <2>1. Pending(s) \/ Counted(s)
    BY <1>1, <1>2, <1>3, <1>4, <1>5 DEF Advanced
  <2>2. Taken(s)
    <3>1. \A v \in Worker \ {"grab"} : run[v].series # s
      BY <1>1, <1>3, OwnSeries
    <3> QED
      BY <1>5, <3>1 DEF Taken
  <2> QED
    BY <1>2, <1>4, <2>1, <2>2, PendingStep
<1>6. CASE Save("grab")
  <2>1. /\ Advance("grab") /\ pc["grab"] = "save"
        /\ list' = Append(list, Ticket(run["grab"]))
        /\ kinds' = kinds
    BY <1>1, <1>6, <1>t DEF Save, Ticket, Stamp
  <2>2. run["grab"].cam = 2 /\ run["grab"].frame = Frames
    <3>1. pc["grab"] \in {"take", "save"} /\ NoRun.series = 0
      BY <2>1, NoRunType
    <3> QED
      BY <1>1, <2>1, <3>1, Advances
  <2>3. run["grab"].kind = "highspeed"
    BY <1>1, <1>3, <1>4 DEF Shape, RunRight
  <2>4. PICK k : k = Len(list) + 1
    OBVIOUS
  <2>5. k \in 1..Len(list') /\ list'[k] = Ticket(run["grab"])
    BY <1>1, <2>1, <2>4
  <2>6. list'[k].end /\ list'[k].of = s
    <3>1. Last(run["grab"])
      BY <2>2, <2>3 DEF Last
    <3>2. \A r : Ticket(r).end = Last(r) /\ Ticket(r).of = r.series
      BY DEF Ticket
    <3> QED
      BY <1>3, <2>5, <3>1, <3>2
  <2> QED
    BY <2>5, <2>6 DEF Pending
<1>7. CASE Skip("grab") \/ SaveFails("grab")
  <2>1. s \in skipped'
    BY <1>3, <1>7 DEF Skip, SaveFails
  <2> QED
    BY <1>1, <1>s, <1>t, <2>1 DEF Uncounted
<1>8. CASE Take("grab")
  BY <1>1, <1>8 DEF Take, Go
<1>9. CASE SkipDepth("grab")
  <2>1. pc["grab"] = "end"
    BY <1>9 DEF SkipDepth
  <2> QED
    BY <1>5, <2>1
<1> QED
  BY <1>1, <1>2, <1>5, <1>6, <1>7, <1>8, <1>9, SameRun

LEMMA AdvancedStep ==
  ASSUME CloudInv, Named, Advanced, [Step]_vars
  PROVE  Advanced'
<1>1. \A s \in 1..Len(kinds) : s \in 1..Len(kinds')
  BY KindsKept DEF CloudInv
<1>2. whole' \subseteq 1..Len(kinds)
  BY WholeStep DEF Advanced
<1>3. ASSUME NEW s \in whole, NEW w \in Worker PROVE run'[w].series # s
  BY <1>3, SameRun DEF Advanced
<1>4. ASSUME NEW s \in whole', NEW w \in Worker, s \notin whole
      PROVE  run'[w].series # s
  <2>1. PICK v \in Worker : Finish(v) /\ s = run[v].series /\ s # 0
    BY <1>4, WholeStep
  <2>2. CASE w = v
    <3>1. run'[v] = NoRun
      BY <2>1 DEF Finish, CloudInv, Types
    <3> QED
      BY <2>1, <2>2, <3>1, NoRunType
  <2>3. CASE w # v
    <3>1. run[w].series # s
      BY <2>1, <2>3, OwnSeries
    <3> QED
      BY <1>2, <1>4, <3>1, SameRun
  <2> QED
    BY <2>2, <2>3
<1>5. ASSUME NEW s \in whole', Due(s)' PROVE (Pending(s) \/ Counted(s))'
  <2>1. s \in 1..Len(kinds) /\ Due(s)
    BY <1>2, <1>5, StillUncounted
  <2>2. CASE s \in whole
    BY <2>1, <2>2, PendingStep DEF Advanced, Taken
  <2>3. CASE s \notin whole
    BY <1>5, <2>1, <2>3, WholeStep, FinishedAdvanced
  <2> QED
    BY <2>2, <2>3
<1> QED
  BY <1>1, <1>2, <1>3, <1>4, <1>5, EndPushed DEF Advanced

-----------------------------------------------------------------------------
(* The image taken now is newer than those of the series before it.        *)
LEMMA TakenNewer ==
  ASSUME CloudInv, Settled, Advanced, NEW a, NEW b, Image(a),
         NEW d, d = Dir(kinds[b.series]), b.turn = turn[d],
         b.series \in 1..Len(kinds), a.series \in 1..Len(kinds), Later(a, b)
  PROVE  a.turn < b.turn
<1>1. a.series \in whole /\ Due(a.series) /\ Dir(kinds[a.series]) = d
  BY DEF Later, Due
<1>2. CASE Counted(a.series)
  BY <1>1, <1>2 DEF Counted
<1>3. CASE Pending(a.series)
  <2>1. ~CalibOf(a.series)
    BY <1>3 DEF Pending, CalibOf, CloudInv, Shape, CloudRight
  <2>2. a.series \in 1..(b.series - 1) /\ b.series \notin tainted
    <3>1. PICK x, y \in Nat : x = a.series /\ y = b.series
      OBVIOUS
    <3> QED
      BY <2>1, <3>1 DEF Later
  <2>3. a.series \notin Open /\ a.series # 0
    BY <2>2 DEF Settled
  <2> QED
    BY <1>3, <2>3, Threads DEF Pending, Open, Unfinished, Listed
<1> QED
  BY <1>1, <1>2, <1>3 DEF Advanced

(* No file is removed. *)
LEMMA DiskKeeps ==
  ASSUME [Step]_vars
  PROVE  DOMAIN disk \subseteq DOMAIN disk'
<1>1. ASSUME NEW name, NEW what, Write(name, what)
      PROVE  DOMAIN disk \subseteq DOMAIN disk'
  BY <1>1 DEF Write
<1>2. disk' = disk \/ \E name, what : Write(name, what)
  BY DEF Step, Begin, WorkerStep, Take, Skip, SkipDepth, Abort, Save, SaveFails, Finish,
         CalcStep, LoadLeft, LoadRight, Count, PngStep, PngWake, PngEncode, Encode, vars
<1> QED
  BY <1>1, <1>2

LEMMA NewerStep ==
  ASSUME CloudInv, Named, Settled, Ordered, Advanced, Newer, Advanced', [Step]_vars
  PROVE  Newer'
<1>1. SUFFICES ASSUME NEW a, NEW b, Image(a)', Image(b)', Later(a, b)'
               PROVE  a.turn < b.turn
  BY DEF Newer
<1>2. /\ a.series \in 1..Len(kinds) /\ kinds'[a.series] = kinds[a.series]
      /\ b.series \in 1..Len(kinds) /\ kinds'[b.series] = kinds[b.series]
  BY <1>1, ImagesDated
<1>3. /\ a.series < b.series /\ Dir(kinds[a.series]) = Dir(kinds[b.series])
      /\ a.series \in whole'
      /\ CalibOf(a.series) \/ (b.series \notin tainted /\ Due(a.series))
  <2>1. tainted \subseteq tainted'
    BY KindsKept DEF CloudInv
  <2> QED
    BY <1>1, <1>2, <2>1, StillUncounted, CalibKept DEF Later
<1>4. Image(a)
  <2>1. ASSUME NEW w \in Worker, Take(w), a = Shot(w) PROVE FALSE
    <3>1. a.series = run[w].series /\ whole' = whole
      BY <2>1, TakeHand DEF Shot, CloudInv
    <3> QED
      BY <1>3, <3>1 DEF Advanced
  <2> QED
    BY <1>1, <2>1, ImageStep
<1>5. CASE a.series \notin whole
  <2>1. PICK v \in Worker : Finish(v) /\ a.series = run[v].series
    BY <1>3, <1>5, WholeStep
  <2>2. pc[v] = "end" /\ \A w \in Worker : ~Take(w)
    <3>1. pc[v] = "end" /\ run'[v] = NoRun /\ run[v].series # 0
      BY <1>2, <2>1 DEF Finish, CloudInv, Types
    <3>2. ASSUME NEW w \in Worker, Take(w) PROVE whole' = whole
      BY <3>2, TakeHand DEF CloudInv
    <3> QED
      BY <1>3, <1>5, <3>1, <3>2
  <2>3. Image(b)
    BY <1>1, <2>2, ImageStep
  <2>4. run[v].series # 0
    BY <1>2, <2>1
  <2>5. CASE CalibOf(a.series)
    <3>1. v = "grab" /\ CalibOf(b.series)
      <4>1. CalibOf(b.series)
        BY <1>3, <2>5 DEF CalibOf, Dir
      <4> QED
        BY <2>1, <2>4, <2>5, <4>1, CalibByGrab
    <3>2. b.series <= run["grab"].series
      BY <2>3, <2>4, <3>1 DEF Ordered
    <3>3. PICK x, y \in Nat : x = a.series /\ y = b.series
      BY <1>2
    <3> QED
      BY <1>3, <2>1, <3>1, <3>2, <3>3
  <2>6. CASE b.series \notin tainted
    <3>1. a.series \in 1..(b.series - 1)
      <4>1. PICK x, y \in Nat : x = a.series /\ y = b.series
        BY <1>2
      <4> QED
        BY <1>2, <1>3, <4>1
    <3>2. a.series \notin Open
      BY <1>2, <2>6, <3>1 DEF Settled
    <3> QED
      BY <2>1, <2>4, <3>2, SourceOpen
  <2> QED
    BY <1>3, <2>5, <2>6
<1>6. CASE a.series \in whole
  <2>1. Later(a, b)
    BY <1>3, <1>6 DEF Later
  <2>2. CASE Image(b)
    BY <1>4, <2>1, <2>2 DEF Newer
  <2>3. ASSUME NEW w \in Worker, Take(w), b = Shot(w) PROVE a.turn < b.turn
    <3>1. run[w].kind = kinds[run[w].series]
      BY <2>3, TakeHand DEF CloudInv
    <3>2. b.series = run[w].series /\ b.turn = turn[Dir(run[w].kind)]
      BY <2>3 DEF Shot
    <3> QED
      BY <1>2, <1>4, <2>1, <3>1, <3>2, TakenNewer
  <2> QED
    BY <1>1, <2>2, <2>3, ImageStep
<1> QED
  BY <1>5, <1>6

-----------------------------------------------------------------------------
LEMMA InitKept == Init => KeptInv
<1> SUFFICES ASSUME Init PROVE KeptInv
  OBVIOUS
<1>1. CloudInv /\ DOMAIN disk = {} /\ list = <<>> /\ Len(kinds) = 0 /\ whole = {}
  BY InitCloud DEF Init
<1>2. \A w \in Worker : run[w].series = 0 /\ pc[w] = "idle"
  BY Threads, NoRunType DEF Init
<1>3. \A b : ~Image(b)
  BY <1>1, <1>2 DEF Image
<1>4. ASSUME NEW d \in Dirs PROVE group[d] = (1 + turn[d]) % Groups
  <2>1. group[d] = 1 /\ turn[d] = 0
    BY DEF Init, Dirs
  <2>2. 1 % Groups = 1
    BY Numbers
  <2> QED
    BY <2>1, <2>2
<1>5. Named
  BY <1>1, <1>2, <1>3, <1>4 DEF Named
<1>6. Settled
  BY <1>1 DEF Settled
<1>7. Ordered
  BY <1>1, <1>2, Threads DEF Ordered
<1>8. Advanced
  BY <1>1 DEF Advanced
<1>9. Newer
  BY <1>3 DEF Newer
<1> QED
  BY <1>1, <1>5, <1>6, <1>7, <1>8, <1>9 DEF KeptInv

(* A re-read moves group numbers on with their turns, and leaves the       *)
(* images; it taints every series that is not over.                        *)
LEMMA RereadTurn ==
  ASSUME Types, Shape, Reread, NEW d \in Dirs, group[d] = (1 + turn[d]) % Groups
  PROVE  /\ turn[d] \in Nat /\ turn'[d] \in Nat /\ turn[d] <= turn'[d]
         /\ group'[d] = (1 + turn'[d]) % Groups
<1>1. /\ group \in [Dirs -> 0..Groups - 1] /\ turn \in [Dirs -> Nat]
      /\ turn[d] \in Nat /\ group[d] \in 0..Groups - 1
  BY DEF Types
<1>2. CASE UNCHANGED <<group, turn>>
  BY <1>1, <1>2
<1>3. ASSUME NEW e \in Dirs, NEW g \in 0..(Groups - 1),
             group' = [group EXCEPT ![e] = g],
             turn' = [turn EXCEPT ![e] = @ + ((g + Groups - group[e]) % Groups)]
      PROVE  /\ turn'[d] \in Nat /\ turn[d] <= turn'[d]
             /\ group'[d] = (1 + turn'[d]) % Groups
  <2>1. CASE d # e
    BY <1>1, <1>3, <2>1
  <2>2. CASE d = e
    <3>1. group'[d] = g /\ turn'[d] = turn[d] + ((g + Groups - group[d]) % Groups)
      BY <1>1, <1>3, <2>2
    <3>2. PICK x, y, z \in Nat : x = turn[d] /\ y = group[d] /\ z = turn'[d]
      <4>1. turn'[d] \in Nat
        BY <1>1, <1>3, RereadShape DEF Types
      <4> QED
        BY <1>1, <4>1, Numbers
    <3>3. y = (1 + x) % Groups /\ y < Groups
      BY <1>1, <3>2, Numbers
    <3>4. z = x + ((g + Groups - y) % Groups)
      BY <3>1, <3>2
    <3>5. x <= z /\ g = (1 + z) % Groups
      BY <1>3, <3>3, <3>4, AnyNumber
    <3> QED
      BY <3>1, <3>2, <3>5
  <2> QED
    BY <2>1, <2>2
<1> QED
  BY <1>1, <1>2, <1>3 DEF Reread, Dirs

LEMMA RereadKept ==
  ASSUME KeptInv, Reread
  PROVE  KeptInv'
<1>1. CloudInv /\ CloudInv' /\ Named /\ Settled /\ Ordered /\ Advanced /\ Newer
  BY RereadCloud DEF KeptInv
<1>2. /\ UNCHANGED <<disk, list, pc, run, cloudOf, kinds, under, skipped, whole>>
      /\ tainted' = tainted \cup Open
  BY DEF Reread, calc
<1>3. Open' = Open /\ \A b : Image(b)' <=> Image(b)
  BY <1>2 DEF Open, Unfinished, Listed, Image, Stamp
<1>4. \A d \in Dirs : /\ turn[d] \in Nat /\ turn'[d] \in Nat /\ turn[d] <= turn'[d]
                      /\ group'[d] = (1 + turn'[d]) % Groups
  BY <1>1, RereadTurn DEF CloudInv, Named
<1>5. ASSUME NEW b, Image(b) PROVE Dated(b)' /\ Dated(b)
  <2>1. PICK d \in Dirs : d = Dir(kinds[b.series])
    BY DirOf
  <2>2. b.turn \in Nat /\ b.turn <= turn[d] /\ Dated(b)
    BY <1>1, <1>5, <2>1 DEF Named, Dated
  <2>3. b.turn <= turn'[d]
    BY <1>4, <2>2
  <2> QED
    BY <1>2, <2>1, <2>2, <2>3 DEF Dated
<1>6. Named'
  BY <1>1, <1>2, <1>3, <1>4, <1>5 DEF Named, Fits, Name, Stamp
<1>7. Settled'
  BY <1>1, <1>2, <1>3 DEF Settled
<1>8. Ordered'
  BY <1>1, <1>2, <1>3 DEF Ordered, CalibOf
<1>9. \A s : Due(s)' => Due(s) /\ (kinds[s] = "calib" \/ s \notin Open)
  BY <1>2 DEF Due, Uncounted, CalibOf
<1>10. ASSUME NEW s, Counted(s) PROVE Counted(s)'
  <2>1. PICK d \in Dirs : d = Dir(kinds[s])
    BY DirOf
  <2>2. ASSUME NEW b, Image(b), b.series = s PROVE b.turn < turn'[d]
    <3>1. b.turn \in Nat /\ b.turn < turn[d]
      BY <1>5, <1>10, <2>1, <2>2 DEF Counted, Dated
    <3> QED
      BY <1>4, <3>1
  <2> QED
    BY <1>2, <1>3, <2>1, <2>2 DEF Counted
<1>11. Advanced'
  <2>1. ASSUME NEW s PROVE Pending(s)' <=> Pending(s)
    BY <1>2 DEF Pending
  <2>2. \A s \in whole' : Due(s)' => (Pending(s) \/ Counted(s))'
    BY <1>1, <1>2, <1>9, <1>10, <2>1 DEF Advanced
  <2>3. ASSUME NEW s \in 1..Len(kinds), run["grab"].series = s, kinds[s] = "highspeed",
               Due(s)'
        PROVE  FALSE
    <3>1. s \in Open
      BY <1>1, <2>3, Threads, SourceOpen
    <3> QED
      BY <1>9, <2>3, <3>1
  <2> QED
    BY <1>1, <1>2, <2>2, <2>3 DEF Advanced
<1>12. Newer'
  <2>1. \A a, b : Later(a, b)' => Later(a, b)
    BY <1>2, <1>9 DEF Later, CalibOf
  <2> QED
    BY <1>1, <1>3, <2>1 DEF Newer
<1> QED
  BY <1>1, <1>6, <1>7, <1>8, <1>11, <1>12 DEF KeptInv

LEMMA KeptInvStep == KeptInv /\ [Next]_vars => KeptInv'
<1> SUFFICES ASSUME KeptInv, [Step]_vars PROVE KeptInv'
  BY RereadKept DEF Next
<1>1. CloudInv /\ Named /\ Settled /\ Ordered /\ Advanced /\ Newer
  BY DEF KeptInv
<1>2. CloudInv'
  BY <1>1, CloudInvStep DEF Next
<1>3. Named' /\ Settled' /\ Advanced'
  BY <1>1, NamedStep, SettledStep, AdvancedStep
<1>4. Ordered' /\ Newer'
  BY <1>1, <1>2, <1>3, OrderedStep, NewerStep
<1> QED
  BY <1>2, <1>3, <1>4 DEF KeptInv

(* Images have the names of their turns, series that met neither another   *)
(* nor a re-read begin when all before them is over, and each whole series *)
(* has advanced its group number or will: so later series have later       *)
(* turns.  A re-read moves a number on as far round as it sets it.         *)
THEOREM KeptInvariance == Spec => []KeptInv
<1> QED
  BY InitKept, KeptInvStep, PTL DEF Spec

(* No image of a whole series is replaced by one of another series before  *)
(* the group numbers have gone round, but for the exceptions that          *)
(* SeriesKept names.                                                       *)
THEOREM ImagesKept == Spec => SeriesKept
<1>1. ASSUME KeptInv, [Step]_vars, NEW n \in DOMAIN disk,
             disk'[n].series # disk[n].series, disk[n].series \in whole,
             Dir(kinds[disk[n].series]) = n[1],
             n[1] = "cloud" =>
               /\ ~Uncounted(disk[n].series)
               /\ {disk[n].series, disk'[n].series} \cap tainted = {}
      PROVE  disk'[n].turn - disk[n].turn >= Groups
  <2>1. CloudInv /\ Named /\ Settled /\ Ordered /\ Advanced /\ Newer /\ Types /\ Shape
    BY <1>1 DEF KeptInv, CloudInv
  <2>2. PICK a, b : a = disk[n] /\ b = disk'[n]
    OBVIOUS
  <2>3. Image(a) /\ Fits(n, a)
    BY <2>1, <2>2 DEF Image, Named
  <2>4. n \in DOMAIN disk'
    BY <1>1, DiskKeeps
  <2>5. \/ \E w \in Worker : /\ pc[w] = "save" /\ ~run[w].png
                             /\ n = Name(run[w]) /\ b = Stamp(run[w])
        \/ 1 \in 1..Len(list) /\ n = list[1].name /\ b = list[1].what
    BY <1>1, <2>1, <2>2, <2>4, DiskSource DEF Save
  <2>6. Image(b) /\ Fits(n, b)
    BY <2>1, <2>5 DEF Image, Named
  <2>7. /\ a.series \in 1..Len(kinds) /\ a.turn \in Nat
        /\ b.series \in 1..Len(kinds) /\ b.turn \in Nat
    BY <2>1, <2>3, <2>6 DEF Named, Dated
  <2>8. /\ Dir(kinds[a.series]) = Dir(kinds[b.series])
        /\ (1 + a.turn) % Groups = (1 + b.turn) % Groups
        /\ n[1] = Dir(kinds[a.series])
    BY <2>3, <2>6 DEF Fits
  <2>9. ~CalibOf(a.series) => n[1] = "cloud"
    BY <2>8 DEF CalibOf, Dir
  <2>10. CASE a.series < b.series
    <3>1. Later(a, b)
      BY <1>1, <2>2, <2>8, <2>9, <2>10 DEF Later, Due
    <3>2. a.turn < b.turn
      BY <2>1, <2>3, <2>6, <3>1 DEF Newer
    <3> QED
      BY <2>2, <2>7, <2>8, <3>2, FarApart
  <2>11. CASE b.series < a.series
    <3>1. CASE CalibOf(a.series)
      <4>1. CalibOf(b.series)
        BY <2>8, <3>1 DEF CalibOf, Dir
      <4>2. ASSUME NEW w \in Worker, pc[w] = "save", b = Stamp(run[w])
            PROVE  a.series <= b.series
        <5>1. b.series = run[w].series /\ run[w].series # 0
          BY <2>1, <4>2, SourceOpen DEF Stamp
        <5>2. w = "grab"
          BY <2>1, <4>1, <5>1, CalibByGrab
        <5> QED
          BY <2>1, <2>3, <3>1, <5>1, <5>2 DEF Ordered
      <4>3. ASSUME 1 \in 1..Len(list), n = list[1].name, b = list[1].what
            PROVE  a.series <= b.series
        <5>1. b.series = list[1].of /\ n[5] = TRUE
          BY <2>1, <4>3, SourceOpen DEF Shape, ListRight
        <5> QED
          BY <2>1, <2>2, <3>1, <4>1, <4>3, <5>1 DEF Ordered
      <4>4. PICK x, y \in Nat : x = a.series /\ y = b.series
        BY <2>7
      <4> QED
        BY <2>5, <2>11, <4>2, <4>3, <4>4
    <3>2. CASE ~CalibOf(a.series)
      <4>1. a.series \notin tainted
        BY <1>1, <2>2, <2>9, <3>2
      <4>2. b.series \in 1..(a.series - 1)
        <5>1. PICK x, y \in Nat : x = a.series /\ y = b.series
          BY <2>7
        <5> QED
          BY <2>7, <2>11, <5>1
      <4>3. b.series \notin Open
        BY <2>1, <2>7, <4>1, <4>2 DEF Settled
      <4>4. ASSUME NEW w \in Worker, pc[w] = "save", b = Stamp(run[w])
            PROVE  FALSE
        <5>1. b.series = run[w].series
          BY <4>4 DEF Stamp
        <5> QED
          BY <2>1, <4>3, <4>4, <5>1, SourceOpen
      <4>5. ASSUME 1 \in 1..Len(list), b = list[1].what
            PROVE  FALSE
        BY <2>1, <4>3, <4>5, SourceOpen
      <4> QED
        BY <2>5, <4>4, <4>5
    <3> QED
      BY <3>1, <3>2
  <2>12. a.series < b.series \/ b.series < a.series
    <3>1. PICK x, y \in Nat : x = a.series /\ y = b.series
      BY <2>7
    <3> QED
      BY <1>1, <2>2, <3>1
  <2> QED
    BY <2>10, <2>11, <2>12
<1>2. ASSUME KeptInv, [Next]_vars
      PROVE  \A n \in DOMAIN disk :
               LET old == disk[n]
                   new == disk'[n]
               IN /\ new.series # old.series
                  /\ old.series \in whole /\ Dir(kinds[old.series]) = n[1]
                  =>
                  \/ new.turn - old.turn >= Groups
                  \/ /\ n[1] = "cloud"
                     /\ \/ Uncounted(old.series)
                        \/ {old.series, new.series} \cap tainted # {}
  <2>1. CASE Reread
    BY <2>1 DEF Reread
  <2> QED
    BY <1>1, <1>2, <2>1 DEF Next
<1> QED
  BY <1>2, KeptInvariance, PTL DEF Spec, SeriesKept

-----------------------------------------------------------------------------
(* The work left: of each worker, of thr_png, and the images listed.       *)
LEMMA StepsLeft ==
  /\ Steps["idle"] = 0 /\ Steps["walk"] = 0 /\ Steps["wait"] = 1
  /\ Steps["count"] = 2 /\ Steps["right"] = 3 /\ Steps["left"] = 4
  /\ Steps["save"] = 4 /\ Steps["take"] = 5 /\ Steps["end"] = 5
BY DEF Steps

LEMMA StepsFew == \A p \in Pc : Steps[p] \in Nat /\ Steps[p] <= 5
BY StepsLeft DEF Pc

WorkOf(w) == Steps[pc[w]] + 8 * Images(w)

(* The images that a worker with one to take or to save has left.          *)
LEMMA ImagesLeft ==
  ASSUME Types, Shape, NEW w \in Worker
  PROVE  /\ Images(w) \in Nat
         /\ pc[w] \in {"take", "save"} =>
              /\ run[w].frame \in 1..Frames /\ run[w].cam \in {1, 2}
              /\ Images(w) = 2 * (Frames - run[w].frame) + 3 - run[w].cam
              /\ Images(w) > 0
         /\ pc[w] \notin {"take", "save"} => Images(w) = 0
<1>1. \A q \in Run : q.frame \in Nat /\ q.frame > 0 /\ q.cam \in {1, 2}
  BY DEF Run, Cam
<1>2. run[w] \in Run /\ (pc[w] \in {"take", "save"} => run[w].frame <= Frames)
  BY DEF Types, Shape, RunRight
<1>3. PICK f, c : f = run[w].frame /\ c = run[w].cam
  OBVIOUS
<1> QED
  BY <1>1, <1>2, <1>3, Numbers DEF Images

LEMMA Regroup ==
  /\ \A a, b, i, j, p, l \in Nat :
       a + b + p + 8 * (i + j) + 6 * l = (a + 8 * i) + (b + 8 * j) + p + 6 * l
  /\ \A a, i \in Nat : a + 8 * i \in Nat
  /\ \A a, b, p, l, a1, p1, l1 \in Nat :
       a1 + p1 + 6 * l1 < a + p + 6 * l
       => /\ a1 + b + p1 + 6 * l1 < a + b + p + 6 * l
          /\ b + a1 + p1 + 6 * l1 < b + a + p + 6 * l
OBVIOUS

LEMMA Sum ==
  Types /\ Shape =>
    /\ WorkOf("grab") \in Nat /\ WorkOf("msg") \in Nat
    /\ Steps[pc["png"]] \in Nat /\ Len(list) \in Nat
    /\ Work = WorkOf("grab") + WorkOf("msg") + Steps[pc["png"]] + 6 * Len(list)
<1> SUFFICES ASSUME Types, Shape
    PROVE /\ WorkOf("grab") \in Nat /\ WorkOf("msg") \in Nat
          /\ Steps[pc["png"]] \in Nat /\ Len(list) \in Nat
          /\ Work = WorkOf("grab") + WorkOf("msg") + Steps[pc["png"]] + 6 * Len(list)
  OBVIOUS
<1>1. Images("grab") \in Nat /\ Images("msg") \in Nat
  BY ImagesLeft, Threads
<1>2. /\ Steps[pc["grab"]] \in Nat /\ Steps[pc["msg"]] \in Nat
      /\ Steps[pc["png"]] \in Nat
  <2>1. pc["grab"] \in Pc /\ pc["msg"] \in Pc /\ pc["png"] \in Pc
    BY Threads DEF Types
  <2> QED
    BY <2>1, StepsFew
<1>3. Len(list) \in Nat
  BY DEF Types
<1>4. PICK a, b, i, j, p, l \in Nat :
        /\ a = Steps[pc["grab"]] /\ b = Steps[pc["msg"]] /\ p = Steps[pc["png"]]
        /\ i = Images("grab") /\ j = Images("msg") /\ l = Len(list)
  BY <1>1, <1>2, <1>3
<1>5. /\ WorkOf("grab") = a + 8 * i /\ WorkOf("msg") = b + 8 * j
      /\ Work = a + b + p + 8 * (i + j) + 6 * l
  BY <1>4 DEF WorkOf, Work
<1>6. a + 8 * i \in Nat /\ b + 8 * j \in Nat
  BY Regroup
<1>7. a + b + p + 8 * (i + j) + 6 * l = (a + 8 * i) + (b + 8 * j) + p + 6 * l
  BY Regroup
<1>8. Work = WorkOf("grab") + WorkOf("msg") + p + 6 * l
  <2>1. Work = (a + 8 * i) + (b + 8 * j) + p + 6 * l
    BY <1>5, <1>7, Zenon
  <2> QED
    BY <1>5, <2>1, Zenon
<1>9. WorkOf("grab") \in Nat /\ WorkOf("msg") \in Nat
  BY <1>5, <1>6, Zenon
<1> QED
  BY <1>4, <1>8, <1>9, Zenon

LEMMA SumNext ==
  ASSUME (Types /\ Shape)'
  PROVE  /\ WorkOf("grab")' \in Nat /\ WorkOf("msg")' \in Nat
         /\ Steps[pc["png"]]' \in Nat /\ Len(list') \in Nat
         /\ Work' = WorkOf("grab")' + WorkOf("msg")' + Steps[pc["png"]]' + 6 * Len(list')
<1>1. (Types /\ Shape)' =>
        (/\ WorkOf("grab") \in Nat /\ WorkOf("msg") \in Nat
         /\ Steps[pc["png"]] \in Nat /\ Len(list) \in Nat
         /\ Work = WorkOf("grab") + WorkOf("msg") + Steps[pc["png"]] + 6 * Len(list))'
  BY Sum, PTL
<1> QED
  BY <1>1

(* It is enough that one worker, thr_png and the list have less together.  *)
LEMMA LessTogether ==
  ASSUME Types, Shape, (Types /\ Shape)', NEW w \in Worker,
         \A v \in Worker \ {w} : WorkOf(v)' = WorkOf(v),
         WorkOf(w)' + Steps[pc'["png"]] + 6 * Len(list')
           < WorkOf(w) + Steps[pc["png"]] + 6 * Len(list)
  PROVE  Work' < Work
<1>1. PICK a, b, p, l \in Nat :
        /\ a = WorkOf("grab") /\ b = WorkOf("msg") /\ p = Steps[pc["png"]]
        /\ l = Len(list) /\ Work = a + b + p + 6 * l
  BY Sum
<1>2. PICK a1, b1, p1, l1 \in Nat :
        /\ a1 = WorkOf("grab")' /\ b1 = WorkOf("msg")' /\ p1 = Steps[pc'["png"]]
        /\ l1 = Len(list') /\ Work' = a1 + b1 + p1 + 6 * l1
  BY SumNext
<1>3. CASE w = "grab"
  <2>1. b1 = b /\ a1 + p1 + 6 * l1 < a + p + 6 * l
    BY <1>1, <1>2, <1>3, Threads
  <2> QED
    BY <1>1, <1>2, <2>1, Regroup
<1>4. CASE w = "msg"
  <2>1. a1 = a /\ b1 + p1 + 6 * l1 < b + p + 6 * l
    BY <1>1, <1>2, <1>4, Threads
  <2> QED
    BY <1>1, <1>2, <2>1, Regroup
<1> QED
  BY <1>3, <1>4, Threads

LEMMA SameWork ==
  ASSUME NEW v, pc'[v] = pc[v], run'[v] = run[v]
  PROVE  WorkOf(v)' = WorkOf(v)
BY DEF WorkOf, Images

(* An image less to take: the loops go on to the next one, or are over.    *)
LEMMA AdvanceUses ==
  ASSUME Types, Shape, (Types /\ Shape)', NEW w \in Worker,
         pc[w] \in {"take", "save"}, Advance(w)
  PROVE  /\ Images(w)' \in Nat /\ Images(w)' + 1 <= Images(w) /\ Images(w) \in Nat
         /\ Steps[pc[w]]' \in Nat /\ Steps[pc[w]]' <= 5
         /\ \A v \in Worker \ {w} : pc'[v] = pc[v] /\ run'[v] = run[v]
         /\ pc'["png"] = pc["png"]
<1> DEFINE r == [run[w] EXCEPT !.group = 0, !.turn = 0, !.png = FALSE]
<1>1. /\ run \in [Worker -> Run] /\ run[w] \in Run /\ pc \in [Thread -> Pc]
      /\ w \in Thread /\ pc' \in [Thread -> Pc]
      /\ "png" \in Thread \ {w} /\ Worker \subseteq Thread
  BY Threads DEF Types
<1>2. /\ run[w].frame \in 1..Frames /\ run[w].cam \in {1, 2} /\ Images(w) \in Nat
      /\ Images(w) = 2 * (Frames - run[w].frame) + 3 - run[w].cam /\ Images(w) > 0
  BY ImagesLeft
<1>3. /\ r \in Run /\ r.frame = run[w].frame /\ r.cam = run[w].cam
      /\ r.errNum = run[w].errNum
  <2>1. \A q \in Run :
          LET p == [q EXCEPT !.group = 0, !.turn = 0, !.png = FALSE] IN
          /\ p \in Run /\ p.frame = q.frame /\ p.cam = q.cam /\ p.errNum = q.errNum
    BY DEF Run
  <2> QED
    BY <1>1, <2>1
<1>4. \/ /\ r.cam = 1
         /\ run' = [run EXCEPT ![w] = [r EXCEPT !.cam = 2]] /\ Go(w, "take")
      \/ /\ r.cam = 2 /\ r.errNum > 0
         /\ run' = [run EXCEPT ![w] = NoRun] /\ Go(w, "idle")
      \/ /\ r.cam = 2 /\ r.errNum = 0
         /\ run' = [run EXCEPT ![w] = [r EXCEPT !.cam = 1, !.frame = r.frame + 1]]
         /\ Go(w, IF r.frame = Frames THEN "end" ELSE "take")
  BY DEF Advance
<1> HIDE DEF r
<1>5. /\ \A v \in Worker \ {w} : pc'[v] = pc[v] /\ run'[v] = run[v]
      /\ pc'["png"] = pc["png"]
  BY <1>1, <1>4 DEF Go
<1>6. Steps[pc[w]]' \in Nat /\ Steps[pc[w]]' <= 5
  BY <1>1, StepsFew
<1>7. Images(w)' \in Nat /\ Images(w)' + 1 <= Images(w)
  <2>1. CASE r.cam = 1
    <3>1. run'[w] = [r EXCEPT !.cam = 2] /\ pc'[w] = "take"
      BY <1>1, <1>4, <2>1 DEF Go
    <3>2. run'[w].frame = run[w].frame /\ run'[w].cam = 2
      BY <1>3, <3>1 DEF Run
    <3>3. Images(w)' = 2 * (Frames - run[w].frame) + 1
      BY <3>1, <3>2, <1>2, Numbers DEF Images
    <3>4. PICK f : f = run[w].frame
      OBVIOUS
    <3> QED
      BY <1>2, <1>3, <2>1, <3>3, <3>4, Numbers
  <2>2. CASE r.cam = 2 /\ r.errNum > 0
    <3>1. pc'[w] = "idle"
      <4>1. ~(r.errNum = 0)
        BY <2>2
      <4> QED
        BY <1>1, <1>4, <2>2, <4>1 DEF Go
    <3>2. Images(w)' = 0
      BY <3>1 DEF Images
    <3> QED
      BY <1>2, <3>2
  <2>3. CASE r.cam = 2 /\ r.errNum = 0
    <3>1. /\ run'[w] = [r EXCEPT !.cam = 1, !.frame = r.frame + 1]
          /\ pc'[w] = IF r.frame = Frames THEN "end" ELSE "take"
      BY <1>1, <1>4, <2>3 DEF Go
    <3>2. run'[w].frame = run[w].frame + 1 /\ run'[w].cam = 1
      BY <1>3, <3>1 DEF Run
    <3>3. PICK f : f = run[w].frame
      OBVIOUS
    <3>4. CASE f = Frames
      <4>1. Images(w)' = 0
        BY <1>3, <3>1, <3>3, <3>4 DEF Images
      <4> QED
        BY <1>2, <4>1
    <3>5. CASE f # Frames
      <4>1. Images(w)' = 2 * (Frames - (f + 1)) + 3 - 1
        BY <1>3, <3>1, <3>2, <3>3, <3>5 DEF Images
      <4> QED
        BY <1>2, <1>3, <2>3, <3>3, <3>5, <4>1, Numbers
    <3> QED
      BY <3>4, <3>5
  <2> QED
    BY <1>4, <2>1, <2>2, <2>3
<1> QED
  BY <1>2, <1>5, <1>6, <1>7

LEMMA Fewer ==
  /\ \A i, p, l \in Nat : (4 + 8 * i) + p + 6 * l < (5 + 8 * i) + p + 6 * l
  /\ \A n, p, l \in Nat :
       (5 + 8 * (2 * n + 1)) + p + 6 * l < (5 + 8 * (2 * n + 2)) + p + 6 * l
  /\ \A i, j, s, p, l \in Nat :
       j + 1 <= i /\ s <= 5 => (s + 8 * j) + p + 6 * l < (5 + 8 * i) + p + 6 * l
  /\ \A i, j, s, p, l, m \in Nat :
       j + 1 <= i /\ s <= 5 /\ m <= l + 1
       => (s + 8 * j) + p + 6 * m < (4 + 8 * i) + p + 6 * l
  /\ \A g, p, l, q, m \in Nat : p + 6 * l < q + 6 * m => g + p + 6 * l < g + q + 6 * m
OBVIOUS

LEMMA WorkersUse ==
  ASSUME Types, Shape, (Types /\ Shape)', NEW w \in Worker, WorkerStep(w)
  PROVE  Work' < Work
<1>1. /\ run \in [Worker -> Run] /\ run[w] \in Run /\ pc \in [Thread -> Pc]
      /\ w \in Thread /\ "png" \in Thread \ {w} /\ Worker \subseteq Thread
      /\ list \in Seq(Entry) /\ Len(list) \in Nat /\ Steps[pc["png"]] \in Nat
      /\ Images(w) \in Nat /\ Steps[pc[w]] \in Nat
  <2>1. /\ run \in [Worker -> Run] /\ pc \in [Thread -> Pc] /\ list \in Seq(Entry)
    BY DEF Types
  <2>2. w \in Thread /\ "png" \in Thread \ {w} /\ Worker \subseteq Thread
    BY Threads
  <2>3. pc[w] \in Pc /\ pc["png"] \in Pc /\ run[w] \in Run /\ Len(list) \in Nat
    BY <2>1, <2>2
  <2>4. Steps[pc["png"]] \in Nat /\ Steps[pc[w]] \in Nat
    BY <2>3, StepsFew
  <2>5. Images(w) \in Nat
    BY ImagesLeft
  <2> QED
    BY <2>1, <2>2, <2>3, <2>4, <2>5
<1>2. PICK i, l, p \in Nat : i = Images(w) /\ l = Len(list) /\ p = Steps[pc["png"]]
  BY <1>1
<1>3. CASE Take(w)
  <2>1. /\ pc[w] = "take" /\ pc'[w] = "save" /\ pc'["png"] = pc["png"] /\ list' = list
        /\ \A v \in Worker \ {w} : pc'[v] = pc[v] /\ run'[v] = run[v]
    BY <1>1, <1>3 DEF Take, Go
  <2>2. run'[w].frame = run[w].frame /\ run'[w].cam = run[w].cam
    <3>1. \A q \in Run : \A g, n, k :
            LET x == [q EXCEPT !.group = g, !.turn = n, !.png = k] IN
            x.frame = q.frame /\ x.cam = q.cam
      BY DEF Run
    <3>2. run'[w] = [run[w] EXCEPT !.group = group[Dir(run[w].kind)],
                                   !.turn = turn[Dir(run[w].kind)],
                                   !.png = png]
      BY <1>1, <1>3 DEF Take
    <3> QED
      BY <1>1, <3>1, <3>2
  <2>3. Images(w)' = i
    BY <1>2, <2>1, <2>2 DEF Images
  <2>4. WorkOf(w)' = 4 + 8 * i /\ WorkOf(w) = 5 + 8 * i
    BY <1>2, <2>1, <2>3, StepsLeft DEF WorkOf
  <2>5. WorkOf(w)' + p + 6 * l < WorkOf(w) + p + 6 * l
    BY <1>2, <2>4, Fewer
  <2> QED
    BY <1>2, <2>1, <2>5, SameWork, LessTogether
<1>4. CASE Skip(w)
  <2>1. pc[w] = "take" /\ Advance(w) /\ list' = list
    BY <1>4 DEF Skip
  <2>2. /\ Images(w)' \in Nat /\ Images(w)' + 1 <= i
        /\ Steps[pc[w]]' \in Nat /\ Steps[pc[w]]' <= 5
        /\ \A v \in Worker \ {w} : pc'[v] = pc[v] /\ run'[v] = run[v]
        /\ pc'["png"] = pc["png"]
    BY <1>2, <2>1, AdvanceUses
  <2>3. PICK j, s \in Nat : j = Images(w)' /\ s = Steps[pc[w]]' /\ j + 1 <= i /\ s <= 5
    BY <2>2
  <2>4. WorkOf(w)' = s + 8 * j /\ WorkOf(w) = 5 + 8 * i
    BY <1>2, <2>1, <2>3, StepsLeft DEF WorkOf
  <2>5. WorkOf(w)' + p + 6 * l < WorkOf(w) + p + 6 * l
    BY <2>3, <2>4, Fewer
  <2> QED
    BY <1>2, <2>1, <2>2, <2>5, SameWork, LessTogether
<1>5. CASE SkipDepth(w)
  <2>1. /\ pc[w] = "take" /\ pc' = pc /\ list' = list /\ run[w].cam = 1
        /\ run' = [run EXCEPT ![w] = [run[w] EXCEPT !.cam = 2, !.errNum = 1]]
    BY <1>5 DEF SkipDepth
  <2>2. run'[w].frame = run[w].frame /\ run'[w].cam = 2
    <3>1. \A q \in Run :
            LET x == [q EXCEPT !.cam = 2, !.errNum = 1] IN
            x.frame = q.frame /\ x.cam = 2
      BY DEF Run
    <3>2. run'[w] = [run[w] EXCEPT !.cam = 2, !.errNum = 1]
      BY <1>1, <2>1
    <3> QED
      BY <1>1, <3>1, <3>2
  <2>3. \A v \in Worker \ {w} : pc'[v] = pc[v] /\ run'[v] = run[v]
    BY <1>1, <2>1
  <2>4. PICK f \in Nat : f = run[w].frame /\ f <= Frames
    BY <2>1, ImagesLeft, Numbers
  <2>5. Images(w) = 2 * (Frames - f) + 3 - 1 /\ Images(w)' = 2 * (Frames - f) + 3 - 2
    BY <2>1, <2>2, <2>4 DEF Images
  <2>6. PICK n \in Nat : n = Frames - f
    BY <2>4, Numbers
  <2>7. i = 2 * n + 2 /\ Images(w)' = 2 * n + 1
    BY <1>2, <2>5, <2>6
  <2>8. WorkOf(w)' = 5 + 8 * (2 * n + 1) /\ WorkOf(w) = 5 + 8 * (2 * n + 2)
    BY <1>2, <2>1, <2>7, StepsLeft DEF WorkOf
  <2>9. WorkOf(w)' + p + 6 * l < WorkOf(w) + p + 6 * l
    BY <1>2, <2>6, <2>8, Fewer
  <2> QED
    BY <1>2, <2>1, <2>3, <2>9, SameWork, LessTogether
<1>6. CASE Abort(w)
  <2>1. /\ pc[w] = "take" /\ pc'[w] = "idle" /\ pc'["png"] = pc["png"] /\ list' = list
        /\ \A v \in Worker \ {w} : pc'[v] = pc[v] /\ run'[v] = run[v]
    BY <1>1, <1>6 DEF Abort, Go
  <2>2. WorkOf(w)' = 0 + 8 * 0 /\ WorkOf(w) = 5 + 8 * i
    BY <1>2, <2>1, StepsLeft DEF WorkOf, Images
  <2>3. WorkOf(w)' + p + 6 * l < WorkOf(w) + p + 6 * l
    BY <1>2, <2>2
  <2> QED
    BY <1>2, <2>1, <2>3, SameWork, LessTogether
<1>7. CASE Save(w) \/ SaveFails(w)
  <2>1. /\ pc[w] = "save" /\ Advance(w)
        /\ Len(list') \in {Len(list), Len(list) + 1}
    BY <1>1, <1>7 DEF Save, SaveFails
  <2>2. /\ Images(w)' \in Nat /\ Images(w)' + 1 <= i
        /\ Steps[pc[w]]' \in Nat /\ Steps[pc[w]]' <= 5
        /\ \A v \in Worker \ {w} : pc'[v] = pc[v] /\ run'[v] = run[v]
        /\ pc'["png"] = pc["png"]
    BY <1>2, <2>1, AdvanceUses
  <2>3. PICK j, s \in Nat : j = Images(w)' /\ s = Steps[pc[w]]' /\ j + 1 <= i /\ s <= 5
    BY <2>2
  <2>4. WorkOf(w)' = s + 8 * j /\ WorkOf(w) = 4 + 8 * i
    BY <1>2, <2>1, <2>3, StepsLeft DEF WorkOf
  <2>5. PICK l1 \in Nat : l1 = Len(list') /\ l1 <= l + 1
    BY <1>2, <2>1
  <2>6. \A x, y \in Nat : x = s + 8 * j /\ y = 4 + 8 * i => x + p + 6 * l1 < y + p + 6 * l
    BY <2>3, <2>5, Fewer
  <2>7. s + 8 * j \in Nat /\ 4 + 8 * i \in Nat
    OBVIOUS
  <2>8. WorkOf(w)' + p + 6 * l1 < WorkOf(w) + p + 6 * l
    BY <2>4, <2>6, <2>7, Zenon
  <2> QED
    BY <1>2, <2>2, <2>5, <2>8, SameWork, LessTogether
<1>8. CASE Finish(w)
  <2>1. /\ pc[w] = "end" /\ pc'[w] \in {"idle", "left"} /\ pc'["png"] = pc["png"]
        /\ list' = list /\ \A v \in Worker \ {w} : pc'[v] = pc[v] /\ run'[v] = run[v]
    <3>1. Go(w, "idle") \/ Go(w, "left")
      BY <1>8 DEF Finish, Calculate
    <3> QED
      BY <1>1, <1>8, <3>1 DEF Finish, Go
  <2>2. /\ WorkOf(w)' = 0 + 8 * 0 \/ WorkOf(w)' = 4 + 8 * 0
        /\ WorkOf(w) = 5 + 8 * 0
    BY <2>1, StepsLeft DEF WorkOf, Images
  <2>3. WorkOf(w)' + p + 6 * l < WorkOf(w) + p + 6 * l
    BY <1>2, <2>2
  <2> QED
    BY <1>2, <2>1, <2>3, SameWork, LessTogether
<1> QED
  BY <1>3, <1>4, <1>5, <1>6, <1>7, <1>8 DEF WorkerStep

LEMMA PngUses ==
  ASSUME Types, Shape, (Types /\ Shape)', UNCHANGED run,
         \A v \in Worker : pc'[v] = pc[v],
         Steps[pc'["png"]] + 6 * Len(list') < Steps[pc["png"]] + 6 * Len(list)
  PROVE  Work' < Work
<1>1. "grab" \in Worker
  BY Threads
<1>2. WorkOf("grab")' = WorkOf("grab") /\ WorkOf("grab") \in Nat
  BY <1>1, SameWork, Sum
<1>3. PICK g, p, l, p1, l1 \in Nat :
        /\ g = WorkOf("grab") /\ p = Steps[pc["png"]] /\ l = Len(list)
        /\ p1 = Steps[pc["png"]]' /\ l1 = Len(list')
  BY <1>2, Sum, SumNext
<1>4. g + p1 + 6 * l1 < g + p + 6 * l
  BY <1>3, Fewer
<1> QED
  BY <1>1, <1>2, <1>3, <1>4, SameWork, LessTogether

LEMMA CalculationUses ==
  ASSUME Types, Shape, (Types /\ Shape)', NEW t \in Thread, CalcStep(t)
  PROVE  Work' < Work
<1>1. /\ pc \in [Thread -> Pc] /\ "png" \in Thread /\ "png" \notin Worker
      /\ Worker \subseteq Thread /\ Len(list) \in Nat /\ Steps[pc["png"]] \in Nat
  BY Threads, StepsFew DEF Types
<1>2. /\ list' = list /\ run' = run /\ \A v \in Thread \ {t} : pc'[v] = pc[v]
      /\ \/ pc[t] = "left" /\ pc'[t] = "right"
         \/ pc[t] = "right" /\ pc'[t] = "count"
         \/ pc[t] = "count" /\ t = "png" /\ pc'[t] \in {"wait", "walk"}
         \/ pc[t] = "count" /\ t # "png" /\ pc'[t] = "idle"
  <2>1. CASE LoadLeft(t)
    BY <1>1, <2>1 DEF LoadLeft, Go
  <2>2. CASE LoadRight(t)
    BY <1>1, <2>2 DEF LoadRight, Go
  <2>3. CASE Count(t)
    BY <1>1, <2>3 DEF Count, Go, Walk
  <2> QED
    BY <2>1, <2>2, <2>3 DEF CalcStep
<1>3. Steps[pc[t]]' \in Nat /\ Steps[pc[t]] \in Nat /\ Steps[pc[t]]' < Steps[pc[t]]
  BY <1>2, StepsLeft
<1>4. PICK l, s, s1 \in Nat :
        l = Len(list) /\ s = Steps[pc[t]] /\ s1 = Steps[pc[t]]' /\ s1 < s
  BY <1>1, <1>3
<1>5. CASE t = "png"
  <2>1. s1 + 6 * l < s + 6 * l
    BY <1>4
  <2> QED
    BY <1>1, <1>2, <1>4, <1>5, <2>1, PngUses
<1>6. CASE t # "png"
  <2>1. t \in Worker
    BY <1>6, Threads
  <2>2. WorkOf(t) = s + 8 * 0 /\ WorkOf(t)' = s1 + 8 * 0
    BY <1>2, <1>4, <1>6 DEF WorkOf, Images
  <2>3. PICK p \in Nat : p = Steps[pc["png"]] /\ pc'["png"] = pc["png"]
    BY <1>1, <1>2, <1>6
  <2>4. WorkOf(t)' + p + 6 * l < WorkOf(t) + p + 6 * l
    BY <1>4, <2>2, <2>3
  <2>5. \A v \in Worker \ {t} : WorkOf(v)' = WorkOf(v)
    BY <1>1, <1>2, SameWork
  <2> QED
    BY <1>2, <1>4, <2>1, <2>3, <2>4, <2>5, LessTogether
<1> QED
  BY <1>5, <1>6

LEMMA WriterUses ==
  ASSUME Types, Shape, (Types /\ Shape)', PngStep
  PROVE  Work' < Work
<1>1. /\ pc \in [Thread -> Pc] /\ "png" \in Thread /\ "png" \notin Worker
      /\ Worker \subseteq Thread /\ list \in Seq(Entry) /\ Len(list) \in Nat
  BY Threads DEF Types
<1>2. PICK l \in Nat : l = Len(list)
  BY <1>1
<1>3. CASE PngWake
  <2>1. /\ pc["png"] = "wait" /\ pc'["png"] = "walk" /\ list' = list /\ run' = run
        /\ \A v \in Worker : pc'[v] = pc[v]
    BY <1>1, <1>3 DEF PngWake, Go
  <2>2. Steps[pc'["png"]] + 6 * l < Steps[pc["png"]] + 6 * l
    BY <1>2, <2>1, StepsLeft
  <2> QED
    BY <1>2, <2>1, <2>2, PngUses
<1>4. CASE PngEncode
  <2>1. /\ pc["png"] = "walk" /\ Len(list') = Len(list) - 1 /\ run' = run
        /\ Len(list) > 0
    BY <1>1, <1>4 DEF PngEncode
  <2>2. \/ Go("png", "left") \/ Go("png", "wait") \/ Go("png", "walk")
    BY <1>4 DEF PngEncode, Calculate, Walk
  <2>3. /\ pc'["png"] \in {"left", "wait", "walk"}
        /\ \A v \in Worker : pc'[v] = pc[v]
    BY <1>1, <2>2 DEF Go
  <2>4. PICK s1 \in Nat : s1 = Steps[pc'["png"]] /\ s1 <= 4
    BY <2>3, StepsLeft
  <2>5. s1 + 6 * (l - 1) < 0 + 6 * l
    BY <1>2, <2>4
  <2>6. Steps[pc["png"]] = 0
    BY <2>1, StepsLeft
  <2> QED
    BY <1>2, <2>1, <2>3, <2>4, <2>5, <2>6, PngUses
<1> QED
  BY <1>3, <1>4 DEF PngStep

(* Every step but the start of a series and a re-read of the XML file      *)
(* leaves less work, which is never negative: so as long as no series      *)
(* begins and the file is not changed, the threads come to rest after as   *)
(* many steps as there is work.                                            *)
THEOREM WorkLeft == Spec => [](Work \in Nat)
<1>1. CloudInv => Work \in Nat
  <2> SUFFICES ASSUME CloudInv PROVE Work \in Nat
    OBVIOUS
  <2>1. PICK g, m, p, l \in Nat : Work = g + m + p + 6 * l
    BY Sum DEF CloudInv
  <2> QED
    BY <2>1
<1> QED
  BY <1>1, SeriesInvariance, PTL

LEMMA RereadsCounted == Spec => [](rereads \in Nat)
<1>1. Init => rereads \in Nat
  BY DEF Init
<1>2. rereads \in Nat /\ [Next]_vars => (rereads \in Nat)'
  <2>1. [Step]_vars => rereads' = rereads
    BY DEF Step, Begin, WorkerStep, Take, Skip, SkipDepth, Abort, Save, SaveFails, Finish,
           CalcStep, LoadLeft, LoadRight, Count, PngStep, PngWake, PngEncode, vars
  <2> QED
    BY <2>1 DEF Next, Reread
<1> QED
  BY <1>1, <1>2, PTL DEF Spec

THEOREM SeriesEnd == Spec => SeriesAdvance
<1>1. ASSUME CloudInv, CloudInv', rereads \in Nat, [Next]_vars
      PROVE  [Work' < Work \/ Len(kinds') > Len(kinds) \/ rereads' > rereads]_vars
  <2>1. Types /\ Shape /\ (Types /\ Shape)'
    BY <1>1 DEF CloudInv
  <2>2. ASSUME NEW w \in Worker, NEW kind \in Kind, Begin(w, kind)
        PROVE  Len(kinds') > Len(kinds)
    <3>1. kinds' = Append(kinds, kind) /\ kinds \in Seq(Kind)
      BY <2>1, <2>2 DEF Begin, Types
    <3> QED
      BY <3>1
  <2>3. ASSUME Reread PROVE rereads' > rereads
    BY <1>1, <2>3 DEF Reread
  <2> QED
    BY <1>1, <2>1, <2>2, <2>3, WorkersUse, CalculationUses, WriterUses DEF Next, Step
<1>2. [][Work' < Work \/ Len(kinds') > Len(kinds) \/ rereads' > rereads]_vars
        <=> SeriesAdvance
  BY DEF SeriesAdvance
<1> QED
  BY <1>1, <1>2, SeriesInvariance, RereadsCounted, PTL DEF Spec

(* No thread waits for mutex_png in vain, and no series is left over with  *)
(* every thread asleep.                                                    *)
THEOREM SomeoneGoesOn == Spec => []NoneStuck
<1>1. CloudInv => NoneStuck
  <2> SUFFICES ASSUME CloudInv PROVE NoneStuck
    OBVIOUS
  <2> USE DEF CanGoOn, Resting
  <2>1. /\ Worker \subseteq Thread /\ "png" \in Thread /\ "png" \notin Worker
        /\ \A w \in Worker : RunRight(w)
        /\ \A t \in Thread : CloudRight(t)
        /\ ListRight /\ list \in Seq(Entry) /\ pc \in [Thread -> Pc]
    BY Threads DEF CloudInv, Shape, Types
  <2>2. ~Waits("png") /\ pc["png"] # "idle"
    BY <2>1 DEF Waits, ListRight
  <2>3. ASSUME NEW w \in Worker, Waits(w) PROVE CanGoOn("png")
    BY <2>1, <2>2, <2>3 DEF Waits, ListRight
  <2>4. ASSUME NEW w \in Worker, Taking(w) \/ Calculating(w)
        PROVE  \E t \in Thread : CanGoOn(t)
    <3>1. ~Resting(w)
      BY <2>4 DEF Taking, Calculating
    <3> QED
      BY <2>1, <2>3, <3>1
  <2>5. ASSUME NEW w \in Worker, Unfinished(w) # {}
        PROVE  \E t \in Thread : CanGoOn(t)
    <3>1. run[w].series # 0 \/ cloudOf[w] # 0
      BY <2>5 DEF Unfinished
    <3>2. RunRight(w) /\ CloudRight(w)
      BY <2>1
    <3> QED
      BY <2>4, <3>1, <3>2 DEF RunRight, CloudRight
  <2>6. ASSUME Listed # {} PROVE CanGoOn("png")
    <3>1. (\E i \in 1..Len(list) : TRUE) \/ cloudOf["png"] # 0
      BY <2>6 DEF Listed
    <3>2. CASE \E i \in 1..Len(list) : TRUE
      <4>1. list # <<>>
        BY <2>1, <3>2
      <4> QED
        BY <2>2, <4>1
    <3>3. CASE cloudOf["png"] # 0
      BY <2>1, <2>2, <3>3 DEF CloudRight, Calculating
    <3> QED
      BY <3>1, <3>2, <3>3
  <2>7. Open # {} => \E t \in Thread : CanGoOn(t)
    BY <2>1, <2>5, <2>6, Threads DEF Open
  <2> QED
    BY <2>3, <2>7 DEF NoneStuck
<1> QED
  BY <1>1, SeriesInvariance, PTL
=============================================================================

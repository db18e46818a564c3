------------------------------ MODULE XmlStore ------------------------------
(***************************************************************************)
(* The configuration in an XML file (csv_xml.c).  thr_msg writes the       *)
(* section of the device when a command sets rate or brightness, thr_grab  *)
(* that of calibration when it has counted a series, and the main thread   *)
(* reads the whole file at start-up and whenever its time of modification  *)
(* is not TimeOfModify.  Each of them loads the file into a document,      *)
(* works on it, saves it if SaveFile is set and frees it; the document,    *)
(* the node and SaveFile are the fields of one csv_xml_t that all of them  *)
(* use without a lock.                                                     *)
(*                                                                         *)
(* What a command sets is never saved: it goes to gCSV->dlp, which is left *)
(* out, since nothing here reads it and csv_dlp_just_write replaces it by  *)
(* what is configured.  The section of the device that is written after it *)
(* is dlpcfg as the file had it: only the user changes that.               *)
(*                                                                         *)
(* A document is named after the thread that has loaded it.  One key       *)
(* stands for a section.  A user may edit the file: an editor replaces it  *)
(* in one step.  A crash loses everything but the file.                    *)
(***************************************************************************)
EXTENDS Naturals

CONSTANTS
  Value,      (* the values of a key, from 1                                *)
  MaxTime,    (* bound: the seconds that pass                               *)
  MaxSets,    (* bound: the changes that threads make                       *)
  MaxEdits,   (* bound: the edits of the file                               *)
  MaxCrashes  (* bound: the crashes                                         *)

ASSUME XmlAssumption ==
  /\ {MaxTime, MaxSets, MaxEdits, MaxCrashes} \subseteq Nat /\ 1 <= MaxTime
  /\ Value \subseteq Nat \ {0} /\ 1 \in Value /\ \E v \in Value : v # 1

Thread == {"main", "msg", "grab"}
Writer == {"msg", "grab"}
Key == {"rate", "group"}
KeyOf == [msg |-> "rate", grab |-> "group"]
Missing == 0                     \* a key that the document does not have
Empty == [k \in Key |-> Missing] \* a document with its root only
Torn == <<>>                     \* a file that cannot be parsed
Default == [k \in Key |-> 1]     \* csv_cfg_init

VARIABLES
  file, mtime,  \* the file and its time of modification
  clock,        \* in seconds
  conf,         \* the configuration in memory
  tom,          \* pXML->TimeOfModify
  SaveFile, pDoc, pNode, \* of gCSV->xml; the last two name documents
  doc, live,    \* the documents, and those allocated
  pc, arg,      \* of each thread: where it is, the document it unloads
  newTom,       \* of csv_xml_check
  booting,      \* csv_xml_init has not ended: "read", "general" or "no"
  sets, edits, crashes,  \* how many there were
  wanted,       \* history: of each key, the last value set or edited
  overlap,      \* history: two operations were under way at once
  hidden,       \* history: an edit that the time of modification may not show
  lost,         \* history: the process has crashed in the middle of a save
  misused       \* history: a document was used or freed when not allocated,
                \* or forgotten without being freed

disk == <<file, mtime>>
mem == <<conf, tom>>
xml == <<SaveFile, pDoc, pNode>>
heap == <<doc, live, misused>>
where == <<pc, arg, newTom, booting>>
bounds == <<sets, edits, crashes>>
past == <<wanted, overlap, hidden, lost>>
vars == <<disk, clock, mem, xml, heap, where, bounds, past>>

Start ==
  /\ conf = Default /\ tom = 0
  /\ SaveFile = FALSE /\ pDoc = "main" /\ pNode = "main"
  /\ doc = [t \in Thread |-> Empty] /\ live = {}
  /\ pc = [t \in Thread |-> IF t = "main" THEN "load" ELSE "idle"]
  /\ arg = [t \in Thread |-> t] /\ newTom = 0 /\ booting = "read"

(* There may be no file yet, or one without the keys.                      *)
Init ==
  /\ file \in {Default, Empty, Torn}
  /\ mtime = 1 /\ clock = 1
  /\ Start
  /\ sets = 0 /\ edits = 0 /\ crashes = 0
  /\ wanted = [k \in Key |-> 1]
  /\ overlap = FALSE /\ hidden = FALSE /\ lost = FALSE /\ misused = FALSE

Go(t, p) == pc' = [pc EXCEPT ![t] = p]
Busy(t) == pc[t] # "idle"
Overlaps(t) == overlap' = (overlap \/ \E u \in Thread \ {t} : Busy(u))

(* Thread t uses document d.                                               *)
Uses(d) == misused' = (misused \/ d \notin live)

-----------------------------------------------------------------------------
(* What starts an operation. *)

Other(v) == CHOOSE u \in Value : u # v

(* msg_cameras_rate_set and msg_cameras_brightness_set leave the           *)
(* configuration as it is; csv_mvs_cams_demarcate counts groupDemarcate.   *)
(* The save that follows hides an edit that csv_xml_check has not met yet. *)
Change(t) ==
  /\ booting = "no" /\ ~Busy(t) /\ sets < MaxSets
  /\ sets' = sets + 1
  /\ \/ t = "msg" /\ UNCHANGED <<conf, wanted>>
     \/ /\ t = "grab"
        /\ conf' = [conf EXCEPT !["group"] = Other(@)]
        /\ wanted' = [wanted EXCEPT !["group"] = conf'["group"]]
  /\ Go(t, "load")
  /\ Overlaps(t)
  /\ hidden' = (hidden \/ tom # mtime)
  /\ UNCHANGED <<disk, clock, tom, xml, heap, arg, newTom, booting, edits,
                 crashes, lost>>

(* csv_xml_check, every five seconds. *)
Check ==
  /\ booting = "no" /\ ~Busy("main") /\ mtime # tom
  /\ newTom' = mtime
  /\ Go("main", "load")
  /\ Overlaps("main")
  /\ UNCHANGED <<disk, clock, mem, xml, heap, arg, booting, bounds, wanted,
                 hidden, lost>>

-----------------------------------------------------------------------------
(* An operation: csv_xml_read_ALL of main, csv_xml_write_... of the others. *)

(* xml_load_file: a file that cannot be read is replaced by an empty one.  *)
Load(t) ==
  /\ pc[t] = "load" /\ Go(t, "node")
  /\ doc' = [doc EXCEPT ![t] = IF file = Torn THEN Empty ELSE file]
  /\ live' = live \cup {t} /\ misused' = (misused \/ t \in live)
  /\ file' = doc'[t]
  /\ mtime' = IF file = Torn THEN clock ELSE mtime
  /\ pDoc' = t
  /\ UNCHANGED <<clock, mem, SaveFile, pNode, arg, newTom, booting, bounds, past>>

(* xml_get_node from the root of the document. *)
Node(t) ==
  /\ pc[t] = "node" /\ Go(t, "work")
  /\ pNode' = pDoc
  /\ Uses(pDoc)
  /\ UNCHANGED <<disk, clock, mem, SaveFile, pDoc, doc, live, arg, newTom,
                 booting, bounds, past>>

(* xml_get_node_data: a key that is missing is added.                      *)
Get ==
  /\ pc["main"] = "work" /\ booting # "general" /\ Go("main", "unload")
  /\ LET missing == {k \in Key : doc[pNode][k] = Missing} IN
     /\ conf' = [k \in Key |-> IF k \in missing THEN conf[k] ELSE doc[pNode][k]]
     /\ doc' = [doc EXCEPT ![pNode] = conf']
     /\ SaveFile' = (SaveFile \/ missing # {})
  /\ Uses(pNode)
  /\ UNCHANGED <<disk, clock, tom, pDoc, pNode, live, arg, newTom, booting,
                 bounds, past>>

(* A slip: csv_xml_write_DeviceParameters does not ask for the file to be  *)
(* saved.                                                                  *)
SetUnsaved(t) ==
  /\ pc[t] = "work" /\ (t = "main" => booting = "general") /\ Go(t, "unload")
  /\ doc' = IF t = "main" THEN doc
            ELSE [doc EXCEPT ![pNode][KeyOf[t]] = conf[KeyOf[t]]]
  /\ Uses(pNode)
  /\ UNCHANGED <<disk, clock, mem, xml, live, arg, newTom, booting, bounds, past>>

(* xml_set_node_data, of a writer and of csv_xml_write_GeneralInfomation   *)
(* at start-up, whose section has no key here.                             *)
Set(t) ==
  /\ pc[t] = "work" /\ (t = "main" => booting = "general") /\ Go(t, "unload")
  /\ doc' = IF t = "main" THEN doc
            ELSE [doc EXCEPT ![pNode][KeyOf[t]] = conf[KeyOf[t]]]
  /\ SaveFile' = TRUE
  /\ Uses(pNode)
  /\ UNCHANGED <<disk, clock, mem, pDoc, pNode, live, arg, newTom, booting,
                 bounds, past>>

(* xml_unload_file *)
Unload(t) ==
  /\ pc[t] = "unload"
  /\ arg' = [arg EXCEPT ![t] = pDoc]
  /\ SaveFile' = FALSE
  /\ Go(t, IF SaveFile THEN "truncate" ELSE "free")
  /\ UNCHANGED <<disk, clock, mem, pDoc, pNode, heap, newTom, booting, bounds, past>>

(* xmlSaveFormatFileEnc *)
Truncate(t) ==
  /\ pc[t] = "truncate" /\ Go(t, "write")
  /\ file' = Torn /\ mtime' = clock
  /\ UNCHANGED <<clock, mem, xml, heap, arg, newTom, booting, bounds, past>>

WriteOut(t) ==
  /\ pc[t] = "write" /\ Go(t, "stat")
  /\ file' = doc[arg[t]] /\ mtime' = clock
  /\ Uses(arg[t])
  /\ UNCHANGED <<clock, mem, xml, doc, live, arg, newTom, booting, bounds, past>>

Stat(t) ==
  /\ pc[t] = "stat" /\ Go(t, "free")
  /\ tom' = mtime
  /\ UNCHANGED <<disk, clock, conf, xml, heap, arg, newTom, booting, bounds, past>>

(* A slip: xml_unload_file leaves the document.                            *)
FreeNothing(t) ==
  /\ pc[t] = "free" /\ Go(t, IF t = "main" THEN "settom" ELSE "idle")
  /\ UNCHANGED <<disk, clock, mem, xml, heap, arg, newTom, booting, bounds, past>>

(* xmlFreeDoc: the operation of a writer is over.                          *)
Free(t) ==
  /\ pc[t] = "free" /\ Go(t, IF t = "main" THEN "settom" ELSE "idle")
  /\ live' = live \ {arg[t]} /\ doc' = [doc EXCEPT ![arg[t]] = Empty]
  /\ arg' = [arg EXCEPT ![t] = t]
  /\ Uses(arg[t])
  /\ UNCHANGED <<disk, clock, mem, xml, newTom, booting, bounds, past>>

(* A slip: csv_xml_check forgets the new time before it keeps it.          *)
SetTomForgotten ==
  /\ pc["main"] = "settom"
  /\ \/ /\ booting = "no" /\ Go("main", "idle")
        /\ newTom' = 0 /\ UNCHANGED <<tom, booting>>
     \/ /\ booting = "read" /\ Go("main", "load")
        /\ booting' = "general" /\ UNCHANGED <<tom, newTom>>
     \/ /\ booting = "general" /\ Go("main", "idle")
        /\ booting' = "no" /\ tom' = mtime /\ UNCHANGED newTom
  /\ UNCHANGED <<disk, clock, conf, xml, heap, arg, bounds, past>>

(* The end of csv_xml_check; at start-up, what csv_xml_init does next.     *)
SetTom ==
  /\ pc["main"] = "settom"
  /\ \/ /\ booting = "no" /\ Go("main", "idle")
        /\ tom' = newTom /\ newTom' = 0 /\ UNCHANGED booting
     \/ /\ booting = "read" /\ Go("main", "load")
        /\ booting' = "general" /\ UNCHANGED <<tom, newTom>>
     \/ /\ booting = "general" /\ Go("main", "idle")
        /\ booting' = "no" /\ tom' = mtime /\ UNCHANGED newTom
  /\ UNCHANGED <<disk, clock, conf, xml, heap, arg, bounds, past>>

Operation(t) ==
  Load(t) \/ Node(t) \/ Set(t) \/ Unload(t) \/ Truncate(t) \/ WriteOut(t)
    \/ Stat(t) \/ Free(t)

-----------------------------------------------------------------------------
(* The user, the clock and the crash. *)

(* An edit is hidden in the second of the last modification, at start-up,  *)
(* and when a thread writes, which may overwrite it or take its time for   *)
(* that of its own save.                                                   *)
Edit(k) ==
  /\ file # Torn /\ edits < MaxEdits /\ edits' = edits + 1
  /\ file[k] # Missing
  /\ file' = [file EXCEPT ![k] = Other(@)] /\ mtime' = clock
  /\ wanted' = [wanted EXCEPT ![k] = file'[k]]
  /\ hidden' = \/ hidden \/ clock = mtime \/ booting # "no"
               \/ \E t \in Writer : pc[t] \notin {"idle", "free"}
  /\ UNCHANGED <<clock, mem, xml, heap, where, sets, crashes, overlap, lost>>

Tick ==
  /\ clock < MaxTime /\ clock' = clock + 1
  /\ UNCHANGED <<disk, mem, xml, heap, where, bounds, past>>

(* The process ends at any point and is started again.  What thr_grab was  *)
(* about to save is what the file says.                                    *)
Restart ==
  /\ crashes < MaxCrashes /\ crashes' = crashes + 1
  /\ conf' = Default /\ tom' = 0
  /\ SaveFile' = FALSE /\ pDoc' = "main" /\ pNode' = "main"
  /\ doc' = [t \in Thread |-> Empty] /\ live' = {}
  /\ pc' = [t \in Thread |-> IF t = "main" THEN "load" ELSE "idle"]
  /\ arg' = [t \in Thread |-> t] /\ newTom' = 0 /\ booting' = "read"
  /\ lost' = (lost \/ file = Torn)
  /\ wanted' = [wanted EXCEPT !["group"] =
       IF file # Torn /\ Busy("grab")
       THEN IF file["group"] = Missing THEN Default["group"] ELSE file["group"]
       ELSE @]
  /\ UNCHANGED <<disk, clock, sets, edits, overlap, hidden, misused>>

(* What follows a use of freed memory is not modelled. *)
Next ==
  /\ ~misused
  /\ \/ \E t \in Writer : Change(t)
     \/ Check
     \/ \E t \in Thread : Operation(t)
     \/ Get \/ SetTom
     \/ \E k \in Key : Edit(k)
     \/ Tick \/ Restart

Spec == Init /\ [][Next]_vars

(* The tick calls csv_xml_check again and again, and no thread stops in    *)
(* the middle of an operation.                                             *)
FairSpec ==
  /\ Spec
  /\ WF_vars(Check) /\ WF_vars(Get) /\ WF_vars(SetTom)
  /\ \A t \in Thread : WF_vars(Operation(t))

-----------------------------------------------------------------------------
Document == [Key -> Value \cup {Missing}]

TypeOK ==
  /\ file \in Document \cup {Torn} /\ conf \in [Key -> Value]
  /\ {mtime, clock} \subseteq 1..MaxTime /\ {tom, newTom} \subseteq 0..MaxTime
  /\ SaveFile \in BOOLEAN /\ {pDoc, pNode} \subseteq Thread
  /\ doc \in [Thread -> Document] /\ live \subseteq Thread
  /\ pc \in [Thread -> {"idle", "load", "node", "work", "unload", "truncate",
                        "write", "stat", "free", "settom"}]
  /\ arg \in [Thread -> Thread] /\ booting \in {"read", "general", "no"}
  /\ sets \in 0..MaxSets /\ edits \in 0..MaxEdits /\ crashes \in 0..MaxCrashes
  /\ wanted \in [Key -> Value]
  /\ {overlap, hidden, lost, misused} \subseteq BOOLEAN

Quiet == booting = "no" /\ tom = mtime /\ \A t \in Thread : ~Busy(t)

(* Whenever nothing is under way and no re-read is due, the configuration  *)
(* and the file agree on the last value that a counted series or an edit   *)
(* gave to each key, across restarts too, and the save that follows a      *)
(* command takes none of it back.  Except that operations which overlap    *)
(* share one document, an edit may be hidden, and a crash between the      *)
(* truncation and the writing of the file loses all of it: the next start  *)
(* replaces what it cannot parse by the defaults, although there is a      *)
(* backup (xml_load_file takes that only when there is no file).           *)
SettingsKept ==
  Quiet /\ ~overlap /\ ~hidden /\ ~lost =>
    /\ conf = wanted
    /\ file = wanted

(* A document is used and freed only while allocated, and none is          *)
(* forgotten, unless operations of two threads overlap.                    *)
DocumentOwned == misused => overlap

(* Why: an operation that is alone has loaded the document that pDoc names *)
(* and the only one there is, and leaves none behind.                      *)
Alone ==
  /\ ~misused
  /\ \A t, u \in Thread : Busy(t) /\ Busy(u) => t = u
  /\ (\A t \in Thread : ~Busy(t)) => live = {}
  /\ \A t \in Thread :
       /\ pc[t] \in {"load", "settom"} => live = {}
       /\ pc[t] \in {"node", "work", "unload", "truncate", "write", "stat", "free"}
            => live = {t} /\ pDoc = t
       /\ pc[t] = "work" => pNode = t
       /\ pc[t] \in {"truncate", "write", "stat", "free"} => arg[t] = t

IInv == TypeOK /\ (~overlap => Alone)

(* A change of the file is noticed: the main thread gets to know its time  *)
(* of modification, whatever the other threads and the user do.            *)
Noticed == (tom # mtime) ~> (tom = mtime \/ misused)
=============================================================================

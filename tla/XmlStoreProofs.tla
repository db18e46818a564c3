--------------------------- MODULE XmlStoreProofs ---------------------------
(***************************************************************************)
(* Types are right and DocumentOwned holds for any number of changes,      *)
(* edits and crashes: as long as no two operations overlap, the document   *)
(* in the fields that the threads share is that of the one at work.  And   *)
(* SettingsKept: what each operation, edit and restart does to the         *)
(* configuration and the file keeps them at the last value given.          *)
(***************************************************************************)
EXTENDS XmlStore, TLAPS

LEMMA OtherValue ==
  ASSUME NEW v \in Value
  PROVE  Other(v) \in Value
<1>1. \E u \in Value : u # v
  BY XmlAssumption
<1> QED
  BY <1>1 DEF Other

LEMMA Constants ==
  /\ Default \in Document /\ Default \in [Key -> Value]
  /\ Empty \in Document
  /\ 1 \in 1..MaxTime /\ 0 \in 0..MaxTime /\ 1 \in 0..MaxTime
  /\ 0 \in 0..MaxSets /\ 0 \in 0..MaxEdits /\ 0 \in 0..MaxCrashes
BY XmlAssumption DEF Default, Empty, Document, Missing

LEMMA Settings == [Key -> Value] \subseteq Document
BY DEF Document

(* What is wanted is no torn file, and misses no key. *)
LEMMA Full ==
  ASSUME TypeOK
  PROVE  wanted # Torn /\ \A k \in Key : wanted[k] # Missing
<1>1. wanted \in [Key -> Value] /\ "rate" \in Key
  BY DEF TypeOK, Key
<1>2. DOMAIN wanted # DOMAIN Torn
  BY <1>1 DEF Torn
<1> QED
  BY <1>1, <1>2, XmlAssumption DEF Missing

LEMMA Keys == \A t \in Writer : KeyOf[t] \in Key
BY DEF KeyOf, Writer, Key

LEMMA InitIInv == Init => IInv
<1> SUFFICES ASSUME Init PROVE IInv
  OBVIOUS
<1>1. TypeOK
  <2>1. wanted = Default
    BY DEF Init, Default
  <2> QED
    BY <2>1, Constants DEF Init, Start, TypeOK, Thread
<1>2. Alone
  BY DEF Init, Start, Alone, Thread, Busy
<1> QED
  BY <1>1, <1>2 DEF IInv

-----------------------------------------------------------------------------
LEMMA TypeStep ==
  ASSUME TypeOK, [Next]_vars
  PROVE  TypeOK'
<1> USE DEF TypeOK, Go, Uses, Overlaps, disk, mem, xml, heap, where, bounds, past
<1>0. "main" \in Thread /\ Writer \subseteq Thread
  BY DEF Thread, Writer
<1>n. {MaxTime, MaxSets, MaxEdits, MaxCrashes} \subseteq Nat
  BY XmlAssumption
<1>1. ASSUME NEW t \in Writer, Change(t) PROVE TypeOK'
  <2>1. Other(conf["group"]) \in Value /\ "group" \in Key
    BY OtherValue DEF Key
  <2>2. conf' \in [Key -> Value] /\ wanted' \in [Key -> Value]
    BY <1>1, <2>1 DEF Change
  <2>3. sets' \in 0..MaxSets
    BY <1>1, <1>n DEF Change
  <2> QED
    BY <1>0, <1>1, <2>2, <2>3 DEF Change
<1>2. CASE Check
  <2>1. mtime \in 0..MaxTime
    BY <1>n
  <2> QED
    BY <1>0, <1>2, <2>1 DEF Check
<1>3. ASSUME NEW t \in Thread, Load(t) PROVE TypeOK'
  <2>1. file # Torn => file \in Document
    OBVIOUS
  <2>2. doc' \in [Thread -> Document] /\ file' \in Document
    BY <1>3, <2>1, Constants DEF Load
  <2> QED
    BY <1>3, <2>2 DEF Load
<1>4. ASSUME NEW t \in Thread, Node(t) PROVE TypeOK'
  BY <1>4 DEF Node
<1>5. CASE Get
  <2>1. doc[pNode] \in Document
    OBVIOUS
  <2>2. conf' \in [Key -> Value]
    BY <1>5, <2>1 DEF Get, Document
  <2>3. doc' \in [Thread -> Document]
    BY <1>5, <2>2, Settings DEF Get
  <2> QED
    BY <1>0, <1>5, <2>2, <2>3 DEF Get
<1>6. ASSUME NEW t \in Thread, Set(t) PROVE TypeOK'
  <2>1. doc' \in [Thread -> Document]
    <3>1. CASE t = "main"
      BY <1>6, <3>1 DEF Set
    <3>2. CASE t # "main"
      <4>1. KeyOf[t] \in Key
        BY <3>2, Keys DEF Thread, Writer
      <4>2. conf[KeyOf[t]] \in Value
        BY <4>1
      <4>3. [doc[pNode] EXCEPT ![KeyOf[t]] = conf[KeyOf[t]]] \in Document
        BY <4>2 DEF Document
      <4> QED
        BY <1>6, <3>2, <4>3 DEF Set
    <3> QED
      BY <3>1, <3>2
  <2> QED
    BY <1>6, <2>1 DEF Set
<1>7. ASSUME NEW t \in Thread, Unload(t) PROVE TypeOK'
  BY <1>7 DEF Unload
<1>8. ASSUME NEW t \in Thread, Truncate(t) PROVE TypeOK'
  BY <1>8 DEF Truncate
<1>9. ASSUME NEW t \in Thread, WriteOut(t) PROVE TypeOK'
  BY <1>9 DEF WriteOut
<1>10. ASSUME NEW t \in Thread, Stat(t) PROVE TypeOK'
  <2>1. mtime \in 0..MaxTime
    BY <1>n
  <2> QED
    BY <1>10, <2>1 DEF Stat
<1>11. ASSUME NEW t \in Thread, Free(t) PROVE TypeOK'
  BY <1>11, Constants DEF Free
<1>12. CASE SetTom
  <2>1. mtime \in 0..MaxTime /\ 0 \in 0..MaxTime
    BY <1>n
  <2> QED
    BY <1>0, <1>12, <2>1 DEF SetTom
<1>13. ASSUME NEW k \in Key, Edit(k) PROVE TypeOK'
  <2>1. file \in Document /\ file[k] \in Value
    BY <1>13 DEF Edit, Document
  <2>2. Other(file[k]) \in Value
    BY <2>1, OtherValue
  <2>3. file' \in Document /\ file'[k] \in Value
    BY <1>13, <2>1, <2>2 DEF Edit, Document
  <2>4. edits' \in 0..MaxEdits
    BY <1>13, <1>n DEF Edit
  <2> QED
    BY <1>13, <2>3, <2>4 DEF Edit
<1>14. CASE Tick
  <2>1. clock' \in 1..MaxTime
    BY <1>14, <1>n DEF Tick
  <2> QED
    BY <1>14, <2>1 DEF Tick
<1>15. CASE Restart
  <2>1. wanted' \in [Key -> Value]
    <3>1. /\ wanted \in [Key -> Value] /\ "group" \in Key /\ Default["group"] \in Value
          /\ file # Torn => file["group"] \in Value \cup {Missing}
      BY Constants DEF Key, Document
    <3>2. PICK v \in Value : wanted' = [wanted EXCEPT !["group"] = v]
      BY <1>15, <3>1 DEF Restart
    <3> QED
      BY <3>1, <3>2
  <2>2. crashes' \in 0..MaxCrashes
    BY <1>15, <1>n DEF Restart
  <2> QED
    BY <1>0, <1>15, <2>1, <2>2, Constants DEF Restart
<1>16. CASE UNCHANGED vars
  BY <1>16 DEF vars
<1> QED
  BY <1>0, <1>1, <1>2, <1>3, <1>4, <1>5, <1>6, <1>7, <1>8, <1>9, <1>10, <1>11,
     <1>12, <1>13, <1>14, <1>15, <1>16
     DEF Next, Operation

-----------------------------------------------------------------------------
(* A step of the one operation at work leaves the next one alone, too. *)
LEMMA AloneStep ==
  ASSUME TypeOK, ~overlap => Alone, [Next]_vars
  PROVE  ~overlap' => Alone'
<1> SUFFICES ASSUME ~overlap' PROVE Alone'
  OBVIOUS
<1> USE DEF Go, Uses, Overlaps, disk, mem, xml, heap, where, bounds, past
<1>0. ~overlap
  <2>1. ASSUME NEW t \in Writer, Change(t) PROVE ~overlap
    BY <2>1, Zenon DEF Change
  <2>2. CASE Check
    BY <2>2, Zenon DEF Check
  <2>3. ASSUME NEW t \in Thread, Operation(t) PROVE ~overlap
    BY <2>3 DEF Operation, Load, Node, Set, Unload, Truncate, WriteOut, Stat, Free
  <2>4. CASE Get \/ SetTom
    BY <2>4 DEF Get, SetTom
  <2>5. ASSUME NEW k \in Key, Edit(k) \/ Tick \/ Restart PROVE ~overlap
    BY <2>5 DEF Edit, Tick, Restart
  <2>6. CASE UNCHANGED vars
    BY <2>6 DEF vars
  <2> QED
    BY <2>1, <2>2, <2>3, <2>4, <2>5, <2>6 DEF Next, Key
<1>a. Alone
  BY <1>0
<1> USE DEF TypeOK, Alone, Busy
<1>1. ASSUME NEW t \in Writer, Change(t) PROVE Alone'
  <2>1. \A u \in Thread \ {t} : ~Busy(u)
    BY <1>1, Zenon DEF Change
  <2>2. t \in Thread
    BY DEF Thread, Writer
  <2>3. live = {}
    BY <1>a, <1>1, <2>1 DEF Change
  <2> QED
    BY <1>a, <1>1, <2>1, <2>2, <2>3 DEF Change
<1>2. CASE Check
  <2>1. \A u \in Thread \ {"main"} : ~Busy(u)
    BY <1>2, Zenon DEF Check
  <2>2. live = {}
    BY <1>a, <1>2, <2>1 DEF Check
  <2> QED
    BY <1>a, <1>2, <2>1, <2>2 DEF Check, Thread
<1>3. ASSUME NEW t \in Thread, Load(t) PROVE Alone'
  <2>1. live = {} /\ \A u \in Thread \ {t} : ~Busy(u)
    BY <1>a, <1>3 DEF Load
  <2> QED
    BY <1>a, <1>3, <2>1 DEF Load
<1>4. ASSUME NEW t \in Thread, Node(t) PROVE Alone'
  BY <1>a, <1>4 DEF Node
<1>5. CASE Get
  BY <1>a, <1>5 DEF Get, Thread
<1>6. ASSUME NEW t \in Thread, Set(t) PROVE Alone'
  BY <1>a, <1>6 DEF Set
<1>7. ASSUME NEW t \in Thread, Unload(t) PROVE Alone'
  BY <1>a, <1>7 DEF Unload
<1>8. ASSUME NEW t \in Thread, Truncate(t) PROVE Alone'
  BY <1>a, <1>8 DEF Truncate
<1>9. ASSUME NEW t \in Thread, WriteOut(t) PROVE Alone'
  BY <1>a, <1>9 DEF WriteOut
<1>10. ASSUME NEW t \in Thread, Stat(t) PROVE Alone'
  BY <1>a, <1>10 DEF Stat
<1>11. ASSUME NEW t \in Thread, Free(t) PROVE Alone'
  <2>1. live = {t} /\ arg[t] = t /\ \A u \in Thread \ {t} : ~Busy(u)
    BY <1>a, <1>11 DEF Free
  <2> QED
    BY <1>a, <1>11, <2>1 DEF Free
<1>12. CASE SetTom
  BY <1>a, <1>12 DEF SetTom, Thread
<1>13. ASSUME NEW k \in Key, Edit(k) PROVE Alone'
  BY <1>a, <1>13 DEF Edit
<1>14. CASE Tick
  BY <1>a, <1>14 DEF Tick
<1>15. CASE Restart
  BY <1>a, <1>15 DEF Restart
<1>16. CASE UNCHANGED vars
  BY <1>a, <1>16 DEF vars
<1> QED
  BY <1>1, <1>2, <1>3, <1>4, <1>5, <1>6, <1>7, <1>8, <1>9, <1>10, <1>11, <1>12,
     <1>13, <1>14, <1>15, <1>16
     DEF Next, Operation

-----------------------------------------------------------------------------
(* Why SettingsKept holds: what the configuration, the file and the        *)
(* document say at each step of the one operation that is under way.       *)

Times == mtime <= clock /\ tom <= mtime /\ newTom <= mtime

Fine == ~overlap /\ ~hidden /\ ~lost

At(t, places) == pc[t] \in places

(* The file says what is wanted, or nothing where the default is wanted.   *)
Keeps ==
  /\ file # Torn
  /\ \A k \in Key :
       file[k] = wanted[k] \/ (file[k] = Missing /\ wanted[k] = Default[k])

(* csv_xml_init has not read the file yet: it may be there or not.         *)
Reading == booting = "read" /\ At("main", {"load", "node", "work"})
WhileReading ==
  /\ conf = Default
  /\ IF file = Torn THEN At("main", {"load"}) /\ wanted = Default ELSE Keeps
  /\ At("main", {"node", "work"}) => doc["main"] = file

(* It has; the file still gets the keys that it did not have.              *)
WhileBooting ==
  /\ conf = wanted
  /\ At("main", {"node", "work", "unload", "truncate", "write"})
       => doc["main"] = wanted
  /\ At("main", {"unload", "truncate"}) => Keeps
  /\ At("main", {"write"}) => file = Torn
  /\ ~SaveFile /\ ~At("main", {"truncate", "write"}) => file = wanted

(* The file may be edited: if so, csv_xml_check is due again.              *)
WhileServing ==
  /\ file = wanted
  /\ ~Busy("main") /\ tom = mtime => conf = wanted
  /\ At("main", {"node", "work"}) => doc["main"] \in [Key -> Value]
  /\ ~At("main", {"truncate", "write", "stat"})
  /\ newTom = mtime => /\ At("main", {"node", "work"}) => doc["main"] = wanted
                       /\ At("main", {"unload", "free", "settom"}) => conf = wanted

(* A writer at work: what it has changed in the configuration and not yet  *)
(* in the file.                                                            *)
Writing(t) == At(t, {"load", "node", "work", "unload", "truncate", "write", "stat"})
Changed(t) == IF t = "grab" THEN {"group"} ELSE {}
WhileWriting(t) ==
  /\ conf = wanted
  /\ At(t, {"load", "node", "work", "unload", "truncate"}) =>
       file # Torn /\ \A k \in Key \ Changed(t) : file[k] = wanted[k]
  /\ At(t, {"node", "work"}) => doc[t] = file
  /\ At(t, {"unload", "truncate", "write"}) => doc[t] = wanted
  /\ At(t, {"write"}) => file = Torn
  /\ At(t, {"unload"}) => SaveFile
  /\ At(t, {"stat"}) => file = wanted

Agreed ==
  /\ SaveFile => \E t \in Thread : At(t, {"unload"})
  /\ booting = "no" /\ At("main", {"unload"}) => ~SaveFile
  /\ booting # "no" => Busy("main")
  /\ Reading => WhileReading
  /\ booting # "no" /\ ~Reading => WhileBooting
  /\ \A t \in Writer : Writing(t) => WhileWriting(t)
  /\ booting = "no" /\ (\A t \in Writer : ~Writing(t)) => WhileServing

KeptInv == IInv /\ Times /\ (Fine => Agreed)

LEMMA InitAgreed == Init => Times /\ Agreed
<1> SUFFICES ASSUME Init PROVE Times /\ Agreed
  OBVIOUS
<1>1. wanted = Default
  BY DEF Init, Default
<1> QED
  BY <1>1, Constants DEF Init, Start, Times, Agreed, Reading, WhileReading, Keeps, At, Busy,
     Writing, Writer, Thread, Empty, Torn

LEMMA TimesStep ==
  ASSUME TypeOK, Times, [Next]_vars
  PROVE  Times'
<1> USE DEF Times, TypeOK, Go, Uses, Overlaps, disk, mem, xml, heap, where, bounds, past
<1>0. MaxTime \in Nat /\ mtime \in Nat /\ clock \in Nat /\ tom \in Nat /\ newTom \in Nat
  BY XmlAssumption
<1>1. ASSUME NEW t \in Writer, Change(t) PROVE Times'
  BY <1>1 DEF Change
<1>2. ASSUME NEW t \in Thread, Operation(t) PROVE Times'
  BY <1>0, <1>2 DEF Operation, Load, Node, Set, Unload, Truncate, WriteOut, Stat, Free
<1>3. CASE Check \/ Get \/ SetTom
  BY <1>0, <1>3 DEF Check, Get, SetTom
<1>4. ASSUME NEW k \in Key, Edit(k) PROVE Times'
  BY <1>0, <1>4 DEF Edit
<1>5. CASE Tick \/ Restart
  BY <1>0, <1>5 DEF Tick, Restart
<1>6. CASE UNCHANGED vars
  BY <1>6 DEF vars
<1> QED
  BY <1>1, <1>2, <1>3, <1>4, <1>5, <1>6 DEF Next

(* What has spoiled the settings is not made good. *)
LEMMA FineBefore ==
  ASSUME TypeOK, [Next]_vars, Fine'
  PROVE  Fine
<1> USE DEF Fine, TypeOK, disk, mem, xml, heap, where, bounds, past
<1>1. ASSUME NEW t \in Writer, Change(t) PROVE Fine
  BY <1>1, Zenon DEF Change, Overlaps
<1>2. ASSUME NEW t \in Thread, Operation(t) PROVE Fine
  BY <1>2 DEF Operation, Load, Node, Set, Unload, Truncate, WriteOut, Stat, Free
<1>3. CASE Check
  BY <1>3, Zenon DEF Check, Overlaps
<1>4. CASE Get \/ SetTom \/ Tick
  BY <1>4 DEF Get, SetTom, Tick
<1>5. ASSUME NEW k \in Key, Edit(k) PROVE Fine
  BY <1>5, Zenon DEF Edit
<1>6. CASE Restart
  BY <1>6, Zenon DEF Restart
<1>7. CASE UNCHANGED vars
  BY <1>7 DEF vars
<1> QED
  BY <1>1, <1>2, <1>3, <1>4, <1>5, <1>6, <1>7 DEF Next

(* The operation under way is the only one. *)
LEMMA OthersIdle ==
  ASSUME TypeOK, Alone, NEW t \in Thread, pc[t] # "idle"
  PROVE  \A u \in Thread \ {t} : pc[u] = "idle"
BY DEF Alone, Busy

(* What is to be shown when a writer is at work ... *)
LEMMA WriterAgreed ==
  ASSUME NEW t \in Writer, booting' = "no",
         \A u \in Thread \ {t} : pc'[u] = "idle",
         SaveFile' => pc'[t] = "unload",
         Writing(t)' => WhileWriting(t)',
         ~Writing(t)' => file' = wanted' /\ (tom' = mtime' => conf' = wanted')
  PROVE  Agreed'
<1>1. t \in Thread /\ t # "main" /\ "main" \in Thread
  BY DEF Thread, Writer
<1>2. pc'["main"] = "idle" /\ \A u \in Writer \ {t} : pc'[u] = "idle"
  BY <1>1 DEF Thread, Writer
<1>3. \A u \in Writer : Writing(u)' => u = t
  BY <1>2 DEF Writing, At
<1>4. ~Writing(t)' => WhileServing'
  BY <1>2 DEF WhileServing, At, Busy
<1>5. SaveFile' => At(t, {"unload"})'
  BY DEF At
<1> QED
  BY <1>1, <1>2, <1>3, <1>4, <1>5 DEF Agreed, At, Reading

(* ... and when none is. *)
LEMMA MainAgreed ==
  ASSUME \A u \in Writer : pc'[u] \in {"idle", "free"},
         SaveFile' => pc'["main"] = "unload" /\ booting' # "no",
         booting' # "no" => Busy("main")',
         Reading' => WhileReading',
         booting' # "no" /\ ~Reading' => WhileBooting',
         booting' = "no" => WhileServing'
  PROVE  Agreed'
<1>1. \A u \in Writer : ~Writing(u)'
  BY DEF Writing, At
<1>2. SaveFile' => At("main", {"unload"})' /\ "main" \in Thread
  BY DEF At, Thread
<1> QED
  BY <1>1, <1>2 DEF Agreed

(* A command that saves, and csv_mvs_cams_demarcate. *)
LEMMA ChangeKeeps ==
  ASSUME TypeOK, Alone, Times, Agreed, NEW t \in Writer, Change(t), Fine'
  PROVE  Agreed'
<1>1. /\ booting = "no" /\ pc[t] = "idle" /\ pc' = [pc EXCEPT ![t] = "load"]
      /\ \A u \in Thread \ {t} : pc[u] = "idle"
      /\ tom = mtime
  BY Zenon DEF Change, Overlaps, Go, Busy, Fine
<1>2. t \in Thread /\ "main" \in Thread /\ Writer \subseteq Thread /\ t # "main"
  BY DEF Thread, Writer
<1>3. /\ \A u \in Thread : pc[u] = "idle"
      /\ pc'[t] = "load" /\ \A u \in Thread \ {t} : pc'[u] = "idle"
  BY <1>1, <1>2 DEF TypeOK
<1>4. file = wanted /\ conf = wanted /\ SaveFile = FALSE
  BY <1>1, <1>2, <1>3 DEF Agreed, Writing, At, WhileServing, Busy, TypeOK
<1>5. /\ UNCHANGED <<file, doc, SaveFile, booting>>
      /\ \/ UNCHANGED <<conf, wanted>>
         \/ /\ t = "grab"
            /\ conf' = [conf EXCEPT !["group"] = Other(@)]
            /\ wanted' = [wanted EXCEPT !["group"] = conf'["group"]]
  BY DEF Change, disk, xml, heap
<1>6. conf' = wanted' /\ \A k \in Key \ Changed(t) : wanted'[k] = wanted[k]
  <2>1. conf \in [Key -> Value] /\ wanted \in [Key -> Value] /\ "group" \in Key
    BY DEF TypeOK, Key
  <2>2. CASE UNCHANGED <<conf, wanted>>
    BY <1>4, <2>2
  <2>3. CASE /\ t = "grab"
             /\ conf' = [conf EXCEPT !["group"] = Other(@)]
             /\ wanted' = [wanted EXCEPT !["group"] = conf'["group"]]
    BY <1>4, <2>1, <2>3 DEF Changed
  <2> QED
    BY <1>5, <2>2, <2>3
<1>7. file' # Torn
  BY <1>4, <1>5, Full
<1>8. WhileWriting(t)'
  BY <1>3, <1>4, <1>5, <1>6, <1>7 DEF WhileWriting, At
<1> QED
  BY <1>1, <1>3, <1>4, <1>5, <1>8, WriterAgreed DEF Writing, At

(* The writer's operation, from the load of the document to its end. *)
LEMMA WriterKeeps ==
  ASSUME TypeOK, Alone, Times, Agreed, NEW t \in Writer, Operation(t)
  PROVE  Agreed'
<1> USE DEF TypeOK, Go, disk, mem, xml, heap, where, bounds, past
<1>0. t \in Thread /\ "main" \in Thread /\ t # "main" /\ KeyOf[t] \in Key
  BY Keys DEF Thread, Writer
<1>1. pc[t] # "idle" /\ \A u \in Thread \ {t} : pc'[u] = pc[u]
  BY <1>0 DEF Operation, Load, Node, Set, Unload, Truncate, WriteOut, Stat, Free
<1>2. \A u \in Thread \ {t} : pc[u] = "idle"
  BY <1>0, <1>1, OthersIdle
<1>3. booting = "no" /\ \A u \in Thread \ {t} : pc'[u] = "idle"
  BY <1>0, <1>1, <1>2 DEF Agreed, Busy
<1>4. SaveFile => pc[t] = "unload"
  BY <1>2 DEF Agreed, At
<1>5. UNCHANGED <<booting, conf, wanted>>
  BY DEF Operation, Load, Node, Set, Unload, Truncate, WriteOut, Stat, Free
<1>6. Writing(t) => WhileWriting(t)
  BY DEF Agreed
<1>7. CASE Load(t)
  <2>1. /\ pc[t] = "load" /\ pc'[t] = "node" /\ UNCHANGED <<SaveFile>>
    BY <1>0, <1>7 DEF Load
  <2>2. file' = file /\ doc'[t] = file /\ file # Torn
    BY <1>0, <1>6, <1>7, <2>1 DEF Load, Writing, WhileWriting, At
  <2>3. WhileWriting(t)'
    BY <1>5, <1>6, <2>1, <2>2 DEF WhileWriting, Writing, At
  <2> QED
    BY <1>3, <1>4, <1>5, <2>1, <2>3, WriterAgreed DEF Writing, At
<1>8. CASE Node(t)
  <2>1. /\ pc[t] = "node" /\ pc'[t] = "work" /\ UNCHANGED <<SaveFile, file, doc>>
    BY <1>0, <1>8 DEF Node
  <2>3. WhileWriting(t)'
    BY <1>5, <1>6, <2>1 DEF WhileWriting, Writing, At
  <2> QED
    BY <1>3, <1>4, <1>5, <2>1, <2>3, WriterAgreed DEF Writing, At
<1>9. CASE Set(t)
  <2>1. /\ pc[t] = "work" /\ pc'[t] = "unload" /\ UNCHANGED <<file>> /\ SaveFile' = TRUE
        /\ pNode = t /\ doc' = [doc EXCEPT ![pNode][KeyOf[t]] = conf[KeyOf[t]]]
    BY <1>0, <1>9 DEF Set, Alone
  <2>2. /\ doc[t] = file /\ file # Torn /\ conf = wanted
        /\ \A k \in Key \ Changed(t) : file[k] = wanted[k]
    BY <1>6, <2>1 DEF WhileWriting, Writing, At
  <2>3. doc'[t] = [doc[t] EXCEPT ![KeyOf[t]] = wanted[KeyOf[t]]]
    BY <1>0, <2>1, <2>2
  <2>4. doc'[t] = wanted
    <3>1. doc[t] \in [Key -> Value \cup {Missing}] /\ wanted \in [Key -> Value]
      BY <1>0 DEF Document
    <3>2. \A k \in Key : doc'[t][k] = wanted[k]
      BY <1>0, <2>2, <2>3, <3>1 DEF Changed, KeyOf
    <3> QED
      BY <2>3, <3>1, <3>2
  <2>5. WhileWriting(t)'
    BY <1>5, <2>1, <2>2, <2>4 DEF WhileWriting, At, Changed
  <2> QED
    BY <1>3, <1>5, <2>1, <2>5, WriterAgreed DEF Writing, At
<1>10. CASE Unload(t)
  <2>1. /\ pc[t] = "unload" /\ UNCHANGED <<file, doc>> /\ SaveFile' = FALSE
        /\ pc'[t] = IF SaveFile THEN "truncate" ELSE "free"
    BY <1>0, <1>10 DEF Unload
  <2>2. SaveFile
    BY <1>6, <2>1 DEF WhileWriting, Writing, At
  <2>3. WhileWriting(t)'
    BY <1>5, <1>6, <2>1, <2>2 DEF WhileWriting, Writing, At
  <2> QED
    BY <1>3, <1>5, <2>1, <2>2, <2>3, WriterAgreed DEF Writing, At
<1>11. CASE Truncate(t)
  <2>1. /\ pc[t] = "truncate" /\ pc'[t] = "write" /\ UNCHANGED <<SaveFile, doc>>
        /\ file' = Torn
    BY <1>0, <1>11 DEF Truncate
  <2>3. WhileWriting(t)'
    BY <1>5, <1>6, <2>1 DEF WhileWriting, Writing, At
  <2> QED
    BY <1>3, <1>4, <1>5, <2>1, <2>3, WriterAgreed DEF Writing, At
<1>12. CASE WriteOut(t)
  <2>1. /\ pc[t] = "write" /\ pc'[t] = "stat" /\ UNCHANGED <<SaveFile, doc>>
        /\ file' = doc[t]
    BY <1>0, <1>12 DEF WriteOut, Alone
  <2>3. WhileWriting(t)'
    BY <1>5, <1>6, <2>1 DEF WhileWriting, Writing, At
  <2> QED
    BY <1>3, <1>4, <1>5, <2>1, <2>3, WriterAgreed DEF Writing, At
<1>13. CASE Stat(t)
  <2>1. pc[t] = "stat" /\ pc'[t] = "free" /\ UNCHANGED <<SaveFile, file>>
    BY <1>0, <1>13 DEF Stat
  <2>2. file = wanted /\ conf = wanted
    BY <1>6, <2>1 DEF WhileWriting, Writing, At
  <2> QED
    BY <1>3, <1>4, <1>5, <2>1, <2>2, WriterAgreed DEF Writing, At
<1>14. CASE Free(t)
  <2>1. pc[t] = "free" /\ pc'[t] = "idle" /\ UNCHANGED <<SaveFile, file, tom, mtime>>
    BY <1>0, <1>14 DEF Free
  <2>2. \A u \in Writer : ~Writing(u)
    BY <1>2, <2>1 DEF Writing, At, Writer, Thread
  <2>3. file = wanted /\ (tom = mtime => conf = wanted)
    BY <1>0, <1>2, <1>3, <2>2 DEF Agreed, WhileServing, Busy
  <2> QED
    BY <1>3, <1>4, <1>5, <2>1, <2>3, WriterAgreed DEF Writing, At
<1> QED
  BY <1>7, <1>8, <1>9, <1>10, <1>11, <1>12, <1>13, <1>14 DEF Operation

(* csv_xml_init and csv_xml_check, once begun. *)
LEMMA MainKeeps ==
  ASSUME TypeOK, Alone, Times, Agreed, Operation("main") \/ Get \/ SetTom
  PROVE  Agreed'
<1> USE DEF TypeOK, Go, disk, mem, xml, heap, where, bounds, past
<1>0. "main" \in Thread /\ Writer = Thread \ {"main"}
  BY DEF Thread, Writer
<1>1. /\ pc["main"] # "idle" /\ \A u \in Writer : pc'[u] = pc[u]
      /\ UNCHANGED wanted
  BY <1>0 DEF Operation, Load, Node, Set, Unload, Truncate, WriteOut, Stat, Free, Get, SetTom
<1>2. \A u \in Writer : pc[u] = "idle" /\ pc'[u] = "idle"
  BY <1>0, <1>1, OthersIdle
<1>3. /\ SaveFile => pc["main"] = "unload"
      /\ booting = "no" /\ pc["main"] = "unload" => ~SaveFile
      /\ Reading => WhileReading
      /\ booting # "no" /\ ~Reading => WhileBooting
      /\ booting = "no" => WhileServing
  BY <1>0, <1>2 DEF Agreed, Writing, At
<1>4. wanted # Torn
  BY Full
<1>5. CASE Load("main")
  <2>1. /\ pc["main"] = "load" /\ pc'["main"] = "node"
        /\ UNCHANGED <<SaveFile, booting, conf, newTom>>
        /\ doc'["main"] = file' /\ file' = IF file = Torn THEN Empty ELSE file
        /\ file # Torn => UNCHANGED <<file, mtime>>
    BY <1>0, <1>5 DEF Load
  <2>2. CASE booting = "read"
    <3>1. WhileReading
      BY <1>3, <2>1, <2>2 DEF Reading, At
    <3>2. Keeps'
      <4>1. CASE file = Torn
        BY <1>1, <2>1, <3>1, <4>1 DEF WhileReading, Keeps, Empty, Torn, Key
      <4>2. CASE file # Torn
        BY <1>1, <2>1, <3>1, <4>2 DEF WhileReading, Keeps
      <4> QED
        BY <4>1, <4>2
    <3>3. WhileReading' /\ Reading'
      BY <2>1, <2>2, <3>1, <3>2 DEF WhileReading, Reading, At, Keeps
    <3> QED
      BY <1>2, <1>3, <2>1, <2>2, <3>3, MainAgreed DEF Busy
  <2>3. CASE booting = "general"
    <3>1. conf = wanted /\ file = wanted
      BY <1>3, <2>1, <2>3 DEF Reading, WhileBooting, At
    <3>2. WhileBooting'
      BY <1>1, <1>4, <2>1, <3>1 DEF WhileBooting, At
    <3> QED
      BY <1>2, <1>3, <2>1, <2>3, <3>2, MainAgreed DEF Busy, Reading
  <2>4. CASE booting = "no"
    <3>1. file = wanted
      BY <1>3, <2>4 DEF WhileServing
    <3>2. WhileServing'
      BY <1>1, <1>4, <2>1, <3>1 DEF WhileServing, At, Busy
    <3> QED
      BY <1>2, <1>3, <2>1, <2>4, <3>2, MainAgreed DEF Reading
  <2> QED
    BY <2>2, <2>3, <2>4
<1>6. CASE Node("main")
  <2>1. /\ pc["main"] = "node" /\ pc'["main"] = "work"
        /\ UNCHANGED <<SaveFile, booting, conf, newTom, doc, file, mtime>>
    BY <1>0, <1>6 DEF Node
  <2>2. /\ Reading' => Reading /\ WhileReading'
        /\ booting # "no" /\ ~Reading' => WhileBooting'
        /\ booting = "no" => WhileServing'
    BY <1>1, <1>3, <2>1
    DEF Reading, WhileReading, Keeps, WhileBooting, WhileServing, At, Busy
  <2> QED
    BY <1>2, <1>3, <2>1, <2>2, MainAgreed DEF Busy
<1>7. CASE Get
  <2> DEFINE missing == {k \in Key : doc["main"][k] = Missing}
  <2>1. /\ pc["main"] = "work" /\ pc'["main"] = "unload" /\ booting # "general"
        /\ UNCHANGED <<booting, newTom, file, mtime>> /\ pNode = "main"
        /\ conf' = [k \in Key |-> IF k \in missing THEN conf[k] ELSE doc["main"][k]]
        /\ doc'["main"] = conf' /\ SaveFile' = (SaveFile \/ missing # {})
    BY <1>0, <1>7 DEF Get, Alone
  <2>2. CASE booting = "read"
    <3>1. conf = Default /\ Keeps /\ doc["main"] = file
      BY <1>3, <2>1, <2>2 DEF Reading, WhileReading, At
    <3>2. \A k \in Key : conf'[k] = wanted[k]
      <4>1. \A k \in Key : wanted[k] # Missing
        BY Full
      <4> QED
        BY <2>1, <3>1, <4>1 DEF Keeps
    <3>3. conf' = wanted
      BY <2>1, <3>2
    <3>4. ~SaveFile' => file = wanted
      <4>1. ASSUME ~SaveFile' PROVE file = wanted
        <5>1. \A k \in Key : file[k] # Missing
          BY <2>1, <3>1, <4>1
        <5>2. \A k \in Key : file[k] = wanted[k]
          BY <3>1, <5>1 DEF Keeps
        <5> QED
          BY <3>1, <5>2 DEF Keeps, Document
      <4> QED
        BY <4>1
    <3>5. WhileBooting'
      BY <1>1, <2>1, <3>1, <3>3, <3>4 DEF WhileBooting, Keeps, At
    <3> QED
      BY <1>2, <2>1, <2>2, <3>5, MainAgreed DEF Busy, Reading, At
  <2>3. CASE booting = "no"
    <3>1. doc["main"] \in [Key -> Value] /\ (newTom = mtime => doc["main"] = wanted)
          /\ file = wanted
      BY <1>3, <2>1, <2>3 DEF WhileServing, At
    <3>2. missing = {}
      BY <3>1, XmlAssumption DEF Missing
    <3>3. conf' = doc["main"] /\ SaveFile' = FALSE
      BY <1>3, <2>1, <3>1, <3>2
    <3>4. WhileServing'
      BY <1>1, <2>1, <3>1, <3>3 DEF WhileServing, At, Busy
    <3> QED
      BY <1>2, <2>1, <2>3, <3>3, <3>4, MainAgreed DEF Reading
  <2> QED
    BY <2>1, <2>2, <2>3
<1>8. CASE Set("main")
  <2>1. /\ pc["main"] = "work" /\ pc'["main"] = "unload" /\ booting = "general"
        /\ UNCHANGED <<booting, conf, doc, file>>
    BY <1>0, <1>8 DEF Set
  <2>2. conf = wanted /\ file = wanted /\ doc["main"] = wanted
    BY <1>3, <2>1 DEF Reading, WhileBooting, At
  <2>3. WhileBooting'
    BY <1>1, <1>4, <2>1, <2>2 DEF WhileBooting, Keeps, At
  <2> QED
    BY <1>2, <2>1, <2>3, MainAgreed DEF Busy, Reading
<1>9. CASE Unload("main")
  <2>1. /\ pc["main"] = "unload" /\ SaveFile' = FALSE
        /\ pc'["main"] = IF SaveFile THEN "truncate" ELSE "free"
        /\ UNCHANGED <<booting, conf, doc, file, newTom, mtime>>
    BY <1>0, <1>9 DEF Unload
  <2>2. CASE booting # "no"
    <3>1. WhileBooting /\ ~Reading'
      BY <1>3, <2>1, <2>2 DEF Reading, At
    <3>2. WhileBooting'
      BY <1>1, <2>1, <3>1 DEF WhileBooting, Keeps, At
    <3> QED
      BY <1>2, <2>1, <2>2, <3>1, <3>2, MainAgreed DEF Busy
  <2>3. CASE booting = "no"
    <3>1. ~SaveFile /\ WhileServing
      BY <1>3, <2>1, <2>3
    <3>2. WhileServing'
      BY <1>1, <2>1, <3>1 DEF WhileServing, At, Busy
    <3> QED
      BY <1>2, <2>1, <2>3, <3>2, MainAgreed DEF Reading
  <2> QED
    BY <2>2, <2>3
<1>10. CASE Truncate("main") \/ WriteOut("main") \/ Stat("main")
  <2>1. /\ UNCHANGED <<booting, conf, doc, SaveFile>>
        /\ \/ /\ pc["main"] = "truncate" /\ pc'["main"] = "write" /\ file' = Torn
           \/ /\ pc["main"] = "write" /\ pc'["main"] = "stat" /\ file' = doc["main"]
           \/ /\ pc["main"] = "stat" /\ pc'["main"] = "free" /\ UNCHANGED file
    BY <1>0, <1>10 DEF Truncate, WriteOut, Stat, Alone
  <2>2. booting # "no" /\ ~Reading /\ ~Reading' /\ ~SaveFile
    BY <1>3, <2>1 DEF Reading, WhileServing, At
  <2>3. WhileBooting'
    BY <1>1, <1>3, <2>1, <2>2 DEF WhileBooting, At
  <2> QED
    BY <1>2, <2>1, <2>2, <2>3, MainAgreed DEF Busy
<1>11. CASE Free("main")
  <2>1. /\ pc["main"] = "free" /\ pc'["main"] = "settom"
        /\ UNCHANGED <<booting, conf, SaveFile, file, newTom, mtime>>
    BY <1>0, <1>11 DEF Free
  <2>2. /\ ~Reading /\ ~Reading' /\ ~SaveFile
        /\ booting # "no" => WhileBooting'
        /\ booting = "no" => WhileServing'
    BY <1>1, <1>3, <2>1 DEF Reading, WhileBooting, WhileServing, At, Busy
  <2> QED
    BY <1>2, <2>1, <2>2, MainAgreed DEF Busy
<1>12. CASE SetTom
  <2>1. /\ pc["main"] = "settom" /\ ~SaveFile
        /\ UNCHANGED <<conf, SaveFile, file, doc, mtime>>
    BY <1>3, <1>12 DEF SetTom
  <2>2. CASE booting = "no"
    <3>1. /\ booting' = "no" /\ pc'["main"] = "idle" /\ tom' = newTom
      BY <1>0, <1>12, <2>2 DEF SetTom
    <3>2. WhileServing'
      BY <1>1, <1>3, <2>1, <2>2, <3>1 DEF WhileServing, At, Busy
    <3> QED
      BY <1>2, <2>1, <3>1, <3>2, MainAgreed DEF Reading
  <2>3. CASE booting # "no"
    <3>1. conf = wanted /\ file = wanted
      BY <1>3, <2>1, <2>3 DEF Reading, WhileBooting, At
    <3>2. CASE booting = "read"
      <4>1. /\ booting' = "general" /\ pc'["main"] = "load"
        BY <1>0, <1>12, <3>2 DEF SetTom
      <4>2. WhileBooting'
        BY <1>1, <2>1, <3>1, <4>1 DEF WhileBooting, At
      <4> QED
        BY <1>2, <2>1, <4>1, <4>2, MainAgreed DEF Reading, Busy
    <3>3. CASE booting = "general"
      <4>1. /\ booting' = "no" /\ pc'["main"] = "idle"
        BY <1>0, <1>12, <3>3 DEF SetTom
      <4>2. WhileServing'
        BY <1>1, <2>1, <3>1, <4>1 DEF WhileServing, At, Busy
      <4> QED
        BY <1>2, <2>1, <4>1, <4>2, MainAgreed DEF Reading
    <3> QED
      BY <2>3, <3>2, <3>3
  <2> QED
    BY <2>2, <2>3
<1> QED
  BY <1>5, <1>6, <1>7, <1>8, <1>9, <1>10, <1>11, <1>12 DEF Operation

(* csv_xml_check, to begin with. *)
LEMMA CheckKeeps ==
  ASSUME TypeOK, Agreed, Check, Fine'
  PROVE  Agreed'
<1> USE DEF TypeOK, Go, disk, mem, xml, heap, where, bounds, past
<1>0. "main" \in Thread /\ Writer = Thread \ {"main"}
  BY DEF Thread, Writer
<1>1. \A u \in Thread \ {"main"} : pc[u] = "idle"
  BY Zenon DEF Check, Overlaps, Fine, Busy
<1>2. /\ booting = "no" /\ pc["main"] = "idle" /\ pc' = [pc EXCEPT !["main"] = "load"]
      /\ UNCHANGED <<booting, SaveFile, file, wanted>>
  BY DEF Check, Busy
<1>3. /\ pc'["main"] = "load" /\ \A u \in Writer : pc[u] = "idle" /\ pc'[u] = "idle"
  BY <1>0, <1>1, <1>2
<1>4. ~SaveFile /\ file = wanted
  BY <1>0, <1>1, <1>2, <1>3 DEF Agreed, Writing, WhileServing, At
<1>5. WhileServing'
  BY <1>2, <1>3, <1>4 DEF WhileServing, At, Busy
<1> QED
  BY <1>2, <1>3, <1>4, <1>5, MainAgreed DEF Reading

(* An edit that is not hidden gives the file a later time than tom, and    *)
(* than newTom.                                                            *)
LEMMA EditKeeps ==
  ASSUME TypeOK, Times, Agreed, NEW k \in Key, Edit(k), Fine'
  PROVE  Agreed'
<1> USE DEF TypeOK, disk, mem, xml, heap, where, bounds, past
<1>1. /\ clock # mtime /\ booting = "no"
      /\ \A u \in Writer : pc[u] \in {"idle", "free"}
  BY Zenon DEF Edit, Fine
<1>2. mtime' = clock /\ tom < mtime' /\ newTom < mtime'
  <2>1. mtime \in Nat /\ clock \in Nat /\ tom \in Nat /\ newTom \in Nat
    BY XmlAssumption
  <2> QED
    BY <1>1, <2>1 DEF Edit, Times
<1>3. WhileServing /\ ~SaveFile
  BY <1>1 DEF Agreed, Writing, At, Thread, Writer
<1>4. UNCHANGED <<pc, booting, SaveFile, doc, conf, tom, newTom>>
  BY DEF Edit
<1>5. file' = wanted'
  BY <1>3 DEF Edit, WhileServing
<1>6. tom' # mtime' /\ newTom' # mtime'
  BY <1>2, <1>4, XmlAssumption
<1>7. WhileServing'
  BY <1>3, <1>4, <1>5, <1>6 DEF WhileServing, At, Busy
<1> QED
  BY <1>1, <1>3, <1>4, <1>7, MainAgreed DEF Reading

(* A crash that does not lose the file: what the file says is kept, and    *)
(* what thr_grab was about to save is not wanted any more.                 *)
LEMMA RestartKeeps ==
  ASSUME TypeOK, Alone, Agreed, Restart, Fine'
  PROVE  Agreed'
<1> USE DEF TypeOK, disk, mem, xml, heap, where, bounds, past
<1>0. "main" \in Thread /\ Writer = Thread \ {"main"}
  BY DEF Thread, Writer
<1>1. file # Torn /\ UNCHANGED file
  BY Zenon DEF Restart, Fine
<1>2. ASSUME NEW k \in Key
      PROVE  \/ file[k] = wanted[k]
             \/ file[k] = Missing /\ wanted[k] = Default[k]
             \/ k = "group" /\ Busy("grab")
  <2>1. CASE \E t \in Writer : Writing(t)
    <3>1. PICK t \in Writer : Writing(t)
      BY <2>1
    <3>2. WhileWriting(t) /\ Busy(t)
      BY <3>1 DEF Agreed, Writing, At, Busy
    <3>3. k \notin Changed(t) => file[k] = wanted[k]
      BY <1>1, <3>1, <3>2 DEF WhileWriting, Writing, At
    <3> QED
      BY <3>2, <3>3 DEF Changed
  <2>2. CASE (\A t \in Writer : ~Writing(t)) /\ booting = "no"
    BY <2>2 DEF Agreed, WhileServing
  <2>3. CASE booting # "no"
    <3>1. /\ \A u \in Writer : pc[u] = "idle"
          /\ SaveFile => At("main", {"unload"})
      BY <1>0, <2>3, OthersIdle DEF Agreed, Busy, At
    <3>2. CASE Reading
      BY <1>1, <3>2 DEF Agreed, WhileReading, Keeps
    <3>3. CASE ~Reading
      <4>1. WhileBooting
        BY <2>3, <3>3 DEF Agreed
      <4> QED
        BY <1>1, <3>1, <4>1 DEF WhileBooting, Keeps, At
    <3> QED
      BY <3>2, <3>3
  <2> QED
    BY <2>1, <2>2, <2>3
<1>3. Keeps'
  BY <1>1, <1>2 DEF Restart, Keeps
<1>4. /\ booting' = "read" /\ ~SaveFile' /\ conf' = Default
      /\ pc'["main"] = "load" /\ \A u \in Writer : pc'[u] = "idle"
  BY <1>0 DEF Restart
<1>5. Reading' /\ WhileReading' /\ Busy("main")'
  BY <1>1, <1>3, <1>4 DEF Reading, WhileReading, At, Busy, Keeps
<1> QED
  BY <1>4, <1>5, MainAgreed

LEMMA KeptStep ==
  ASSUME KeptInv, [Next]_vars
  PROVE  KeptInv'
<1>1. IInv' /\ Times'
  BY TypeStep, AloneStep, TimesStep DEF KeptInv, IInv
<1>2. ASSUME Fine' PROVE Agreed'
  <2>1. Fine /\ TypeOK /\ Alone /\ Times /\ Agreed
    BY <1>2, FineBefore DEF KeptInv, IInv, Fine
  <2>2. CASE Tick \/ UNCHANGED vars
    BY <2>1, <2>2 DEF Tick, vars, disk, mem, xml, heap, where, past, Agreed, Reading,
       WhileReading, WhileBooting, WhileServing, Writing, WhileWriting, Keeps, At, Busy
  <2>3. ASSUME NEW t \in Thread, Operation(t) PROVE Agreed'
    BY <2>1, <2>3, WriterKeeps, MainKeeps DEF Thread, Writer
  <2> QED
    BY <1>2, <2>1, <2>2, <2>3, ChangeKeeps, MainKeeps, CheckKeeps, EditKeeps, RestartKeeps
    DEF Next
<1> QED
  BY <1>1, <1>2 DEF KeptInv

(* The inductive invariant of csv_xml.c holds in every state. *)
THEOREM Invariance == Spec => []IInv
<1>1. IInv /\ [Next]_vars => IInv'
  BY TypeStep, AloneStep DEF IInv
<1> QED
  BY <1>1, InitIInv, PTL DEF Spec

(* A document is used and freed only while allocated, and none is          *)
(* forgotten, but where operations of two threads overlap.                 *)
THEOREM DocumentSafe == Spec => []DocumentOwned
<1>1. IInv => DocumentOwned
  BY DEF IInv, TypeOK, Alone, DocumentOwned
<1> QED
  BY <1>1, Invariance, PTL

(* What KeptInv says of the configuration, the file and the documents at   *)
(* each step of an operation holds in every state that is not spoiled.     *)
THEOREM Agreement == Spec => []KeptInv
<1>1. Init => KeptInv
  BY InitIInv, InitAgreed DEF KeptInv
<1> QED
  BY <1>1, KeptStep, PTL DEF Spec

(* The configuration and the file of csv_xml.c agree on the last value     *)
(* that a counted series or an edit gave to each key whenever nothing is   *)
(* under way, and the save after a command takes none of them back, for    *)
(* any values, times and numbers of operations, edits and crashes: but for *)
(* overlaps, hidden edits and a crash in the middle of a save.             *)
THEOREM SettingsSafe == Spec => []SettingsKept
<1>1. KeptInv => SettingsKept
  <2> SUFFICES ASSUME KeptInv, Quiet, Fine
               PROVE  conf = wanted /\ file = wanted
    BY DEF SettingsKept, Fine
  <2>1. Agreed /\ booting = "no" /\ tom = mtime /\ \A t \in Thread : pc[t] = "idle"
    BY DEF KeptInv, Quiet, Busy
  <2>2. "main" \in Thread /\ Writer \subseteq Thread
    BY DEF Thread, Writer
  <2>3. WhileServing
    BY <2>1, <2>2 DEF Agreed, Writing, At
  <2> QED
    BY <2>1, <2>2, <2>3 DEF WhileServing, Busy
<1> QED
  BY <1>1, Agreement, PTL
=============================================================================

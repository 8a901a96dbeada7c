------------------------ MODULE PythonArchivesProofs ------------------------
(***************************************************************************)
(* Theorems about PythonArchives, for every set of processes, paths,       *)
(* captures and filters and any number of inodes and objects.              *)
(***************************************************************************)
EXTENDS PythonArchives, SequenceFacts

(* The inductive invariant.  A name leads to an inode of its own.          *)
NamesAreDistinct ==
  \A m, n \in DOMAIN names : names[m] # Absent /\ names[m] = names[n] => m = n

(* A call writes the inode that its .tmp name leads to, which is no other  *)
(* call's; when read_flows is about to open what it wrote, its name leads  *)
(* to that.                                                                *)
CallsHoldTheirInode ==
  /\ \A p \in Proc : call[p] # Absent =>
       IF call[p].stage = "packets"
       THEN names[Tmp(call[p].path)] = call[p].inode
       ELSE /\ call[p].path = TempPath(p)
            /\ names[TempPath(p)] = call[p].inode
            /\ disk[call[p].inode] = Whole(call[p].frames)
  /\ \A p, q \in Proc :
       call[p] # Absent /\ call[q] # Absent /\ call[p].path = call[q].path => p = q

(* No call writes the inode, and none will that finds a .tmp file.         *)
NotWritten(inode) == \A path \in FinalName : names[Tmp(path)] # inode

(* No call writes what an object maps.                                     *)
ObjectsAreSafe ==
  /\ ObjectsKeepTheirCapture
  /\ \A p \in Proc : \A obj \in archives[p] \cup flows[p] : NotWritten(obj.inode)

(* The name create_archive returned leads to what it made. *)
LastIsWhole ==
  \A path \in UserPath :
    IF last[path] = Absent THEN names[path] = Absent
    ELSE names[path] # Absent /\ disk[names[path]] = Whole(last[path])

(* A temporary archive has an Archive that will remove it, or is left      *)
(* over, or is about to be opened.                                         *)
TempHasOwner ==
  \A p \in Proc : names[TempPath(p)] # Absent =>
    \/ TempPath(p) \in left
    \/ \E archive \in archives[p] : archive._temp_file = TempPath(p)
    \/ call[p] # Absent /\ call[p].stage = "open"

MappingInv ==
  TypeOK /\ NamesAreDistinct /\ CallsHoldTheirInode /\ ObjectsAreSafe /\ LastIsWhole

IInv == MappingInv /\ TempHasOwner
-----------------------------------------------------------------------------
(* Which names are different. *)
LEMMA DifferentNames ==
  /\ UserPath \subseteq FinalName
  /\ \A p \in Proc : TempPath(p) \in FinalName /\ TempPath(p) \notin UserPath
  /\ \A p, q \in Proc : TempPath(p) = TempPath(q) => p = q
  /\ \A a, b \in FinalName : Tmp(a) # b /\ (Tmp(a) = Tmp(b) => a = b)
BY NamesAssumption DEF FinalName, TempPath, Tmp

LEMMA NamesType ==
  ASSUME TypeOK
  PROVE  /\ \A path \in FinalName : path \in DOMAIN names /\ Tmp(path) \in DOMAIN names
         /\ \A n \in DOMAIN names :
              names[n] \in Inode \cup {Absent}
              /\ (n \in FinalName \/ \E path \in FinalName : n = Tmp(path))
BY DEF TypeOK

(* What is in use is not freed. *)
LEMMA FreedKeeps ==
  ASSUME NEW contents, disk' = Freed(contents)
  PROVE  \A i \in Inode : i \in InUse' => disk'[i] = contents[i]
BY DEF Freed

(* What names, calls and objects lead to is in use. *)
LEMMA UsedInodes ==
  ASSUME DOMAIN archives = Proc, DOMAIN flows = Proc
  PROVE  /\ \A n \in DOMAIN names : names[n] \in InUse
         /\ \A p \in Proc : \A obj \in archives[p] \cup flows[p] : obj.inode \in InUse
         /\ \A p \in Proc : call[p] # Absent => call[p].inode \in InUse
BY DEF InUse

LEMMA UsedInodesNext ==
  ASSUME TypeOK'
  PROVE  /\ \A n \in DOMAIN names' : names'[n] \in InUse'
         /\ \A p \in Proc : \A obj \in archives'[p] \cup flows'[p] : obj.inode \in InUse'
         /\ \A p \in Proc : call'[p] # Absent => call'[p].inode \in InUse'
BY DEF InUse, TypeOK
-----------------------------------------------------------------------------
(* A step that writes no archive: names may go, calls may end, and new     *)
(* objects map whole inodes that nobody writes.                            *)
QuietStep ==
  /\ DOMAIN names' = DOMAIN names
  /\ \A n \in DOMAIN names : names'[n] \in {names[n], Absent}
  /\ \A path \in FinalName : names'[Tmp(path)] = names[Tmp(path)]
  /\ \A path \in UserPath : names'[path] = names[path]
  /\ \A i \in Inode : i \in InUse' => disk'[i] = disk[i]
  /\ \A p \in Proc :
       call'[p] # Absent => call'[p] = call[p] /\ names'[TempPath(p)] = names[TempPath(p)]
  /\ \A p \in Proc : \A archive \in archives'[p] \ archives[p] :
       disk[archive.inode] = Whole(archive.opened) /\ NotWritten(archive.inode)
  /\ \A p \in Proc : \A flow \in flows'[p] \ flows[p] :
       Packets(disk[flow.inode].frames, flow.id) = flow.packets /\ NotWritten(flow.inode)
  /\ last' = last

LEMMA QuietMappingInv ==
  ASSUME MappingInv, TypeOK', QuietStep
  PROVE  MappingInv'
<1>. USE DEF QuietStep
<1>1. NamesAreDistinct'
  BY DEF MappingInv, NamesAreDistinct
<1>2. ASSUME NEW p \in Proc, call'[p] # Absent
      PROVE  IF call'[p].stage = "packets"
             THEN names'[Tmp(call'[p].path)] = call'[p].inode
             ELSE /\ call'[p].path = TempPath(p)
                  /\ names'[TempPath(p)] = call'[p].inode
                  /\ disk'[call'[p].inode] = Whole(call'[p].frames)
  <2>1. /\ call'[p] = call[p] /\ call[p].inode \in Inode /\ call[p].inode \in InUse'
        /\ call[p].path \in FinalName /\ names'[TempPath(p)] = names[TempPath(p)]
    BY <1>2, UsedInodesNext DEF TypeOK, CallState
  <2>2. disk'[call[p].inode] = disk[call[p].inode]
    BY <2>1
  <2>. QED
    BY <1>2, <2>1, <2>2 DEF MappingInv, CallsHoldTheirInode
<1>3. CallsHoldTheirInode'
  BY <1>2 DEF MappingInv, CallsHoldTheirInode
<1>4. \A p \in Proc : \A obj \in archives'[p] \cup flows'[p] :
        obj.inode \in Inode /\ obj.inode \in InUse' /\ disk'[obj.inode] = disk[obj.inode]
  BY UsedInodesNext DEF TypeOK
<1>5. \A inode : NotWritten(inode) => NotWritten(inode)'
  BY DEF NotWritten
<1>6. ASSUME NEW p \in Proc, NEW archive \in archives'[p]
      PROVE  disk'[archive.inode] = Whole(archive.opened) /\ NotWritten(archive.inode)'
  BY <1>4, <1>5 DEF MappingInv, ObjectsAreSafe, ObjectsKeepTheirCapture
<1>7. ASSUME NEW p \in Proc, NEW flow \in flows'[p]
      PROVE  /\ Packets(disk'[flow.inode].frames, flow.id) = flow.packets
             /\ NotWritten(flow.inode)'
  BY <1>4, <1>5 DEF MappingInv, ObjectsAreSafe, ObjectsKeepTheirCapture
<1>8. ObjectsAreSafe'
  BY <1>6, <1>7 DEF ObjectsAreSafe, ObjectsKeepTheirCapture
<1>9. LastIsWhole'
  <2>. SUFFICES ASSUME NEW path \in UserPath
                PROVE  IF last[path] = Absent THEN names[path] = Absent
                       ELSE names[path] # Absent /\ disk'[names[path]] = Whole(last[path])
    BY DEF LastIsWhole
  <2>1. names[path] # Absent => names[path] \in Inode /\ names[path] \in InUse'
    BY DifferentNames, NamesType, UsedInodesNext DEF MappingInv
  <2>. QED
    BY <2>1 DEF MappingInv, LastIsWhole
<1>. QED
  BY <1>1, <1>3, <1>8, <1>9 DEF MappingInv
-----------------------------------------------------------------------------
(* The inode that create_archive writes: that of the .tmp file it finds,   *)
(* or a new one.                                                           *)
LEMMA CreatedInode ==
  ASSUME Inode \ InUse # {}
  PROVE  (CHOOSE i \in Inode \ InUse : \A j \in Inode \ InUse : i <= j) \in Inode \ InUse
<1>1. \E i \in Inode \ InUse : \A j \in Inode \ InUse : i <= j
  BY LeastNatural, InodeAssumption
<1>. QED
  BY <1>1

LEMMA CreateInv ==
  ASSUME MappingInv, TempHasOwner, NEW p \in Proc, NEW path \in UserPath \cup {TempPath(p)},
         NEW capture \in Capture, NEW filter \in Filters, Create(p, path, capture, filter)
  PROVE  IInv'
<1>. DEFINE inode == IF names[Tmp(path)] # Absent THEN names[Tmp(path)]
                     ELSE CHOOSE i \in Inode \ InUse : \A j \in Inode \ InUse : i <= j
            made  == [path |-> path, inode |-> inode, stage |-> "packets",
                      frames |-> Archived(filter, capture)]
<1>1. /\ call[p] = Absent
      /\ path \in UserPath => ~ \E q \in Proc : call[q] # Absent /\ call[q].path = path
      /\ names' = [names EXCEPT ![Tmp(path)] = inode]
      /\ disk' = [disk EXCEPT ![inode] = Empty]
      /\ call' = [call EXCEPT ![p] = made]
      /\ UNCHANGED <<archives, flows, left, last>>
  BY DifferentNames DEF Create
<1>2. path \in FinalName
  BY DifferentNames
<1>3. /\ inode \in Inode
      /\ names[Tmp(path)] = inode \/ inode \notin InUse
  <2>1. CASE names[Tmp(path)] # Absent
    BY <1>2, <2>1, NamesType DEF MappingInv
  <2>2. CASE names[Tmp(path)] = Absent
    BY <2>2, CreatedInode DEF Create
  <2>. QED
    BY <2>1, <2>2
<1>. HIDE DEF inode
<1>4. made \in CallState /\ made # Absent
  BY <1>2, <1>3, AbsentAssumption DEF CallState, Frames
<1>5. inode # Absent
  BY <1>3, AbsentAssumption
<1>6. TypeOK'
  BY <1>1, <1>2, <1>3, <1>4 DEF MappingInv, TypeOK
<1>7. \A n \in DOMAIN names : names[n] = inode => n = Tmp(path)
  BY <1>2, <1>3, <1>5, NamesType, UsedInodes DEF MappingInv, NamesAreDistinct, TypeOK
<1>8. /\ DOMAIN names' = DOMAIN names /\ names'[Tmp(path)] = inode
      /\ \A n \in DOMAIN names : n # Tmp(path) => names'[n] = names[n]
  BY <1>1, <1>2, NamesType DEF MappingInv
<1>9. \A i \in Inode : i # inode => disk'[i] = disk[i]
  BY <1>1
<1>10. NamesAreDistinct'
  BY <1>7, <1>8 DEF MappingInv, NamesAreDistinct
<1>11. \A q \in Proc : call[q] # Absent => call[q].path # path
  <2>1. CASE path \in UserPath
    BY <1>1, <2>1
  <2>2. CASE path = TempPath(p)
    BY <1>1, <2>2, DifferentNames DEF MappingInv, TypeOK
  <2>. QED
    BY <2>1, <2>2
<1>12. /\ DOMAIN call = Proc /\ call'[p] = made
       /\ \A q \in Proc : q # p => call'[q] = call[q]
  BY <1>1 DEF MappingInv, TypeOK
<1>13. \A q \in Proc : call[q] # Absent => call[q].path \in FinalName /\ call[q].inode \in Inode
  BY DEF MappingInv, TypeOK, CallState
<1>14. CallsHoldTheirInode'
  <2>1. ASSUME NEW q \in Proc, call'[q] # Absent
        PROVE  IF call'[q].stage = "packets"
               THEN names'[Tmp(call'[q].path)] = call'[q].inode
               ELSE /\ call'[q].path = TempPath(q)
                    /\ names'[TempPath(q)] = call'[q].inode
                    /\ disk'[call'[q].inode] = Whole(call'[q].frames)
    <3>1. CASE q = p
      BY <1>8, <1>12, <3>1
    <3>2. CASE q # p
      <4>1. call'[q] = call[q] /\ call[q] # Absent /\ call[q].path # path
        BY <1>11, <1>12, <2>1, <3>2
      <4>2. CASE call[q].stage = "packets"
        <5>1. Tmp(call[q].path) # Tmp(path) /\ Tmp(call[q].path) \in DOMAIN names
          BY <1>2, <1>13, <4>1, DifferentNames, NamesType DEF MappingInv
        <5>. QED
          BY <1>8, <4>1, <4>2, <5>1 DEF MappingInv, CallsHoldTheirInode
      <4>3. CASE call[q].stage # "packets"
        <5>1. /\ call[q].path = TempPath(q) /\ names[TempPath(q)] = call[q].inode
              /\ disk[call[q].inode] = Whole(call[q].frames)
          BY <4>1, <4>3 DEF MappingInv, CallsHoldTheirInode
        <5>2. TempPath(q) # Tmp(path) /\ TempPath(q) \in DOMAIN names
          BY <1>2, DifferentNames, NamesType DEF MappingInv
        <5>3. call[q].inode # inode
          BY <1>7, <5>1, <5>2
        <5>. QED
          BY <1>8, <1>9, <1>13, <4>1, <4>3, <5>1, <5>2, <5>3
      <4>. QED
        BY <4>2, <4>3
    <3>. QED
      BY <3>1, <3>2
  <2>2. ASSUME NEW q \in Proc, NEW r \in Proc, call'[q] # Absent, call'[r] # Absent,
               call'[q].path = call'[r].path
        PROVE  q = r
    BY <1>11, <1>12, <2>2 DEF MappingInv, CallsHoldTheirInode
  <2>. QED
    BY <2>1, <2>2 DEF CallsHoldTheirInode
<1>15. ASSUME NEW q \in Proc, NEW obj \in archives[q] \cup flows[q]
       PROVE  obj.inode \in Inode /\ obj.inode # inode /\ NotWritten(obj.inode)'
  <2>1. obj.inode \in Inode /\ obj.inode \in InUse /\ NotWritten(obj.inode)
    BY UsedInodes DEF MappingInv, ObjectsAreSafe, TypeOK
  <2>2. obj.inode # inode
    BY <1>2, <1>3, <2>1 DEF NotWritten
  <2>3. NotWritten(obj.inode)'
    <3>. SUFFICES ASSUME NEW other \in FinalName
                  PROVE  names'[Tmp(other)] # obj.inode
      BY DEF NotWritten
    <3>. QED
      BY <1>2, <1>8, <2>1, <2>2, NamesType DEF MappingInv, NotWritten
  <2>. QED
    BY <2>1, <2>2, <2>3
<1>16. ObjectsAreSafe'
  BY <1>1, <1>9, <1>15 DEF MappingInv, ObjectsAreSafe, ObjectsKeepTheirCapture
<1>17. LastIsWhole'
  <2>. SUFFICES ASSUME NEW up \in UserPath
                PROVE  IF last[up] = Absent THEN names'[up] = Absent
                       ELSE names'[up] # Absent /\ disk'[names'[up]] = Whole(last[up])
    BY <1>1 DEF LastIsWhole
  <2>1. up \in DOMAIN names /\ up # Tmp(path) /\ names'[up] = names[up]
    BY <1>2, <1>8, DifferentNames, NamesType DEF MappingInv
  <2>2. names[up] # Absent => names[up] \in Inode /\ names[up] # inode
    BY <1>7, <2>1, NamesType DEF MappingInv
  <2>. QED
    BY <1>9, <2>1, <2>2 DEF MappingInv, LastIsWhole
<1>18. TempHasOwner'
  <2>. SUFFICES ASSUME NEW q \in Proc, names'[TempPath(q)] # Absent
                PROVE  \/ TempPath(q) \in left
                       \/ \E archive \in archives[q] : archive._temp_file = TempPath(q)
                       \/ call'[q] # Absent /\ call'[q].stage = "open"
    BY <1>1 DEF TempHasOwner
  <2>1. names'[TempPath(q)] = names[TempPath(q)]
    BY <1>2, <1>8, DifferentNames, NamesType DEF MappingInv
  <2>. QED
    BY <1>1, <1>12, <2>1 DEF TempHasOwner
<1>. QED
  BY <1>6, <1>10, <1>14, <1>16, <1>17, <1>18 DEF IInv, MappingInv
-----------------------------------------------------------------------------
(* The archive takes its name, from the .tmp name and from the archive     *)
(* that had it before; what objects map stays.                             *)
LEMMA FinalizeInv ==
  ASSUME IInv, NEW p \in Proc, Finalize(p)
  PROVE  IInv'
<1>. DEFINE path   == call[p].path
            inode  == call[p].inode
            frames == call[p].frames
            D      == [disk EXCEPT ![inode] = Whole(frames)]
<1>. USE DEF IInv, MappingInv
<1>1. /\ call[p] # Absent /\ call[p].stage = "packets"
      /\ names' = [names EXCEPT ![path] = inode, ![Tmp(path)] = Absent]
      /\ last' = IF path \in UserPath THEN [last EXCEPT ![path] = frames] ELSE last
      /\ call' = [call EXCEPT ![p] = IF path \in UserPath THEN Absent
                                     ELSE [call[p] EXCEPT !.stage = "open"]]
      /\ archives' = archives /\ flows' = flows
      /\ disk' = Freed(D)
      /\ left' = left \ {path}
  BY DEF Finalize
<1>2. /\ call[p] \in CallState /\ path \in FinalName /\ inode \in Inode /\ frames \in Frames
      /\ path \in UserPath \cup {TempPath(p)}
      /\ frames # Absent /\ inode # Absent
  BY <1>1, AbsentAssumption DEF TypeOK, CallState
<1>3. names[Tmp(path)] = inode
  BY <1>1 DEF CallsHoldTheirInode
<1>4. /\ DOMAIN names' = DOMAIN names
      /\ path \in DOMAIN names /\ Tmp(path) \in DOMAIN names /\ path # Tmp(path)
      /\ names'[path] = inode /\ names'[Tmp(path)] = Absent
      /\ \A n \in DOMAIN names : n # path /\ n # Tmp(path) => names'[n] = names[n]
  BY <1>1, <1>2, DifferentNames, NamesType
<1>5. \A n \in DOMAIN names : names[n] = inode => n = Tmp(path)
  BY <1>2, <1>3, <1>4 DEF NamesAreDistinct
<1>6. /\ DOMAIN call = Proc
      /\ call'[p] = IF path \in UserPath THEN Absent ELSE [call[p] EXCEPT !.stage = "open"]
      /\ \A q \in Proc : q # p => call'[q] = call[q]
  BY <1>1 DEF TypeOK
<1>. HIDE DEF inode, path, frames
<1>7. path \notin UserPath =>
        /\ call'[p] # Absent /\ call'[p] \in CallState
        /\ call'[p].stage = "open" /\ call'[p].path = path
        /\ call'[p].inode = inode /\ call'[p].frames = frames
  <2>. SUFFICES ASSUME path \notin UserPath
                PROVE  [call[p] EXCEPT !.stage = "open"] \in CallState
    BY <1>6, AbsentAssumption DEF CallState, path, inode, frames
  <2>. QED
    BY <1>2 DEF CallState
<1>8. TypeOK'
  <2>1. names' \in [FinalName \cup {Tmp(n) : n \in FinalName} -> Inode \cup {Absent}]
    BY <1>1, <1>2 DEF TypeOK
  <2>2. DOMAIN disk' = Inode
    BY <1>1 DEF Freed
  <2>3. /\ call' \in [Proc -> CallState \cup {Absent}]
        /\ \A q \in Proc : call'[q] # Absent => call'[q].path \in UserPath \cup {TempPath(q)}
    <3>1. \A q \in Proc : call'[q] \in CallState \cup {Absent}
      BY <1>6, <1>7 DEF TypeOK
    <3>2. DOMAIN call' = Proc /\ call' = [q \in DOMAIN call |-> call'[q]]
      BY <1>1 DEF TypeOK
    <3>. QED
      BY <1>2, <1>6, <1>7, <3>1, <3>2 DEF TypeOK
  <2>4. last' \in [UserPath -> Frames \cup {Absent}]
    BY <1>1, <1>2 DEF TypeOK
  <2>. QED
    BY <1>1, <2>1, <2>2, <2>3, <2>4 DEF TypeOK
<1>9. \A i \in Inode : i \in InUse' => disk'[i] = D[i]
  <2>. HIDE DEF D
  <2>. QED
    BY <1>1, FreedKeeps
<1>10. /\ disk'[inode] = Whole(frames)
       /\ \A i \in Inode : i \in InUse' /\ i # inode => disk'[i] = disk[i]
  <2>1. inode \in InUse'
    BY <1>4, <1>8, UsedInodesNext
  <2>2. D[inode] = Whole(frames) /\ \A i \in Inode : i # inode => D[i] = disk[i]
    BY <1>2 DEF TypeOK
  <2>. QED
    BY <1>2, <1>9, <2>1, <2>2
<1>. HIDE DEF D
<1>11. NamesAreDistinct'
  BY <1>4, <1>5 DEF NamesAreDistinct
<1>12. \A q \in Proc : q # p /\ call[q] # Absent =>
         call[q].path # path /\ call[q].path \in FinalName /\ call[q].inode \in Inode
  BY <1>1 DEF TypeOK, CallState, CallsHoldTheirInode, path
<1>13. CallsHoldTheirInode'
  <2>1. ASSUME NEW q \in Proc, call'[q] # Absent
        PROVE  IF call'[q].stage = "packets"
               THEN names'[Tmp(call'[q].path)] = call'[q].inode
               ELSE /\ call'[q].path = TempPath(q)
                    /\ names'[TempPath(q)] = call'[q].inode
                    /\ disk'[call'[q].inode] = Whole(call'[q].frames)
    <3>1. CASE q = p
      BY <1>2, <1>4, <1>6, <1>7, <1>10, <2>1, <3>1
    <3>2. CASE q # p
      <4>1. call'[q] = call[q] /\ call[q] # Absent
        BY <1>6, <2>1, <3>2
      <4>2. CASE call[q].stage = "packets"
        <5>1. /\ Tmp(call[q].path) # Tmp(path) /\ Tmp(call[q].path) # path
              /\ Tmp(call[q].path) \in DOMAIN names
          BY <1>2, <1>12, <3>2, <4>1, DifferentNames, NamesType
        <5>. QED
          BY <1>4, <4>1, <4>2, <5>1 DEF CallsHoldTheirInode
      <4>3. CASE call[q].stage # "packets"
        <5>1. /\ call[q].path = TempPath(q) /\ names[TempPath(q)] = call[q].inode
              /\ disk[call[q].inode] = Whole(call[q].frames)
          BY <4>1, <4>3 DEF CallsHoldTheirInode
        <5>2. TempPath(q) # Tmp(path) /\ TempPath(q) # path /\ TempPath(q) \in DOMAIN names
          BY <1>2, <1>12, <3>2, <4>1, <5>1, DifferentNames, NamesType
        <5>3. call[q].inode # inode /\ names'[TempPath(q)] = names[TempPath(q)]
          BY <1>4, <1>5, <5>1, <5>2
        <5>4. call[q].inode \in Inode /\ call[q].inode \in InUse'
          BY <1>8, <1>12, <3>2, <4>1, UsedInodesNext
        <5>. QED
          BY <1>10, <4>1, <4>3, <5>1, <5>3, <5>4
      <4>. QED
        BY <4>2, <4>3
    <3>. QED
      BY <3>1, <3>2
  <2>2. ASSUME NEW q \in Proc, NEW r \in Proc, call'[q] # Absent, call'[r] # Absent,
               call'[q].path = call'[r].path
        PROVE  q = r
    <3>1. \A s \in Proc : call'[s] # Absent => call[s] # Absent /\ call'[s].path = call[s].path
      BY <1>1, <1>6, <1>7 DEF path
    <3>. QED
      BY <2>2, <3>1 DEF CallsHoldTheirInode
  <2>. QED
    BY <2>1, <2>2 DEF CallsHoldTheirInode
<1>14. ASSUME NEW q \in Proc, NEW obj \in archives[q] \cup flows[q]
       PROVE  disk'[obj.inode] = disk[obj.inode] /\ NotWritten(obj.inode)'
  <2>1. obj.inode \in Inode /\ NotWritten(obj.inode) /\ obj.inode \in InUse'
    BY <1>1, <1>8, UsedInodesNext DEF ObjectsAreSafe, TypeOK
  <2>2. obj.inode # inode /\ obj.inode # Absent
    BY <1>2, <1>3, <2>1, AbsentAssumption DEF NotWritten
  <2>3. NotWritten(obj.inode)'
    <3>. SUFFICES ASSUME NEW other \in FinalName
                  PROVE  names'[Tmp(other)] # obj.inode
      BY DEF NotWritten
    <3>1. Tmp(other) \in DOMAIN names /\ Tmp(other) # path
      BY <1>2, DifferentNames, NamesType
    <3>. QED
      BY <1>4, <2>1, <2>2, <3>1 DEF NotWritten
  <2>. QED
    BY <1>10, <2>1, <2>2, <2>3
<1>15. ObjectsAreSafe'
  BY <1>1, <1>14 DEF ObjectsAreSafe, ObjectsKeepTheirCapture
<1>16. LastIsWhole'
  <2>. SUFFICES ASSUME NEW up \in UserPath
                PROVE  IF last'[up] = Absent THEN names'[up] = Absent
                       ELSE names'[up] # Absent /\ disk'[names'[up]] = Whole(last'[up])
    BY DEF LastIsWhole
  <2>1. CASE up = path
    BY <1>1, <1>2, <1>4, <1>10, <2>1 DEF TypeOK
  <2>2. CASE up # path
    <3>1. /\ up \in DOMAIN names /\ up # Tmp(path) /\ names'[up] = names[up]
          /\ last'[up] = last[up]
      BY <1>1, <1>2, <1>4, <2>2, DifferentNames, NamesType DEF TypeOK
    <3>2. names[up] # Absent =>
            names[up] \in Inode /\ names[up] # inode /\ names[up] \in InUse'
      BY <1>4, <1>5, <1>8, <3>1, NamesType, UsedInodesNext
    <3>. QED
      BY <1>10, <3>1, <3>2 DEF LastIsWhole
  <2>. QED
    BY <2>1, <2>2
<1>17. TempHasOwner'
  <2>. SUFFICES ASSUME NEW q \in Proc, names'[TempPath(q)] # Absent
                PROVE  \/ TempPath(q) \in left'
                       \/ \E archive \in archives[q] : archive._temp_file = TempPath(q)
                       \/ call'[q] # Absent /\ call'[q].stage = "open"
    BY <1>1 DEF TempHasOwner
  <2>1. CASE path = TempPath(q)
    <3>1. q = p /\ path \notin UserPath
      BY <1>2, <2>1, DifferentNames
    <3>. QED
      BY <1>7, <3>1
  <2>2. CASE path # TempPath(q)
    <3>1. names'[TempPath(q)] = names[TempPath(q)]
      BY <1>2, <1>4, <2>2, DifferentNames, NamesType
    <3>. QED
      BY <1>1, <1>6, <2>2, <3>1 DEF TempHasOwner
  <2>. QED
    BY <2>1, <2>2
<1>. QED
  BY <1>8, <1>11, <1>13, <1>15, <1>16, <1>17
-----------------------------------------------------------------------------
(* The quiet actions.  The archive that is opened has the name of its      *)
(* process; no .tmp name leads to it.                                      *)
LEMMA ReadFlowsOpensInv ==
  ASSUME IInv, NEW p \in Proc, ReadFlowsOpens(p)
  PROVE  IInv'
<1>. DEFINE new == Archive(names[call[p].path], call[p].path, call[p].frames)
<1>1. /\ call[p] # Absent /\ call[p].stage = "open"
      /\ archives' = [archives EXCEPT ![p] = @ \cup {new}]
      /\ call' = [call EXCEPT ![p] = Absent]
      /\ UNCHANGED <<names, disk, flows, left, last>>
  BY DEF ReadFlowsOpens
<1>2. /\ call[p].path = TempPath(p) /\ names[TempPath(p)] = call[p].inode
      /\ call[p].inode \in Inode /\ call[p].inode # Absent
      /\ disk[call[p].inode] = Whole(call[p].frames)
  BY <1>1, AbsentAssumption
     DEF IInv, MappingInv, CallsHoldTheirInode, TypeOK, CallState
<1>3. /\ new.inode = call[p].inode /\ new._temp_file = TempPath(p)
      /\ new.opened = call[p].frames
  BY <1>2 DEF Archive
<1>4. NotWritten(call[p].inode)
  BY <1>2, DifferentNames, NamesType
     DEF NotWritten, IInv, MappingInv, NamesAreDistinct
<1>. HIDE DEF new
<1>5. TypeOK'
  <2>1. \A q \in Proc : \A archive \in archives'[q] :
          archive.inode \in Inode /\ archive._temp_file \in {TempPath(q), Absent}
    BY <1>1, <1>2, <1>3 DEF IInv, MappingInv, TypeOK
  <2>. QED
    BY <1>1, <2>1 DEF IInv, MappingInv, TypeOK
<1>6. QuietStep
  BY <1>1, <1>2, <1>3, <1>4 DEF QuietStep, IInv, MappingInv, TypeOK
<1>7. TempHasOwner'
  <2>. SUFFICES ASSUME NEW q \in Proc, names[TempPath(q)] # Absent
                PROVE  \/ TempPath(q) \in left
                       \/ \E archive \in archives'[q] : archive._temp_file = TempPath(q)
                       \/ call'[q] # Absent /\ call'[q].stage = "open"
    BY <1>1 DEF TempHasOwner
  <2>1. CASE q = p
    BY <1>1, <1>3, <2>1 DEF IInv, MappingInv, TypeOK
  <2>2. CASE q # p
    BY <1>1, <2>2 DEF IInv, TempHasOwner
  <2>. QED
    BY <2>1, <2>2
<1>. QED
  BY <1>5, <1>6, <1>7, QuietMappingInv DEF IInv

LEMMA FailsInv ==
  ASSUME IInv, NEW p \in Proc, Fails(p)
  PROVE  IInv'
<1>. USE DEF IInv, MappingInv
<1>1. /\ call[p] # Absent
      /\ left' = IF call[p].stage = "open" THEN left \cup {call[p].path} ELSE left
      /\ call' = [call EXCEPT ![p] = Absent]
      /\ UNCHANGED <<names, disk, archives, flows, last>>
  BY DEF Fails
<1>2. call[p].stage = "open" => call[p].path = TempPath(p)
  BY <1>1 DEF CallsHoldTheirInode
<1>3. TypeOK'
  BY <1>1, <1>2 DEF TypeOK, TempPath
<1>4. QuietStep
  BY <1>1 DEF QuietStep, TypeOK
<1>5. TempHasOwner'
  BY <1>1, <1>2 DEF TypeOK, TempHasOwner
<1>. QED
  BY <1>3, <1>4, <1>5, QuietMappingInv

LEMMA OpenArchiveInv ==
  ASSUME IInv, NEW p \in Proc, NEW path \in UserPath, OpenArchive(p, path)
  PROVE  IInv'
<1>. DEFINE new == Archive(names[path], Absent, last[path])
<1>. USE DEF IInv, MappingInv
<1>1. /\ names[path] # Absent
      /\ archives' = [archives EXCEPT ![p] = @ \cup {new}]
      /\ UNCHANGED <<names, disk, call, flows, left, last>>
  BY DEF OpenArchive
<1>2. /\ new.inode = names[path] /\ new._temp_file = Absent /\ new.opened = last[path]
      /\ names[path] \in Inode
  BY <1>1, DifferentNames, NamesType DEF Archive
<1>3. disk[names[path]] = Whole(last[path]) /\ NotWritten(names[path])
  BY <1>1, DifferentNames, NamesType DEF NotWritten, NamesAreDistinct, LastIsWhole
<1>. HIDE DEF new
<1>4. TypeOK'
  <2>1. \A q \in Proc : \A archive \in archives'[q] :
          archive.inode \in Inode /\ archive._temp_file \in {TempPath(q), Absent}
    BY <1>1, <1>2 DEF TypeOK
  <2>. QED
    BY <1>1, <2>1 DEF TypeOK
<1>5. QuietStep
  BY <1>1, <1>2, <1>3 DEF QuietStep, TypeOK
<1>6. TempHasOwner'
  BY <1>1 DEF TypeOK, TempHasOwner
<1>. QED
  BY <1>4, <1>5, <1>6, QuietMappingInv

(* A Flow holds the mapping of the Archive it was found in. *)
LEMMA TakeFlowInv ==
  ASSUME IInv, NEW p \in Proc, NEW archive \in archives[p], TakeFlow(p, archive)
  PROVE  IInv'
<1>. USE DEF IInv, MappingInv
<1>1. PICK id :
        flows' = [flows EXCEPT ![p] = @ \cup
          {[inode |-> archive.inode, id |-> id, packets |-> Packets(archive.opened, id)]}]
  BY DEF TakeFlow
<1>2. UNCHANGED <<names, disk, call, archives, left, last>>
  BY DEF TakeFlow
<1>3. /\ archive.inode \in Inode /\ NotWritten(archive.inode)
      /\ disk[archive.inode].frames = archive.opened
  <2>1. disk[archive.inode] = Whole(archive.opened)
    BY DEF ObjectsAreSafe, ObjectsKeepTheirCapture
  <2>2. archive.inode \in Inode /\ NotWritten(archive.inode)
    BY DEF TypeOK, ObjectsAreSafe
  <2>. QED
    BY <2>1, <2>2 DEF Whole
<1>4. TypeOK'
  <2>1. \A q \in Proc : \A flow \in flows'[q] : flow.inode \in Inode
    BY <1>1, <1>3 DEF TypeOK
  <2>. QED
    BY <1>1, <1>2, <2>1 DEF TypeOK
<1>5. QuietStep
  BY <1>1, <1>2, <1>3 DEF QuietStep, TypeOK
<1>6. TempHasOwner'
  BY <1>2 DEF TempHasOwner
<1>. QED
  BY <1>4, <1>5, <1>6, QuietMappingInv

LEMMA DropArchiveInv ==
  ASSUME IInv, NEW p \in Proc, NEW archive \in archives[p], DropArchive(p, archive)
  PROVE  IInv'
<1>. USE DEF IInv, MappingInv
<1>1. /\ call[p] = Absent
      /\ archives' = [archives EXCEPT ![p] = @ \ {archive}]
      /\ IF archive._temp_file = Absent THEN UNCHANGED <<names, left>>
         ELSE /\ names' = [names EXCEPT ![archive._temp_file] = Absent]
              /\ left' = left \ {archive._temp_file}
      /\ UNCHANGED <<call, flows, last>>
      /\ disk' = Freed(disk)
  BY DEF DropArchive
<1>2. archive._temp_file \in {TempPath(p), Absent} /\ \A q \in Proc : TempPath(q) # Absent
  BY AbsentAssumption DEF TypeOK, TempPath
<1>3. TypeOK'
  BY <1>1 DEF TypeOK, Freed
<1>4. QuietStep
  <2>1. \A i \in Inode : i \in InUse' => disk'[i] = disk[i]
    BY <1>1, FreedKeeps
  <2>2. \A n \in DOMAIN names :
          names'[n] = IF archive._temp_file # Absent /\ n = TempPath(p)
                      THEN Absent ELSE names[n]
    BY <1>1, <1>2, DifferentNames, NamesType
  <2>3. \A q \in Proc : call'[q] # Absent =>
          call'[q] = call[q] /\ names'[TempPath(q)] = names[TempPath(q)]
    BY <1>1, <1>2, <2>2, DifferentNames, NamesType
  <2>4. /\ \A path \in FinalName : names'[Tmp(path)] = names[Tmp(path)]
        /\ \A path \in UserPath : names'[path] = names[path]
    BY <1>2, <2>2, DifferentNames, NamesType, AbsentAssumption
  <2>5. DOMAIN names' = DOMAIN names
    BY <1>1
  <2>6. archives'[p] \subseteq archives[p] /\ \A q \in Proc : q # p => archives'[q] = archives[q]
    BY <1>1 DEF TypeOK
  <2>. QED
    BY <1>1, <2>1, <2>2, <2>3, <2>4, <2>5, <2>6 DEF QuietStep
<1>5. TempHasOwner'
  <2>. SUFFICES ASSUME NEW q \in Proc, names'[TempPath(q)] # Absent
                PROVE  \/ TempPath(q) \in left'
                       \/ \E a \in archives'[q] : a._temp_file = TempPath(q)
                       \/ call[q] # Absent /\ call[q].stage = "open"
    BY <1>1 DEF TempHasOwner
  <2>1. CASE archive._temp_file = Absent
    BY <1>1, <1>2, <2>1 DEF TempHasOwner, TypeOK
  <2>2. CASE archive._temp_file = TempPath(p)
    <3>1. q # p
      BY <1>1, <1>2, <2>2, DifferentNames, NamesType
    <3>. QED
      BY <1>1, <1>2, <2>2, <3>1, DifferentNames, NamesType DEF TempHasOwner, TypeOK
  <2>. QED
    BY <1>2, <2>1, <2>2
<1>. QED
  BY <1>3, <1>4, <1>5, QuietMappingInv

LEMMA DropFlowInv ==
  ASSUME IInv, NEW p \in Proc, NEW flow \in flows[p], DropFlow(p, flow)
  PROVE  IInv'
<1>. USE DEF IInv, MappingInv
<1>1. /\ flows' = [flows EXCEPT ![p] = @ \ {flow}]
      /\ UNCHANGED <<names, call, archives, left, last>>
      /\ disk' = Freed(disk)
  BY DEF DropFlow
<1>2. TypeOK'
  BY <1>1 DEF TypeOK, Freed
<1>3. QuietStep
  <2>1. \A i \in Inode : i \in InUse' => disk'[i] = disk[i]
    BY <1>1, FreedKeeps
  <2>. QED
    BY <1>1, <2>1 DEF QuietStep, TypeOK
<1>4. TempHasOwner'
  BY <1>1 DEF TempHasOwner
<1>. QED
  BY <1>2, <1>3, <1>4, QuietMappingInv

LEMMA KilledInv ==
  ASSUME IInv, NEW p \in Proc, Killed(p)
  PROVE  IInv'
<1>. USE DEF IInv, MappingInv
<1>1. /\ call' = [call EXCEPT ![p] = Absent]
      /\ archives' = [archives EXCEPT ![p] = {}] /\ flows' = [flows EXCEPT ![p] = {}]
      /\ left' = left \cup ({TempPath(p)} \cap {path \in FinalName : names[path] # Absent})
      /\ UNCHANGED <<names, last>>
      /\ disk' = Freed(disk)
  BY DEF Killed
<1>2. TypeOK'
  BY <1>1 DEF TypeOK, Freed, TempPath
<1>3. QuietStep
  <2>1. \A i \in Inode : i \in InUse' => disk'[i] = disk[i]
    BY <1>1, FreedKeeps
  <2>. QED
    BY <1>1, <2>1 DEF QuietStep, TypeOK
<1>4. TempHasOwner'
  BY <1>1, DifferentNames DEF TempHasOwner, TypeOK
<1>. QED
  BY <1>2, <1>3, <1>4, QuietMappingInv
-----------------------------------------------------------------------------
LEMMA InitIInv == Init => IInv
<1>. SUFFICES ASSUME Init PROVE IInv
  OBVIOUS
<1>. USE DEF Init
<1>1. \A n \in DOMAIN names : names[n] = Absent
  OBVIOUS
<1>2. TypeOK
  BY DEF TypeOK
<1>3. NamesAreDistinct /\ TempHasOwner /\ LastIsWhole
  BY <1>1, <1>2, DifferentNames, NamesType DEF NamesAreDistinct, TempHasOwner, LastIsWhole
<1>4. CallsHoldTheirInode /\ ObjectsAreSafe
  BY DEF CallsHoldTheirInode, ObjectsAreSafe, ObjectsKeepTheirCapture
<1>. QED
  BY <1>2, <1>3, <1>4 DEF IInv, MappingInv

LEMMA NextIInv == IInv /\ [Next]_vars => IInv'
<1>. SUFFICES ASSUME IInv, [Next]_vars PROVE IInv'
  OBVIOUS
<1>1. CASE UNCHANGED vars
  BY <1>1 DEF vars, IInv, MappingInv, TypeOK, NamesAreDistinct, CallsHoldTheirInode,
              ObjectsAreSafe, ObjectsKeepTheirCapture, NotWritten, LastIsWhole, TempHasOwner
<1>2. CASE Next
  <2>1. PICK p \in Proc :
          \/ CreateArchive(p) \/ ReadFlows(p) \/ ReadFlowsOpens(p)
          \/ Finalize(p) \/ Fails(p) \/ Killed(p)
          \/ \E path \in UserPath : OpenArchive(p, path)
          \/ \E archive \in archives[p] : TakeFlow(p, archive) \/ DropArchive(p, archive)
          \/ \E flow \in flows[p] : DropFlow(p, flow)
    BY <1>2 DEF Next
  <2>2. CASE CreateArchive(p)
    BY <2>2, CreateInv DEF CreateArchive, IInv
  <2>3. CASE ReadFlows(p)
    BY <2>3, CreateInv DEF ReadFlows, IInv
  <2>4. CASE ReadFlowsOpens(p)
    BY <2>4, ReadFlowsOpensInv
  <2>5. CASE Finalize(p)
    BY <2>5, FinalizeInv
  <2>6. CASE Fails(p)
    BY <2>6, FailsInv
  <2>7. CASE Killed(p)
    BY <2>7, KilledInv
  <2>8. CASE \E path \in UserPath : OpenArchive(p, path)
    BY <2>8, OpenArchiveInv
  <2>9. CASE \E archive \in archives[p] : TakeFlow(p, archive) \/ DropArchive(p, archive)
    BY <2>9, TakeFlowInv, DropArchiveInv
  <2>10. CASE \E flow \in flows[p] : DropFlow(p, flow)
    BY <2>10, DropFlowInv
  <2>. QED
    BY <2>1, <2>2, <2>3, <2>4, <2>5, <2>6, <2>7, <2>8, <2>9, <2>10
<1>. QED
  BY <1>1, <1>2

THEOREM PythonInvariant == Spec => []IInv
BY InitIInv, NextIInv, PTL DEF Spec

(* Names lead to inodes, and calls and objects have theirs.                *)
THEOREM PythonTypeOK == Spec => []TypeOK
<1>1. IInv => TypeOK
  BY DEF IInv, MappingInv
<1>. QED
  BY <1>1, PythonInvariant, PTL

(* Archives and Flows keep what they were made from, whatever happens to   *)
(* the files: no call writes an inode that an object maps.                 *)
THEOREM ObjectsKeepTheirCaptureAlways == Spec => []ObjectsKeepTheirCapture
<1>1. IInv => ObjectsKeepTheirCapture
  BY DEF IInv, MappingInv, ObjectsAreSafe
<1>. QED
  BY <1>1, PythonInvariant, PTL

(* Outside of a call the temporary archive of a process has an Archive     *)
(* that will remove it, or a call failed or a process died in between.     *)
THEOREM TempFileIsCleanedUpAlways == Spec => []TempFileIsCleanedUp
<1>1. IInv => TempFileIsCleanedUp
  BY DEF IInv, TempHasOwner, TempFileIsCleanedUp
<1>. QED
  BY <1>1, PythonInvariant, PTL

(* Under its path lies the whole archive of the last create_archive.       *)
THEOREM OpensTheLastArchiveAlways == Spec => []OpensTheLastArchive
<1>1. ASSUME IInv, NEW path \in UserPath
      PROVE  IF last[path] = Absent THEN names[path] = Absent
             ELSE /\ names[path] # Absent
                  /\ disk[names[path]].whole
                  /\ disk[names[path]].frames = last[path]
  <2>1. IF last[path] = Absent THEN names[path] = Absent
        ELSE names[path] # Absent /\ disk[names[path]] = Whole(last[path])
    BY <1>1 DEF IInv, MappingInv, LastIsWhole
  <2>2. \A frames : Whole(frames).whole /\ Whole(frames).frames = frames
    BY DEF Whole
  <2>. QED
    BY <2>1, <2>2, Zenon
<1>2. \A inode, frames :
        disk[inode].frames = frames =>
          PipeArchive(inode) = [id \in All(frames) |-> Packets(frames, id)]
  BY Zenon DEF PipeArchive
<1>3. IInv => OpensTheLastArchive
  BY <1>1, <1>2 DEF OpensTheLastArchive
<1>. QED
  BY <1>3, PythonInvariant, PTL
=============================================================================

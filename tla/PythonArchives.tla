---------------------------- MODULE PythonArchives ----------------------------
(***************************************************************************)
(* The Python bindings (python/mod.rs): several processes that create and  *)
(* open archives and keep Archive and Flow objects of them.  A file name   *)
(* leads to an inode, and an object maps the inode it opened, whatever     *)
(* becomes of the name.  read_flows makes an archive of its own under a    *)
(* name made of the process id, which goes when its Archive is dropped.    *)
(*                                                                         *)
(* What is in an archive is the sequence of its frames, each with the key  *)
(* it was written under; ArchiveWriter and ArchiveFormat are about the     *)
(* bytes.  A call holds the interpreter lock to its end: calls and drops   *)
(* of one process never overlap, those of different processes do.          *)
(***************************************************************************)
EXTENDS Integers, FiniteSets, SequencesExt

CONSTANTS
  Proc,            \* the processes; one that is killed may come back
  UserPath,        \* the output paths of create_archive
  Capture,         \* the capture files, sequences of packets
  Filters,         \* the ip_filters and port_filters of the calls
  Passes(_, _),    \* Filter::matches
  KeysOf(_),       \* classify
  Ports(_),        \* the ports of a packet, {} if it has none
  Inode,           \* bound: as many inodes as there may be at a time
  MaxObjects,      \* bound: the Archives and Flows alive at a time
  Invalid,         \* an address that does not parse
  Absent           \* Rust's None

VARIABLES
  names,      \* file name -> the inode, or Absent
  disk,       \* inode -> the frames in it, and whether it is a whole archive
  call,       \* process -> the call it is in, or Absent
  archives,   \* process -> its Archive objects
  flows,      \* process -> its Flow objects
  left,       \* history: temporary archives whose Archive was never made or dropped
  last        \* history: user path -> the frames of the last archive made there

vars == <<names, disk, call, archives, flows, left, last>>

(* Mutant: one name for all processes. *)
TempPathShared(p) == CHOOSE q \in Proc : TRUE

(* make_temp_archive_path: /tmp/rsplitcap_py_, the process id, .rsplit.    *)
TempPath(p) == p

FinalName == UserPath \cup Proc

(* Mutant: the archive is written under its own name. *)
TmpIsFinal(path) == path

(* ArchiveWriter::create adds .tmp to the name. *)
Tmp(path) == <<path, ".tmp">>

Empty == [frames |-> <<>>, whole |-> FALSE]
Whole(frames) == [frames |-> frames, whole |-> TRUE]

Init ==
  /\ names = [n \in FinalName \cup {Tmp(path) : path \in FinalName} |-> Absent]
  /\ disk = [i \in Inode |-> Empty]
  /\ call = [p \in Proc |-> Absent]
  /\ archives = [p \in Proc |-> {}] /\ flows = [p \in Proc |-> {}]
  /\ left = {}
  /\ last = [path \in UserPath |-> Absent]

(* An inode is free once no name leads to it and nothing maps or writes it. *)
InUse ==
  {names[n] : n \in DOMAIN names}
    \cup {obj.inode : obj \in UNION {archives[p] \cup flows[p] : p \in Proc}}
    \cup {call[p].inode : p \in {q \in Proc : call[q] # Absent}}

Freed(contents) == [i \in Inode |-> IF i \in InUse' THEN contents[i] ELSE Empty]

(* build_filter: what does not parse is left out without a word. *)
BuildFilter(filter) == [filter EXCEPT !.ips = @ \ {Invalid}]

(* What create_archive writes for a packet. *)
FramesOf(filter, pkt) ==
  IF Passes(BuildFilter(filter), pkt)
  THEN [i \in DOMAIN KeysOf(pkt) |-> <<KeysOf(pkt)[i], pkt>>]
  ELSE <<>>

Archived(filter, capture) ==
  FlattenSeq([i \in DOMAIN capture |-> FramesOf(filter, capture[i])])

(* The archives that calls can make, and the state of a call.              *)
Frames == {Archived(filter, capture) : filter \in Filters, capture \in Capture}

CallState ==
  [path : FinalName, inode : Inode, stage : {"packets", "open"}, frames : Frames]

(* Output paths, temporary archives and .tmp files have different names.   *)
ASSUME NamesAssumption ==
  UserPath \cap Proc = {} /\ \A path \in FinalName : <<path, ".tmp">> \notin FinalName
ASSUME InodeAssumption == Inode \subseteq Nat
ASSUME AbsentAssumption == Absent \notin Inode \cup Proc \cup CallState \cup Frames

(* create_archive on a path, to which no other process writes at the time; *)
(* File::create empties the file that a failed call left there.  What is   *)
(* written is not read before it is whole, so it is noted in the call.     *)
Create(p, path, capture, filter) ==
  /\ call[p] = Absent
  /\ path \notin UserPath \/ ~\E q \in Proc : call[q] # Absent /\ call[q].path = path
  /\ names[Tmp(path)] # Absent \/ Inode \ InUse # {}
  /\ LET inode == IF names[Tmp(path)] # Absent THEN names[Tmp(path)]
                  ELSE CHOOSE i \in Inode \ InUse : \A j \in Inode \ InUse : i <= j
     IN /\ names' = [names EXCEPT ![Tmp(path)] = inode]
        /\ disk' = [disk EXCEPT ![inode] = Empty]
        /\ call' = [call EXCEPT ![p] = [path |-> path, inode |-> inode, stage |-> "packets",
                                        frames |-> Archived(filter, capture)]]
  /\ UNCHANGED <<archives, flows, left, last>>

CreateArchive(p) ==
  \E path \in UserPath, capture \in Capture, filter \in Filters :
    Create(p, path, capture, filter)

ReadFlows(p) ==
  \E capture \in Capture, filter \in Filters : Create(p, TempPath(p), capture, filter)

(* The packets are written, the archive completed and renamed over the one *)
(* before; ArchiveRoundTrip shows that this is one step, or none.          *)
(* create_archive ends here, read_flows goes on.                           *)
Finalize(p) ==
  /\ call[p] # Absent /\ call[p].stage = "packets"
  /\ LET path  == call[p].path
         inode == call[p].inode
     IN /\ names' = [names EXCEPT ![path] = inode, ![Tmp(path)] = Absent]
        /\ last' = IF path \in UserPath
                   THEN [last EXCEPT ![path] = call[p].frames] ELSE last
        /\ call' = [call EXCEPT ![p] = IF path \in UserPath THEN Absent
                                       ELSE [@ EXCEPT !.stage = "open"]]
        /\ UNCHANGED <<archives, flows>>
        /\ disk' = Freed([disk EXCEPT ![inode] = Whole(call[p].frames)])
  /\ left' = left \ {call[p].path}

(* An Archive, and what it was made from. *)
Archive(inode, temp_file, frames) ==
  [inode |-> inode, _temp_file |-> temp_file, opened |-> frames]

(* read_flows opens what it has written. *)
ReadFlowsOpens(p) ==
  /\ call[p] # Absent /\ call[p].stage = "open"
  /\ names[call[p].path] # Absent /\ disk[names[call[p].path]].whole
  /\ archives' = [archives EXCEPT ![p] = @ \cup
       {Archive(names[call[p].path], call[p].path, call[p].frames)}]
  /\ call' = [call EXCEPT ![p] = Absent]
  /\ UNCHANGED <<names, disk, flows, left, last>>

(* The call fails on a packet, on the disk, or when it maps the archive:   *)
(* the .tmp file stays, or the archive does, with no Archive to remove it. *)
Fails(p) ==
  /\ call[p] # Absent
  /\ left' = IF call[p].stage = "open" THEN left \cup {call[p].path} ELSE left
  /\ call' = [call EXCEPT ![p] = Absent]
  /\ UNCHANGED <<names, disk, archives, flows, last>>

(* Archive.open *)
OpenArchive(p, path) ==
  /\ call[p] = Absent
  /\ names[path] # Absent /\ disk[names[path]].whole
  /\ archives' = [archives EXCEPT ![p] = @ \cup {Archive(names[path], Absent, last[path])}]
  /\ UNCHANGED <<names, disk, call, flows, left, last>>
-----------------------------------------------------------------------------
(* The keys of the flows in an archive, in the order of their ids. *)
Keys(frames) ==
  FoldLeft(LAMBDA keys, frame : IF frame[1] \in ToSet(keys) THEN keys ELSE Append(keys, frame[1]),
           <<>>, frames)

(* Flow.packets: what the offsets of the flow's entry lead to. *)
Packets(frames, id) ==
  LET own == SelectSeq(frames, LAMBDA frame : frame[1] = Keys(frames)[id])
  IN [i \in DOMAIN own |-> own[i][2]]

(* flows, get_flow and find_by_port, which see the first packet of a flow;  *)
(* find_by_ip and find_by_protocol are the same on other fields.            *)
All(frames) == DOMAIN Keys(frames)
GetFlow(frames, id) == {id} \cap All(frames)
FindByPort(frames, port) == {id \in All(frames) : port \in Ports(Packets(frames, id)[1])}

(* pipe_archive: the packets of every flow. *)
PipeArchive(inode) ==
  LET frames == disk[inode].frames IN [id \in All(frames) |-> Packets(frames, id)]

(* A program keeps some of the Flows an Archive gives it. *)
TakeFlow(p, archive) ==
  /\ call[p] = Absent
  /\ LET frames == disk[archive.inode].frames
         found  == {All(frames)} \cup {GetFlow(frames, 1)}
                     \cup {FindByPort(frames, port) : port \in {0, 9}}
     IN \E ids \in found : \E id \in ids :
          flows' = [flows EXCEPT ![p] = @ \cup
            {[inode |-> archive.inode, id |-> id, packets |-> Packets(archive.opened, id)]}]
  /\ UNCHANGED <<names, disk, call, archives, left, last>>

(* Mutant: the name of the temporary file is forgotten. *)
DropArchiveOnly(p, archive) ==
  /\ call[p] = Absent
  /\ archives' = [archives EXCEPT ![p] = @ \ {archive}]
  /\ UNCHANGED <<names, call, flows, left, last>>
  /\ disk' = Freed(disk)

(* Drop for ArchivePy: the file of that name is removed, also when it is   *)
(* that of a later read_flows; Flows hold the mapping, not the Archive.    *)
DropArchive(p, archive) ==
  /\ call[p] = Absent
  /\ archives' = [archives EXCEPT ![p] = @ \ {archive}]
  /\ IF archive._temp_file = Absent THEN UNCHANGED <<names, left>>
     ELSE /\ names' = [names EXCEPT ![archive._temp_file] = Absent]
          /\ left' = left \ {archive._temp_file}
  /\ UNCHANGED <<call, flows, last>>
  /\ disk' = Freed(disk)

DropFlow(p, flow) ==
  /\ call[p] = Absent
  /\ flows' = [flows EXCEPT ![p] = @ \ {flow}]
  /\ UNCHANGED <<names, call, archives, left, last>>
  /\ disk' = Freed(disk)

(* The process is killed, or exits without dropping its objects.  A later  *)
(* one with the same id finds its files.                                   *)
Killed(p) ==
  /\ call' = [call EXCEPT ![p] = Absent]
  /\ archives' = [archives EXCEPT ![p] = {}] /\ flows' = [flows EXCEPT ![p] = {}]
  /\ left' = left \cup ({TempPath(p)} \cap {path \in FinalName : names[path] # Absent})
  /\ UNCHANGED <<names, last>>
  /\ disk' = Freed(disk)

Objects == [p \in Proc |-> Cardinality(archives[p] \cup flows[p])]
Room == SumFunction(Objects) < MaxObjects

Next ==
  \E p \in Proc :
    \/ Room /\ (CreateArchive(p) \/ ReadFlows(p))
    \/ Room /\ ReadFlowsOpens(p)
    \/ Finalize(p) \/ Fails(p) \/ Killed(p)
    \/ \E path \in UserPath : Room /\ OpenArchive(p, path)
    \/ \E archive \in archives[p] : Room /\ TakeFlow(p, archive)
    \/ \E archive \in archives[p] : DropArchive(p, archive)
    \/ \E flow \in flows[p] : DropFlow(p, flow)

Spec == Init /\ [][Next]_vars
-----------------------------------------------------------------------------
(* Names lead to inodes, and calls and objects have theirs.                *)
TypeOK ==
  /\ names \in [FinalName \cup {Tmp(path) : path \in FinalName} -> Inode \cup {Absent}]
  /\ DOMAIN disk = Inode
  /\ call \in [Proc -> CallState \cup {Absent}]
  /\ \A p \in Proc : call[p] # Absent => call[p].path \in UserPath \cup {TempPath(p)}
  /\ DOMAIN archives = Proc /\ DOMAIN flows = Proc
  /\ \A p \in Proc : \A archive \in archives[p] :
       archive.inode \in Inode /\ archive._temp_file \in {TempPath(p), Absent}
  /\ \A p \in Proc : \A flow \in flows[p] : flow.inode \in Inode
  /\ left \subseteq Proc
  /\ last \in [UserPath -> Frames \cup {Absent}]

(* An Archive reads the capture it was made from as long as it lives, and  *)
(* a Flow the packets it was found with, also after its Archive is gone:   *)
(* whatever is created, renamed, dropped or removed in the meantime, in    *)
(* this process or another.                                                *)
ObjectsKeepTheirCapture ==
  \A p \in Proc :
    /\ \A archive \in archives[p] : disk[archive.inode] = Whole(archive.opened)
    /\ \A flow \in flows[p] : Packets(disk[flow.inode].frames, flow.id) = flow.packets

(* mod.rs:544, "The temp file is cleaned up when the Archive is garbage    *)
(* collected": outside of a call the temporary archive of a process is     *)
(* there only while one of its Archives can remove it, unless a call       *)
(* failed, or a process died, between the making of both.                  *)
TempFileIsCleanedUp ==
  \A p \in Proc :
    call[p] = Absent /\ names[TempPath(p)] # Absent =>
      \/ TempPath(p) \in left
      \/ \E archive \in archives[p] : archive._temp_file = TempPath(p)

(* Under the path of create_archive lies, for Archive.open and             *)
(* pipe_archive, the whole archive of the last call that returned,         *)
(* whatever calls failed or were killed since.                             *)
OpensTheLastArchive ==
  \A path \in UserPath :
    IF last[path] = Absent THEN names[path] = Absent
    ELSE /\ names[path] # Absent
         /\ disk[names[path]].whole
         /\ PipeArchive(names[path]) = [id \in All(last[path]) |-> Packets(last[path], id)]
=============================================================================

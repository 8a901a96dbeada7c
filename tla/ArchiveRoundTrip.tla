-------------------------- MODULE ArchiveRoundTrip --------------------------
(***************************************************************************)
(* An archive written by ArchiveWriter, in one run or two, and read back   *)
(* by ExtractQuery.  The reader maps the file it opened: a later run       *)
(* renames another file to the name and leaves that one alone, so what the *)
(* reader sees is fixed when it opens the archive.                         *)
(***************************************************************************)
EXTENDS ArchiveWriter, ExtractQuery

extractVars ==
  <<reader, command, disk_fails, applied, target_flows, step, extracted, files, stdout>>

roundTripVars == <<vars, extractVars>>

RoundTripInit == Init /\ NotStarted

(* An archive is opened once it is published; the archiver of this model   *)
(* is not run again after that.                                            *)
OpenArchive ==
  /\ stage = "done"
  /\ Start(final)
  /\ UNCHANGED vars

WriterStep == step = "idle" /\ Next /\ UNCHANGED extractVars

ReaderStep == Step /\ UNCHANGED vars

Over == step \in {"ok", "error"} /\ UNCHANGED roundTripVars

RoundTripNext == WriterStep \/ OpenArchive \/ ReaderStep \/ Over

RoundTripSpec == RoundTripInit /\ [][RoundTripNext]_roundTripVars
-----------------------------------------------------------------------------
(* What -s session makes of the packets of a group: they have no           *)
(* five-tuple, or that of one conversation in either direction.            *)
SameEnds(a, b) ==
  /\ a = Absent <=> b = Absent
  /\ a # Absent => /\ a.protocol = b.protocol
                   /\ {a.src_ip, a.dst_ip} = {b.src_ip, b.dst_ip}
                   /\ {a.src_port, a.dst_port} = {b.src_port, b.dst_port}

BySession ==
  \A p, q \in Packet :
    KeysOf(p) \cap KeysOf(q) # {} => SameEnds(FiveTupleOf(p), FiveTupleOf(q))

(* A packet that a filter is meant for; port 0 and protocol 0 are those of *)
(* packets that have none, and no one's.                                   *)
Meant(filter, pkt) ==
  LET ft == FiveTupleOf(pkt)
  IN /\ ft # Absent
     /\ CASE filter.by = "ip"    -> filter.value \in {ft.src_ip, ft.dst_ip}
          [] filter.by = "port"  -> filter.value \in {ft.src_port, ft.dst_port}
          [] filter.by = "proto" -> filter.value = ft.protocol

(* The groups with a packet that each of the first n filters is meant for. *)
MeantGroups(n) ==
  {key \in Key : published[key] # <<>> /\
     \A i \in 1..n : \E j \in DOMAIN published[key] :
        Meant(command.filters[i], published[key][j])}

Meaningful ==
  /\ \A i \in DOMAIN command.filters : command.filters[i].value # 0
  /\ \A n \in DOMAIN command.filters : MeantGroups(n) # {}

OutOf(keys) == {published[key] : key \in keys} \ {<<>>}

(* End to end, from the packets handed to the archiver to the files: a run *)
(* that reports success on a disk that works has extracted exactly the     *)
(* groups that the filters are meant for, one file each with all their     *)
(* packets in the order of the capture; --pipe gives every group so, and   *)
(* --list-flows the number of packets of each.  On a disk that fails the   *)
(* files still hold nothing but first packets of a group.                  *)
FilesAreTheFlows ==
  /\ \A id \in DOMAIN files :
       \E key \in Key : files[id] \in Prefixes(published[key])
  /\ step = "ok" /\ ~disk_fails =>
       CASE command.mode = "filters" ->
              Meaningful =>
                LET keys == MeantGroups(Len(command.filters))
                IN /\ {files[id] : id \in DOMAIN files} = OutOf(keys)
                   /\ Cardinality(DOMAIN files) = Cardinality(keys)
         [] command.mode = "flow" -> \E key \in Key : files[command.id] = published[key]
         [] command.mode = "pipe" ->
              /\ ToSet(stdout) = OutOf(Key)
              /\ Len(stdout) = Cardinality({key \in Key : published[key] # <<>>})
         [] command.mode = "list" ->
              /\ Len(stdout) = Cardinality({key \in Key : published[key] # <<>>})
              /\ {stdout[i].packets : i \in DOMAIN stdout} = {Len(out) : out \in OutOf(Key)}
-----------------------------------------------------------------------------
(* The archiver and the reader implement ArchivePromise: in an archive is  *)
(* what the reader would extract from its bytes.                           *)
Contents(file) ==
  LET entries == Open(file).entries
  IN IF Opens(file) THEN {ExtractedFlow(Open(file), entries[i]) : i \in DOMAIN entries} ELSE {}

Promise == INSTANCE ArchivePromise
  WITH Group <- Key, None <- NoArchive, ContentsOf <- Contents,
       archive <- final,
       opened <- IF reader = Absent THEN NoArchive ELSE reader.file,
       taken <- IF disk_fails THEN {} ELSE {files[id] : id \in DOMAIN files},
       stage <- IF stage \in {"done", "failed"} THEN "over" ELSE "taking"

(* Every behaviour of archiver and reader, with its failures, kills and    *)
(* reruns, is one of the promise.                                          *)
ArchivePromiseKept == Promise!Spec
=============================================================================

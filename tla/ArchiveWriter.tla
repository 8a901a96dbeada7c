---------------------------- MODULE ArchiveWriter ----------------------------
(***************************************************************************)
(* Archive mode (run_archive of main.rs and archive/writer.rs): packets    *)
(* are streamed to a temporary file while the offsets of each flow's       *)
(* packets are kept in memory; finalize appends the offset lists, the flow *)
(* table, the indexes and the footer, and renames the file.                *)
(*                                                                         *)
(* Times and byte totals are left out: they are copied, never read back    *)
(* to find a packet.                                                       *)
(***************************************************************************)
EXTENDS ArchiveFormat

CONSTANTS
  Key,           \* the group keys
  Packet,        \* the packets
  KeysOf(_),     \* the keys a packet is handed on under
  MaxFrames,     \* bound: the frames of each run of the program, in turn
  DiskMayFail    \* whether create, write, flush and rename may fail

FiveTuple == [protocol : Nat, src_ip : Nat, dst_ip : Nat, src_port : Nat, dst_port : Nat]

ArchiveFlow == [flow_id : Nat \ {0}, five_tuple : {FiveTupleOf(p) : p \in Packet},
                packet_offsets : Seq(Nat)]

FlowEntry ==
  [is : {"entry"}, flow_id : Nat, protocol : Nat, src_ip : Nat, dst_ip : Nat,
   src_port : Nat, dst_port : Nat, offset_list_offset : Nat, offset_list_size : Nat,
   packet_count : Nat]

ASSUME AbsentAssumption == Absent \notin Key \cup ArchiveFlow \cup Packet \cup FlowEntry
ASSUME PacketsAssumption ==
  \A p \in Packet :
    KeysOf(p) \subseteq Key /\ DataLen(p) \in Nat /\ FiveTupleOf(p) \in FiveTuple \cup {Absent}

VARIABLES
  flows,                 \* group key -> flow or Absent
  next_flow_id,
  file_pos,
  build_secondary_index,
  written, buffer,       \* the temporary file: on disk, and not yet flushed
  final,                 \* the file under the final name, or NoArchive
  stage,                 \* what finalize does next, or how the run ended
  lists,                 \* finalize's list_positions: <<offset, size>> by flow
  regions,               \* finalize's offsets and sizes, the footer to be
  given,                 \* history: the packets of each group in this run
  published,             \* history: given, when the archive was renamed
  runs                   \* history: the runs started so far

fileVars == <<written, buffer, file_pos>>
vars == <<flows, next_flow_id, file_pos, build_secondary_index, written, buffer,
          final, stage, lists, regions, given, published, runs>>

(* No file at all is no more of an archive than an empty one. *)
NoArchive == <<>>

NoFlows == [k \in Key |-> Absent]
NothingGiven == [k \in Key |-> <<>>]
NoRegions ==
  [is |-> "footer", flow_packet_offset |-> 0, flow_table_offset |-> 0, flow_table_size |-> 0,
   secondary_index_offset |-> 0, secondary_index_size |-> 0]

(* ArchiveWriter::create: the temporary file is emptied, and the header    *)
(* written to it.                                                          *)
Created ==
  /\ flows' = NoFlows /\ next_flow_id' = 1
  /\ file_pos' = Len(Header)
  /\ build_secondary_index' \in BOOLEAN
  /\ written' = <<>> /\ buffer' = Header
  /\ stage' = "packets"
  /\ lists' = <<>> /\ regions' = NoRegions
  /\ given' = NothingGiven

Init ==
  /\ flows = NoFlows /\ next_flow_id = 1
  /\ file_pos = Len(Header)
  /\ build_secondary_index \in BOOLEAN
  /\ written = <<>> /\ buffer = Header
  /\ final = NoArchive
  /\ stage = "packets"
  /\ lists = <<>> /\ regions = NoRegions
  /\ given = NothingGiven /\ published = NothingGiven
  /\ runs = 1

(* write_all on the BufWriter: the cells stay in the buffer, or they do    *)
(* not fit and the buffer goes to the file before them.                    *)
Write(cells) ==
  \/ written' = written /\ buffer' = buffer \o cells
  \/ written' = written \o buffer /\ buffer' = cells

WriteAndFlush(cells) ==
  written' = written \o buffer \o cells /\ buffer' = <<>>

FrameSize(pkt) == 1 + DataLen(pkt)

(* Mutant: the offset is taken after the frame was written. *)
TrackedAfter(flow, pkt) ==
  IF flow = Absent
  THEN [flow_id |-> next_flow_id, five_tuple |-> FiveTupleOf(pkt),
        packet_offsets |-> <<file_pos + FrameSize(pkt)>>]
  ELSE [flow EXCEPT !.packet_offsets = Append(@, file_pos + FrameSize(pkt))]

(* FlowState::new and FlowState::add_packet. *)
Tracked(flow, pkt) ==
  IF flow = Absent
  THEN [flow_id |-> next_flow_id, five_tuple |-> FiveTupleOf(pkt), packet_offsets |-> <<file_pos>>]
  ELSE [flow EXCEPT !.packet_offsets = Append(@, file_pos)]

(* write_packet, once for each key of each packet that passes the filter.  *)
WritePacket(key, pkt) ==
  /\ stage = "packets"
  /\ Write(Frame(pkt))
  /\ file_pos' = file_pos + FrameSize(pkt)
  /\ flows' = [flows EXCEPT ![key] = Tracked(@, pkt)]
  /\ next_flow_id' = IF flows[key] = Absent THEN next_flow_id + 1 ELSE next_flow_id
  /\ given' = [given EXCEPT ![key] = Append(@, pkt)]
  /\ UNCHANGED <<build_secondary_index, final, stage, lists, regions, published, runs>>
-----------------------------------------------------------------------------
(* finalize, one region at a time, flows in the order of their ids. *)
SortedFlows ==
  LET values == {flows[k] : k \in Key} \ {Absent}
      ids    == Ascending({flow.flow_id : flow \in values})
  IN [i \in DOMAIN ids |-> CHOOSE flow \in values : flow.flow_id = ids[i]]

Encoded(flow) == EncodeOffsets(flow.packet_offsets)

(* Where the list of the i-th flow starts, from the start of the region.   *)
ListStart(i) ==
  Len(FlattenSeq([j \in 1..i - 1 |-> Encoded(SortedFlows[j])]))

WriteOffsetLists ==
  /\ stage = "packets"
  /\ LET region == FlattenSeq([i \in DOMAIN SortedFlows |-> Encoded(SortedFlows[i])])
     IN /\ Write(Numbers(region))
        /\ file_pos' = file_pos + Len(region)
  /\ lists' = [i \in DOMAIN SortedFlows |->
                 <<file_pos + ListStart(i), Len(Encoded(SortedFlows[i]))>>]
  /\ regions' = [regions EXCEPT !.flow_packet_offset = file_pos]
  /\ stage' = "table"
  /\ UNCHANGED <<flows, next_flow_id, build_secondary_index, final, given, published, runs>>

FlowTable ==
  [i \in DOMAIN SortedFlows |-> EntryCell(SortedFlows[i], lists[i][1], lists[i][2])]

WriteFlowTable ==
  /\ stage = "table"
  /\ WriteAndFlush(FlowTable)
  /\ file_pos' = file_pos + Len(FlowTable)
  /\ regions' = [regions EXCEPT !.flow_table_offset = file_pos,
                                !.flow_table_size = Len(FlowTable)]
  /\ stage' = IF build_secondary_index THEN "index" ELSE "footer"
  /\ UNCHANGED <<flows, next_flow_id, build_secondary_index, final, lists, given, published, runs>>

WriteSecondaryIndexes ==
  /\ stage = "index"
  /\ LET cells == IndexCells(BuildIndexes(FlowTable))
     IN /\ WriteAndFlush(cells)
        /\ file_pos' = file_pos + Len(cells)
        /\ regions' = [regions EXCEPT !.secondary_index_offset = file_pos,
                                      !.secondary_index_size = Len(cells)]
  /\ stage' = "footer"
  /\ UNCHANGED <<flows, next_flow_id, build_secondary_index, final, lists, given, published, runs>>

(* Mutant: the footer stays in the buffer. *)
WriteFooterUnflushed ==
  /\ stage = "footer"
  /\ Write(<<regions>>)
  /\ stage' = "rename"
  /\ UNCHANGED <<flows, next_flow_id, file_pos, build_secondary_index, final, lists, regions,
                 given, published, runs>>

WriteFooter ==
  /\ stage = "footer"
  /\ WriteAndFlush(<<regions>>)
  /\ stage' = "rename"
  /\ UNCHANGED <<flows, next_flow_id, file_pos, build_secondary_index, final, lists, regions,
                 given, published, runs>>

Rename ==
  /\ stage = "rename"
  /\ final' = written
  /\ published' = given
  /\ stage' = "done"
  /\ UNCHANGED <<flows, next_flow_id, fileVars, build_secondary_index, lists, regions, given, runs>>

(* The reader fails on a packet, or the writer on the disk: the `?' drops  *)
(* the writer, whose BufWriter is flushed if it can be, and the temporary  *)
(* file stays.                                                             *)
Fails ==
  /\ stage = "packets" \/ (DiskMayFail /\ stage \in {"table", "index", "footer", "rename"})
  /\ stage' = "failed"
  /\ written' = written \o buffer /\ buffer' = <<>>
  /\ UNCHANGED <<flows, next_flow_id, file_pos, build_secondary_index, final, lists, regions,
                 given, published, runs>>

(* The process is killed: the buffer is gone. *)
Crash ==
  /\ stage \in {"packets", "table", "index", "footer", "rename"}
  /\ stage' = "failed"
  /\ buffer' = <<>>
  /\ UNCHANGED <<flows, next_flow_id, file_pos, build_secondary_index, written, final, lists,
                 regions, given, published, runs>>

(* The program is run again with the same archive name. *)
Restart ==
  /\ stage \in {"done", "failed"} /\ runs < Len(MaxFrames)
  /\ runs' = runs + 1
  /\ Created
  /\ UNCHANGED <<final, published>>

Finished == stage \in {"done", "failed"} /\ runs = Len(MaxFrames) /\ UNCHANGED vars

FramesSoFar == Len(FlattenSeq([i \in DOMAIN SortedFlows |-> SortedFlows[i].packet_offsets]))

Next ==
  \/ /\ FramesSoFar < MaxFrames[runs]
     /\ \E pkt \in Packet : \E key \in KeysOf(pkt) : WritePacket(key, pkt)
  \/ WriteOffsetLists \/ WriteFlowTable \/ WriteSecondaryIndexes \/ WriteFooter \/ Rename
  \/ Fails \/ Crash \/ Restart \/ Finished

Spec == Init /\ [][Next]_vars
-----------------------------------------------------------------------------
(* Every flow has an id and offsets; file_pos is not followed into the     *)
(* regions, whose lengths are those of encoded data.                       *)
TypeOK ==
  /\ flows \in [Key -> ArchiveFlow \cup {Absent}]
  /\ next_flow_id \in Nat \ {0}
  /\ stage = "packets" => file_pos \in Nat

(* The offsets of a flow ascend strictly, so that the distances            *)
(* encode_offsets subtracts never go below zero.                           *)
OffsetsAscend ==
  \A key \in Key : flows[key] # Absent =>
    LET offsets == flows[key].packet_offsets
    IN \A i, j \in DOMAIN offsets : i < j => offsets[i] < offsets[j]

(* A flow's list cut off anywhere, in the middle of a number too, decodes  *)
(* to its first offsets and to no wrong one, and so does the whole list    *)
(* when fewer of them, or all of them, are asked for.                      *)
TruncationKeepsPrefix ==
  \A flow \in {flows[k] : k \in Key} \ {Absent} :
    LET offsets == flow.packet_offsets
        bytes   == Encoded(flow)
    IN /\ \A cut \in 0..Len(bytes) :
            IsPrefix(DecodeOffsets(SubSeq(bytes, 1, cut), Len(offsets)), offsets)
       /\ \A count \in 0..Len(offsets) :
            DecodeOffsets(bytes, count) = SubSeq(offsets, 1, count)

Opened == Open(final)

(* An archive under its final name is whole, whatever fails or is killed   *)
(* in this run or a later one: it opens, each flow that extract, or pipe,  *)
(* takes out of it holds the packets of one group of the run that          *)
(* published it, all of them and in order, and every group has one flow.   *)
ArchiveIsWhole ==
  final # NoArchive =>
    /\ Opens(final)
    /\ LET entries == Opened.entries
           out(i)  == ExtractedFlow(Opened, entries[i])
       IN /\ {out(i) : i \in DOMAIN entries} = {published[key] : key \in Key} \ {<<>>}
          /\ Len(entries) = Cardinality({key \in Key : published[key] # <<>>})
          /\ \A i \in DOMAIN entries :
               /\ out(i) = PipedFlow(Opened, entries[i])
               /\ GetFlow(Opened, entries[i].flow_id) = entries[i]

Ips == UNION {{t.src_ip, t.dst_ip} : t \in {FiveTupleOf(p) : p \in Packet} \ {Absent}}
Ports == UNION {{t.src_port, t.dst_port} : t \in {FiveTupleOf(p) : p \in Packet} \ {Absent}}
Protos == {t.protocol : t \in {FiveTupleOf(p) : p \in Packet} \ {Absent}}

(* The indexes answer exactly as the scan of the flow table they stand for *)
(* does, for keys that no flow has too.                                    *)
IndexAnswersAsScan ==
  Opens(final) =>
    /\ \A ip \in Ips \cup {0} : FindByIp(Opened, ip) = ScanIp(Opened.entries, ip)
    /\ \A port \in Ports \cup {0} : FindByPort(Opened, port) = ScanPort(Opened.entries, port)
    /\ \A proto \in Protos \cup {0} :
         FindByProtocol(Opened, proto) = ScanProto(Opened.entries, proto)
=============================================================================

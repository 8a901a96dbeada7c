---------------------------- MODULE ArchiveFormat ----------------------------
(***************************************************************************)
(* What an .rsplit archive looks like and how archive/reader.rs reads one. *)
(*                                                                         *)
(* A file is a sequence of cells, and an offset counts the cells before.   *)
(* The header, the footer, a flow table entry, the header of the indexes   *)
(* and the head of a frame take one cell each (64, 128, 96, 36 and 16      *)
(* bytes in the code), a byte of an offset list, a field of an index and   *)
(* a piece of packet data one cell each too.  The code keeps positions     *)
(* and sizes in the same way, in bytes.                                    *)
(***************************************************************************)
EXTENDS OffsetCodec, SecondaryIndex

CONSTANTS
  Absent,        \* Rust's None
  DataLen(_),    \* cells of a packet's data
  FiveTupleOf(_)     \* a packet's five-tuple or Absent

Header == <<[is |-> "header"]>>

Frame(pkt) ==
  <<[is |-> "frame", pkt |-> pkt]>> \o [i \in 1..DataLen(pkt) |-> [is |-> "data"]]

Numbers(s) == [i \in DOMAIN s |-> [is |-> "num", n |-> s[i]]]

NoTuple == [protocol |-> 0, src_ip |-> 0, dst_ip |-> 0, src_port |-> 0, dst_port |-> 0]

(* flow_to_entry, and FlowEntry's to_bytes and from_bytes: the five-tuple  *)
(* is that of the flow's first packet, all zeros when that has none.       *)
EntryCell(flow, pos, size) ==
  LET ft == IF flow.five_tuple = Absent THEN NoTuple ELSE flow.five_tuple
  IN [is |-> "entry", flow_id |-> flow.flow_id, protocol |-> ft.protocol,
      src_ip |-> ft.src_ip, dst_ip |-> ft.dst_ip,
      src_port |-> ft.src_port, dst_port |-> ft.dst_port,
      offset_list_offset |-> pos, offset_list_size |-> size,
      packet_count |-> Len(flow.packet_offsets)]

IndexCells(idx) ==
  <<[is |-> "index", header |-> [idx EXCEPT !.data = <<>>]]>> \o Numbers(idx.data)
-----------------------------------------------------------------------------
(* The cells from an offset on. *)
Slice(file, offset, size) == SubSeq(file, offset + 1, offset + size)

Unnumbered(cells) == [i \in DOMAIN cells |-> cells[i].n]

(* SecondaryIndexes::parse. *)
ParseIndex(cells) ==
  [cells[1].header EXCEPT !.data = Unnumbered(SubSeq(cells, 2, Len(cells)))]

(* What ArchiveReader::open asks of a file: the footer is checked, the     *)
(* header is not.                                                          *)
Opens(file) ==
  LET footer == file[Len(file)]
  IN /\ file # <<>> /\ footer.is = "footer"
     /\ footer.flow_table_offset + footer.flow_table_size <= Len(file)

(* ArchiveReader::open: the file, its flow table and its indexes, or       *)
(* Absent for an error.                                                    *)
Open(file) ==
  LET footer == file[Len(file)]
      table  == Slice(file, footer.flow_table_offset, footer.flow_table_size)
      si_end == footer.secondary_index_offset + footer.secondary_index_size
      index  == IF footer.secondary_index_offset = 0 \/ footer.secondary_index_size = 0
                     \/ si_end > Len(file)
                THEN Absent
                ELSE ParseIndex(Slice(file, footer.secondary_index_offset,
                                            footer.secondary_index_size))
  IN IF Opens(file) THEN [file |-> file, entries |-> table, index |-> index] ELSE Absent

(* get_packet_offsets: Absent when the list lies beyond the file. *)
GetPacketOffsets(reader, entry) ==
  IF entry.offset_list_offset + entry.offset_list_size > Len(reader.file) THEN Absent
  ELSE DecodeOffsets(
         Unnumbered(Slice(reader.file, entry.offset_list_offset, entry.offset_list_size)),
         entry.packet_count)

(* read_frame_bytes: the packet whose frame starts at the offset, Absent   *)
(* beyond the file.  A place where no frame starts reads as bytes that are *)
(* no packet of the capture; Absent stands for them too.                   *)
ReadFrame(reader, offset) ==
  IF offset + 1 > Len(reader.file) THEN Absent
  ELSE IF reader.file[offset + 1].is # "frame" THEN Absent
  ELSE LET pkt == reader.file[offset + 1].pkt
       IN IF offset + 1 + DataLen(pkt) > Len(reader.file) THEN Absent ELSE pkt

(* run_pipe and pipe_archive: the frames at the offsets, those that cannot *)
(* be read left out.                                                       *)
PipedFlow(reader, entry) ==
  LET offsets == GetPacketOffsets(reader, entry)
      Read(i) == ReadFrame(reader, offsets[i])
  IN FlattenSeq([i \in DOMAIN offsets |-> IF Read(i) = Absent THEN <<>> ELSE <<Read(i)>>])

(* extract_flow_to_writer: stops at the first frame it cannot read.        *)
ExtractedFlow(reader, entry) ==
  LET offsets == GetPacketOffsets(reader, entry)
      bad     == {i \in DOMAIN offsets : ReadFrame(reader, offsets[i]) = Absent}
      stop    == IF bad = {} THEN Len(offsets) ELSE Min(bad) - 1
  IN [i \in 1..stop |-> ReadFrame(reader, offsets[i])]

(* get_flow: the first entry with the id. *)
GetFlow(reader, flow_id) ==
  LET same == {i \in DOMAIN reader.entries : reader.entries[i].flow_id = flow_id}
  IN IF same = {} THEN Absent ELSE reader.entries[Min(same)]

Ids(entries) == [i \in DOMAIN entries |-> entries[i].flow_id]

(* find_by_ip, find_by_port and find_by_protocol: the index if there is    *)
(* one, a scan of the flow table otherwise.                                *)
IdsWhere(entries, hits) ==
  FlattenSeq([i \in DOMAIN entries |-> IF i \in hits THEN <<entries[i].flow_id>> ELSE <<>>])

ScanIp(entries, ip) ==
  IdsWhere(entries, {i \in DOMAIN entries : ip \in {entries[i].src_ip, entries[i].dst_ip}})

ScanPort(entries, port) ==
  IdsWhere(entries, {i \in DOMAIN entries : port \in {entries[i].src_port, entries[i].dst_port}})

ScanProto(entries, proto) ==
  IdsWhere(entries, {i \in DOMAIN entries : entries[i].protocol = proto})

FindByIp(reader, ip) ==
  IF reader.index # Absent THEN LookupIp(reader.index, ip) ELSE ScanIp(reader.entries, ip)

FindByPort(reader, port) ==
  IF reader.index # Absent THEN LookupPort(reader.index, port)
  ELSE ScanPort(reader.entries, port)

FindByProtocol(reader, proto) ==
  IF reader.index # Absent THEN LookupProto(reader.index, proto)
  ELSE ScanProto(reader.entries, proto)
=============================================================================

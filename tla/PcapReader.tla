----------------------------- MODULE PcapReader -----------------------------
(***************************************************************************)
(* Reading a PCAP file (open_reader of parser/mod.rs, parser/pcap.rs).     *)
(*                                                                         *)
(* A file is a magic number, a version, a link type and then places: the   *)
(* 16 bytes of a record header take one place, and so does each byte of    *)
(* packet data.  It may be cut off after any place; a header cut in the    *)
(* middle counts as not there, which is how the code takes it.             *)
(***************************************************************************)
EXTENDS Integers, Sequences, SequencesExt

CONSTANTS
  Absent,       \* Rust's None
  PcapFiles     \* the files: magic, version <<major, minor>>, link_type,
                \* records, the numbers of places that may be left of them
                \* (cuts), and whether it ends within its global header
                \* (short)

Enc == INSTANCE Encapsulation
PD  == INSTANCE PacketDissect

(* The frames that records were captured from: what a station sent (see    *)
(* Encapsulation), or two bytes of noise.                                  *)
Wire(record) == IF record.sent = Absent THEN <<0, 1>> ELSE Enc!OnTheWire(record.sent)

(* What the magic number says of the file (parser/mod.rs:34).              *)
Nano(magic) == magic \in {"LE nano", "BE nano"}

(* A record a capture tool wrote: the first incl_len bytes of a frame, and *)
(* the sub-second field of its time.                                       *)
Captured(record) == SubSeq(Wire(record), 1, record.incl_len)

Places(record) ==
  LET bytes == Captured(record)
  IN <<[is |-> "header", record |-> record]>>
       \o [i \in DOMAIN bytes |-> [is |-> "data", byte |-> bytes[i]]]

VARIABLES
  magic, version, link_type,
  short,        \* whether the file ends within its global header
  records,      \* what was captured
  data,         \* what of it is in the file: the places after the global header
  reader,       \* "none", "open", "panicked"; then "eof" or "error"
  pos,          \* places read
  packets       \* history: what next_packet returned

vars == <<magic, version, link_type, short, records, data, reader, pos, packets>>

AllPlaces(rs) == FlattenSeq([i \in DOMAIN rs |-> Places(rs[i])])

Init ==
  /\ \E file \in PcapFiles :
       /\ magic = file.magic /\ version = file.version
       /\ link_type = file.link_type
       /\ short = file.short
       /\ records = file.records
       /\ LET places == AllPlaces(file.records)
          IN \E left \in file.cuts \cap 0..Len(places) : data = SubSeq(places, 1, left)
  /\ reader = "none"
  /\ pos = 0
  /\ packets = <<>>

(* open_reader hands all four magic numbers to PcapReader::new, which      *)
(* knows two of them and runs into unreachable!() for the others.          *)
OpenReader ==
  /\ reader = "none"
  /\ reader' = IF short THEN "error"
                 ELSE IF magic \in {"LE micro", "BE micro"} THEN "open" ELSE "panicked"
  /\ UNCHANGED <<magic, version, link_type, short, records, data, pos, packets>>

(* ts_nano: by the magic number, or by the version. *)
TsNano == Nano(magic) \/ version = <<2, 4>>

Converted(fraction) == IF TsNano THEN fraction \div 1000 ELSE fraction

Left == Len(data) - pos

(* Mutant: a packet that ends with the file does not fit. *)
FitsBeforeTheEnd(record) == record.incl_len < Left - 1

Fits(record) == record.incl_len <= Left - 1

(* next_packet. *)
NextPacket ==
  /\ reader = "open" /\ Left >= 1
  /\ data[pos + 1].is = "header"
  /\ LET record == data[pos + 1].record
         bytes  == [i \in 1..record.incl_len |-> data[pos + 1 + i].byte]
     IN /\ Fits(record)
        /\ pos' = pos + 1 + record.incl_len
        /\ packets' = Append(packets,
             [ts_usec |-> Converted(record.fraction), data |-> bytes,
              frame |-> PD!FromPcapRecord(link_type, bytes)])
  /\ UNCHANGED <<magic, version, link_type, short, records, data, reader>>

NextPacketError ==
  /\ reader = "open" /\ Left >= 1
  /\ ~Fits(data[pos + 1].record)
  /\ pos' = pos + 1
  /\ reader' = "error"
  /\ UNCHANGED <<magic, version, link_type, short, records, data, packets>>

NextPacketNone ==
  /\ reader = "open" /\ Left < 1
  /\ reader' = "eof"
  /\ UNCHANGED <<magic, version, link_type, short, records, data, pos, packets>>

Stopped == reader \in {"panicked", "eof", "error"} /\ UNCHANGED vars

Next == OpenReader \/ NextPacket \/ NextPacketError \/ NextPacketNone \/ Stopped

Spec == Init /\ [][Next]_vars
-----------------------------------------------------------------------------
(* The places the first n records take. *)
Extent(n) == Len(AllPlaces(SubSeq(records, 1, n)))

(* Whatever the cut, the packets returned are the first records of the     *)
(* capture, each with all its data, and as many as are whole in the file;  *)
(* a file cut within the data of a packet is an error, never the end of    *)
(* the file, so that the packet is not dropped in silence.                 *)
WholeRecords ==
  /\ Len(packets) <= Len(records)
  /\ \A i \in DOMAIN packets : packets[i].data = Captured(records[i])
  /\ Extent(Len(packets)) <= Len(data)
  /\ reader \in {"eof", "error"} =>
       Len(packets) = Len(records) \/ Extent(Len(packets) + 1) > Len(data)
  /\ reader = "eof" => Len(data) = Extent(Len(packets))
=============================================================================

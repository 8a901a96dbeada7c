---------------------------- MODULE CaptureReader ----------------------------
(***************************************************************************)
(* Reading an input file (parser/mod.rs): open_reader looks at its first   *)
(* four bytes and hands it to the reader of its format; run_split and the  *)
(* others call next_packet until it returns None or an error.              *)
(***************************************************************************)
EXTENDS Integers, Sequences

CONSTANTS
  Absent,                        \* Rust's None
  PcapFiles,                     \* see PcapReader
  Blocks, MaxBlocks, Million     \* see PcapngReader

(* What the dissection may find in an IP datagram; None is nothing of it.  *)
Octet == 0..255

FiveTuple ==
  [protocol : Octet, src_ip : Seq(Octet), dst_ip : Seq(Octet), src_port : Nat, dst_port : Nat]

ASSUME AbsentAssumption ==
  /\ Absent \notin Nat
  /\ Absent \notin [five_tuple : FiveTuple, l7_offset : Nat \cup {Absent}]

(* A power of ten that is no less than Million, one itself, is a multiple. *)
ASSUME MillionAssumption == Million \in Nat \ {0}
ASSUME BlocksAssumption == \A b \in Blocks :
  /\ b.is = "EPB" => b.ts \in Nat
  /\ b.is = "IDB" /\ b.tsresol \in 0..19 =>
       /\ 10 ^ b.tsresol \in Nat \ {0}
       /\ 10 ^ b.tsresol >= Million => (10 ^ b.tsresol) % Million = 0

VARIABLES
  format,       \* what the first four bytes say, "unknown" if they are missing
  magic, version, link_type, short, records, data, pos,
  blocks, cut, next, interfaces,
  reader, packets

pcapVars   == <<magic, version, link_type, short, records, data, pos>>
pcapngVars == <<blocks, cut, next, interfaces>>
vars == <<format, pcapVars, pcapngVars, reader, packets>>

Pcap   == INSTANCE PcapReader
Pcapng == INSTANCE PcapngReader
Enc    == INSTANCE Encapsulation

(* A capture tool writes no more than the frame, in bytes; where a file    *)
(* ends within its global header, nothing is left of the records.          *)
ASSUME PcapFilesAssumption == \A file \in PcapFiles :
  /\ file.records \in Seq({file.records[i] : i \in DOMAIN file.records})
  /\ \A i \in DOMAIN file.records :
       /\ Pcap!Wire(file.records[i]) \in Seq(Octet)
       /\ file.records[i].incl_len \in 0..Len(Pcap!Wire(file.records[i]))
  /\ file.short => file.cuts \subseteq {0}

(* What a station can send: lengths that their fields hold, link layer     *)
(* padding on Ethernet alone, and chains that end with another protocol.   *)
SendableOver(sent) ==
  /\ \/ sent.link \in {"ethernet", "vlan", "ip"} /\ sent.radiotap = 0
     \/ /\ sent.link \in {"management", "adhoc", "to AP", "from AP", "relayed", "QoS"}
        /\ sent.radiotap \in {0} \cup 4..255
  /\ sent.padding \in Nat /\ (sent.link # "ethernet" => sent.padding = 0)

SendableDatagram(sent) ==
  /\ sent.src \in Seq(Octet) /\ sent.dst \in Seq(Octet)
  /\ Len(sent.src) \in {4, 16} /\ Len(sent.dst) = Len(sent.src)
  /\ sent.words \in 0..10
  /\ sent.chain \in Seq(Pcap!PD!ExtensionHeaders \X Octet)
  /\ sent.protocol \in Octet
  /\ Len(sent.src) = 16 => sent.protocol \notin Pcap!PD!ExtensionHeaders

SendableSegment(sent) ==
  /\ sent.tcp_words \in 0..10 /\ sent.payload \in Nat
  /\ sent.src_port \in Nat /\ sent.src_port < 65536
  /\ sent.dst_port \in Nat /\ sent.dst_port < 65536

Sendable(sent) == SendableOver(sent) /\ SendableDatagram(sent) /\ SendableSegment(sent)

(* The frames of a capture file are of the link layer it declares.         *)
ASSUME FramesAssumption == \A file \in PcapFiles : \A i \in DOMAIN file.records :
  LET sent == file.records[i].sent
  IN sent # Absent => Sendable(sent) /\ file.link_type = Enc!LinkType(sent)

NoPcap ==
  /\ magic = "none" /\ version = <<>> /\ link_type = 0 /\ short = FALSE
  /\ records = <<>> /\ data = <<>> /\ pos = 0

NoPcapng == blocks = <<>> /\ cut = FALSE /\ next = 1 /\ interfaces = <<>>

(* The file on disk; nothing of it was read. *)
Init ==
  \/ format = "pcap" /\ Pcap!Init /\ NoPcapng
  \/ format = "pcapng" /\ Pcapng!Init /\ NoPcap
  \/ /\ format = "unknown" /\ NoPcap /\ NoPcapng
     /\ reader = "none" /\ packets = <<>>

ReadPcap == format = "pcap" /\ Pcap!Next /\ UNCHANGED <<format, pcapngVars>>

ReadPcapng == format = "pcapng" /\ Pcapng!Next /\ UNCHANGED <<format, pcapVars>>

(* Neither format's first bytes. *)
UnknownFormat ==
  /\ format = "unknown" /\ reader = "none"
  /\ reader' = "error"
  /\ UNCHANGED <<format, pcapVars, pcapngVars, packets>>

NothingRead == format = "unknown" /\ reader = "error" /\ UNCHANGED vars

Next == ReadPcap \/ ReadPcapng \/ UnknownFormat \/ NothingRead

Spec == Init /\ [][Next]_vars
-----------------------------------------------------------------------------
(* Whatever the cut of a PCAP file, the packets returned are the first     *)
(* records of the capture, each with all its data, and as many as are      *)
(* whole in the file; a file cut within the data of a packet is an error   *)
(* and never the end of the file.                                          *)
PacketsAreWholeRecords == format = "pcap" => Pcap!WholeRecords

(* No packet of a PCAP-NG file is lost, repeated or reordered, whatever    *)
(* lies between the packet blocks, up to where the reading ends.           *)
PacketsFollowTheBlocks == format = "pcapng" => Pcapng!FollowTheBlocks

(* A packet of a PCAP-NG file has the time and the fields that its own     *)
(* interface's resolution and link type give it, whatever the order of the *)
(* interfaces, when that one is described before the first packet.         *)
PacketsAreOfTheirInterface == format = "pcapng" => Pcapng!LeadingInterfaces
-----------------------------------------------------------------------------
(* The packets of a PCAP file next to the records they were read from.     *)
FramesRead == IF format = "pcap" THEN {i \in DOMAIN packets : records[i].sent # Absent} ELSE {}

(* What the dissection does not follow: QoS data frames, whose header is   *)
(* two bytes longer; authentication headers, whose length is in units of 4 *)
(* bytes; and more than eight extension headers.                           *)
Understood(sent) ==
  /\ sent.link # "QoS"
  /\ Len(sent.chain) <= 8
  /\ \A i \in DOMAIN sent.chain : sent.chain[i][1] # 51

HasPorts(sent) == sent.protocol \in {6, 17}

FiveTupleOf(sent) ==
  [protocol |-> sent.protocol, src_ip |-> sent.src, dst_ip |-> sent.dst,
   src_port |-> IF HasPorts(sent) THEN sent.src_port ELSE 0,
   dst_port |-> IF HasPorts(sent) THEN sent.dst_port ELSE 0]

PayloadAt(sent) == Len(Enc!OnTheWire(sent)) - sent.padding - sent.payload

(* Where the ports end. *)
PortsEnd(sent) ==
  Len(Enc!OnTheWire(sent)) - sent.padding - Len(Enc!Segment(sent)) + 4

(* However a frame is wrapped (VLAN tag, 802.11 with or without radiotap,  *)
(* IPv4 and TCP options, IPv6 extension headers), a frame captured whole   *)
(* is dissected into what its sender put in: the stations of this hop, the *)
(* cell, addresses, ports, and for TCP and UDP exactly the payload, with   *)
(* the padding of the link layer behind it.                                *)
DissectionUndoesEncapsulation ==
  \A i \in FramesRead :
    LET sent == records[i].sent
        frame == packets[i].frame
    IN Understood(sent) /\ records[i].incl_len = Len(Enc!OnTheWire(sent)) =>
         /\ frame.src_mac = IF sent.link = "ip" THEN Absent ELSE Enc!Transmitter(sent)
         /\ frame.dst_mac = IF sent.link = "ip" THEN Absent ELSE Enc!Receiver(sent)
         /\ frame.bssid = IF sent.link \in {"management", "adhoc", "to AP", "from AP"}
                          THEN Enc!Ap ELSE Absent
         /\ frame.five_tuple = IF sent.link = "management" THEN Absent ELSE FiveTupleOf(sent)
         /\ HasPorts(sent) /\ sent.link # "management" =>
              Pcap!PD!L7Data(frame, packets[i].data) =
                Enc!Payload(sent) \o Enc!Fill(sent.padding)

(* A frame cut by the snap length, wherever that is, loses fields but      *)
(* invents none: each is the one the whole frame gives, or missing, and    *)
(* the ports are those of the whole frame or both zero.  So a short        *)
(* capture never moves a packet to another conversation's addresses.       *)
CutsOnlyForget ==
  \A i \in FramesRead :
    LET frame == packets[i].frame
        whole == Pcap!PD!FromPcapRecord(link_type, Pcap!Wire(records[i]))
    IN /\ frame.src_mac \in {Absent, whole.src_mac}
       /\ frame.dst_mac \in {Absent, whole.dst_mac}
       /\ frame.bssid \in {Absent, whole.bssid}
       /\ frame.five_tuple # Absent =>
            frame.five_tuple \in
              {whole.five_tuple, [whole.five_tuple EXCEPT !.src_port = 0, !.dst_port = 0]}

(* From the ports on, no cut makes header bytes pass for payload or leads  *)
(* beyond the frame: the payload starts where it does in the whole frame,  *)
(* or at the cut if that comes first, or is missing.                       *)
PayloadIsNeverHeader ==
  \A i \in FramesRead :
    LET sent == records[i].sent
    IN /\ Understood(sent) /\ HasPorts(sent) /\ sent.link # "management"
       /\ records[i].incl_len >= PortsEnd(sent)
       => packets[i].frame.l7_offset \in
            {Absent, Pcap!PD!Clipped(PayloadAt(sent), packets[i].data)}

(* packet.rs:56, "Byte offset where L7 payload starts within `data`, if    *)
(* applicable": the offset is one of the frame, or its end.                *)
L7StartsWithinData ==
  \A i \in FramesRead :
    packets[i].frame.l7_offset # Absent => packets[i].frame.l7_offset <= Len(packets[i].data)
=============================================================================

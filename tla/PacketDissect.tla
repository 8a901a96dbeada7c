---------------------------- MODULE PacketDissect ----------------------------
(***************************************************************************)
(* What Packet::from_pcap_record reads out of the bytes of a frame         *)
(* (packet.rs): MAC addresses, BSSID, five-tuple and the offset of the L7  *)
(* payload, for Ethernet, 802.11 with or without radiotap, and raw IP.     *)
(*                                                                         *)
(* Bytes are numbers below 256 and offsets count from 0, as in the code.   *)
(* An address is the tuple of its 4, 6 or 16 bytes.                        *)
(* The time stamp, which from_pcap_record takes over (its ts_usec * 1000   *)
(* as a u32, packet.rs:78), is not among them.                             *)
(***************************************************************************)
EXTENDS Integers, Sequences

CONSTANT Absent   \* Rust's None

Byte(data, i) == data[i + 1]
From(data, i) == SubSeq(data, i + 1, Len(data))
Bytes(data, i, j) == SubSeq(data, i + 1, j)
Be16(data, i) == 256 * Byte(data, i) + Byte(data, i + 1)
Le16(data, i) == Byte(data, i) + 256 * Byte(data, i + 1)

Clipped(i, data) == IF i < Len(data) THEN i ELSE Len(data)

Tcp == 6
Udp == 17
Ethertypes == {2048, 34525}      \* 0x0800 and 0x86DD, IPv4 and IPv6
Dot1Q == 33024                   \* 0x8100

(* IpInfo: the five-tuple, and the L7 offset within the IP datagram.       *)
IpInfo(protocol, src_ip, dst_ip, l4) ==
  [five_tuple |-> [protocol |-> protocol, src_ip |-> src_ip, dst_ip |-> dst_ip,
                   src_port |-> l4.src_port, dst_port |-> l4.dst_port],
   l7_offset |-> l4.l7_offset]

NoPorts(l7_offset) == [src_port |-> 0, dst_port |-> 0, l7_offset |-> l7_offset]

(* Mutant: the end of the TCP header is not cut at the end of the frame.   *)
L7OffsetUnclipped(data, protocol, at) ==
  IF protocol = Udp THEN Clipped(at + 8, data)
  ELSE IF Len(data) >= at + 20 THEN at + 4 * (Byte(data, at + 12) \div 16)
  ELSE Absent

(* Where the payload of the TCP or UDP header at `at' starts.              *)
L7Offset(data, protocol, at) ==
  IF protocol = Udp THEN Clipped(at + 8, data)
  ELSE IF Len(data) >= at + 20
  THEN Clipped(at + 4 * (Byte(data, at + 12) \div 16), data)
  ELSE Absent

(* The transport header at `at': ICMP has neither ports nor payload; any   *)
(* other protocol, and TCP or UDP cut within the ports, has the offset of  *)
(* the header itself, be it beyond the data or not.                        *)
Transport(data, protocol, icmp, at) ==
  IF protocol \in {Tcp, Udp} /\ Len(data) >= at + 4
  THEN [src_port |-> Be16(data, at), dst_port |-> Be16(data, at + 2),
        l7_offset |-> L7Offset(data, protocol, at)]
  ELSE NoPorts(IF protocol = icmp THEN Absent ELSE at)

(* Mutant: a header without options. *)
HeaderLenFixed(data) == 20

(* The ihl field of an IPv4 header, in bytes. *)
HeaderLen(data) == 4 * (Byte(data, 0) % 16)

ParseIpv4(data) ==
  IF Len(data) < 20 \/ HeaderLen(data) < 20 \/ Len(data) < HeaderLen(data)
  THEN Absent
  ELSE IpInfo(Byte(data, 9), Bytes(data, 12, 16), Bytes(data, 16, 20),
              Transport(data, Byte(data, 9), 1, HeaderLen(data)))
-----------------------------------------------------------------------------
MaxExtHeaders == 8

ExtensionHeaders == {0, 43, 44, 51, 60}
Esp == 50
NoNextHeader == 59

(* Mutant: a chain that is cut ends with the header it stopped at.         *)
ChainCutAt(chain) == chain

ChainCut(chain) == [chain EXCEPT !.is = "cut"]

(* One step along the chain of extension headers: the frame may be cut     *)
(* within one.  Every extension header is taken to have its length in      *)
(* units of 8 bytes.                                                       *)
NextHeader(data, chain) ==
  CASE chain.is = "transport" /\ chain.protocol \in {NoNextHeader, Esp} ->
         [chain EXCEPT !.is = "opaque"]
    [] chain.is = "transport" /\ chain.protocol \in ExtensionHeaders ->
         IF Len(data) < chain.pos + 2 THEN ChainCut(chain)
         ELSE [is |-> "transport", protocol |-> Byte(data, chain.pos),
               pos |-> chain.pos + 8 * (Byte(data, chain.pos + 1) + 1)]
    [] OTHER -> chain

(* Where at most MaxExtHeaders steps from the fixed IPv6 header lead.      *)
ExtensionChain(data) ==
  LET after[i \in 0..MaxExtHeaders] ==
        IF i = 0 THEN [is |-> "transport", protocol |-> Byte(data, 6), pos |-> 40]
        ELSE NextHeader(data, after[i - 1])
  IN after[MaxExtHeaders]

ParseIpv6(data) ==
  IF Len(data) < 40 THEN Absent
  ELSE LET chain == ExtensionChain(data)
       IN IF chain.is = "cut" THEN Absent
          ELSE IpInfo(chain.protocol, Bytes(data, 8, 24), Bytes(data, 24, 40),
                      IF chain.is = "opaque" THEN NoPorts(Absent)
                      ELSE Transport(data, chain.protocol, 58, chain.pos))

ParseIp(data) ==
  IF data = <<>> THEN Absent
  ELSE CASE Byte(data, 0) \div 16 = 4 -> ParseIpv4(data)
         [] Byte(data, 0) \div 16 = 6 -> ParseIpv6(data)
         [] OTHER -> Absent
-----------------------------------------------------------------------------
(* A ParsedFrame. *)
Parsed(src_mac, dst_mac, bssid, info, link_offset) ==
  [src_mac |-> src_mac, dst_mac |-> dst_mac, bssid |-> bssid,
   five_tuple |-> IF info = Absent THEN Absent ELSE info.five_tuple,
   l7_offset |-> IF info = Absent THEN Absent
                 ELSE IF info.l7_offset = Absent THEN Absent
                 ELSE link_offset + info.l7_offset]

NothingParsed == Parsed(Absent, Absent, Absent, Absent, 0)

(* Where the datagram of an Ethernet frame starts: after the header, or    *)
(* after one VLAN tag.                                                     *)
EthernetPayload(data) ==
  CASE Be16(data, 12) \in Ethertypes -> 14
    [] Be16(data, 12) = Dot1Q /\ Len(data) >= 18 ->
         IF Be16(data, 16) \in Ethertypes THEN 18 ELSE Absent
    [] OTHER -> Absent

ParseEthernet(data) ==
  IF Len(data) < 14 THEN NothingParsed
  ELSE LET at   == EthernetPayload(data)
           info == IF at = Absent THEN Absent ELSE ParseIp(From(data, at))
       IN Parsed(Bytes(data, 6, 12), Bytes(data, 0, 6), Absent, info, at)

(* The two bits of a data frame say which address is the access point.     *)
Management == 0
Data == 2

Bssid(hdr, frame_type, to_ds, from_ds) ==
  CASE frame_type = Management -> Bytes(hdr, 16, 22)
    [] frame_type = Data /\ to_ds = 0 /\ from_ds = 0 -> Bytes(hdr, 16, 22)
    [] frame_type = Data /\ to_ds = 1 /\ from_ds = 0 -> Bytes(hdr, 4, 10)
    [] frame_type = Data /\ to_ds = 0 /\ from_ds = 1 -> Bytes(hdr, 10, 16)
    [] OTHER -> Absent

(* LLC and SNAP headers that announce an IP datagram. *)
CarriesIp(llc) ==
  /\ Len(llc) >= 8
  /\ Bytes(llc, 0, 6) = <<170, 170, 3, 0, 0, 0>>
  /\ Be16(llc, 6) \in Ethertypes

Parse80211Frame(data, offset) ==
  IF Len(data) < offset + 24 THEN NothingParsed
  ELSE LET hdr        == From(data, offset)
           frame_type == (Byte(hdr, 0) \div 4) % 4
           to_ds      == Byte(hdr, 1) % 2
           from_ds    == (Byte(hdr, 1) \div 2) % 2
           header_len == IF frame_type = Data /\ to_ds = 1 /\ from_ds = 1 THEN 30 ELSE 24
           llc        == From(data, offset + header_len)
           info       == IF CarriesIp(llc) THEN ParseIp(From(llc, 8)) ELSE Absent
       IN Parsed(Bytes(hdr, 10, 16), Bytes(hdr, 4, 10),
                 Bssid(hdr, frame_type, to_ds, from_ds), info, offset + header_len + 8)

ParseWifiRadiotap(data) ==
  IF Len(data) < 4 \/ Byte(data, 0) # 0 \/ Le16(data, 2) < 4 \/ Le16(data, 2) > Len(data)
  THEN NothingParsed
  ELSE Parse80211Frame(data, Le16(data, 2))

(* from_pcap_record; any other link type is taken for raw IP. *)
FromPcapRecord(link_type, data) ==
  CASE link_type = 1   -> ParseEthernet(data)
    [] link_type = 105 -> Parse80211Frame(data, 0)
    [] link_type = 127 -> ParseWifiRadiotap(data)
    [] OTHER           -> Parsed(Absent, Absent, Absent, ParseIp(data), 0)

(* l7_data slices data[l7_offset..], which panics beyond the end.          *)
L7Data(packet, data) ==
  IF packet.l7_offset = Absent THEN Absent ELSE From(data, packet.l7_offset)
=============================================================================

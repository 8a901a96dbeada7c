---------------------------- MODULE Encapsulation ----------------------------
(***************************************************************************)
(* Frames as the sending stations build them, to compare PacketDissect     *)
(* with: the header layouts of IEEE 802.3 and 802.11, IPv4, IPv6, TCP and  *)
(* UDP.  Fields that nothing of the program reads are filled with Filler.  *)
(*                                                                         *)
(* What is sent is a record:                                               *)
(*   link      "ethernet", "vlan", "ip", "management", or a data frame     *)
(*             "adhoc", "to AP", "from AP", "relayed", or one with a QoS   *)
(*             field; radiotap: the bytes of radiotap header before it     *)
(*   src, dst  the IP addresses                                            *)
(*   words     the words of IPv4 options, or                               *)
(*   chain     the IPv6 extension headers: <<number, units beyond 8 bytes>>*)
(*   protocol, src_port, dst_port, payload (bytes), tcp_words (of options) *)
(*   padding   bytes the link layer adds at the end                        *)
(***************************************************************************)
EXTENDS Integers, Sequences, SequencesExt

Filler == 7
Fill(n) == [i \in 1..n |-> Filler]
PayloadByte == 99
Payload(sent) == [i \in 1..sent.payload |-> PayloadByte]

InBe16(n) == <<n \div 256, n % 256>>

Station == <<2, 0, 0, 0, 0, 1>>
Peer    == <<2, 0, 0, 0, 0, 2>>
Ap      == <<2, 0, 0, 0, 0, 3>>

TcpHeader(sent) ==
  InBe16(sent.src_port) \o InBe16(sent.dst_port) \o Fill(8)
    \o <<16 * (5 + sent.tcp_words)>> \o Fill(7 + 4 * sent.tcp_words)

Segment(sent) ==
  (CASE sent.protocol = 6  -> TcpHeader(sent)
     [] sent.protocol = 17 -> InBe16(sent.src_port) \o InBe16(sent.dst_port) \o Fill(4)
     [] OTHER              -> Fill(8)) \o Payload(sent)

IsIpv4(sent) == Len(sent.src) = 4

Ipv4(sent) ==
  <<64 + 5 + sent.words>> \o Fill(8) \o <<sent.protocol>> \o Fill(2)
    \o sent.src \o sent.dst \o Fill(4 * sent.words) \o Segment(sent)

(* The number that the i-th header of the chain, or the fixed header for   *)
(* i = 0, gives for the one after it.                                      *)
NextHeader(sent, i) ==
  IF i < Len(sent.chain) THEN sent.chain[i + 1][1] ELSE sent.protocol

Ipv6(sent) ==
  <<96>> \o Fill(5) \o <<NextHeader(sent, 0)>> \o Fill(1) \o sent.src \o sent.dst
    \o FlattenSeq([i \in DOMAIN sent.chain |->
         <<NextHeader(sent, i), sent.chain[i][2]>> \o Fill(6 + 8 * sent.chain[i][2])])
    \o Segment(sent)

Datagram(sent) == IF IsIpv4(sent) THEN Ipv4(sent) ELSE Ipv6(sent)

Ethertype(sent) == IF IsIpv4(sent) THEN <<8, 0>> ELSE <<134, 221>>

(* 802.11: frame control, duration, three addresses and sequence control;  *)
(* relayed frames have a fourth address, QoS frames two more bytes.        *)
Wifi(sent) ==
  LET head(control, a, b, c) == control \o Fill(2) \o a \o b \o c \o Fill(2)
      snap == <<170, 170, 3, 0, 0, 0>> \o Ethertype(sent)
  IN CASE sent.link = "management" -> head(<<0, 0>>, Peer, Station, Ap) \o Fill(10)
       [] sent.link = "adhoc"   -> head(<<8, 0>>, Peer, Station, Ap) \o snap \o Datagram(sent)
       [] sent.link = "to AP"   -> head(<<8, 1>>, Ap, Station, Peer) \o snap \o Datagram(sent)
       [] sent.link = "from AP" -> head(<<8, 2>>, Station, Ap, Peer) \o snap \o Datagram(sent)
       [] sent.link = "relayed" ->
            head(<<8, 3>>, Ap, Station, Peer) \o Peer \o snap \o Datagram(sent)
       [] sent.link = "QoS"     ->
            head(<<136, 1>>, Ap, Station, Peer) \o Fill(2) \o snap \o Datagram(sent)

Radiotap(sent) ==
  <<0, 0, sent.radiotap, 0>> \o Fill(sent.radiotap - 4) \o Wifi(sent)

(* The bytes on the wire.                                                  *)
OnTheWire(sent) ==
  CASE sent.link = "ethernet" ->
         Peer \o Station \o Ethertype(sent) \o Datagram(sent) \o Fill(sent.padding)
    [] sent.link = "vlan" ->
         Peer \o Station \o <<129, 0>> \o Fill(2) \o Ethertype(sent) \o Datagram(sent)
    [] sent.link = "ip" -> Datagram(sent)
    [] sent.radiotap > 0 -> Radiotap(sent)
    [] OTHER -> Wifi(sent)

LinkType(sent) ==
  CASE sent.link \in {"ethernet", "vlan"} -> 1
    [] sent.link = "ip" -> 101
    [] sent.radiotap > 0 -> 127
    [] OTHER -> 105

(* Who transmits and receives the frame on this hop, and in which cell.    *)
Transmitter(sent) == IF sent.link = "from AP" THEN Ap ELSE Station

Receiver(sent) ==
  CASE sent.link \in {"to AP", "relayed", "QoS"} -> Ap
    [] sent.link = "from AP" -> Station
    [] OTHER -> Peer
=============================================================================

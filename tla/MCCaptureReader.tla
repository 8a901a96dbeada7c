--------------------------- MODULE MCCaptureReader ---------------------------
(* CaptureReader over PCAP files of every magic number, two versions and   *)
(* every cut; PCAP files of one frame of many shapes, captured to every    *)
(* length; and PCAP-NG files of packets of two interfaces, descriptions of *)
(* interfaces, other blocks and broken ones, in every order.               *)
EXTENDS CaptureReader

CONSTANTS MaxRecords, FramesOf

Noise == [fraction : {0, 5000}, incl_len : 0..2, sent : {Absent}]

NoiseCaptures == UNION {[1..n -> Noise] : n \in 0..MaxRecords}

PcapFile(mag, ver, link, recs, lefts, ends_early) ==
  [magic |-> mag, version |-> ver, link_type |-> link,
   records |-> recs, cuts |-> lefts, short |-> ends_early]

NoiseFiles ==
  {PcapFile(mag, ver, 1, recs, 0..3 * MaxRecords, FALSE) :
     mag \in {"LE micro", "BE micro", "LE nano", "BE nano"},
     ver \in {<<2, 3>>, <<2, 4>>}, recs \in NoiseCaptures}
  \cup {PcapFile("LE micro", <<2, 4>>, 1, recs, {0}, TRUE) : recs \in NoiseCaptures}

Ethernet4 ==
  [link |-> "ethernet", radiotap |-> 0, src |-> <<10, 0, 0, 1>>, dst |-> <<10, 0, 0, 2>>,
   words |-> 0, chain |-> <<>>, protocol |-> 6, src_port |-> 258, dst_port |-> 772,
   payload |-> 3, tcp_words |-> 0, padding |-> 0]

V6Address(n) == [i \in 1..16 |-> IF i = 16 THEN n ELSE 32]

V6(sent, chain) == [sent EXCEPT !.src = V6Address(1), !.dst = V6Address(2), !.chain = chain]

OverLinks(sent) ==
  {[sent EXCEPT !.link = l] : l \in {"ethernet", "vlan", "ip"}}
  \cup {[sent EXCEPT !.padding = 2]}
  \cup {[sent EXCEPT !.link = l, !.radiotap = r] :
          l \in {"management", "adhoc", "to AP", "from AP", "relayed", "QoS"}, r \in {0, 9}}

OverTransports(sent) ==
  {[sent EXCEPT !.protocol = p] : p \in {1, 17, 47, 50, 58, 59}}
  \cup {[sent EXCEPT !.tcp_words = n] : n \in {0, 3}}

Chains ==
  {<<>>, << <<0, 0>> >>, << <<60, 1>>, <<44, 0>> >>, << <<51, 1>> >>}
  \cup {[i \in 1..n |-> <<60, 0>>] : n \in {8, 9}}

OverNets(sent) ==
  {[sent EXCEPT !.words = n] : n \in {0, 1, 10}} \cup {V6(sent, chain) : chain \in Chains}

(* Every transport over every network header, and every link over both     *)
(* versions of IP.                                                         *)
AllFrames ==
  UNION {OverTransports(sent) : sent \in OverNets(Ethernet4)}
  \cup OverLinks(Ethernet4)
  \cup OverLinks(V6(Ethernet4, << <<0, 0>> >>))

(* Cut frames of one conversation over IPv6 with an extension header. *)
OneConversation == {V6(Ethernet4, chain) : chain \in Chains}

FrameFiles ==
  UNION {{PcapFile("LE micro", <<2, 3>>, Enc!LinkType(sent),
                   <<[fraction |-> 0, incl_len |-> n, sent |-> sent]>>, {n + 1}, FALSE)
            : n \in 0..Len(Enc!OnTheWire(sent))}
           : sent \in FramesOf}

MCPcapFiles == NoiseFiles \cup FrameFiles

Idb(link, tsresol, bad) ==
  [is |-> "IDB", bad |-> bad, link_type |-> link, tsresol |-> tsresol]

(* The first bytes of an Ethernet frame, of an 802.11 one too.             *)
FrameData == [i \in 1..24 |-> i]

Epb(iface, bad) == [is |-> "EPB", bad |-> bad, iface |-> iface, ts |-> 1234, data |-> FrameData]

Spb(bytes, bad) == [is |-> "SPB", bad |-> bad, data |-> bytes]

MCBlocks == {
  Idb(1, Absent, FALSE), Idb(105, 3, FALSE), Idb(1, 1, FALSE), Idb(1, 64, FALSE),
  Idb(105, 138, FALSE), Idb(1, 2, TRUE),
  Epb(0, FALSE), Epb(1, FALSE), Epb(0, TRUE),
  Spb(FrameData, FALSE), Spb(<<>>, FALSE),
  [is |-> "SHB", bad |-> FALSE], [is |-> "SHB", bad |-> TRUE], [is |-> "other", bad |-> FALSE] }
=============================================================================

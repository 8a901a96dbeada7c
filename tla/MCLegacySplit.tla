--------------------------- MODULE MCLegacySplit ---------------------------
(* LegacySplit over two captures of a conversation in both directions, one *)
(* of its packets an acknowledgement without payload, two conversations of *)
(* IPv6 hosts whose files have one name, and a frame without IP: up to     *)
(* four packets in the first capture and one in the second, which has the  *)
(* stem of the first or another; or one capture with a parse error.        *)
EXTENDS LegacySplit

GS == INSTANCE GroupStrategy

T(a, b, p, q) == [protocol |-> 6, src_ip |-> a, dst_ip |-> b, src_port |-> p, dst_port |-> q]

Frame(ft, l7) ==
  [five_tuple |-> ft, src_mac |-> 1, dst_mac |-> 2, bssid |-> Absent, ts_sec |-> 0, l7 |-> l7]

(* In the order of IpAddr: 1.1.1.1, 1.1.1.2; then 1::1, 1::1:1, 1:2::1 and *)
(* 2::1.  Both 1::1_1:2::1 and 1::1:1_2::1 become 1__1_1_2__1.             *)
Addresses == <<
  <<1, 1, 1, 1>>, <<1, 1, 1, 2>>,
  <<1, 0, 0, 0, 0, 0, 0, 1>>, <<1, 0, 0, 0, 0, 0, 1, 1>>,
  <<1, 2, 0, 0, 0, 0, 0, 1>>, <<2, 0, 0, 0, 0, 0, 0, 1>> >>

MCSegments(ip) == Addresses[ip]

Traffic == <<
  Frame(T(1, 2, 8, 9), TRUE),
  Frame(T(2, 1, 9, 8), FALSE),
  Frame(T(3, 5, 8, 9), TRUE),
  Frame(T(4, 6, 8, 9), TRUE),
  Frame(Absent, FALSE) >>

MCPacket == DOMAIN Traffic
MCKeysOf(strategy, pkt, index) == GS!GroupKeys(strategy, Traffic[pkt], index)
MCPasses(pkt) == GS!Matches([ips |-> {}, ports |-> {}], Traffic[pkt])
MCSessionOf(pkt) ==
  IF Traffic[pkt].five_tuple = Absent THEN Absent
  ELSE GS!TupleKey(GS!SessionKey(Traffic[pkt].five_tuple))
MCHasL7(pkt) == Traffic[pkt].l7
MCStrategies == {[by |-> "session", n |-> 0], [by |-> "host", n |-> 0]}
MCKey ==
  UNION {ToSet(MCKeysOf(strategy, pkt, 0)) : strategy \in MCStrategies, pkt \in MCPacket}
MCOptions == [strategy : MCStrategies, l7 : BOOLEAN, clean : BOOLEAN]

(* Captures of different packets, in any order. *)
Captures(max) ==
  {c \in UNION {[1..n -> MCPacket] : n \in 0..max} :
     \A i, j \in DOMAIN c : c[i] = c[j] => i = j}

Input1(tail) == [stem : {"a"}, packets : Captures(4), tail : {tail}]

MCCommandLines ==
  {<<first, [stem |-> second[1], packets |-> second[2], tail |-> "eof"]>> :
     first \in Input1("eof"),
     second \in {<<"a", <<1>> >>, <<"a", <<3>> >>, <<"a", <<5>> >>, <<"b", <<1>> >>}}
    \cup {<<first>> : first \in Input1("error")}
=============================================================================

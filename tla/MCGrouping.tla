----------------------------- MODULE MCGrouping -----------------------------
(* Grouping over two IPv4 hosts that talk to each other and to themselves, *)
(* in both directions, IPv6 hosts whose separators fall differently, and   *)
(* an IPv4-mapped one with its twin, with all nine strategies.             *)
EXTENDS Grouping

T(proto, a, b, p, q) ==
  [protocol |-> proto, src_ip |-> a, dst_ip |-> b, src_port |-> p, dst_port |-> q]

P(ft, src, dst, bssid, ts) ==
  [five_tuple |-> ft, src_mac |-> src, dst_mac |-> dst, bssid |-> bssid, ts_sec |-> ts]

(* In the order of IpAddr: 1.1.1.11, 1.1.11.1; then ::ffff:1.2.3.16,       *)
(* ::ffff:1:2:3:16, 1::1, 1::1:1, 1:1::1 and 2::1.                         *)
Addresses == <<
  <<1, 1, 1, 11>>, <<1, 1, 11, 1>>,
  <<0, 0, 0, 0, 0, 65535, 258, 784>>, <<0, 0, 0, 65535, 1, 2, 3, 22>>,
  <<1, 0, 0, 0, 0, 0, 0, 1>>, <<1, 0, 0, 0, 0, 0, 1, 1>>,
  <<1, 1, 0, 0, 0, 0, 0, 1>>, <<2, 0, 0, 0, 0, 0, 0, 1>> >>

MCSegments(ip) == Addresses[ip]

MCPackets == {
  P(T(6, 1, 2, 1, 11), 1, 2, Absent, 0),
  P(T(6, 2, 1, 11, 1), 2, 1, Absent, 3),
  P(T(6, 2, 1, 1, 11), 2, 1, 1, 1),
  P(T(17, 1, 2, 1, 11), 1, 2, 2, 2),
  P(T(6, 1, 1, 1, 11), 1, 1, Absent, 4),
  P(T(6, 1, 1, 11, 1), 1, 1, Absent, 5),
  P(T(6, 1, 1, 1, 1), Absent, 1, 1, 1),
  P(T(6, 5, 6, 1, 11), 1, 2, Absent, 1),
  P(T(6, 7, 8, 11, 1), 1, 2, Absent, 2),
  P(T(6, 4, 3, 1, 1), 1, 2, Absent, 1),
  P(Absent, Absent, Absent, Absent, 2),
  P(Absent, 1, Absent, 2, 0) }

MCStrategies ==
  {[by |-> s, n |-> 0] : s \in {"session", "flow", "host", "hostpair", "mac", "bssid", "nosplit"}}
    \cup [by : {"seconds", "packets"}, n : {1, 2}]

MCFilters == [ips : {{}, {2}, {1, 3}}, ports : {{}, {11}}]
=============================================================================

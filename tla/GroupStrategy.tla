---------------------------- MODULE GroupStrategy ----------------------------
(***************************************************************************)
(* Which group or groups a packet belongs to (flow/strategy.rs, and        *)
(* FiveTuple::session_key of packet.rs) and which packets pass the -ip and *)
(* -port filters (filter.rs).                                              *)
(*                                                                         *)
(* A packet is a record of what the strategies read.  IP addresses, ports  *)
(* and MAC addresses are numbers: IpAddr and u16 are totally ordered, and  *)
(* nothing else about them matters here.  A key is a tuple: within one     *)
(* strategy the format! calls write different tuples as different strings, *)
(* because neither a number nor an address contains the `_' between them.  *)
(***************************************************************************)
EXTENDS Integers, Sequences, FiniteSets

CONSTANT Absent   \* Rust's None

Reversed(ft) ==
  [ft EXCEPT !.src_ip = ft.dst_ip, !.dst_ip = ft.src_ip,
             !.src_port = ft.dst_port, !.dst_port = ft.src_port]

(* Mutant: the ports are not compared. *)
SessionKeyByAddress(ft) == IF ft.src_ip < ft.dst_ip THEN ft ELSE Reversed(ft)

(* FiveTuple::session_key: the smaller address, then the smaller port,     *)
(* comes first.                                                            *)
SessionKey(ft) ==
  IF \/ ft.src_ip < ft.dst_ip
     \/ ft.src_ip = ft.dst_ip /\ ft.src_port < ft.dst_port
  THEN ft
  ELSE Reversed(ft)

TupleKey(ft) == <<ft.protocol, ft.src_ip, ft.dst_ip, ft.src_port, ft.dst_port>>

(* The keys of one packet under each strategy.  Host names a group twice   *)
(* when a packet goes from an address to itself; mac does not.             *)
SessionKeys(pkt) ==
  IF pkt.five_tuple = Absent THEN << <<"no_session">> >>
  ELSE << TupleKey(SessionKey(pkt.five_tuple)) >>

FlowKeys(pkt) ==
  IF pkt.five_tuple = Absent THEN << <<"no_flow">> >>
  ELSE << TupleKey(pkt.five_tuple) >>

HostKeys(pkt) ==
  IF pkt.five_tuple = Absent THEN << <<"no_host">> >>
  ELSE << <<"ip", pkt.five_tuple.src_ip>>, <<"ip", pkt.five_tuple.dst_ip>> >>

(* Mutant: the pair is not sorted. *)
HostpairKeysUnsorted(pkt) ==
  IF pkt.five_tuple = Absent THEN << <<"no_hostpair">> >>
  ELSE << <<"ips", pkt.five_tuple.src_ip, pkt.five_tuple.dst_ip>> >>

HostpairKeys(pkt) ==
  IF pkt.five_tuple = Absent THEN << <<"no_hostpair">> >>
  ELSE LET a == pkt.five_tuple.src_ip
           b == pkt.five_tuple.dst_ip
       IN IF a < b THEN << <<"ips", a, b>> >> ELSE << <<"ips", b, a>> >>

(* Mutant: a packet without MAC addresses gets no key. *)
MacKeysWithoutDefault(pkt) ==
  (IF pkt.src_mac = Absent THEN <<>> ELSE << <<"mac", pkt.src_mac>> >>)
    \o (IF pkt.dst_mac \in {Absent, pkt.src_mac} THEN <<>> ELSE << <<"mac", pkt.dst_mac>> >>)

MacKeys(pkt) ==
  LET src == IF pkt.src_mac = Absent THEN <<>> ELSE << <<"mac", pkt.src_mac>> >>
      dst == IF pkt.dst_mac = Absent \/ pkt.dst_mac = pkt.src_mac THEN <<>>
             ELSE << <<"mac", pkt.dst_mac>> >>
  IN IF src \o dst = <<>> THEN << <<"no_mac">> >> ELSE src \o dst

BssidKeys(pkt) ==
  IF pkt.bssid = Absent THEN << <<"no_bssid">> >> ELSE << <<"mac", pkt.bssid>> >>

SecondsKeys(pkt, interval) == << <<"ts", pkt.ts_sec \div interval>> >>

PacketsKeys(global_pkt_idx, count) == << <<"pkt", global_pkt_idx \div count>> >>

(* group_keys.  A strategy is a record: its name in the field `by', and in *)
(* `n' the argument of seconds and packets.                                *)
GroupKeys(strategy, pkt, global_pkt_idx) ==
  CASE strategy.by = "session"  -> SessionKeys(pkt)
    [] strategy.by = "flow"     -> FlowKeys(pkt)
    [] strategy.by = "host"     -> HostKeys(pkt)
    [] strategy.by = "hostpair" -> HostpairKeys(pkt)
    [] strategy.by = "mac"      -> MacKeys(pkt)
    [] strategy.by = "bssid"    -> BssidKeys(pkt)
    [] strategy.by = "nosplit"  -> << <<"all">> >>
    [] strategy.by = "seconds"  -> SecondsKeys(pkt, strategy.n)
    [] strategy.by = "packets"  -> PacketsKeys(global_pkt_idx, strategy.n)

(* `-s seconds 0' and `-s packets 0' are accepted, and divide by zero on   *)
(* the first packet.                                                       *)
DividesByZero(strategy) == strategy.by \in {"seconds", "packets"} /\ strategy.n = 0

(* Mutant: only the source is compared. *)
MatchesSource(filter, pkt) ==
  /\ filter.ips = {} \/ (pkt.five_tuple # Absent /\ pkt.five_tuple.src_ip \in filter.ips)
  /\ filter.ports = {} \/ (pkt.five_tuple # Absent /\ pkt.five_tuple.src_port \in filter.ports)

(* Filter::matches: an empty list lets every packet pass, a packet without *)
(* a five-tuple fails a list that is not empty.                            *)
Matches(filter, pkt) ==
  /\ \/ filter.ips = {}
     \/ /\ pkt.five_tuple # Absent
        /\ {pkt.five_tuple.src_ip, pkt.five_tuple.dst_ip} \cap filter.ips # {}
  /\ \/ filter.ports = {}
     \/ /\ pkt.five_tuple # Absent
        /\ {pkt.five_tuple.src_port, pkt.five_tuple.dst_port} \cap filter.ports # {}
=============================================================================

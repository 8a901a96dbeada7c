------------------------- MODULE MCArchiveRoundTrip -------------------------
(* ArchiveRoundTrip by session over five packets: a conversation in both   *)
(* directions, one of an address with itself, one over UDP, and a frame    *)
(* without IP; and command lines of up to two addresses, a port and a      *)
(* protocol.                                                               *)
EXTENDS ArchiveRoundTrip

Strategy == [by |-> "session", n |-> 0]

GS == INSTANCE GroupStrategy

T(proto, a, b, p, q) ==
  [protocol |-> proto, src_ip |-> a, dst_ip |-> b, src_port |-> p, dst_port |-> q]

Traffic == <<
  T(6, 1, 2, 8, 9), T(6, 2, 1, 9, 8), T(6, 2, 2, 9, 7), T(17, 2, 3, 9, 9), Absent >>

MCPacket == DOMAIN Traffic
MCFiveTupleOf(pkt) == Traffic[pkt]
(* Frames of 1 to 8 cells: distances of one to three LEB128 digits.        *)
MCDataLen(pkt) == <<0, 1, 7, 2, 2>>[pkt]
MCKeysOf(pkt) ==
  ToSet(GS!GroupKeys(Strategy,
    [five_tuple |-> Traffic[pkt], src_mac |-> Absent, dst_mac |-> Absent,
     bssid |-> Absent, ts_sec |-> 0], 0))
(* The keys that the packets have.                                         *)
MCKey == {
  <<6, 1, 2, 8, 9>>, <<6, 2, 2, 7, 9>>, <<17, 2, 3, 9, 9>>, <<"no_session">> }

(* The packets are grouped as FilesAreTheFlowsAlways asks.                 *)
ASSUME SessionAssumption == BySession

MCMaxFrames == <<3, 1>>
OneRunOfTwo == <<2>>

IpFilter(ip) == [by |-> "ip", value |-> ip]

FilterLists ==
  {ips \o port \o proto :
     ips   \in {<<>>, <<IpFilter(2)>>, <<IpFilter(3)>>, <<IpFilter(2), IpFilter(3)>>},
     port  \in {<<>>, <<[by |-> "port", value |-> 8]>>},
     proto \in {<<>>, <<[by |-> "proto", value |-> 17]>>}}

OnlyFilters == {[mode |-> "filters", filters |-> fs] : fs \in FilterLists}

AllCommands ==
  OnlyFilters
  \cup {[mode |-> "flow", id |-> n] : n \in {1, 3}}
  \cup {[mode |-> "pipe"], [mode |-> "list"]}
=============================================================================

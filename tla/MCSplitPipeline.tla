--------------------------- MODULE MCSplitPipeline ---------------------------
(* SplitPipeline over the packets of Traffic, grouped and filtered by      *)
(* GroupStrategy: one conversation in both directions, one of an address   *)
(* with itself, an ACK without payload, a frame without IP, and a packet   *)
(* that the L7 slicing panics on.                                          *)
EXTENDS SplitPipeline

CONSTANT
  Settings      \* the -s arguments and filters of the runs, and how many packets
                \* their captures have at most (bound)

GS == INSTANCE GroupStrategy

T(a, b, p, q) ==
  [protocol |-> 6, src_ip |-> a, dst_ip |-> b, src_port |-> p, dst_port |-> q]

Frame(ft, l7, panics) ==
  [five_tuple |-> ft, src_mac |-> 1, dst_mac |-> 2, bssid |-> Absent, ts_sec |-> 0,
   l7 |-> l7, panics |-> panics]

Traffic == <<
  Frame(T(1, 2, 8, 9), TRUE, FALSE),
  Frame(T(2, 1, 9, 8), FALSE, FALSE),
  Frame(T(1, 1, 8, 9), TRUE, FALSE),
  Frame(Absent, FALSE, FALSE),
  Frame(T(1, 2, 8, 9), TRUE, TRUE) >>

(* A packet carries the setting of the run it belongs to.                  *)
MCPacket == [frame : DOMAIN Traffic, setting : Settings]

FrameOf(pkt) == Traffic[pkt.frame]

MCPasses(pkt) == GS!Matches(pkt.setting.filter, FrameOf(pkt))
MCHasL7(pkt) == FrameOf(pkt).l7
MCPanics(pkt) == FrameOf(pkt).panics \/ GS!DividesByZero(pkt.setting.strategy)
MCKeysOf(pkt, index) ==
  IF GS!DividesByZero(pkt.setting.strategy) THEN <<>>
  ELSE GS!GroupKeys(pkt.setting.strategy, FrameOf(pkt), index)

(* The keys that the packets have under the settings.                      *)
MCKey == {
  <<"no_session">>, <<6, 1, 1, 8, 9>>, <<6, 1, 2, 8, 9>>,
  <<"no_host">>, <<"ip", 1>>, <<"ip", 2>>, <<"pkt", 0>>, <<"pkt", 1>> }

(* Every capture of at most max different packets, in any order. *)
MCCaptures ==
  UNION {{[i \in DOMAIN c |-> [frame |-> c[i], setting |-> s]] :
            c \in {d \in UNION {[1..n -> DOMAIN Traffic] : n \in 0..s.max} :
                    \A i, j \in DOMAIN d : d[i] = d[j] => i = j}}
           : s \in Settings}

NoFilter == [ips |-> {}, ports |-> {}]

Host1 == [ips |-> {1}, ports |-> {}]

Setting(by, n, filter, max) ==
  [strategy |-> [by |-> by, n |-> n], filter |-> filter, max |-> max]

BySession      == Setting("session", 0, NoFilter, 4)
ByHost         == Setting("host", 0, NoFilter, 3)
ByFilteredHost == Setting("host", 0, Host1, 3)
ByTwoPackets   == Setting("packets", 2, Host1, 3)
ByNoPackets    == Setting("packets", 0, NoFilter, 2)

AllSettings == {BySession, ByFilteredHost, ByTwoPackets, ByNoPackets}
OnlyByHost == {ByHost}
=============================================================================

------------------------------ MODULE Grouping ------------------------------
(***************************************************************************)
(* The loop that every mode runs over the packets of a capture: filter,    *)
(* classify, and hand the packet on under each of its keys (main.rs,       *)
(* run_split_legacy, run_split_pipelined, run_archive and run_pipe).  The  *)
(* groups it gathers, without any limit on their number, are what the      *)
(* modes have to deliver.                                                  *)
(***************************************************************************)
EXTENDS GroupStrategy, FileNames

CONSTANTS
  Packets,      \* the packets a capture may contain
  Strategies,   \* the -s arguments
  Filters,      \* the -ip and -port arguments
  MaxPackets    \* bound: packets in a capture

FiveTuple == [protocol : Nat, src_ip : Nat, dst_ip : Nat, src_port : Nat, dst_port : Nat]

ASSUME PacketsAssumption == \A p \in Packets : p.five_tuple \in FiveTuple \cup {Absent}
ASSUME AbsentAssumption == Absent \notin FiveTuple

(* Every address has four octets or eight groups, and different addresses  *)
(* have different ones; a number is not a separator.                       *)
Hosts == UNION {{p.five_tuple.src_ip, p.five_tuple.dst_ip} :
                  p \in {q \in Packets : q.five_tuple # Absent}}

ASSUME SegmentsAssumption ==
  /\ \A ip \in Hosts : Segments(ip) \in Seq(Nat) /\ Len(Segments(ip)) \in {4, 8}
  /\ \A a, b \in Hosts : Segments(a) = Segments(b) => a = b

ASSUME SeparatorsAssumption == \A n \in {Dot, Colon, Underscore} : n \notin Nat

(* GroupStrategyEnum; with an argument of zero the first packet divides by *)
(* it (DividesByZero), and there is no run of the loop to speak of.        *)
ASSUME StrategiesAssumption == \A s \in Strategies :
  /\ s.by \in {"session", "flow", "host", "hostpair", "mac", "bssid", "nosplit",
              "seconds", "packets"}
  /\ s.by \in {"seconds", "packets"} => s.n \in Nat \ {0}

VARIABLES
  strategy, filter,
  global_pkt_idx,
  groups,       \* key -> the numbers of the packets handed on under it
  seen          \* history: every packet read, passing or not

vars == <<strategy, filter, global_pkt_idx, groups, seen>>

Init ==
  /\ strategy \in Strategies
  /\ filter \in Filters
  /\ global_pkt_idx = 0
  /\ groups = <<>>
  /\ seen = <<>>

GroupOf(key) == IF key \in DOMAIN groups THEN groups[key] ELSE <<>>

(* Mutant: every packet read counts. *)
NextIdxOfAll(pkt) == global_pkt_idx + 1

(* Only a packet that passes the filter counts. *)
NextIdx(pkt) == IF Matches(filter, pkt) THEN global_pkt_idx + 1 ELSE global_pkt_idx

(* next_packet, matches, classify, then the loop over the keys. *)
ReadPacket(pkt) ==
  /\ seen' = Append(seen, pkt)
  /\ global_pkt_idx' = NextIdx(pkt)
  /\ \/ ~Matches(filter, pkt) /\ UNCHANGED groups
     \/ /\ Matches(filter, pkt)
        /\ LET keys == GroupKeys(strategy, pkt, global_pkt_idx)
               Handed(key) == [i \in 1..Cardinality({j \in DOMAIN keys : keys[j] = key})
                                 |-> Len(seen) + 1]
           IN groups' = [key \in DOMAIN groups \cup ToSet(keys) |->
                           GroupOf(key) \o Handed(key)]
  /\ UNCHANGED <<strategy, filter>>

InputEnds == Len(seen) = MaxPackets /\ UNCHANGED vars

Next ==
  \/ Len(seen) < MaxPackets /\ \E pkt \in Packets : ReadPacket(pkt)
  \/ InputEnds

Spec == Init /\ [][Next]_vars
-----------------------------------------------------------------------------
Passing == {i \in DOMAIN seen : Matches(filter, seen[i])}

Tuple(i) == seen[i].five_tuple

SameConversation(i, j) ==
  /\ Tuple(i) # Absent /\ Tuple(j) # Absent
  /\ Tuple(j) = Tuple(i) \/ Tuple(j) = Reversed(Tuple(i))

Together(i, j) == \E key \in DOMAIN groups : {i, j} \subseteq ToSet(groups[key])

(* No packet is dropped or invented by the classification: the packets in  *)
(* the groups are those that pass the filter, in capture order within each *)
(* group, and a packet is in a group once, except that under host a packet *)
(* from an address to itself is in that address's group twice.             *)
GroupsCoverTheCapture ==
  /\ UNION {ToSet(groups[key]) : key \in DOMAIN groups} = Passing
  /\ \A key \in DOMAIN groups : \A n \in 1..Len(groups[key]) - 1 :
       LET i == groups[key][n] IN
         \/ i < groups[key][n + 1]
         \/ /\ i = groups[key][n + 1]
            /\ strategy.by = "host" /\ Tuple(i).src_ip = Tuple(i).dst_ip

(* session_key's doc, packet.rs:18: both directions of a conversation are  *)
(* in one group, and nothing else is in it, also when an address talks to  *)
(* itself and only the ports tell the directions apart.                    *)
SessionsAreConversations ==
  strategy.by = "session" =>
    \A i, j \in Passing :
      Tuple(i) # Absent /\ Tuple(j) # Absent =>
        (Together(i, j) <=> SameConversation(i, j))

(* Each strategy only refines the next coarser one: packets of one flow    *)
(* are of one session, of one hostpair, and go to the same hosts' files.   *)
StrategiesNest ==
  \A i, j \in DOMAIN seen :
    LET p == seen[i]
        q == seen[j]
    IN /\ FlowKeys(p) = FlowKeys(q) => SessionKeys(p) = SessionKeys(q)
       /\ SessionKeys(p) = SessionKeys(q) => HostpairKeys(p) = HostpairKeys(q)
       /\ HostpairKeys(p) = HostpairKeys(q) =>
            ToSet(HostKeys(p)) = ToSet(HostKeys(q))

(* The filter takes or leaves a conversation as a whole: no session file   *)
(* ever lacks one direction because of -ip or -port.                       *)
FilterKeepsConversationsWhole ==
  \A i, j \in DOMAIN seen :
    SameConversation(i, j) => (i \in Passing <=> j \in Passing)

(* -s packets n: the passing packets are cut into runs of exactly n, the   *)
(* last one excepted, whatever the filter dropped in between.              *)
PacketBucketsAreFull ==
  strategy.by = "packets" =>
    \A b \in 0..Cardinality(DOMAIN groups) - 1 :
      LET bucket == GroupOf(<<"pkt", b>>)
          size   == Len(bucket)
      IN /\ size \in 1..strategy.n
         /\ b < Cardinality(DOMAIN groups) - 1 =>
              /\ size = strategy.n
              /\ bucket[size] < GroupOf(<<"pkt", b + 1>>)[1]

Named == {key \in DOMAIN groups : HasAddresses(key)}

(* The groups of b are written as `0:0:0:ffff' and the octets of the       *)
(* IPv4-mapped a, so that both names are __ffff and the octets.            *)
Twins(a, b) ==
  /\ IsMapped(a) /\ ~IsV4(b)
  /\ \A i \in 1..3 : Segments(b)[i] = 0
  /\ Segments(b)[4] = 65535
  /\ \A i \in 1..4 : Segments(b)[4 + i] = Decimal(Octets(a)[i])

(* IPv4 groups of every strategy have files of their own: what an          *)
(* underscore replaces and the underscores between the parts never mix     *)
(* (sanitize_key, output/split.rs:220).  So have hosts of any kind, but    *)
(* for an IPv4-mapped address and its twin: `::' stays apart from `:' as   *)
(* two underscores, and an address has too many colons or a `::', not both.*)
GroupsHaveTheirFile ==
  \A k, j \in Named :
    SanitizedKey(k) = SanitizedKey(j) =>
      \/ k = j
      \/ strategy.by = "host" /\ (Twins(k[2], j[2]) \/ Twins(j[2], k[2]))
      \/ strategy.by # "host" /\ \E ip \in AddressesOf(k) \cup AddressesOf(j) : ~IsV4(ip)
=============================================================================

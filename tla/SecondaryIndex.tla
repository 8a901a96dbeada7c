--------------------------- MODULE SecondaryIndex ---------------------------
(***************************************************************************)
(* The secondary indexes of an archive (archive/mod.rs): which flows have  *)
(* an IP address, a port or a protocol.  Three regions one after the       *)
(* other, each a count and then, per key in ascending order, the key, the  *)
(* number of its flows and their ids.                                      *)
(*                                                                         *)
(* A region is a sequence of fields, one number each; a field takes one    *)
(* place here and 1 to 16 bytes in the file.                               *)
(***************************************************************************)
EXTENDS Integers, Sequences, FiniteSets, SequencesExt

(* The elements in ascending order, each with as many smaller ones before. *)
Ascending(S) ==
  [i \in 1..Cardinality(S) |-> CHOOSE x \in S : Cardinality({y \in S : y < x}) = i - 1]

(* Mutant: a flow is indexed under its source address only. *)
IpPairsOfSource(entries) == {<<e.src_ip, e.flow_id>> : e \in ToSet(entries)}

(* add_flow: the pairs <<key, flow id>> of the three indexes.              *)
IpPairs(entries) ==
  UNION {{<<e.src_ip, e.flow_id>>, <<e.dst_ip, e.flow_id>>} : e \in ToSet(entries)}

PortPairs(entries) ==
  UNION {{<<e.src_port, e.flow_id>>, <<e.dst_port, e.flow_id>>} : e \in ToSet(entries)}

ProtoPairs(entries) == {<<e.protocol, e.flow_id>> : e \in ToSet(entries)}

IdsOf(pairs, key) == Ascending({p[2] : p \in {q \in pairs : q[1] = key}})

(* encode_ip_index, encode_port_index and encode_proto_index: the count is *)
(* that of the pairs, not that of the keys that follow.                    *)
EncodeIndex(pairs) ==
  LET keys == Ascending({p[1] : p \in pairs})
  IN <<Cardinality(pairs)>> \o
       FlattenSeq([i \in DOMAIN keys |->
         <<keys[i], Len(IdsOf(pairs, keys[i]))>> \o IdsOf(pairs, keys[i])])

(* SecondaryIndexBuilder::build: the header (offset and size of each       *)
(* region) and the data, which SecondaryIndexes::parse takes apart again.  *)
BuildIndexes(entries) ==
  LET ip    == EncodeIndex(IpPairs(entries))
      port  == EncodeIndex(PortPairs(entries))
      proto == EncodeIndex(ProtoPairs(entries))
  IN [ip_off    |-> 0,                   ip_size    |-> Len(ip),
      port_off  |-> Len(ip),             port_size  |-> Len(port),
      proto_off |-> Len(ip) + Len(port), proto_size |-> Len(proto),
      data      |-> ip \o port \o proto]

(* In a region, the place after the ids of the key at pos; and whether all *)
(* of them lie within the region.                                          *)
IdsEnd(region, pos) == pos + 2 + region[pos + 1]

HoldsIds(region, pos) ==
  pos + 1 <= Len(region) /\ IdsEnd(region, pos) <= Len(region) + 1

NextKey(region, pos) == IF HoldsIds(region, pos) THEN IdsEnd(region, pos) ELSE pos

(* The scan of lookup_generic, from key to key for as many keys as the     *)
(* count says: it stops at the end of the region, which the count          *)
(* overshoots.                                                             *)
ScanIndex(region, key) ==
  LET at[i \in 0..region[1]] == IF i = 0 THEN 2 ELSE NextKey(region, at[i - 1])
      hits == {i \in 0..region[1] - 1 : HoldsIds(region, at[i]) /\ region[at[i]] = key}
      pos  == at[Min(hits)]
  IN IF region = <<>> \/ hits = {} THEN <<>>
     ELSE SubSeq(region, pos + 2, IdsEnd(region, pos) - 1)

Region(data, off, size) == SubSeq(data, off + 1, off + size)

LookupIp(idx, ip) == ScanIndex(Region(idx.data, idx.ip_off, idx.ip_size), ip)

LookupPort(idx, port) == ScanIndex(Region(idx.data, idx.port_off, idx.port_size), port)

LookupProto(idx, proto) == ScanIndex(Region(idx.data, idx.proto_off, idx.proto_size), proto)
=============================================================================

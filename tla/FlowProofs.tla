------------------------------ MODULE FlowProofs ------------------------------
(***************************************************************************)
(* Theorems about FlowManager and about LegacySplit, which drives one from *)
(* each input in turn, for every set of keys, limit, number of packets and *)
(* command line: FlowManager's type invariant and the five safety          *)
(* invariants of its run, and the two of LegacySplit's.                    *)
(***************************************************************************)
EXTENDS LegacySplit, SequenceFacts

(* The scan for the lowest generation finds an entry whenever there is one. *)
LEMMA LeastRecentExists ==
  ASSUME NEW table, Stamped(table), Live(table) # {}
  PROVE  LeastRecent(table) # {}
<1>. DEFINE stamp == [k \in Live(table) |-> table[k].last_access]
<1>1. \A k \in Live(table) : stamp[k] \in Nat
  BY DEF Stamped
<1>2. PICK k \in Live(table) : \A j \in Live(table) : stamp[k] <= stamp[j]
  <2>. HIDE DEF stamp
  <2>. QED
    BY <1>1, LeastOf
<1>. QED
  BY <1>2 DEF LeastRecent

(* The victim is an entry of the table, or there is none and the table is  *)
(* below the limit or empty.                                               *)
LEMMA VictimIsLive ==
  ASSUME NEW table, NEW max, NEW victim \in Victims(table, max), Stamped(table)
  PROVE  \/ victim \in Live(table)
         \/ /\ victim = Absent
            /\ Cardinality(Live(table)) < max \/ Live(table) = {}
BY LeastRecentExists DEF Victims, Evictable, LeastRecent

(* Below the limit nothing is evicted. *)
LEMMA NoVictimBelowLimit ==
  ASSUME NEW table, NEW max, Cardinality(Live(table)) < max
  PROVE  Victims(table, max) = {Absent}
BY DEF Victims, Evictable

(* After an eviction and the insertion of one key the table respects the   *)
(* limit, or holds one entry if the limit is 0.                            *)
LEMMA InsertionRespectsLimit ==
  ASSUME NEW table, NEW max \in Nat, NEW key, Stamped(table),
         NEW victim \in Victims(table, max), IsFiniteSet(Live(table)),
         Cardinality(Live(table)) <= IF max = 0 THEN 1 ELSE max
  PROVE  LET after == Live(Without(table, victim)) \cup {key}
         IN IsFiniteSet(after) /\ Cardinality(after) <= IF max = 0 THEN 1 ELSE max
<1>. DEFINE S == Live(table)
<1>1. victim \in S \/ Cardinality(S) < max \/ S = {}
  BY VictimIsLive
<1>2. Live(Without(table, victim)) = S \ {victim}
  BY DEF Live, Without
<1>. HIDE DEF S
<1>3. IsFiniteSet(S) /\ Cardinality(S) <= IF max = 0 THEN 1 ELSE max
  BY DEF S
<1>. QED
  BY <1>1, <1>2, <1>3, RoomForOne

LEMMA FlowsStamped == ASSUME TypeOK PROVE Stamped(flows)
BY DEF TypeOK, Stamped, Live, FlowState

(* The two ways a packet makes a flow, field by field.                     *)
LEMMA ExtendedFields ==
  ASSUME NEW flow \in FlowState, NEW pkt \in Packet, NEW gen \in Nat
  PROVE  /\ Extended(flow, pkt, gen) \in FlowState
         /\ Extended(flow, pkt, gen).flow_id = flow.flow_id
         /\ Extended(flow, pkt, gen).packets = Append(flow.packets, pkt)
         /\ Extended(flow, pkt, gen).last_access = gen
<1>1. Append(flow.packets, pkt) \in Seq(Packet)
  BY DEF FlowState
<1>. QED
  BY <1>1 DEF Extended, FlowState

LEMMA NewFlowFields ==
  ASSUME NEW id \in Nat \ {0}, NEW pkt \in Packet, NEW gen \in Nat
  PROVE  /\ NewFlow(id, pkt, gen) \in FlowState
         /\ NewFlow(id, pkt, gen).flow_id = id
         /\ NewFlow(id, pkt, gen).packets = <<pkt>>
         /\ NewFlow(id, pkt, gen).last_access = gen
BY DEF NewFlow, FlowState

(* What one add_packet does to the flow of its key: extends it, or starts  *)
(* a new one in its place.                                                 *)
Extends(key, pkt, victim) ==
  /\ key # victim
  /\ flows[key] # Absent
  /\ flows'[key] = Extended(flows[key], pkt, lru_gen + 1)
  /\ next_flow_id' = next_flow_id

Starts(key, pkt, victim) ==
  /\ key = victim \/ flows[key] = Absent
  /\ flows'[key] = NewFlow(next_flow_id, pkt, lru_gen + 1)
  /\ next_flow_id' = next_flow_id + 1

(* The whole effect, once the victim is known.                             *)
Adds(key, pkt, victim) ==
  /\ flows' \in [Key -> FlowState \cup {Absent}]
  /\ \A k \in Key \ {key} : flows'[k] = IF k = victim THEN Absent ELSE flows[k]
  /\ Extends(key, pkt, victim) \/ Starts(key, pkt, victim)
  /\ lru_gen' = lru_gen + 1
  /\ given' = [given EXCEPT ![key] = Append(@, pkt)]
  /\ last_use' = [last_use EXCEPT ![key] = lru_gen + 1]

LEMMA AddPacketAdds ==
  ASSUME TypeOK, NEW key \in Key, NEW pkt \in Packet, AddPacket(key, pkt)
  PROVE  \E victim \in Victims(flows, MaxSessions) : Adds(key, pkt, victim)
<1>1. PICK victim \in Victims(flows, MaxSessions) :
        LET kept == Without(flows, victim) IN
          /\ lru_gen' = lru_gen + 1
          /\ \/ /\ kept[key] # Absent
                /\ flows' = [kept EXCEPT ![key] = Extended(@, pkt, lru_gen')]
                /\ UNCHANGED next_flow_id
             \/ /\ kept[key] = Absent
                /\ flows' = [kept EXCEPT ![key] = NewFlow(next_flow_id, pkt, lru_gen')]
                /\ next_flow_id' = IdAfter(next_flow_id)
          /\ given' = [given EXCEPT ![key] = Append(@, pkt)]
          /\ last_use' = [last_use EXCEPT ![key] = lru_gen']
  BY DEF AddPacket
<1>. DEFINE kept == Without(flows, victim)
<1>2. /\ kept \in [Key -> FlowState \cup {Absent}]
      /\ \A k \in Key : kept[k] = IF k = victim THEN Absent ELSE flows[k]
  BY DEF Without, TypeOK
<1>. HIDE DEF kept
<1>3. lru_gen' \in Nat
  BY <1>1 DEF TypeOK
<1>4. CASE /\ kept[key] # Absent
           /\ flows' = [kept EXCEPT ![key] = Extended(@, pkt, lru_gen')]
           /\ UNCHANGED next_flow_id
  <2>1. Extends(key, pkt, victim)
    BY <1>1, <1>2, <1>4 DEF Extends
  <2>2. kept[key] \in FlowState
    BY <1>2, <1>4
  <2>3. Extended(kept[key], pkt, lru_gen') \in FlowState
    BY <1>3, <2>2, ExtendedFields
  <2>. QED
    BY <1>1, <1>2, <1>4, <2>1, <2>3 DEF Adds
<1>5. CASE /\ kept[key] = Absent
           /\ flows' = [kept EXCEPT ![key] = NewFlow(next_flow_id, pkt, lru_gen')]
           /\ next_flow_id' = IdAfter(next_flow_id)
  <2>1. Starts(key, pkt, victim)
    BY <1>1, <1>2, <1>5 DEF Starts, IdAfter
  <2>2. NewFlow(next_flow_id, pkt, lru_gen') \in FlowState
    BY <1>3, NewFlowFields DEF TypeOK
  <2>. QED
    BY <1>1, <1>2, <1>5, <2>1, <2>2 DEF Adds
<1>. QED
  BY <1>1, <1>4, <1>5 DEF kept
-----------------------------------------------------------------------------
(* Type correctness.                                                       *)
LEMMA AddPacketTypeOK ==
  ASSUME TypeOK, NEW key \in Key, NEW pkt \in Packet, AddPacket(key, pkt)
  PROVE  TypeOK'
<1>1. PICK victim \in Victims(flows, MaxSessions) : Adds(key, pkt, victim)
  BY AddPacketAdds
<1>2. lru_gen' \in Nat /\ last_use' \in [Key -> Nat]
  BY <1>1 DEF Adds, TypeOK
<1>3. given' \in [Key -> Seq(Packet)]
  BY <1>1 DEF Adds, TypeOK
<1>4. next_flow_id' \in Nat \ {0}
  BY <1>1 DEF Adds, Extends, Starts, TypeOK
<1>. QED
  BY <1>1, <1>2, <1>3, <1>4 DEF Adds, TypeOK

LEMMA NextTypeOK == TypeOK /\ [Next]_vars => TypeOK'
<1>. SUFFICES ASSUME TypeOK, [Next]_vars
              PROVE  TypeOK'
  OBVIOUS
<1>1. CASE lru_gen + 1 \in Packet /\ \E key \in Key : AddPacket(key, lru_gen + 1)
  BY <1>1, AddPacketTypeOK
<1>2. CASE InputEnds \/ UNCHANGED vars
  BY <1>2 DEF InputEnds, vars, TypeOK
<1>. QED
  BY <1>1, <1>2 DEF Next

(* The table holds flows with ids, packets and generations, whatever the   *)
(* packets are and in whatever order their keys come.                      *)
THEOREM FlowManagerTypeOK == Spec => []TypeOK
<1>1. Init => TypeOK
  BY DEF Init, TypeOK
<1>. QED
  BY <1>1, NextTypeOK, PTL DEF Spec
-----------------------------------------------------------------------------
(* The limit.  A bound on a cardinality is kept only by a finite set.      *)
BoundInv == IsFiniteSet(Live(flows)) /\ TableBounded

LEMMA AddPacketBoundInv ==
  ASSUME TypeOK, BoundInv, NEW key \in Key, NEW pkt \in Packet, AddPacket(key, pkt)
  PROVE  BoundInv'
<1>1. PICK victim \in Victims(flows, MaxSessions) : Adds(key, pkt, victim)
  BY AddPacketAdds
<1>. DEFINE after == Live(Without(flows, victim)) \cup {key}
<1>2. Live(flows') \subseteq after
  BY <1>1 DEF Adds, Live, Without
<1>3. IsFiniteSet(after) /\ Cardinality(after) <= IF MaxSessions = 0 THEN 1 ELSE MaxSessions
  BY FlowsStamped, InsertionRespectsLimit, MaxSessionsAssumption, AbsentAssumption
     DEF BoundInv, TableBounded
<1>4. IsFiniteSet(Live(flows')) /\ Cardinality(Live(flows')) <= Cardinality(after)
  BY <1>2, <1>3, FS_Subset
<1>5. Cardinality(Live(flows')) \in Nat /\ Cardinality(after) \in Nat
  BY <1>3, <1>4, FS_CardinalityType
<1>6. Live(flows)' = Live(flows')
  BY DEF Live
<1>7. (IF MaxSessions = 0 THEN 1 ELSE MaxSessions) \in Nat
  BY MaxSessionsAssumption
<1>. HIDE DEF after
<1>. QED
  BY <1>3, <1>4, <1>5, <1>6, <1>7 DEF BoundInv, TableBounded

LEMMA NextBoundInv == TypeOK /\ BoundInv /\ [Next]_vars => BoundInv'
<1>. SUFFICES ASSUME TypeOK, BoundInv, [Next]_vars
              PROVE  BoundInv'
  OBVIOUS
<1>1. CASE lru_gen + 1 \in Packet /\ \E key \in Key : AddPacket(key, lru_gen + 1)
  BY <1>1, AddPacketBoundInv
<1>2. CASE InputEnds \/ UNCHANGED vars
  BY <1>2 DEF InputEnds, vars, BoundInv, TableBounded, Live
<1>. QED
  BY <1>1, <1>2 DEF Next

(* The table of flows never outgrows max_sessions (one flow, if it is 0).  *)
THEOREM FlowTableBounded == Spec => []TableBounded
<1>1. Init => BoundInv
  <2>1. Init => Live(flows) = {}
    BY DEF Init, Live
  <2>. QED
    BY <2>1, FS_EmptySet, MaxSessionsAssumption DEF BoundInv, TableBounded
<1>2. BoundInv => TableBounded
  BY DEF BoundInv
<1>. QED
  BY <1>1, <1>2, NextBoundInv, FlowManagerTypeOK, PTL DEF Spec
-----------------------------------------------------------------------------
(* Recency.  Generations are never shared: a generation belongs to one add *)
(* and so to the last use of at most one key.                              *)
RecentInv ==
  /\ \A k \in Key : last_use[k] <= lru_gen
  /\ \A k, j \in Key : last_use[k] = last_use[j] => k = j \/ last_use[k] = 0
  /\ \A k \in Live(flows) : last_use[k] > 0
  /\ LiveAreMostRecent

LEMMA AddPacketRecentInv ==
  ASSUME TypeOK, RecentInv, NEW key \in Key, NEW pkt \in Packet, AddPacket(key, pkt)
  PROVE  RecentInv'
<1>1. PICK victim \in Victims(flows, MaxSessions) : Adds(key, pkt, victim)
  BY AddPacketAdds
<1>2. /\ lru_gen \in Nat
      /\ last_use \in [Key -> Nat]
      /\ last_use' = [last_use EXCEPT ![key] = lru_gen + 1]
      /\ lru_gen' = lru_gen + 1
  BY <1>1 DEF Adds, TypeOK
<1>3. /\ flows'[key].last_access = lru_gen + 1
      /\ flows'[key] # Absent
  <2>1. CASE Extends(key, pkt, victim)
    <3>1. flows[key] \in FlowState
      BY <2>1 DEF Extends, TypeOK
    <3>. QED
      BY <1>2, <2>1, <3>1, ExtendedFields, AbsentAssumption DEF Extends
  <2>2. CASE Starts(key, pkt, victim)
    BY <1>2, <2>2, NewFlowFields, AbsentAssumption DEF Starts, TypeOK
  <2>. QED
    BY <1>1, <2>1, <2>2 DEF Adds
<1>4. \A k \in Key \ {key} :
        /\ last_use'[k] = last_use[k]
        /\ flows'[k] = IF k = victim THEN Absent ELSE flows[k]
  BY <1>1, <1>2 DEF Adds
<1>5. last_use'[key] = lru_gen + 1
  BY <1>2
<1>6. \A k \in Key : last_use'[k] <= lru_gen'
  BY <1>2, <1>4, <1>5 DEF RecentInv
<1>7. \A k, j \in Key : last_use'[k] = last_use'[j] => k = j \/ last_use'[k] = 0
  BY <1>2, <1>4, <1>5 DEF RecentInv
<1>8. \A k \in Key : flows'[k] # Absent =>
        last_use'[k] > 0 /\ flows'[k].last_access = last_use'[k]
  BY <1>2, <1>3, <1>4, <1>5 DEF RecentInv, LiveAreMostRecent, Live
<1>9. ASSUME NEW k \in Key, flows'[k] # Absent, NEW j \in Key, flows'[j] = Absent
      PROVE  last_use'[j] < last_use'[k]
  <2>0. j # key /\ last_use'[j] = last_use[j] /\ last_use[j] <= lru_gen
    BY <1>3, <1>4, <1>9 DEF RecentInv
  <2>1. CASE k = key
    BY <1>2, <1>5, <2>0, <2>1
  <2>2. CASE k # key /\ j # victim
    <3>1. k \in Live(flows) /\ j \in Key \ Live(flows)
      BY <1>4, <1>9, <2>0, <2>2 DEF Live
    <3>. QED
      BY <1>4, <2>0, <2>2, <3>1 DEF RecentInv, LiveAreMostRecent
  <2>3. CASE k # key /\ j = victim
    <3>1. k \in Live(flows) /\ j # k /\ flows[k].last_access = last_use[k]
      BY <1>4, <1>9, <2>0, <2>3 DEF Live, RecentInv, LiveAreMostRecent
    <3>2. j \in LeastRecent(flows)
      BY <2>3, AbsentAssumption DEF Victims, Evictable
    <3>3. flows[j].last_access <= flows[k].last_access /\ flows[j].last_access = last_use[j]
      BY <3>1, <3>2 DEF LeastRecent, RecentInv, LiveAreMostRecent
    <3>4. last_use[k] # last_use[j]
      BY <3>1 DEF RecentInv
    <3>. QED
      BY <1>2, <1>4, <2>0, <2>3, <3>1, <3>3, <3>4
  <2>. QED
    BY <2>1, <2>2, <2>3
<1>. QED
  BY <1>6, <1>7, <1>8, <1>9 DEF RecentInv, LiveAreMostRecent, Live

LEMMA NextRecentInv == TypeOK /\ RecentInv /\ [Next]_vars => RecentInv'
<1>. SUFFICES ASSUME TypeOK, RecentInv, [Next]_vars
              PROVE  RecentInv'
  OBVIOUS
<1>1. CASE lru_gen + 1 \in Packet /\ \E key \in Key : AddPacket(key, lru_gen + 1)
  BY <1>1, AddPacketRecentInv
<1>2. CASE InputEnds \/ UNCHANGED vars
  BY <1>2 DEF InputEnds, vars, RecentInv, LiveAreMostRecent, Live
<1>. QED
  BY <1>1, <1>2 DEF Next

(* Eviction is least-recently-used over the whole history: every flow in   *)
(* the table was used after every flow that has left it.                   *)
THEOREM EvictionIsLRU == Spec => []LiveAreMostRecent
<1>1. Init => RecentInv
  BY DEF Init, RecentInv, LiveAreMostRecent, Live
<1>2. RecentInv => LiveAreMostRecent
  BY DEF RecentInv
<1>. QED
  BY <1>1, <1>2, NextRecentInv, FlowManagerTypeOK, PTL DEF Spec
-----------------------------------------------------------------------------
(* What the flow of the key holds after an add, in the two cases.          *)
LEMMA AddedFlow ==
  ASSUME TypeOK, NEW key \in Key, NEW pkt \in Packet, NEW victim,
         Adds(key, pkt, victim)
  PROVE  /\ flows'[key] \in FlowState
         /\ \/ /\ key # victim /\ flows[key] \in FlowState
               /\ flows'[key].flow_id = flows[key].flow_id
               /\ flows'[key].packets = Append(flows[key].packets, pkt)
               /\ next_flow_id' = next_flow_id
            \/ /\ key = victim \/ flows[key] = Absent
               /\ flows'[key].flow_id = next_flow_id
               /\ flows'[key].packets = <<pkt>>
               /\ next_flow_id' = next_flow_id + 1
<1>1. CASE Extends(key, pkt, victim)
  <2>1. flows[key] \in FlowState
    BY <1>1 DEF Extends, TypeOK
  <2>2. lru_gen + 1 \in Nat
    BY DEF TypeOK
  <2>3. /\ key # victim
        /\ flows'[key] = Extended(flows[key], pkt, lru_gen + 1)
        /\ next_flow_id' = next_flow_id
    BY <1>1 DEF Extends
  <2>4. /\ Extended(flows[key], pkt, lru_gen + 1) \in FlowState
        /\ Extended(flows[key], pkt, lru_gen + 1).flow_id = flows[key].flow_id
        /\ Extended(flows[key], pkt, lru_gen + 1).packets = Append(flows[key].packets, pkt)
    BY <2>1, <2>2, ExtendedFields
  <2>. QED
    BY <2>1, <2>3, <2>4, Zenon
<1>2. CASE Starts(key, pkt, victim)
  <2>1. lru_gen + 1 \in Nat /\ next_flow_id \in Nat \ {0}
    BY DEF TypeOK
  <2>. QED
    BY <1>2, <2>1, NewFlowFields DEF Starts
<1>. QED
  BY <1>1, <1>2 DEF Adds

LEMMA AddPacketIds ==
  ASSUME TypeOK, FlowIdsUnique, NEW key \in Key, NEW pkt \in Packet, AddPacket(key, pkt)
  PROVE  FlowIdsUnique'
<1>1. PICK victim \in Victims(flows, MaxSessions) : Adds(key, pkt, victim)
  BY AddPacketAdds
<1>2. next_flow_id \in Nat
  BY DEF TypeOK
<1>3. ASSUME NEW k \in Key, flows'[k] # Absent, k # key
      PROVE  k \in Live(flows) /\ flows'[k] = flows[k] /\ flows[k].flow_id \in Nat
  <2>1. flows'[k] = flows[k]
    BY <1>1, <1>3 DEF Adds
  <2>2. flows[k] \in FlowState
    BY <1>3, <2>1 DEF TypeOK
  <2>. QED
    BY <1>3, <2>1, <2>2 DEF Live, FlowState
<1>4. CASE /\ flows[key] \in FlowState
           /\ flows'[key].flow_id = flows[key].flow_id
           /\ next_flow_id' = next_flow_id
  <2>1. key \in Live(flows)
    BY <1>4, AbsentAssumption DEF Live
  <2>2. \A k \in Key : flows'[k] # Absent =>
          k \in Live(flows) /\ flows'[k].flow_id = flows[k].flow_id
    BY <1>3, <1>4, <2>1
  <2>. QED
    BY <1>4, <2>2 DEF FlowIdsUnique, Live
<1>5. CASE /\ flows'[key].flow_id = next_flow_id
           /\ next_flow_id' = next_flow_id + 1
  <2>1. \A k \in Key : flows'[k] # Absent /\ k # key =>
          flows'[k].flow_id = flows[k].flow_id /\ flows[k].flow_id < next_flow_id
                                               /\ flows[k].flow_id \in Nat
    BY <1>3 DEF FlowIdsUnique
  <2>2. \A k, j \in Key : /\ flows'[k] # Absent /\ flows'[j] # Absent
                          /\ flows'[k].flow_id = flows'[j].flow_id
                          => k = j
    BY <1>2, <1>3, <1>5, <2>1 DEF FlowIdsUnique
  <2>3. \A k \in Key : flows'[k] # Absent => flows'[k].flow_id < next_flow_id + 1
    BY <1>2, <1>5, <2>1
  <2>. QED
    BY <1>5, <2>2, <2>3 DEF FlowIdsUnique, Live
<1>. QED
  BY <1>1, <1>4, <1>5, AddedFlow

(* Two live flows never share an id, and the next id is larger than all:   *)
(* an evicted group that comes back is a flow of its own.                  *)
THEOREM FlowIdsAreUnique == Spec => []FlowIdsUnique
<1>1. Init => FlowIdsUnique
  BY DEF Init, FlowIdsUnique, Live
<1>2. TypeOK /\ FlowIdsUnique /\ [Next]_vars => FlowIdsUnique'
  <2>. SUFFICES ASSUME TypeOK, FlowIdsUnique, [Next]_vars
                PROVE  FlowIdsUnique'
    OBVIOUS
  <2>1. CASE lru_gen + 1 \in Packet /\ \E key \in Key : AddPacket(key, lru_gen + 1)
    BY <2>1, AddPacketIds
  <2>2. CASE InputEnds \/ UNCHANGED vars
    BY <2>2 DEF InputEnds, vars, FlowIdsUnique, Live
  <2>. QED
    BY <2>1, <2>2 DEF Next
<1>. QED
  BY <1>1, <1>2, FlowManagerTypeOK, PTL DEF Spec
-----------------------------------------------------------------------------
LEMMA AddPacketTail ==
  ASSUME TypeOK, FlowsHoldTheirTail, NEW key \in Key, NEW pkt \in Packet,
         AddPacket(key, pkt)
  PROVE  FlowsHoldTheirTail'
<1>1. PICK victim \in Victims(flows, MaxSessions) : Adds(key, pkt, victim)
  BY AddPacketAdds
<1>2. ASSUME NEW k \in Key, flows'[k] # Absent, k # key
      PROVE  flows'[k].packets # <<>> /\ flows'[k].packets \in Suffixes(given'[k])
  <2>1. flows'[k] = flows[k] /\ k \in Live(flows)
    BY <1>1, <1>2 DEF Adds, Live
  <2>2. given'[k] = given[k]
    BY <1>1, <1>2 DEF Adds, TypeOK
  <2>. QED
    BY <2>1, <2>2 DEF FlowsHoldTheirTail
<1>3. given[key] \in Seq(Packet) /\ given'[key] = Append(given[key], pkt)
  BY <1>1 DEF Adds, TypeOK
<1>4. flows'[key].packets # <<>> /\ flows'[key].packets \in Suffixes(given'[key])
  <2>1. CASE /\ flows[key] \in FlowState
             /\ flows'[key].packets = Append(flows[key].packets, pkt)
    <3>1. key \in Live(flows)
      BY <2>1, AbsentAssumption DEF Live
    <3>2. flows[key].packets \in Suffixes(given[key])
      BY <3>1 DEF FlowsHoldTheirTail
    <3>3. Append(flows[key].packets, pkt) # <<>>
      BY <2>1, AppendProperties DEF FlowState
    <3>. QED
      BY <1>3, <2>1, <3>2, <3>3, SuffixAppend
  <2>2. CASE flows'[key].packets = <<pkt>>
    <3>1. <<>> \in Suffixes(given[key])
      BY DEF Suffixes
    <3>2. <<pkt>> \in Suffixes(given'[key])
      BY <1>3, <3>1, SuffixAppend
    <3>. QED
      BY <2>2, <3>2
  <2>. QED
    BY <1>1, <2>1, <2>2, AddedFlow
<1>. QED
  BY <1>2, <1>4 DEF FlowsHoldTheirTail, Live

(* A flow holds an unbroken tail of its group's packets, in their order    *)
(* and up to the latest, however often the group has been evicted.         *)
THEOREM FlowsKeepTheirTail == Spec => []FlowsHoldTheirTail
<1>1. Init => FlowsHoldTheirTail
  BY DEF Init, FlowsHoldTheirTail, Live
<1>2. TypeOK /\ FlowsHoldTheirTail /\ [Next]_vars => FlowsHoldTheirTail'
  <2>. SUFFICES ASSUME TypeOK, FlowsHoldTheirTail, [Next]_vars
                PROVE  FlowsHoldTheirTail'
    OBVIOUS
  <2>1. CASE lru_gen + 1 \in Packet /\ \E key \in Key : AddPacket(key, lru_gen + 1)
    BY <2>1, AddPacketTail
  <2>2. CASE InputEnds \/ UNCHANGED vars
    BY <2>2 DEF InputEnds, vars, FlowsHoldTheirTail, Live
  <2>. QED
    BY <2>1, <2>2 DEF Next
<1>. QED
  BY <1>1, <1>2, FlowManagerTypeOK, PTL DEF Spec
-----------------------------------------------------------------------------
(* Completeness below the limit.  Only touched keys have flows or packets, *)
(* so while few keys are touched the table is small and nothing is evicted. *)
CompleteInv ==
  /\ IsFiniteSet(Touched)
  /\ Live(flows) \subseteq Touched
  /\ \A k \in Key \ Touched : given[k] = <<>>
  /\ CompleteBelowLimit

(* With fewer touched keys than the limit the coming packet evicts nobody. *)
LEMMA FewTouchedNoVictim ==
  ASSUME CompleteInv, Cardinality(Touched) < MaxSessions,
         NEW victim \in Victims(flows, MaxSessions)
  PROVE  victim = Absent
<1>1. IsFiniteSet(Live(flows)) /\ Cardinality(Live(flows)) <= Cardinality(Touched)
  BY FS_Subset DEF CompleteInv
<1>2. Cardinality(Live(flows)) \in Nat /\ Cardinality(Touched) \in Nat
  BY <1>1, FS_CardinalityType DEF CompleteInv
<1>3. Cardinality(Live(flows)) < MaxSessions
  BY <1>1, <1>2, MaxSessionsAssumption
<1>. QED
  BY <1>3, NoVictimBelowLimit

LEMMA AddPacketCompleteInv ==
  ASSUME TypeOK, CompleteInv, NEW key \in Key, NEW pkt \in Packet, AddPacket(key, pkt)
  PROVE  CompleteInv'
<1>1. PICK victim \in Victims(flows, MaxSessions) : Adds(key, pkt, victim)
  BY AddPacketAdds
<1>2. /\ last_use' = [last_use EXCEPT ![key] = lru_gen + 1]
      /\ given' = [given EXCEPT ![key] = Append(@, pkt)]
      /\ last_use \in [Key -> Nat] /\ given \in [Key -> Seq(Packet)]
      /\ lru_gen + 1 > 0
  BY <1>1 DEF Adds, TypeOK
<1>3. Touched' = Touched \cup {key}
  BY <1>2 DEF Touched
<1>4. /\ IsFiniteSet(Touched') /\ Cardinality(Touched') \in Nat
      /\ Cardinality(Touched) \in Nat
      /\ Cardinality(Touched) <= Cardinality(Touched')
  <2>1. IsFiniteSet(Touched')
    BY <1>3, FS_AddElement DEF CompleteInv
  <2>2. Cardinality(Touched) <= Cardinality(Touched')
    BY <1>3, <2>1, FS_Subset
  <2>. QED
    BY <2>1, <2>2, FS_CardinalityType DEF CompleteInv
<1>5. \A k \in Key \ {key} : flows'[k] # Absent => flows[k] # Absent
  BY <1>1 DEF Adds
<1>6. Live(flows') \subseteq Touched'
  BY <1>3, <1>5 DEF CompleteInv, Live
<1>7. \A k \in Key \ Touched' : given'[k] = <<>>
  BY <1>2, <1>3 DEF CompleteInv
<1>8. ASSUME Cardinality(Touched') < MaxSessions, NEW k \in Touched'
      PROVE  flows'[k] # Absent /\ flows'[k].packets = given'[k]
  <2>1. Cardinality(Touched) < MaxSessions
    BY <1>4, <1>8, MaxSessionsAssumption
  <2>2. victim = Absent
    BY <2>1, FewTouchedNoVictim
  <2>3. k \in Key /\ victim # k
    BY <1>3, <2>2, AbsentAssumption DEF Touched
  <2>4. CASE k # key
    <3>1. k \in Touched
      BY <1>3, <1>8, <2>4
    <3>2. flows[k] # Absent /\ flows[k].packets = given[k]
      BY <2>1, <3>1 DEF CompleteInv, CompleteBelowLimit
    <3>3. flows'[k] = flows[k]
      BY <1>1, <2>3, <2>4 DEF Adds
    <3>4. given'[k] = given[k]
      BY <1>2, <2>3, <2>4
    <3>. QED
      BY <3>2, <3>3, <3>4
  <2>5. CASE k = key
    <3>1. given'[key] = Append(given[key], pkt)
      BY <1>2
    <3>2. flows'[key] # Absent
      BY <1>1, AddedFlow, AbsentAssumption
    <3>3. CASE /\ flows[key] \in FlowState
               /\ flows'[key].packets = Append(flows[key].packets, pkt)
      <4>1. key \in Touched
        BY <3>3, AbsentAssumption DEF CompleteInv, Live
      <4>2. flows[key].packets = given[key]
        BY <2>1, <4>1 DEF CompleteInv, CompleteBelowLimit
      <4>. QED
        BY <2>5, <3>1, <3>2, <3>3, <4>2
    <3>4. CASE flows[key] = Absent /\ flows'[key].packets = <<pkt>>
      <4>1. key \notin Touched
        BY <2>1, <3>4 DEF CompleteInv, CompleteBelowLimit
      <4>2. given[key] = <<>>
        BY <4>1 DEF CompleteInv
      <4>3. given'[key] = <<pkt>>
        BY <3>1, <4>2
      <4>. QED
        BY <2>5, <3>2, <3>4, <4>3
    <3>. QED
      BY <1>1, <2>3, <2>5, <3>3, <3>4, AddedFlow
  <2>. QED
    BY <2>4, <2>5
<1>9. CompleteBelowLimit'
  BY <1>8 DEF CompleteBelowLimit
<1>. QED
  BY <1>4, <1>6, <1>7, <1>9 DEF CompleteInv, Live

(* While fewer groups than max_sessions have been seen no packet is lost:  *)
(* the table holds every packet of every group, in order.                  *)
THEOREM NothingLostBelowLimit == Spec => []CompleteBelowLimit
<1>1. Init => CompleteInv
  <2>1. Init => Touched = {} /\ Live(flows) = {}
    BY DEF Init, Touched, Live
  <2>. QED
    BY <2>1, FS_EmptySet DEF CompleteInv, CompleteBelowLimit, Init
<1>2. TypeOK /\ CompleteInv /\ [Next]_vars => CompleteInv'
  <2>. SUFFICES ASSUME TypeOK, CompleteInv, [Next]_vars
                PROVE  CompleteInv'
    OBVIOUS
  <2>1. CASE lru_gen + 1 \in Packet /\ \E key \in Key : AddPacket(key, lru_gen + 1)
    BY <2>1, AddPacketCompleteInv
  <2>2. CASE InputEnds \/ UNCHANGED vars
    BY <2>2 DEF InputEnds, vars, CompleteInv, CompleteBelowLimit, Touched, Live
  <2>. QED
    BY <2>1, <2>2 DEF Next
<1>3. CompleteInv => CompleteBelowLimit
  BY DEF CompleteInv
<1>. QED
  BY <1>1, <1>2, <1>3, FlowManagerTypeOK, PTL DEF Spec
-----------------------------------------------------------------------------
(* LegacySplit: what an input leads to, one packet after the other.        *)
LEMMA PacketSeqs ==
  /\ <<>> \in Seq(Packet)
  /\ \A s, t \in Seq(Packet) : s \o t \in Seq(Packet)
  /\ \A s \in Seq(Packet) : s \o <<>> = s /\ <<>> \o s = s
  /\ \A s \in Seq(Packet) : \A e \in Packet : Append(s, e) = s \o <<e>> /\ Append(s, e) \in Seq(Packet)
  /\ \A e \in Packet : <<e>> \in Seq(Packet)
<1>1. <<>> \in Seq(Packet) /\ \A e \in Packet : <<e>> \in Seq(Packet)
  BY EmptySeq
<1>2. \A s, t \in Seq(Packet) : s \o t \in Seq(Packet)
  BY ConcatProperties
<1>3. \A s \in Seq(Packet) : s \o <<>> = s /\ <<>> \o s = s
  BY ConcatEmptySeq
<1>4. \A s \in Seq(Packet) : \A e \in Packet : Append(s, e) = s \o <<e>> /\ Append(s, e) \in Seq(Packet)
  BY AppendIsConcat, AppendProperties
<1>. QED
  BY <1>1, <1>2, <1>3, <1>4

(* A packet that passes the filter is the next to be classified.           *)
LEMMA PassingAppend ==
  ASSUME NEW packets \in Seq(Packet), NEW pkt \in Packet
  PROVE  /\ Passing(packets) \in Seq(Packet)
         /\ Passing(Append(packets, pkt)) =
              IF Passes(pkt) THEN Append(Passing(packets), pkt) ELSE Passing(packets)
<1>. DEFINE f == [p \in Packet |-> IF Passes(p) THEN <<p>> ELSE <<>>]
            more == Append(packets, pkt)
<1>1. f \in Parts(Packet, Packet) /\ more \in Seq(Packet)
  BY PacketSeqs DEF Parts
<1>2. ASSUME NEW s \in Seq(Packet)
      PROVE  Passing(s) = FlattenImage(f, s)
  <2>1. \A i \in DOMAIN s : f[s[i]] = IF Passes(s[i]) THEN <<s[i]>> ELSE <<>>
    BY ElementOfSeq
  <2>2. [i \in DOMAIN s |-> f[s[i]]] = [i \in DOMAIN s |-> IF Passes(s[i]) THEN <<s[i]>> ELSE <<>>]
    BY <2>1, Zenon
  <2>. QED
    BY <2>2, Zenon DEF Passing, FlattenImage
<1>3. f[pkt] = IF Passes(pkt) THEN <<pkt>> ELSE <<>>
  OBVIOUS
<1>. HIDE DEF f
<1>4. /\ FlattenImage(f, packets) \in Seq(Packet)
      /\ FlattenImage(f, more)
           = FlattenImage(f, packets) \o f[pkt]
  BY <1>1, ImageAppend
<1>. HIDE DEF more
<1>5. Passing(packets) \in Seq(Packet) /\ Passing(more) = Passing(packets) \o f[pkt]
  BY <1>1, <1>2, <1>4, Zenon
<1>6. Passing(packets) \o <<>> = Passing(packets)
      /\ Passing(packets) \o <<pkt>> = Append(Passing(packets), pkt)
  BY <1>5, PacketSeqs, Zenon
<1>. QED
  BY <1>3, <1>5, <1>6, Zenon DEF more

(* The calls of add_packet. *)
Call == Key \X Packet

LEMMA CallsAppend ==
  ASSUME NEW calls \in Seq(Call), NEW k \in Key, NEW pkt \in Packet
  PROVE  /\ GroupsOf(Append(calls, <<k, pkt>>)) = GroupsOf(calls) \cup {k}
         /\ \A key \in Key :
              /\ PacketsUnder(key, calls) \in Seq(Packet)
              /\ PacketsUnder(key, Append(calls, <<k, pkt>>)) =
                   IF k = key THEN Append(PacketsUnder(key, calls), pkt)
                   ELSE PacketsUnder(key, calls)
<1>. DEFINE n == Len(calls)
            call == <<k, pkt>>
            more == Append(calls, call)
<1>1. /\ n \in Nat /\ DOMAIN calls = 1..n /\ DOMAIN more = 1..(n + 1)
      /\ \A i \in 1..n : more[i] = calls[i] /\ calls[i] \in Call
      /\ more[n + 1] = call /\ call \in Call /\ more \in Seq(Call)
  BY LenProperties, AppendProperties, ElementOfSeq DEF Call
<1>2. call[1] = k /\ call[2] = pkt
  OBVIOUS
<1>. HIDE DEF n, call
<1>3. GroupsOf(more) = GroupsOf(calls) \cup {k}
  <2>1. 1..(n + 1) = (1..n) \cup {n + 1}
    BY <1>1
  <2>. HIDE DEF more
  <2>. QED
    BY <1>1, <1>2, <2>1 DEF GroupsOf
<1>4. ASSUME NEW key \in Key
      PROVE  /\ PacketsUnder(key, calls) \in Seq(Packet)
             /\ PacketsUnder(key, more) =
                  IF k = key THEN Append(PacketsUnder(key, calls), pkt)
                  ELSE PacketsUnder(key, calls)
  <2>. DEFINE f == [c \in Call |-> IF c[1] = key THEN <<c[2]>> ELSE <<>>]
  <2>1. f \in Parts(Call, Packet)
    BY PacketSeqs DEF Parts, Call
  <2>2. ASSUME NEW s \in Seq(Call)
        PROVE  PacketsUnder(key, s) = FlattenImage(f, s)
    <3>1. \A i \in DOMAIN s : f[s[i]] = IF s[i][1] = key THEN <<s[i][2]>> ELSE <<>>
      BY ElementOfSeq
    <3>2. [i \in DOMAIN s |-> f[s[i]]] = [i \in DOMAIN s |-> IF s[i][1] = key THEN <<s[i][2]>> ELSE <<>>]
      BY <3>1, Zenon
    <3>. QED
      BY <3>2, Zenon DEF PacketsUnder, FlattenImage
  <2>3. f[call] = IF k = key THEN <<pkt>> ELSE <<>>
    BY <1>1, <1>2
  <2>. HIDE DEF f
  <2>4. /\ FlattenImage(f, calls) \in Seq(Packet)
        /\ FlattenImage(f, more)
             = FlattenImage(f, calls) \o f[call]
    BY <1>1, <2>1, ImageAppend
  <2>. HIDE DEF more
  <2>5. PacketsUnder(key, calls) \in Seq(Packet) /\ PacketsUnder(key, more) = PacketsUnder(key, calls) \o f[call]
    BY <1>1, <2>2, <2>4, Zenon
  <2>6. /\ PacketsUnder(key, calls) \o <<>> = PacketsUnder(key, calls)
        /\ PacketsUnder(key, calls) \o <<pkt>> = Append(PacketsUnder(key, calls), pkt)
    BY <2>5, PacketSeqs, Zenon
  <2>. QED
    BY <2>3, <2>5, <2>6, Zenon
<1>. QED
  BY <1>3, <1>4 DEF more, call

(* What is left of the keys after the first. *)
LEMMA KeysWithTail ==
  ASSUME NEW keys \in Seq(Key), NEW pkt \in Packet
  PROVE  /\ KeysWith(keys, pkt) \in Seq(Call)
         /\ keys = <<>> => KeysWith(keys, pkt) = <<>>
         /\ keys # <<>> => KeysWith(keys, pkt) = <<<<Head(keys), pkt>>>> \o KeysWith(Tail(keys), pkt)
<1>. DEFINE n == Len(keys)
            s == KeysWith(keys, pkt)
<1>1. n \in Nat /\ DOMAIN keys = 1..n /\ \A i \in 1..n : keys[i] \in Key
  BY LenProperties, ElementOfSeq
<1>2. s \in Seq(Call) /\ Len(s) = n /\ \A i \in 1..n : s[i] = <<keys[i], pkt>>
  BY <1>1 DEF KeysWith, Call
<1>3. keys = <<>> => s = <<>>
  BY <1>2
<1>4. ASSUME keys # <<>>
      PROVE  s = <<<<Head(keys), pkt>>>> \o KeysWith(Tail(keys), pkt)
  <2>1. n # 0
    BY <1>4, EmptySeq
  <2>2. /\ Head(keys) = keys[1] /\ Len(Tail(keys)) = n - 1 /\ DOMAIN Tail(keys) = 1..(n - 1)
        /\ \A i \in 1..(n - 1) : Tail(keys)[i] = keys[i + 1]
    BY <1>1, <1>4, HeadTailProperties, LenProperties
  <2>3. /\ s # <<>> /\ Head(s) = s[1] /\ Tail(s) \in Seq(Call) /\ Len(Tail(s)) = n - 1
        /\ \A i \in 1..(n - 1) : Tail(s)[i] = s[i + 1]
        /\ s = <<Head(s)>> \o Tail(s)
    BY <1>2, <2>1, HeadTailProperties, EmptySeq
  <2>4. Head(s) = <<Head(keys), pkt>>
    BY <1>1, <1>2, <2>1, <2>2, <2>3
  <2>5. Tail(s) = KeysWith(Tail(keys), pkt)
    <3>1. Tail(s) = [i \in 1..(n - 1) |-> Tail(s)[i]]
      <4>1. Tail(s) \in [1..(n - 1) -> Call]
        BY <2>3, LenProperties
      <4>. HIDE DEF s
      <4>. QED
        BY <4>1
    <3>2. \A i \in 1..(n - 1) : Tail(s)[i] = <<Tail(keys)[i], pkt>>
      BY <1>1, <1>2, <2>2, <2>3
    <3>. HIDE DEF n, s
    <3>3. KeysWith(Tail(keys), pkt) = [i \in 1..(n - 1) |-> <<Tail(keys)[i], pkt>>]
      BY <2>2 DEF KeysWith
    <3>. QED
      BY <3>1, <3>2, <3>3
  <2>. QED
    BY <2>3, <2>4, <2>5
<1>. QED
  BY <1>2, <1>3, <1>4

(* The packets that passed the filter have keys, each with its index. *)
Classified(strategy, packets) ==
  \A i \in DOMAIN Passing(packets) : KeysOf(strategy, Passing(packets)[i], i - 1) \in Seq(Key)

(* One packet more, and the calls it leads to. *)
LEMMA CallsMore ==
  ASSUME NEW strategy, NEW packets \in Seq(Packet), NEW pkt \in Packet, Passes(pkt),
         Classified(strategy, packets),
         NEW index, index = Len(Passing(packets)), KeysOf(strategy, pkt, index) \in Seq(Key)
  PROVE  /\ Calls(strategy, packets) \in Seq(Call)
         /\ Calls(strategy, Append(packets, pkt))
              = Calls(strategy, packets) \o KeysWith(KeysOf(strategy, pkt, index), pkt)
         /\ Classified(strategy, Append(packets, pkt))
         /\ Len(Passing(Append(packets, pkt))) = index + 1
<1>. DEFINE p == Passing(packets)
            q == Passing(Append(packets, pkt))
            n == Len(p)
            a == [i \in 1..n |-> KeysWith(KeysOf(strategy, p[i], i - 1), p[i])]
            b == [i \in 1..(n + 1) |-> KeysWith(KeysOf(strategy, q[i], i - 1), q[i])]
<1>1. p \in Seq(Packet) /\ q = Append(p, pkt)
  BY PassingAppend
<1>. HIDE DEF p, q
<1>2. /\ n \in Nat /\ DOMAIN p = 1..n /\ DOMAIN q = 1..(n + 1) /\ Len(q) = n + 1
      /\ \A i \in 1..n : q[i] = p[i] /\ p[i] \in Packet
      /\ q[n + 1] = pkt /\ (n + 1) - 1 = n /\ index = n
  BY <1>1, LenProperties, AppendProperties, ElementOfSeq DEF p
<1>3. /\ Calls(strategy, packets) = FlattenSeq(a)
      /\ Calls(strategy, Append(packets, pkt)) = FlattenSeq(b)
  BY <1>2 DEF Calls, p, q
<1>. HIDE DEF n
<1>4. \A i \in 1..n : KeysOf(strategy, p[i], i - 1) \in Seq(Key)
  BY <1>2 DEF Classified, p
<1>5. /\ \A i \in 1..n : KeysWith(KeysOf(strategy, p[i], i - 1), p[i]) \in Seq(Call)
      /\ KeysWith(KeysOf(strategy, pkt, n), pkt) \in Seq(Call)
  BY <1>2, <1>4, KeysWithTail
<1>6. a \in Seq(Seq(Call)) /\ Len(a) = n
  <2>. DEFINE Q == Seq(Call)
  <2>1. \A i \in 1..n : KeysWith(KeysOf(strategy, p[i], i - 1), p[i]) \in Q
    BY <1>5
  <2>. HIDE DEF Q
  <2>2. a \in [1..n -> Q]
    BY <2>1
  <2>. HIDE DEF a
  <2>3. a \in Seq(Q)
    BY <1>2, <2>2, SeqDef
  <2>4. Len(a) = n
    BY <1>2, <2>2, <2>3, LenProperties
  <2>. QED
    BY <2>3, <2>4 DEF Q
<1>7. /\ \A i \in 1..n : b[i] = a[i]
      /\ b[n + 1] = KeysWith(KeysOf(strategy, pkt, n), pkt) /\ n + 1 \in 1..(n + 1)
      /\ b = [i \in 1..(n + 1) |-> b[i]]
  BY <1>2
<1>. HIDE DEF a, b
<1>8. /\ FlattenSeq(a) \in Seq(Call)
      /\ FlattenSeq(b) = FlattenSeq(a) \o KeysWith(KeysOf(strategy, pkt, n), pkt)
  <2>1. /\ b = [i \in 1..(Len(a) + 1) |-> b[i]]
        /\ \A i \in 1..Len(a) : b[i] = a[i]
        /\ b[Len(a) + 1] \in Seq(Call)
    BY <1>5, <1>6, <1>7, Zenon
  <2>2. FlattenSeq(a) \in Seq(Call) /\ FlattenSeq(b) = FlattenSeq(a) \o b[Len(a) + 1]
    BY <1>6, <2>1, FlattenLonger, Zenon
  <2>. QED
    BY <1>6, <1>7, <2>2, Zenon
<1>9. \A i \in 1..(n + 1) : KeysOf(strategy, q[i], i - 1) \in Seq(Key)
  <2>1. 1..(n + 1) = (1..n) \cup {n + 1}
    BY <1>2
  <2>2. KeysOf(strategy, q[n + 1], (n + 1) - 1) \in Seq(Key)
    BY <1>2
  <2>. QED
    BY <1>2, <1>4, <2>1, <2>2
<1>10. Classified(strategy, Append(packets, pkt))
  BY <1>2, <1>9 DEF Classified, q
<1>. QED
  BY <1>2, <1>3, <1>8, <1>10 DEF q

(* A packet that does not pass leads to none.                              *)
LEMMA CallsSkip ==
  ASSUME NEW strategy, NEW packets \in Seq(Packet), NEW pkt \in Packet, ~Passes(pkt)
  PROVE  /\ Calls(strategy, Append(packets, pkt)) = Calls(strategy, packets)
         /\ Classified(strategy, packets) => Classified(strategy, Append(packets, pkt))
         /\ Passing(Append(packets, pkt)) = Passing(packets)
<1>1. Passing(Append(packets, pkt)) = Passing(packets)
  BY PassingAppend
<1>. QED
  BY <1>1 DEF Calls, Classified

(* Nothing leads to nothing. *)
LEMMA CallsOfNothing ==
  /\ Passing(<<>>) = <<>>
  /\ \A strategy : Calls(strategy, <<>>) = <<>> /\ Classified(strategy, <<>>)
  /\ \A k : PacketsUnder(k, <<>>) = <<>>
  /\ GroupsOf(<<>>) = {}
<1>1. Passing(<<>>) = <<>>
  <2>1. [i \in DOMAIN <<>> |-> IF Passes(<<>>[i]) THEN <<<<>>[i]>> ELSE <<>>] = <<>>
    BY EmptySeq
  <2>. QED
    BY <2>1, FlattenEmpty DEF Passing
<1>2. ASSUME NEW strategy
      PROVE  Calls(strategy, <<>>) = <<>> /\ Classified(strategy, <<>>)
  <2>1. [i \in DOMAIN <<>> |-> KeysWith(KeysOf(strategy, <<>>[i], i - 1), <<>>[i])] = <<>>
    BY EmptySeq
  <2>. QED
    BY <1>1, <2>1, FlattenEmpty DEF Calls, Classified
<1>3. ASSUME NEW k
      PROVE  PacketsUnder(k, <<>>) = <<>>
  <2>1. [i \in DOMAIN <<>> |-> IF <<>>[i][1] = k THEN <<<<>>[i][2]>> ELSE <<>>] = <<>>
    BY EmptySeq
  <2>. QED
    BY <2>1, FlattenEmpty DEF PacketsUnder
<1>4. GroupsOf(<<>>) = {}
  BY EmptySeq DEF GroupsOf
<1>. QED
  BY <1>1, <1>2, <1>3, <1>4
-----------------------------------------------------------------------------
(* The frames of a flow's packets are an unbroken tail of those of the     *)
(* packets added to its group, and there are some unless L7 leaves none.   *)
HoldsTail(l7, packets, added) ==
  /\ FramesOf(l7, packets) \in Suffixes(FramesOf(l7, added))
  /\ ~l7 => FramesOf(l7, packets) # <<>>

LEMMA FramesOfAppend ==
  ASSUME NEW l7, NEW packets \in Seq(Packet), NEW pkt \in Packet
  PROVE  /\ FramesOf(l7, packets) \in Seq(Packet)
         /\ FramesOf(l7, Append(packets, pkt)) = FramesOf(l7, packets) \o Frames(l7, pkt)
         /\ FramesOf(l7, <<pkt>>) = Frames(l7, pkt)
<1>. DEFINE f == [p \in Packet |-> Frames(l7, p)]
            more == Append(packets, pkt)
<1>1. f \in Parts(Packet, Packet) /\ more \in Seq(Packet)
  BY PacketSeqs DEF Parts, Frames
<1>2. ASSUME NEW s \in Seq(Packet)
      PROVE  FramesOf(l7, s) = FlattenImage(f, s)
  <2>1. \A i \in DOMAIN s : f[s[i]] = Frames(l7, s[i])
    BY ElementOfSeq
  <2>2. [i \in DOMAIN s |-> f[s[i]]] = [i \in DOMAIN s |-> Frames(l7, s[i])]
    BY <2>1, Zenon
  <2>. QED
    BY <2>2, Zenon DEF FramesOf, FlattenImage
<1>3. f[pkt] = Frames(l7, pkt)
  OBVIOUS
<1>. HIDE DEF f
<1>4. /\ FlattenImage(f, packets) \in Seq(Packet)
      /\ FlattenImage(f, more)
           = FlattenImage(f, packets) \o f[pkt]
  BY <1>1, ImageAppend
<1>. HIDE DEF more
<1>5. FramesOf(l7, packets) \in Seq(Packet) /\ FramesOf(l7, more) = FramesOf(l7, packets) \o Frames(l7, pkt)
  BY <1>1, <1>2, <1>3, <1>4, Zenon
<1>6. FramesOf(l7, <<pkt>>) = Frames(l7, pkt)
  <2>. DEFINE a == [i \in DOMAIN <<pkt>> |-> Frames(l7, <<pkt>>[i])]
  <2>1. Len(a) = 1 /\ a[1] = Frames(l7, pkt)
    BY LenProperties
  <2>. HIDE DEF a
  <2>2. FlattenSeq(a) = Frames(l7, pkt)
    BY <2>1, FlattenOne, Zenon
  <2>. QED
    BY <2>2 DEF FramesOf, a
<1>. QED
  BY <1>5, <1>6 DEF more

LEMMA FramesOfAPacket ==
  ASSUME NEW l7, NEW pkt \in Packet
  PROVE  /\ Frames(l7, pkt) \in Seq(Packet)
         /\ Frames(l7, pkt) = <<>> \/ \E p \in Packet : Frames(l7, pkt) = <<p>>
         /\ ~l7 => Frames(l7, pkt) = <<pkt>>
BY PacketSeqs DEF Frames

LEMMA PacketSuffixes ==
  \A s, t, more \in Seq(Packet) :
    t \in Suffixes(s) /\ (more = <<>> \/ \E p \in Packet : more = <<p>>) =>
      t \o more \in Suffixes(s \o more)
BY SuffixExtended

LEMMA HoldsMore ==
  ASSUME NEW l7, NEW packets \in Seq(Packet), NEW added \in Seq(Packet), NEW pkt \in Packet,
         HoldsTail(l7, packets, added)
  PROVE  HoldsTail(l7, Append(packets, pkt), Append(added, pkt))
<1>. DEFINE s == FramesOf(l7, packets)
            t == FramesOf(l7, added)
            more == Frames(l7, pkt)
<1>1. /\ s \in Seq(Packet) /\ t \in Seq(Packet)
      /\ FramesOf(l7, Append(packets, pkt)) = s \o more
      /\ FramesOf(l7, Append(added, pkt)) = t \o more
  BY FramesOfAppend
<1>2. /\ more \in Seq(Packet) /\ (more = <<>> \/ \E p \in Packet : more = <<p>>)
      /\ ~l7 => more = <<pkt>>
  BY FramesOfAPacket
<1>3. s \in Suffixes(t)
  BY DEF HoldsTail
<1>. HIDE DEF s, t, more
<1>4. s \o more \in Suffixes(t \o more)
  BY <1>1, <1>2, <1>3, PacketSuffixes, Zenon
<1>5. ~l7 => s \o more # <<>>
  <2>1. s \o <<pkt>> = Append(s, pkt) /\ Append(s, pkt) # <<>>
    BY <1>1, PacketSeqs, AppendProperties
  <2>. QED
    BY <1>2, <2>1
<1>. QED
  BY <1>1, <1>4, <1>5, Zenon DEF HoldsTail

LEMMA HoldsFirst ==
  ASSUME NEW l7, NEW added \in Seq(Packet), NEW pkt \in Packet
  PROVE  HoldsTail(l7, <<pkt>>, Append(added, pkt))
<1>. DEFINE t == FramesOf(l7, added)
            more == Frames(l7, pkt)
<1>1. /\ t \in Seq(Packet)
      /\ FramesOf(l7, <<pkt>>) = more
      /\ FramesOf(l7, Append(added, pkt)) = t \o more
  BY FramesOfAppend
<1>2. /\ more \in Seq(Packet) /\ (more = <<>> \/ \E p \in Packet : more = <<p>>)
      /\ ~l7 => more = <<pkt>>
  BY FramesOfAPacket
<1>. HIDE DEF t, more
<1>3. <<>> \in Suffixes(t) /\ <<>> \in Seq(Packet) /\ <<>> \o more = more
  BY <1>2, PacketSeqs DEF Suffixes
<1>4. <<>> \o more \in Suffixes(t \o more)
  BY <1>1, <1>2, <1>3, PacketSuffixes, Zenon
<1>5. ~l7 => more # <<>>
  <2>1. <<pkt>> # <<>>
    OBVIOUS
  <2>. QED
    BY <1>2, <2>1, Zenon
<1>. QED
  BY <1>1, <1>3, <1>4, <1>5, Zenon DEF HoldsTail
-----------------------------------------------------------------------------
(* The run: the command line, and the types of what an input is read with. *)
LineTypes ==
  /\ options \in Options /\ inputs \in CommandLines
  /\ current \in 1..Len(inputs)

ReadTypes ==
  /\ TypeOK
  /\ pos \in 0..Len(Input.packets) /\ idx \in 0..pos
  /\ todo \in Seq(Key)
  /\ todo # <<>> => pos > 0

LEMMA InputTypes ==
  ASSUME LineTypes
  PROVE  /\ inputs \in Seq(InputFile) /\ Len(inputs) \in Nat /\ DOMAIN inputs = 1..Len(inputs)
         /\ Input \in InputFile /\ Input.packets \in Seq(Packet) /\ Len(Input.packets) \in Nat
         /\ DOMAIN Input.packets = 1..Len(Input.packets)
         /\ \A i \in 1..Len(Input.packets) : Input.packets[i] \in Packet
<1>1. inputs \in Seq(InputFile)
  BY LinesAssumption DEF LineTypes
<1>2. Len(inputs) \in Nat /\ DOMAIN inputs = 1..Len(inputs)
  BY <1>1, LenProperties
<1>3. Input \in InputFile
  BY <1>1, ElementOfSeq DEF LineTypes, Input
<1>4. Input.packets \in Seq(Packet)
  BY <1>3 DEF InputFile
<1>. QED
  BY <1>1, <1>2, <1>3, <1>4, LenProperties, ElementOfSeq

(* The packets read so far, and the calls they have led to, without those  *)
(* for the keys left of the last one.                                      *)
SoFar == SubSeq(Input.packets, 1, pos)

CallsSoFar(calls) ==
  /\ calls \in Seq(Call)
  /\ Calls(options.strategy, SoFar) =
       IF todo = <<>> THEN calls ELSE calls \o KeysWith(todo, Input.packets[pos])
  /\ Touched = GroupsOf(calls)
  /\ \A k \in Key : given[k] = PacketsUnder(k, calls)

(* A key that a packet read has, whatever index it was given.              *)
Under(k, pkt) ==
  \E i \in 1..pos : pkt = Input.packets[i] /\ k \in KeysAt(options.strategy, Input, i)

UnderInv == \A k \in Live(flows) : Under(k, flows[k].packets[1])

Gathered ==
  /\ FlowsHoldTheirTail /\ CompleteInv
  /\ \A k \in Live(flows) : HoldsTail(options.l7, flows[k].packets, given[k])
  /\ Classified(options.strategy, SoFar) /\ idx = Len(Passing(SoFar))
  /\ \A n \in DOMAIN todo : todo[n] \in KeysAt(options.strategy, Input, pos)
  /\ \E calls : CallsSoFar(calls)

ReadInv == ReadTypes /\ UnderInv /\ (stage \in {"start", "reading"} => Gathered)

(* An input is begun with an empty flow table. *)
Fresh == Init /\ pos = 0 /\ todo = <<>> /\ idx = 0

(* Nothing is read yet, and nothing gathered.                              *)
LEMMA FreshReadInv == LineTypes /\ Fresh => ReadInv
<1>. SUFFICES ASSUME LineTypes, Fresh
              PROVE  ReadInv
  OBVIOUS
<1>1. TypeOK /\ FlowsHoldTheirTail /\ Live(flows) = {} /\ Touched = {}
  BY DEF Fresh, Init, TypeOK, FlowsHoldTheirTail, Live, Touched
<1>2. CompleteInv
  BY <1>1, FS_EmptySet DEF Fresh, Init, CompleteInv, CompleteBelowLimit
<1>3. SoFar = <<>>
  <2>1. Input.packets \in Seq(Packet)
    BY InputTypes
  <2>2. SubSeq(Input.packets, 1, 0) = <<>>
    BY <2>1, SubSeqEmpty
  <2>. QED
    BY <2>2 DEF Fresh, SoFar
<1>4. PICK strategy : strategy = options.strategy
  OBVIOUS
<1>5. /\ Classified(strategy, <<>>) /\ Passing(<<>>) = <<>> /\ Len(<<>>) = 0
      /\ Calls(strategy, <<>>) = <<>> /\ GroupsOf(<<>>) = {} /\ <<>> \in Seq(Call)
      /\ \A k \in Key : PacketsUnder(k, <<>>) = <<>>
  BY CallsOfNothing, EmptySeq
<1>6. CallsSoFar(<<>>)
  BY <1>1, <1>3, <1>4, <1>5 DEF CallsSoFar, Fresh, Init
<1>7. ReadTypes
  BY <1>1, InputTypes, EmptySeq DEF ReadTypes, Fresh
<1>8. todo = <<>> /\ DOMAIN todo = {}
  BY DEF Fresh
<1>. QED
  BY <1>1, <1>2, <1>3, <1>4, <1>5, <1>6, <1>7, <1>8 DEF ReadInv, Gathered, UnderInv, Fresh

(* A packet is read: if it passes, its keys are next. *)
LEMMA ReadPacketReadInv ==
  ASSUME LineTypes, ReadInv, ReadPacket
  PROVE  ReadInv'
<1>1. /\ stage = "reading" /\ todo = <<>> /\ pos < Len(Input.packets) /\ pos' = pos + 1
      /\ UNCHANGED <<options, inputs, current, stage, flows, next_flow_id,
                     lru_gen, given, last_use>>
      /\ Gathered
  BY DEF ReadPacket, lineVars, dirVars, fmVars, vars, ReadInv
<1>2. Input' = Input /\ Touched' = Touched /\ Live(flows)' = Live(flows)
  BY <1>1 DEF Input, Touched, Live
<1>3. PICK pkt, read, strategy, index :
        pkt = Input.packets[pos + 1] /\ read = SoFar /\ strategy = options.strategy /\ index = idx
  OBVIOUS
<1>4. /\ Input.packets \in Seq(Packet) /\ Len(Input.packets) \in Nat
      /\ DOMAIN Input.packets = 1..Len(Input.packets)
      /\ pos \in Nat /\ pos + 1 \in 1..Len(Input.packets) /\ idx \in 0..((pos + 1) - 1)
      /\ pkt \in Packet
  BY <1>1, <1>3, InputTypes DEF ReadInv, ReadTypes
<1>5. read \in Seq(Packet) /\ SoFar' = Append(read, pkt)
  <2>1. SoFar \in Seq(Packet)
    BY <1>4, SubSeqProperties, ElementOfSeq DEF SoFar
  <2>2. SubSeq(Input.packets, 1, pos + 1) = SubSeq(Input.packets, 1, pos) \o <<Input.packets[pos + 1]>>
    <3>1. 1 \in 1..Len(Input.packets) /\ pos + 1 \in 1..Len(Input.packets)
      BY <1>4
    <3>. QED
      BY <1>4, <3>1, LastOfSubSeq
  <2>3. Append(read, pkt) = read \o <<pkt>>
    BY <1>3, <1>4, <2>1, PacketSeqs
  <2>. QED
    BY <1>1, <1>2, <1>3, <2>1, <2>2, <2>3 DEF SoFar
<1>6. PICK calls : CallsSoFar(calls)
  BY <1>1 DEF Gathered
<1>7. /\ calls \in Seq(Call) /\ Calls(strategy, read) = calls
      /\ Touched = GroupsOf(calls) /\ \A k \in Key : given[k] = PacketsUnder(k, calls)
  BY <1>1, <1>3, <1>6 DEF CallsSoFar
<1>8. Classified(strategy, read) /\ index = Len(Passing(read))
  BY <1>1, <1>3 DEF Gathered
<1>9. TypeOK' /\ FlowsHoldTheirTail' /\ CompleteInv'
      /\ \A k \in Live(flows)' : HoldsTail(options.l7, flows[k].packets, given[k])'
  <2>1. TypeOK /\ FlowsHoldTheirTail /\ CompleteInv
    BY <1>1 DEF ReadInv, ReadTypes, Gathered
  <2>2. TypeOK' /\ FlowsHoldTheirTail'
    BY <1>1, <2>1 DEF TypeOK, FlowsHoldTheirTail, Live
  <2>3. CompleteInv'
    BY <1>1, <1>2, <2>1 DEF CompleteInv, CompleteBelowLimit
  <2>. QED
    BY <1>1, <1>2, <2>2, <2>3 DEF Gathered
<1>10. UnderInv'
  <2>1. \A i \in 1..pos : i \in 1..pos'
    BY <1>1, <1>4
  <2>. QED
    BY <1>1, <1>2, <2>1 DEF ReadInv, UnderInv, Under
<1>11. CASE Passes(pkt)
  <2>. DEFINE keys == KeysOf(strategy, pkt, index)
  <2>1. todo' = keys /\ idx' = idx + 1
    BY <1>3, <1>11 DEF ReadPacket
  <2>2. keys \in Seq(Key)
    BY <1>3, <1>4, InputTypes, KeysAssumption DEF LineTypes, Input
  <2>3. \A n \in DOMAIN keys : keys[n] \in KeysAt(options.strategy, Input, pos + 1)
    BY <1>3, <1>4 DEF KeysAt, ToSet
  <2>4. /\ Calls(strategy, Append(read, pkt)) = calls \o KeysWith(keys, pkt)
        /\ Classified(strategy, Append(read, pkt))
        /\ Len(Passing(Append(read, pkt))) = index + 1
    <3>1. /\ Calls(strategy, Append(read, pkt))
                = Calls(strategy, read) \o KeysWith(KeysOf(strategy, pkt, index), pkt)
          /\ Classified(strategy, Append(read, pkt))
          /\ Len(Passing(Append(read, pkt))) = index + 1
      <4>1. read \in Seq(Packet) /\ pkt \in Packet /\ KeysOf(strategy, pkt, index) \in Seq(Key)
        BY <1>4, <1>5, <2>2
      <4>. HIDE DEF keys
      <4>. QED
        BY <1>8, <1>11, <4>1, CallsMore
    <3>. QED
      BY <1>7, <3>1
  <2>5. keys = <<>> => calls \o KeysWith(keys, pkt) = calls
    <3>1. keys = <<>> => KeysWith(keys, pkt) = <<>>
      BY <1>4, <2>2, KeysWithTail
    <3>2. calls \o <<>> = calls
      BY <1>7, ConcatEmptySeq
    <3>. QED
      BY <3>1, <3>2
  <2>. HIDE DEF keys
  <2>6. CallsSoFar(calls)'
    BY <1>1, <1>2, <1>3, <1>5, <1>7, <2>1, <2>4, <2>5 DEF CallsSoFar
  <2>7. Gathered'
    BY <1>1, <1>2, <1>3, <1>5, <1>9, <2>1, <2>3, <2>4, <2>6 DEF Gathered
  <2>8. ReadTypes'
    BY <1>1, <1>2, <1>4, <1>9, <2>1, <2>2 DEF ReadTypes
  <2>. QED
    BY <1>10, <2>7, <2>8 DEF ReadInv
<1>12. CASE ~Passes(pkt)
  <2>1. todo' = <<>> /\ idx' = idx
    BY <1>1, <1>3, <1>12 DEF ReadPacket
  <2>2. /\ Calls(strategy, Append(read, pkt)) = calls
        /\ Classified(strategy, Append(read, pkt))
        /\ Len(Passing(Append(read, pkt))) = index
    BY <1>4, <1>5, <1>7, <1>8, <1>12, CallsSkip
  <2>3. CallsSoFar(calls)'
    BY <1>1, <1>2, <1>3, <1>5, <1>7, <2>1, <2>2 DEF CallsSoFar
  <2>4. Gathered'
    BY <1>1, <1>2, <1>3, <1>5, <1>9, <2>1, <2>2, <2>3 DEF Gathered
  <2>5. ReadTypes'
    BY <1>1, <1>2, <1>4, <1>9, <2>1, EmptySeq DEF ReadTypes
  <2>. QED
    BY <1>10, <2>4, <2>5 DEF ReadInv
<1>. QED
  BY <1>11, <1>12

(* The packet is added under the next of its keys. *)
LEMMA ClassifyReadInv ==
  ASSUME LineTypes, ReadInv, Classify
  PROVE  ReadInv'
<1>1. /\ stage = "reading" /\ todo # <<>> /\ todo' = Tail(todo)
      /\ UNCHANGED <<options, inputs, current, stage, pos, idx>>
      /\ Gathered
  BY DEF Classify, lineVars, ReadInv
<1>2. Input' = Input /\ SoFar' = SoFar
  BY <1>1 DEF Input, SoFar
<1>3. PICK key, rest, pkt, l7 :
        key = Head(todo) /\ rest = Tail(todo) /\ pkt = Input.packets[pos] /\ l7 = options.l7
  OBVIOUS
<1>4. /\ todo \in Seq(Key) /\ key \in Key /\ rest \in Seq(Key)
      /\ 1 \in DOMAIN todo /\ key = todo[1]
      /\ \A n \in DOMAIN rest : n + 1 \in DOMAIN todo /\ rest[n] = todo[n + 1]
  <2>1. todo \in Seq(Key)
    BY DEF ReadInv, ReadTypes
  <2>2. /\ Head(todo) = todo[1] /\ Head(todo) \in Key /\ Tail(todo) \in Seq(Key)
        /\ Len(Tail(todo)) = Len(todo) - 1
        /\ \A n \in 1..Len(todo) - 1 : Tail(todo)[n] = todo[n + 1]
    BY <1>1, <2>1, HeadTailProperties
  <2>3. Len(todo) \in Nat \ {0} /\ DOMAIN todo = 1..Len(todo)
        /\ DOMAIN Tail(todo) = 1..Len(todo) - 1
    BY <1>1, <2>1, <2>2, LenProperties, EmptySeq
  <2>. QED
    BY <1>3, <2>1, <2>2, <2>3
<1>5. pos \in 1..Len(Input.packets) /\ pkt \in Packet /\ TypeOK
  BY <1>1, <1>3, InputTypes DEF ReadInv, ReadTypes
<1>6. AddPacket(key, pkt)
  BY <1>3 DEF Classify, AddPacket
<1>7. PICK victim : Adds(key, pkt, victim)
  BY <1>4, <1>5, <1>6, AddPacketAdds
<1>8. /\ flows'[key] \in FlowState
      /\ \/ /\ key # victim /\ flows[key] \in FlowState
            /\ flows'[key].packets = Append(flows[key].packets, pkt)
         \/ /\ key = victim \/ flows[key] = Absent
            /\ flows'[key].packets = <<pkt>>
  BY <1>4, <1>5, <1>7, AddedFlow
<1>9. /\ \A k \in Key \ {key} : /\ flows'[k] # Absent => k \in Live(flows) /\ flows'[k] = flows[k]
                                /\ given'[k] = given[k]
      /\ given'[key] = Append(given[key], pkt) /\ given[key] \in Seq(Packet)
      /\ Touched' = Touched \cup {key}
  <2>1. /\ given' = [given EXCEPT ![key] = Append(@, pkt)] /\ given \in [Key -> Seq(Packet)]
        /\ last_use' = [last_use EXCEPT ![key] = lru_gen + 1] /\ last_use \in [Key -> Nat]
        /\ lru_gen \in Nat
    BY <1>5, <1>7 DEF Adds, TypeOK
  <2>2. \A k \in Key \ {key} : flows'[k] # Absent => k \in Live(flows) /\ flows'[k] = flows[k]
    BY <1>7 DEF Adds, Live
  <2>3. Touched' = Touched \cup {key}
    BY <1>4, <2>1 DEF Touched
  <2>. QED
    BY <1>4, <2>1, <2>2, <2>3
<1>10. TypeOK' /\ FlowsHoldTheirTail' /\ CompleteInv'
  BY <1>1, <1>4, <1>5, <1>6, AddPacketTypeOK, AddPacketTail, AddPacketCompleteInv DEF Gathered
<1>11. \A k \in Live(flows)' : HoldsTail(l7, flows'[k].packets, given'[k])
  <2>1. \A k \in Live(flows) : HoldsTail(l7, flows[k].packets, given[k])
    BY <1>1, <1>3 DEF Gathered
  <2>2. HoldsTail(l7, flows'[key].packets, given'[key])
    <3>1. CASE /\ flows[key] \in FlowState
               /\ flows'[key].packets = Append(flows[key].packets, pkt)
      <4>1. PICK packets, added : packets = flows[key].packets /\ added = given[key]
        OBVIOUS
      <4>2. key \in Live(flows) /\ packets \in Seq(Packet)
        BY <1>4, <3>1, <4>1, AbsentAssumption DEF Live, FlowState
      <4>3. HoldsTail(l7, packets, added) /\ added \in Seq(Packet)
        BY <1>9, <2>1, <4>1, <4>2
      <4>4. HoldsTail(l7, Append(packets, pkt), Append(added, pkt))
        BY <1>5, <4>2, <4>3, HoldsMore
      <4>. QED
        BY <1>9, <3>1, <4>1, <4>4
    <3>2. CASE flows'[key].packets = <<pkt>>
      <4>1. PICK added : added = given[key]
        OBVIOUS
      <4>2. HoldsTail(l7, <<pkt>>, Append(added, pkt))
        BY <1>5, <1>9, <4>1, HoldsFirst
      <4>. QED
        BY <1>9, <3>2, <4>1, <4>2
    <3>. QED
      BY <1>8, <3>1, <3>2
  <2>3. ASSUME NEW k \in Key \ {key}, flows'[k] # Absent
        PROVE  HoldsTail(l7, flows'[k].packets, given'[k])
    BY <1>9, <2>1, <2>3
  <2>. QED
    BY <2>2, <2>3 DEF Live
<1>12. UnderInv'
  <2>1. \A k, p : Under(k, p)' <=> Under(k, p)
    BY <1>1, <1>2 DEF Under
  <2>2. Under(key, flows'[key].packets[1])
    <3>1. CASE /\ flows[key] \in FlowState
               /\ flows'[key].packets = Append(flows[key].packets, pkt)
      <4>1. key \in Live(flows) /\ flows[key].packets \in Seq(Packet)
        BY <1>4, <3>1, AbsentAssumption DEF Live, FlowState
      <4>2. flows[key].packets # <<>>
        BY <1>1, <4>1 DEF Gathered, FlowsHoldTheirTail
      <4>3. Append(flows[key].packets, pkt)[1] = flows[key].packets[1]
        BY <1>5, <4>1, <4>2, AppendProperties, EmptySeq, LenProperties
      <4>. QED
        BY <3>1, <4>1, <4>3 DEF ReadInv, UnderInv
    <3>2. CASE flows'[key].packets = <<pkt>>
      <4>1. key \in KeysAt(options.strategy, Input, pos)
        BY <1>1, <1>4 DEF Gathered
      <4>2. pos \in 1..pos /\ <<pkt>>[1] = pkt
        BY <1>5
      <4>. QED
        BY <1>3, <3>2, <4>1, <4>2 DEF Under
    <3>. QED
      BY <1>8, <3>1, <3>2
  <2>3. ASSUME NEW k \in Key \ {key}, flows'[k] # Absent
        PROVE  Under(k, flows'[k].packets[1])
    BY <1>9, <2>3 DEF ReadInv, UnderInv
  <2>4. \A k \in Live(flows)' : Under(k, flows'[k].packets[1])
    BY <2>2, <2>3 DEF Live
  <2>. QED
    BY <2>1, <2>4 DEF UnderInv
<1>13. PICK calls : CallsSoFar(calls)
  BY <1>1 DEF Gathered
<1>. DEFINE call == <<key, pkt>>
            more == Append(calls, call)
            left == KeysWith(rest, pkt)
<1>14. calls \in Seq(Call) /\ call \in Call /\ more \in Seq(Call)
  BY <1>4, <1>5, <1>13, AppendProperties DEF CallsSoFar, Call
<1>15. /\ left \in Seq(Call) /\ KeysWith(todo, pkt) = <<call>> \o left
       /\ rest = <<>> => left = <<>>
  <2>1. PICK keys : keys = todo
    OBVIOUS
  <2>2. /\ KeysWith(keys, pkt) = <<<<Head(keys), pkt>>>> \o KeysWith(Tail(keys), pkt)
    BY <1>1, <1>4, <1>5, <2>1, KeysWithTail
  <2>3. KeysWith(rest, pkt) \in Seq(Call) /\ (rest = <<>> => KeysWith(rest, pkt) = <<>>)
    BY <1>4, <1>5, KeysWithTail
  <2>. QED
    BY <1>3, <2>1, <2>2, <2>3
<1>16. PICK asked : asked = Calls(options.strategy, SoFar)
  OBVIOUS
<1>17. asked = more \o left
  <2>1. more = calls \o <<call>> /\ <<call>> \in Seq(Call)
    <3>1. /\ \A s \in Seq(Call) : \A e \in Call : Append(s, e) = s \o <<e>>
          /\ \A e \in Call : <<e>> \in Seq(Call)
      BY AppendIsConcat
    <3>. QED
      BY <1>14, <3>1, Zenon
  <2>2. (calls \o <<call>>) \o left = calls \o (<<call>> \o left)
    BY <1>14, <1>15, <2>1, ConcatAssociative
  <2>3. asked = calls \o KeysWith(todo, pkt)
    BY <1>1, <1>3, <1>13, <1>16 DEF CallsSoFar
  <2>. QED
    BY <1>15, <2>1, <2>2, <2>3
<1>18. asked = IF rest = <<>> THEN more ELSE more \o left
  <2>1. more \o <<>> = more
    BY <1>14, ConcatEmptySeq
  <2>. QED
    BY <1>15, <1>17, <2>1
<1>19. /\ GroupsOf(more) = Touched' /\ \A k \in Key : given'[k] = PacketsUnder(k, more)
  <2>1. /\ GroupsOf(more) = GroupsOf(calls) \cup {key}
        /\ \A k \in Key : PacketsUnder(k, more) =
             IF key = k THEN Append(PacketsUnder(k, calls), pkt) ELSE PacketsUnder(k, calls)
    <3>. HIDE DEF more
    <3>1. /\ GroupsOf(Append(calls, <<key, pkt>>)) = GroupsOf(calls) \cup {key}
          /\ \A k \in Key : PacketsUnder(k, Append(calls, <<key, pkt>>)) =
               IF key = k THEN Append(PacketsUnder(k, calls), pkt) ELSE PacketsUnder(k, calls)
      BY <1>4, <1>5, <1>14, CallsAppend
    <3>. QED
      BY <3>1 DEF more
  <2>2. Touched = GroupsOf(calls) /\ \A k \in Key : given[k] = PacketsUnder(k, calls)
    BY <1>13 DEF CallsSoFar
  <2>. HIDE DEF more
  <2>3. Touched' = GroupsOf(more)
    BY <1>9, <2>1, <2>2
  <2>4. ASSUME NEW k \in Key
        PROVE  given'[k] = PacketsUnder(k, more)
    <3>1. CASE k = key
      BY <1>9, <2>1, <2>2, <3>1
    <3>2. CASE k # key
      BY <1>9, <2>1, <2>2, <3>2
    <3>. QED
      BY <3>1, <3>2
  <2>. QED
    BY <2>3, <2>4
<1>. HIDE DEF more
<1>20. CallsSoFar(more)'
  <2>1. PICK c : c = more
    OBVIOUS
  <2>2. CallsSoFar(c)'
    BY <1>1, <1>2, <1>3, <1>14, <1>16, <1>18, <1>19, <2>1 DEF CallsSoFar
  <2>. QED
    BY <2>1, <2>2
<1>21. ReadTypes'
  BY <1>1, <1>2, <1>3, <1>4, <1>5, <1>10 DEF ReadInv, ReadTypes
<1>22. Gathered'
  <2>1. PICK c : c = more
    OBVIOUS
  <2>2. \E d : CallsSoFar(d)'
    BY <1>20, <2>1
  <2>3. /\ Classified(options.strategy, SoFar)' /\ idx' = Len(Passing(SoFar'))
    BY <1>1, <1>2 DEF Gathered
  <2>4. \A n \in DOMAIN todo' : todo'[n] \in KeysAt(options.strategy, Input, pos)
    BY <1>1, <1>3, <1>4 DEF Gathered
  <2>. QED
    BY <1>1, <1>2, <1>3, <1>10, <1>11, <2>2, <2>3, <2>4 DEF Gathered
<1>. QED
  BY <1>12, <1>21, <1>22 DEF ReadInv
-----------------------------------------------------------------------------
(* The directory.  The inputs whose files are all kept, apart from -d, and *)
(* what their files are.                                                   *)
Keeps(i) ==
  /\ options.strategy.by = "session"
  /\ Cardinality(Groups(inputs[i])) < MaxSessions
  /\ \A j \in DOMAIN inputs : inputs[j].stem = inputs[i].stem => j = i

AllFiles(i) ==
  /\ ContentsOf(inputs[i].stem) \subseteq FilesOf(inputs[i], Groups(inputs[i]))
  /\ FilesOf(inputs[i], Own(inputs[i])) \subseteq ContentsOf(inputs[i].stem)

(* The second part of the name of a file for a flow begun with the packet. *)
Named(n, pkt) ==
  IF SessionOf(pkt) = Absent THEN n \in {"flow"} \X Nat ELSE n = NameOf(pkt, 0)

(* While the flows of such an input are written, there are no files but    *)
(* those of its groups, and each group without a flow, whose name is its   *)
(* own, has its file under the name of one of its packets.                 *)
HasFile(k) ==
  \E name \in DOMAIN files :
    /\ name[1] = Input.stem /\ files[name] = Expected(Input, k)
    /\ \E pkt : Under(k, pkt) /\ Named(name[2], pkt)

Written ==
  /\ Live(flows) \subseteq Groups(Input)
  /\ \A k \in Live(flows) : Contents(flows[k]) = Expected(Input, k)
  /\ ContentsOf(Input.stem) \subseteq FilesOf(Input, Groups(Input))
  /\ \A k \in Own(Input) \ Live(flows) : Expected(Input, k) # <<>> => HasFile(k)

WriteInv ==
  stage = "writing" =>
    /\ Input.tail = "eof"
    /\ \A k \in Live(flows) :
         /\ Contents(flows[k]) \in Suffixes(Expected(Input, k))
         /\ ~options.l7 => Contents(flows[k]) # <<>>
    /\ Keeps(current) => Written

DirInv ==
  /\ FilesAreWhole
  /\ stage \in {"start", "reading"} =>
       \A name \in DOMAIN files : \E i \in 1..current - 1 : inputs[i].stem = name[1]
  /\ ~options.clean => \A i \in 1..current - 1 : Keeps(i) => AllFiles(i)
  /\ stage = "ok" => current = Len(inputs) /\ (Keeps(current) => AllFiles(current))

LegacyInv == LineTypes /\ ReadInv /\ WriteInv /\ DirInv

(* The command line does not change, and the directory depends on nothing  *)
(* but the files.                                                          *)
LEMMA SameLine ==
  ASSUME UNCHANGED lineVars
  PROVE  /\ options' = options /\ inputs' = inputs
         /\ \A i : Keeps(i)' <=> Keeps(i)
         /\ \A i, k : Expected(inputs[i], k)' = Expected(inputs[i], k)
         /\ \A i : Groups(inputs[i])' = Groups(inputs[i])
         /\ \A i : Own(inputs[i])' = Own(inputs[i])
         /\ \A i, keys : FilesOf(inputs[i], keys)' = FilesOf(inputs[i], keys)
         /\ files' = files => \A i : AllFiles(i)' <=> AllFiles(i)
<1>1. options' = options /\ inputs' = inputs
  BY DEF lineVars
<1>2. /\ \A i, k : Expected(inputs[i], k)' = Expected(inputs[i], k)
      /\ \A i : Groups(inputs[i])' = Groups(inputs[i])
  BY <1>1 DEF Expected, Groups, CallsOf
<1>3. \A i : Keeps(i)' <=> Keeps(i)
  BY <1>1, <1>2 DEF Keeps
<1>4. \A i, keys : FilesOf(inputs[i], keys)' = FilesOf(inputs[i], keys)
  BY <1>1, <1>2 DEF FilesOf
<1>5. \A i : Own(inputs[i])' = Own(inputs[i])
  BY <1>1, <1>2 DEF Own, SharesItsName
<1>6. files' = files => \A i : AllFiles(i)' <=> AllFiles(i)
  BY <1>1, <1>2, <1>4, <1>5 DEF AllFiles, ContentsOf
<1>. QED
  BY <1>1, <1>2, <1>3, <1>4, <1>5, <1>6

(* No file is touched, and none before is forgotten.                       *)
LEMMA SameFiles ==
  ASSUME LineTypes, FilesAreWhole, UNCHANGED lineVars, files' = files, current' \in {current, current + 1}
  PROVE  FilesAreWhole'
<1>1. 1..current \subseteq 1..current' /\ current \in Nat
  BY InputTypes DEF LineTypes
<1>2. ASSUME NEW name \in DOMAIN files
      PROVE  \E i \in 1..current' :
               /\ inputs'[i].tail = "eof" /\ inputs'[i].stem = name[1]
               /\ \E key \in Key : files[name] \in Suffixes(Expected(inputs[i], key)') \ {<<>>}
  <2>1. PICK i \in 1..current :
          /\ inputs[i].tail = "eof" /\ inputs[i].stem = name[1]
          /\ \E key \in Key : files[name] \in Suffixes(Expected(inputs[i], key)) \ {<<>>}
    BY DEF FilesAreWhole
  <2>2. PICK key \in Key : files[name] \in Suffixes(Expected(inputs[i], key)) \ {<<>>}
    BY <2>1
  <2>3. Expected(inputs[i], key)' = Expected(inputs[i], key) /\ inputs' = inputs
    BY SameLine
  <2>. QED
    BY <1>1, <2>1, <2>2, <2>3
<1>. QED
  BY <1>2 DEF FilesAreWhole

(* Nothing but the reading changes. *)
LEMMA ReadingLegacyInv ==
  ASSUME LegacyInv, ReadPacket \/ Classify
  PROVE  LegacyInv'
<1>1. /\ stage = "reading" /\ stage' = "reading"
      /\ UNCHANGED lineVars /\ files' = files /\ current' = current
  BY DEF ReadPacket, Classify, dirVars
<1>2. LineTypes' /\ ReadInv'
  BY <1>1, ReadPacketReadInv, ClassifyReadInv DEF LegacyInv, LineTypes, lineVars
<1>3. FilesAreWhole'
  BY <1>1, SameFiles DEF LegacyInv, DirInv
<1>4. DirInv'
  BY <1>1, <1>3, SameLine DEF LegacyInv, DirInv
<1>. QED
  BY <1>1, <1>2, <1>4 DEF LegacyInv, WriteInv

(* -d may empty the directory, and then nothing is said of older inputs.   *)
LEMMA StartLegacyInv ==
  ASSUME LegacyInv, Start
  PROVE  LegacyInv'
<1>1. /\ stage = "start" /\ stage' = "reading"
      /\ UNCHANGED <<options, inputs, current, pos, todo, idx, flows,
                     next_flow_id, lru_gen, given, last_use>>
      /\ UNCHANGED lineVars
      /\ files' = files \/ (options.clean /\ files' = <<>>)
  BY DEF Start, dirVars, readVars, lineVars, fmVars, vars
<1>2. LineTypes'
  BY <1>1 DEF LegacyInv, LineTypes
<1>3. ReadInv'
  <2>1. Input' = Input /\ SoFar' = SoFar /\ Touched' = Touched /\ Live(flows)' = Live(flows)
    BY <1>1 DEF Input, SoFar, Touched, Live
  <2>2. ReadTypes' /\ UnderInv'
    BY <1>1, <2>1 DEF LegacyInv, ReadInv, ReadTypes, TypeOK, UnderInv, Under
  <2>3. PICK calls : CallsSoFar(calls)
    BY <1>1 DEF LegacyInv, ReadInv, Gathered
  <2>4. CallsSoFar(calls)'
    BY <1>1, <2>1, <2>3 DEF CallsSoFar
  <2>5. FlowsHoldTheirTail' /\ CompleteInv'
    BY <1>1, <2>1 DEF LegacyInv, ReadInv, Gathered, FlowsHoldTheirTail, CompleteInv, CompleteBelowLimit
  <2>6. Gathered'
    BY <1>1, <2>1, <2>4, <2>5 DEF LegacyInv, ReadInv, Gathered
  <2>. QED
    BY <2>2, <2>6 DEF ReadInv
<1>4. DirInv'
  <2>1. CASE files' = files
    <3>1. FilesAreWhole'
      BY <1>1, <2>1, SameFiles DEF LegacyInv, DirInv
    <3>. QED
      BY <1>1, <2>1, <3>1, SameLine DEF LegacyInv, DirInv
  <2>2. CASE options.clean /\ files' = <<>>
    <3>1. DOMAIN files' = {}
      BY <2>2
    <3>. QED
      BY <1>1, <2>2, <3>1 DEF DirInv, FilesAreWhole
  <2>. QED
    BY <1>1, <2>1, <2>2
<1>. QED
  BY <1>1, <1>2, <1>3, <1>4 DEF LegacyInv, WriteInv

(* The input is read: its flows hold what their files must.                *)
LEMMA ReadingEndsLegacyInv ==
  ASSUME LegacyInv, ReadingEnds
  PROVE  LegacyInv'
<1>1. /\ stage = "reading" /\ stage' \in {"writing", "failed"} /\ todo = <<>> /\ pos = Len(Input.packets)
      /\ stage' = "writing" => Input.tail = "eof"
      /\ UNCHANGED <<options, inputs, current, pos, todo, idx, files, flows,
                     next_flow_id, lru_gen, given, last_use>>
      /\ UNCHANGED lineVars
  BY DEF ReadingEnds, dirVars, readVars, lineVars, fmVars, vars
<1>2. /\ Input' = Input /\ Live(flows)' = Live(flows) /\ Gathered
      /\ \A k, pkt : Under(k, pkt)' <=> Under(k, pkt)
  BY <1>1 DEF Input, Live, LegacyInv, ReadInv, Under
<1>3. LineTypes' /\ ReadInv'
  BY <1>1, <1>2 DEF LegacyInv, LineTypes, ReadInv, ReadTypes, TypeOK, UnderInv
<1>4. DirInv'
  <2>1. FilesAreWhole'
    BY <1>1, SameFiles DEF LegacyInv, DirInv
  <2>. QED
    BY <1>1, <2>1, SameLine DEF LegacyInv, DirInv
<1>5. /\ CallsOf(Input) = Calls(options.strategy, SoFar) /\ Groups(Input) = Touched
      /\ \A k \in Key : Expected(Input, k) = FramesOf(options.l7, given[k])
  <2>1. Input.packets \in Seq(Packet)
    BY InputTypes DEF LegacyInv
  <2>2. SubSeq(Input.packets, 1, Len(Input.packets)) = Input.packets
    BY <2>1, SubSeqFull
  <2>3. SoFar = Input.packets
    BY <1>1, <2>2 DEF SoFar
  <2>4. PICK calls : CallsSoFar(calls)
    BY <1>2 DEF Gathered
  <2>5. CallsOf(Input) = calls /\ Touched = GroupsOf(calls)
        /\ \A k \in Key : given[k] = PacketsUnder(k, calls)
    BY <1>1, <2>3, <2>4 DEF CallsSoFar, CallsOf
  <2>. QED
    BY <2>3, <2>5 DEF Expected, Groups, CallsOf
<1>6. \A k \in Live(flows) :
        /\ Contents(flows[k]) \in Suffixes(Expected(Input, k))
        /\ ~options.l7 => Contents(flows[k]) # <<>>
  BY <1>2, <1>5 DEF Gathered, HoldsTail, Contents, Live
<1>7. ASSUME Keeps(current)
      PROVE  Written
  <2>1. Cardinality(Touched) < MaxSessions /\ \A j \in DOMAIN inputs : inputs[j].stem = Input.stem => j = current
    BY <1>5, <1>7 DEF Keeps, Input
  <2>2. Live(flows) = Touched /\ \A k \in Touched : k \in Key /\ flows[k].packets = given[k]
    BY <1>2, <2>1 DEF Gathered, CompleteInv, CompleteBelowLimit, Touched, Live
  <2>3. \A name \in DOMAIN files : name[1] # Input.stem
    <3>. SUFFICES ASSUME NEW name \in DOMAIN files
                  PROVE  name[1] # Input.stem
      OBVIOUS
    <3>1. PICK i \in 1..current - 1 : inputs[i].stem = name[1]
      BY <1>1 DEF LegacyInv, DirInv
    <3>2. i \in DOMAIN inputs /\ i # current
      BY InputTypes DEF LegacyInv, LineTypes
    <3>. QED
      BY <2>1, <3>1, <3>2
  <2>4. ContentsOf(Input.stem) = {}
    BY <2>3 DEF ContentsOf
  <2>5. Own(Input) \ Live(flows) = {}
    BY <1>5, <2>2 DEF Own
  <2>6. \A k \in Live(flows) : Contents(flows[k]) = Expected(Input, k)
    BY <1>5, <2>2 DEF Contents
  <2>. QED
    BY <1>5, <2>2, <2>4, <2>5, <2>6 DEF Written
<1>8. WriteInv'
  <2>1. /\ Keeps(current)' <=> Keeps(current)
        /\ \A k : Expected(Input, k)' = Expected(Input, k)
        /\ Groups(Input)' = Groups(Input) /\ Own(Input)' = Own(Input)
        /\ \A keys : FilesOf(Input, keys)' = FilesOf(Input, keys)
    BY <1>1, SameLine DEF Input
  <2>2. \A k \in Live(flows) : Contents(flows[k])' = Contents(flows[k])
    BY <1>1 DEF Contents
  <2>3. Written => Written'
    BY <1>1, <1>2, <2>1, <2>2 DEF Written, ContentsOf, HasFile, Named
  <2>. QED
    BY <1>1, <1>2, <1>6, <1>7, <2>1, <2>2, <2>3 DEF WriteInv
<1>. QED
  BY <1>3, <1>4, <1>8 DEF LegacyInv
-----------------------------------------------------------------------------
(* By session, packets that give a file one name have one key, or their    *)
(* groups share their name.                                                *)
LEMMA NamesApart ==
  ASSUME LineTypes, ReadTypes, options.strategy.by = "session",
         NEW n, NEW k \in Own(Input), NEW l \in Groups(Input), NEW p, NEW q,
         Under(k, p), Named(n, p), Under(l, q), Named(n, q)
  PROVE  k = l
<1>1. PICK i \in 1..pos : p = Input.packets[i] /\ k \in KeysAt(options.strategy, Input, i)
  BY DEF Under
<1>2. PICK j \in 1..pos : q = Input.packets[j] /\ l \in KeysAt(options.strategy, Input, j)
  BY DEF Under
<1>3. /\ i \in DOMAIN Input.packets /\ j \in DOMAIN Input.packets
      /\ p \in Packet /\ q \in Packet
  BY <1>1, <1>2, InputTypes DEF ReadTypes
<1>4. CASE SessionOf(p) = Absent /\ SessionOf(q) = Absent
  BY <1>1, <1>2, <1>3, <1>4, InputTypes, SessionsAssumption DEF LineTypes, Input
<1>5. CASE SessionOf(p) # Absent /\ SessionOf(q) # Absent
  <2>1. NameOf(Input.packets[i], 0) = NameOf(Input.packets[j], 0)
    BY <1>1, <1>2, <1>5 DEF Named
  <2>. QED
    BY <1>1, <1>2, <1>3, <2>1 DEF Own, SharesItsName
<1>6. CASE ~(SessionOf(p) = Absent <=> SessionOf(q) = Absent)
  BY <1>3, <1>6, NamesAssumption DEF Named
<1>. QED
  BY <1>4, <1>5, <1>6

(* What the writing of a flow does.                                        *)
Stores(key, name, contents) ==
  \/ options.l7 /\ contents = <<>> /\ files' = files
  \/ /\ contents # <<>>
     /\ files' = [n \in DOMAIN files \cup {name} |-> IF n = name THEN contents ELSE files[n]]

LEMMA WriteFlowStores ==
  ASSUME LegacyInv, NEW key \in Key, WriteFlow(key)
  PROVE  /\ stage = "writing" /\ stage' = "writing" /\ key \in Live(flows)
         /\ UNCHANGED <<options, inputs, current, pos, todo, idx, next_flow_id,
                        lru_gen, given, last_use>>
         /\ UNCHANGED lineVars
         /\ Input' = Input /\ \A k, p : Under(k, p)' <=> Under(k, p)
         /\ Live(flows)' = Live(flows) \ {key}
         /\ \A k \in Live(flows)' : flows'[k] = flows[k]
         /\ Stores(key, FileName(Input.stem, flows[key]), Contents(flows[key]))
<1>1. /\ stage = "writing" /\ stage' = "writing" /\ key \in Live(flows)
      /\ UNCHANGED <<options, inputs, current, pos, todo, idx, next_flow_id,
                     lru_gen, given, last_use>>
      /\ UNCHANGED lineVars /\ flows' = Without(flows, key)
  BY DEF WriteFlow, lineVars, readVars
<1>2. /\ Live(flows)' = Live(flows) \ {key}
      /\ \A k \in Live(flows)' : flows'[k] = flows[k]
  BY <1>1 DEF Live, Without
<1>3. Input' = Input /\ \A k, p : Under(k, p)' <=> Under(k, p)
  BY <1>1 DEF Input, Under
<1>4. ~options.l7 => Contents(flows[key]) # <<>>
  BY <1>1 DEF LegacyInv, WriteInv
<1>5. Stores(key, FileName(Input.stem, flows[key]), Contents(flows[key]))
  BY <1>1, <1>4 DEF WriteFlow, WithFile, Stores
<1>. QED
  BY <1>1, <1>2, <1>3, <1>5

(* The flow's file has the name of one of its packets.                     *)
LEMMA FileNameIsNamed ==
  ASSUME LegacyInv, NEW key \in Key, key \in Live(flows)
  PROVE  LET name == FileName(Input.stem, flows[key])
             first == flows[key].packets[1]
         IN  name[1] = Input.stem /\ Under(key, first) /\ Named(name[2], first)
<1>1. flows[key] \in FlowState
  BY DEF LegacyInv, ReadInv, ReadTypes, TypeOK, Live
<1>2. flows[key].flow_id \in Nat
  BY <1>1 DEF FlowState
<1>3. Under(key, flows[key].packets[1])
  BY DEF LegacyInv, ReadInv, UnderInv
<1>. QED
  BY <1>2, <1>3 DEF FileName, Named, NameOf

(* The new file, if there is one, is whole; the others are as before.      *)
LEMMA WriteFlowFilesAreWhole ==
  ASSUME LegacyInv, NEW key \in Key, WriteFlow(key)
  PROVE  FilesAreWhole'
<1>1. PICK name, contents :
        name = FileName(Input.stem, flows[key]) /\ contents = Contents(flows[key])
  OBVIOUS
<1>2. /\ stage = "writing" /\ key \in Live(flows)
      /\ UNCHANGED <<options, inputs, current>> /\ UNCHANGED lineVars
      /\ Stores(key, name, contents)
  BY <1>1, WriteFlowStores
<1>3. PICK last \in 1..current : last = current
  BY InputTypes DEF LegacyInv, LineTypes
<1>4. name[1] = Input.stem
  BY <1>1, <1>2, FileNameIsNamed
<1>5. Input.tail = "eof" /\ contents \in Suffixes(Expected(Input, key))
  BY <1>1, <1>2 DEF LegacyInv, WriteInv
<1>6. \A i, k : Expected(inputs[i], k)' = Expected(inputs[i], k)
  BY <1>2, SameLine
<1>7. ASSUME NEW n \in DOMAIN files'
      PROVE  \E i \in 1..current :
               /\ inputs[i].tail = "eof" /\ inputs[i].stem = n[1]
               /\ \E k \in Key : files'[n] \in Suffixes(Expected(inputs[i], k)') \ {<<>>}
  <2>1. CASE contents # <<>> /\ n = name /\ files'[n] = contents
    <3>1. contents \in Suffixes(Expected(inputs[last], key))
      BY <1>3, <1>5 DEF Input
    <3>2. files'[n] \in Suffixes(Expected(inputs[last], key)') \ {<<>>}
      BY <1>6, <2>1, <3>1
    <3>3. inputs[last].tail = "eof" /\ inputs[last].stem = n[1]
      BY <1>3, <1>4, <1>5, <2>1 DEF Input
    <3>. QED
      BY <3>2, <3>3
  <2>2. CASE n \in DOMAIN files /\ files'[n] = files[n]
    <3>1. PICK i \in 1..current :
            /\ inputs[i].tail = "eof" /\ inputs[i].stem = n[1]
            /\ \E k \in Key : files[n] \in Suffixes(Expected(inputs[i], k)) \ {<<>>}
      BY <2>2 DEF LegacyInv, DirInv, FilesAreWhole
    <3>2. PICK k \in Key : files[n] \in Suffixes(Expected(inputs[i], k)) \ {<<>>}
      BY <3>1
    <3>3. files'[n] \in Suffixes(Expected(inputs[i], k)') \ {<<>>}
      BY <1>6, <2>2, <3>2
    <3>. QED
      BY <3>1, <3>3
  <2>. QED
    BY <1>2, <1>7, <2>1, <2>2 DEF Stores
<1>. QED
  BY <1>2, <1>7 DEF FilesAreWhole

LEMMA WriteFlowReadInv ==
  ASSUME LegacyInv, NEW key \in Key, WriteFlow(key)
  PROVE  LineTypes' /\ ReadInv'
<1>1. /\ stage' = "writing"
      /\ UNCHANGED <<options, inputs, current, pos, todo, idx, next_flow_id,
                     lru_gen, given, last_use>>
      /\ Input' = Input /\ \A k, p : Under(k, p)' <=> Under(k, p)
      /\ Live(flows)' = Live(flows) \ {key}
      /\ \A k \in Live(flows)' : flows'[k] = flows[k]
  BY WriteFlowStores
<1>2. flows' = Without(flows, key)
  BY DEF WriteFlow
<1>3. TypeOK'
  BY <1>1, <1>2 DEF LegacyInv, ReadInv, ReadTypes, TypeOK, Without
<1>4. ReadTypes'
  BY <1>1, <1>3 DEF LegacyInv, ReadInv, ReadTypes
<1>5. UnderInv'
  BY <1>1 DEF LegacyInv, ReadInv, UnderInv
<1>. QED
  BY <1>1, <1>4, <1>5 DEF LegacyInv, LineTypes, ReadInv

(* One group more has its file, with all its frames. *)
LEMMA WriteFlowWritten ==
  ASSUME LegacyInv, NEW key \in Key, WriteFlow(key), Keeps(current)
  PROVE  Written'
<1>1. PICK name, contents, first :
        /\ name = FileName(Input.stem, flows[key]) /\ contents = Contents(flows[key])
        /\ first = flows[key].packets[1]
  OBVIOUS
<1>2. /\ stage = "writing" /\ key \in Live(flows)
      /\ UNCHANGED <<options, inputs, current>> /\ UNCHANGED lineVars
      /\ Input' = Input /\ \A k, p : Under(k, p)' <=> Under(k, p)
      /\ Live(flows)' = Live(flows) \ {key}
      /\ \A k \in Live(flows)' : flows'[k] = flows[k]
      /\ Stores(key, name, contents)
  BY <1>1, WriteFlowStores
<1>3. /\ \A k : Expected(Input, k)' = Expected(Input, k)
      /\ Groups(Input)' = Groups(Input) /\ Own(Input)' = Own(Input)
      /\ \A keys : FilesOf(Input, keys)' = FilesOf(Input, keys)
  BY <1>2, SameLine DEF Input
<1>4. Written
  BY <1>2 DEF LegacyInv, WriteInv
<1>5. name[1] = Input.stem /\ Under(key, first) /\ Named(name[2], first)
  BY <1>1, <1>2, FileNameIsNamed
<1>6. key \in Groups(Input) /\ contents = Expected(Input, key)
  BY <1>1, <1>2, <1>4 DEF Written
<1>7. ASSUME NEW n \in DOMAIN files, NEW k \in Own(Input) \ Live(flows),
             NEW p, Under(k, p), Named(n[2], p)
      PROVE  n # name
  <2>. SUFFICES ASSUME n = name
                PROVE  FALSE
    OBVIOUS
  <2>1. LineTypes /\ ReadTypes /\ options.strategy.by = "session"
    BY DEF LegacyInv, ReadInv, Keeps
  <2>2. k = key
    BY <1>5, <1>6, <1>7, <2>1, NamesApart
  <2>. QED
    BY <1>2, <1>7, <2>2
<1>8. Live(flows)' \subseteq Groups(Input)
      /\ \A k \in Live(flows)' : Contents(flows[k])' = Expected(Input, k)
  <2>1. \A k \in Live(flows)' : Contents(flows[k])' = Contents(flows[k])
    BY <1>2 DEF Contents
  <2>. QED
    BY <1>2, <1>4, <2>1 DEF Written
<1>9. /\ \A n \in DOMAIN files : n \in DOMAIN files' /\ (n # name => files'[n] = files[n])
      /\ \A n \in DOMAIN files' : n \in DOMAIN files \/ n = name
      /\ \A n \in DOMAIN files' : files'[n] = contents \/ (n \in DOMAIN files /\ files'[n] = files[n])
      /\ contents # <<>> => name \in DOMAIN files' /\ files'[name] = contents
      /\ contents = <<>> => files' = files
  BY <1>2 DEF Stores
<1>10. ContentsOf(Input.stem)' \subseteq FilesOf(Input, Groups(Input))
  <2>. SUFFICES ASSUME NEW n \in DOMAIN files', n[1] = Input.stem
                PROVE  files'[n] \in FilesOf(Input, Groups(Input))
    BY <1>2 DEF ContentsOf
  <2>1. CASE n \in DOMAIN files /\ files'[n] = files[n]
    BY <1>4, <2>1 DEF Written, ContentsOf
  <2>2. CASE files'[n] = contents /\ contents # <<>>
    BY <1>6, <2>2 DEF FilesOf
  <2>. QED
    BY <1>9, <2>1, <2>2
<1>11. ASSUME NEW k \in Own(Input) \ Live(flows)', Expected(Input, k) # <<>>
       PROVE  \E n \in DOMAIN files' :
                /\ n[1] = Input.stem /\ files'[n] = Expected(Input, k)
                /\ \E pkt : Under(k, pkt) /\ Named(n[2], pkt)
  <2>1. CASE k = key
    BY <1>5, <1>6, <1>9, <1>11, <2>1
  <2>2. CASE k # key
    <3>1. k \in Own(Input) \ Live(flows)
      BY <1>2, <1>11, <2>2
    <3>2. HasFile(k)
      BY <1>4, <1>11, <3>1 DEF Written
    <3>3. PICK n \in DOMAIN files :
            /\ n[1] = Input.stem /\ files[n] = Expected(Input, k)
            /\ \E pkt : Under(k, pkt) /\ Named(n[2], pkt)
      BY <3>2 DEF HasFile
    <3>4. n # name
      BY <1>7, <3>1, <3>3
    <3>. QED
      BY <1>9, <3>3, <3>4
  <2>. QED
    BY <2>1, <2>2
<1>12. \A k \in Own(Input) \ Live(flows)' : Expected(Input, k) # <<>> => HasFile(k)'
  BY <1>2, <1>3, <1>11 DEF HasFile, Named
<1>. QED
  BY <1>2, <1>3, <1>8, <1>10, <1>12 DEF Written

(* The files of the inputs before are not touched, unless the stems agree. *)
LEMMA WriteFlowKeepsFiles ==
  ASSUME LegacyInv, NEW key \in Key, WriteFlow(key), NEW i \in 1..current - 1, Keeps(i)
  PROVE  AllFiles(i)' <=> AllFiles(i)
<1>1. PICK name, contents :
        name = FileName(Input.stem, flows[key]) /\ contents = Contents(flows[key])
  OBVIOUS
<1>2. /\ key \in Live(flows) /\ UNCHANGED <<options, inputs, current>> /\ UNCHANGED lineVars
      /\ Stores(key, name, contents)
  BY <1>1, WriteFlowStores
<1>3. name[1] = Input.stem
  BY <1>1, <1>2, FileNameIsNamed
<1>4. current \in DOMAIN inputs /\ i # current
  BY InputTypes DEF LegacyInv, LineTypes
<1>5. name[1] # inputs[i].stem
  BY <1>3, <1>4 DEF Keeps, Input
<1>6. ContentsOf(inputs[i].stem)' = ContentsOf(inputs[i].stem)
  <2>1. CASE files' = files
    BY <1>2, <2>1 DEF ContentsOf
  <2>2. CASE files' = [n \in DOMAIN files \cup {name} |-> IF n = name THEN contents ELSE files[n]]
    <3>1. \A n \in DOMAIN files' : n[1] = inputs[i].stem => n \in DOMAIN files /\ files'[n] = files[n]
      BY <1>5, <2>2
    <3>2. \A n \in DOMAIN files : n[1] = inputs[i].stem => n \in DOMAIN files' /\ files'[n] = files[n]
      BY <1>5, <2>2
    <3>. QED
      BY <1>2, <3>1, <3>2 DEF ContentsOf
  <2>. QED
    BY <1>2, <2>1, <2>2 DEF Stores
<1>7. /\ \A keys : FilesOf(inputs[i], keys)' = FilesOf(inputs[i], keys)
      /\ Groups(inputs[i])' = Groups(inputs[i]) /\ Own(inputs[i])' = Own(inputs[i])
  BY <1>2, SameLine
<1>. QED
  BY <1>2, <1>6, <1>7 DEF AllFiles

LEMMA WriteFlowLegacyInv ==
  ASSUME LegacyInv, NEW key \in Key, WriteFlow(key)
  PROVE  LegacyInv'
<1>1. /\ stage = "writing" /\ stage' = "writing"
      /\ UNCHANGED <<options, inputs, current>> /\ UNCHANGED lineVars
      /\ Input' = Input
      /\ Live(flows)' = Live(flows) \ {key}
      /\ \A k \in Live(flows)' : flows'[k] = flows[k]
  BY WriteFlowStores
<1>2. LineTypes' /\ ReadInv'
  BY WriteFlowReadInv
<1>3. \A i : Keeps(i)' <=> Keeps(i)
  BY <1>1, SameLine
<1>4. DirInv'
  <2>1. FilesAreWhole'
    BY WriteFlowFilesAreWhole
  <2>2. ~options.clean => \A i \in 1..current - 1 : Keeps(i) => AllFiles(i)'
    BY WriteFlowKeepsFiles DEF LegacyInv, DirInv
  <2>. QED
    BY <1>1, <1>3, <2>1, <2>2 DEF DirInv
<1>5. WriteInv'
  <2>1. \A k \in Live(flows)' :
          /\ Contents(flows[k])' \in Suffixes(Expected(Input, k)')
          /\ ~options.l7 => Contents(flows[k])' # <<>>
    <3>1. \A k \in Live(flows)' : Contents(flows[k])' = Contents(flows[k])
      BY <1>1 DEF Contents
    <3>2. \A k : Expected(Input, k)' = Expected(Input, k)
      BY <1>1, SameLine DEF Input
    <3>. QED
      BY <1>1, <3>1, <3>2 DEF LegacyInv, WriteInv
  <2>2. Keeps(current)' => Written'
    BY <1>1, <1>3, WriteFlowWritten
  <2>3. Input.tail = "eof"
    BY <1>1 DEF LegacyInv, WriteInv
  <2>. QED
    BY <1>1, <2>1, <2>2, <2>3 DEF WriteInv
<1>. QED
  BY <1>2, <1>4, <1>5 DEF LegacyInv

(* A failure leaves the directory as it is, and ends the run.              *)
LEMMA WriteFlowFailsLegacyInv ==
  ASSUME LegacyInv, NEW key \in Key, WriteFlowFails(key)
  PROVE  LegacyInv'
<1>1. /\ stage = "writing" /\ stage' = "failed"
      /\ UNCHANGED <<options, inputs, current, pos, todo, idx, files, flows,
                     next_flow_id, lru_gen, given, last_use>>
      /\ UNCHANGED lineVars
  BY DEF WriteFlowFails, readVars, lineVars, fmVars, vars
<1>2. /\ Input' = Input /\ Live(flows)' = Live(flows)
      /\ \A k, p : Under(k, p)' <=> Under(k, p)
  BY <1>1 DEF Input, Live, Under
<1>3. LineTypes' /\ ReadInv'
  BY <1>1, <1>2 DEF LegacyInv, LineTypes, ReadInv, ReadTypes, TypeOK, UnderInv
<1>4. FilesAreWhole'
  BY <1>1, SameFiles DEF LegacyInv, DirInv
<1>5. DirInv'
  BY <1>1, <1>4, SameLine DEF LegacyInv, DirInv
<1>. QED
  BY <1>1, <1>3, <1>5 DEF LegacyInv, WriteInv

(* The input is written: its groups have all their files.                  *)
LEMMA AllWritten ==
  ASSUME LegacyInv, stage = "writing", Live(flows) = {}, Keeps(current)
  PROVE  AllFiles(current)
<1>1. Written
  BY DEF LegacyInv, WriteInv
<1>2. \A k \in Own(Input) : Expected(Input, k) # <<>> => Expected(Input, k) \in ContentsOf(Input.stem)
  BY <1>1 DEF Written, HasFile, ContentsOf
<1>3. FilesOf(Input, Own(Input)) \subseteq ContentsOf(Input.stem)
  BY <1>2 DEF FilesOf
<1>. QED
  BY <1>1, <1>3 DEF Written, AllFiles, Input

(* The next input begins afresh, or the run is over.                       *)
LEMMA InputDoneLegacyInv ==
  ASSUME LegacyInv, InputDone
  PROVE  LegacyInv'
<1>1. /\ stage = "writing" /\ Live(flows) = {}
      /\ UNCHANGED <<options, inputs, files>> /\ UNCHANGED lineVars
      /\ current \in 1..Len(inputs) /\ Len(inputs) \in Nat
  BY InputTypes DEF InputDone, lineVars, dirVars, LegacyInv, LineTypes
<1>2. \A i : (Keeps(i)' <=> Keeps(i)) /\ (AllFiles(i)' <=> AllFiles(i))
  BY <1>1, SameLine
<1>3. Keeps(current) => AllFiles(current)
  BY <1>1, AllWritten
<1>4. CASE /\ current < Len(inputs) /\ current' = current + 1 /\ stage' = "start"
           /\ pos' = 0 /\ todo' = <<>> /\ idx' = 0
           /\ flows' = [k \in Key |-> Absent] /\ next_flow_id' = 1 /\ lru_gen' = 0
           /\ given' = [k \in Key |-> <<>>] /\ last_use' = [k \in Key |-> 0]
  <2>1. LineTypes'
    BY <1>1, <1>4 DEF LegacyInv, LineTypes
  <2>2. Fresh'
    BY <1>4 DEF Fresh, Init
  <2>3. ReadInv'
    BY <2>1, <2>2, FreshReadInv, PTL
  <2>4. FilesAreWhole'
    BY <1>1, <1>4, SameFiles DEF LegacyInv, DirInv
  <2>5. \A name \in DOMAIN files : \E i \in 1..current : inputs[i].stem = name[1]
    BY DEF LegacyInv, DirInv, FilesAreWhole
  <2>6. 1..current' - 1 = 1..current /\ \A i \in 1..current : i \in 1..current - 1 \/ i = current
    BY <1>1, <1>4
  <2>7. ~options.clean => \A i \in 1..current : Keeps(i) => AllFiles(i)
    BY <1>3, <2>6 DEF LegacyInv, DirInv
  <2>8. DirInv'
    BY <1>1, <1>2, <1>4, <2>4, <2>5, <2>6, <2>7 DEF DirInv
  <2>. QED
    BY <1>4, <2>1, <2>3, <2>8 DEF LegacyInv, WriteInv
<1>5. CASE /\ current = Len(inputs) /\ stage' = "ok"
           /\ UNCHANGED <<current, pos, todo, idx, flows, next_flow_id,
                          lru_gen, given, last_use>>
  <2>1. /\ Input' = Input /\ Live(flows)' = Live(flows)
        /\ \A k, p : Under(k, p)' <=> Under(k, p)
    BY <1>1, <1>5 DEF Input, Live, Under
  <2>2. LineTypes' /\ ReadInv'
    BY <1>1, <1>5, <2>1 DEF LegacyInv, LineTypes, ReadInv, ReadTypes, TypeOK, UnderInv
  <2>3. FilesAreWhole'
    BY <1>1, <1>5, SameFiles DEF LegacyInv, DirInv
  <2>4. DirInv'
    BY <1>1, <1>2, <1>3, <1>5, <2>3 DEF LegacyInv, DirInv
  <2>. QED
    BY <1>5, <2>2, <2>4 DEF LegacyInv, WriteInv
<1>. QED
  BY <1>4, <1>5 DEF InputDone, readVars, fmVars, vars

LEMMA LegacyInitInv == LegacyInit => LegacyInv
<1>. SUFFICES ASSUME LegacyInit
              PROVE  LegacyInv
  OBVIOUS
<1>1. inputs \in Seq(InputFile) /\ inputs # <<>>
  BY LinesAssumption DEF LegacyInit
<1>2. current \in 1..Len(inputs)
  BY <1>1, EmptySeq, LenProperties DEF LegacyInit
<1>3. LineTypes /\ Fresh
  BY <1>2 DEF LegacyInit, LineTypes, Fresh
<1>4. DOMAIN files = {} /\ 1..current - 1 = {}
  BY DEF LegacyInit
<1>. QED
  BY <1>3, <1>4, FreshReadInv DEF LegacyInv, WriteInv, DirInv, FilesAreWhole, LegacyInit

LEMMA LegacyStutter ==
  ASSUME LegacyInv, UNCHANGED legacyVars
  PROVE  LegacyInv'
<1>1. /\ UNCHANGED <<options, inputs, current, stage, pos, todo, idx, files, flows, next_flow_id, lru_gen, given, last_use>>
      /\ UNCHANGED lineVars
  BY DEF legacyVars, lineVars, readVars, dirVars, fmVars, vars
<1>2. /\ Input' = Input /\ SoFar' = SoFar /\ Touched' = Touched /\ Live(flows)' = Live(flows)
      /\ \A k, p : Under(k, p)' <=> Under(k, p)
  BY <1>1 DEF Input, SoFar, Touched, Live, Under
<1>3. LineTypes' /\ ReadTypes' /\ UnderInv'
  BY <1>1, <1>2 DEF LegacyInv, LineTypes, ReadInv, ReadTypes, TypeOK, UnderInv
<1>4. Gathered => Gathered'
  <2>1. \A calls : CallsSoFar(calls) => CallsSoFar(calls)'
    BY <1>1, <1>2 DEF CallsSoFar
  <2>2. FlowsHoldTheirTail /\ CompleteInv => FlowsHoldTheirTail' /\ CompleteInv'
    BY <1>1, <1>2 DEF FlowsHoldTheirTail, CompleteInv, CompleteBelowLimit
  <2>. QED
    BY <1>1, <1>2, <2>1, <2>2 DEF Gathered
<1>5. /\ \A i : (Keeps(i)' <=> Keeps(i)) /\ (AllFiles(i)' <=> AllFiles(i))
      /\ \A k : Expected(Input, k)' = Expected(Input, k)
      /\ Groups(Input)' = Groups(Input) /\ Own(Input)' = Own(Input)
      /\ \A keys : FilesOf(Input, keys)' = FilesOf(Input, keys)
  BY <1>1, SameLine DEF Input
<1>6. WriteInv'
  <2>1. \A k \in Live(flows) : Contents(flows[k])' = Contents(flows[k])
    BY <1>1 DEF Contents
  <2>2. Written => Written'
    BY <1>1, <1>2, <1>5, <2>1 DEF Written, ContentsOf, HasFile, Named
  <2>. QED
    BY <1>1, <1>2, <1>5, <2>1, <2>2 DEF LegacyInv, WriteInv
<1>7. FilesAreWhole'
  BY <1>1, SameFiles DEF LegacyInv, DirInv
<1>8. DirInv'
  BY <1>1, <1>5, <1>7 DEF LegacyInv, DirInv
<1>. QED
  BY <1>1, <1>3, <1>4, <1>6, <1>8 DEF LegacyInv, ReadInv

(* Every step of the run keeps the invariant.                              *)
LEMMA LegacyNextInv == LegacyInv /\ [LegacyNext]_legacyVars => LegacyInv'
<1>. SUFFICES ASSUME LegacyInv, [LegacyNext]_legacyVars
              PROVE  LegacyInv'
  OBVIOUS
<1>1. CASE Start
  BY <1>1, StartLegacyInv
<1>2. CASE ReadPacket \/ Classify
  BY <1>2, ReadingLegacyInv
<1>3. CASE ReadingEnds
  BY <1>3, ReadingEndsLegacyInv
<1>4. ASSUME NEW key \in Key, WriteFlow(key)
      PROVE  LegacyInv'
  BY <1>4, WriteFlowLegacyInv
<1>5. ASSUME NEW key \in Key, WriteFlowFails(key)
      PROVE  LegacyInv'
  BY <1>5, WriteFlowFailsLegacyInv
<1>6. CASE InputDone
  BY <1>6, InputDoneLegacyInv
<1>7. CASE Finished \/ UNCHANGED legacyVars
  BY <1>7, LegacyStutter DEF Finished
<1>. QED
  BY <1>1, <1>2, <1>3, <1>4, <1>5, <1>6, <1>7 DEF LegacyNext

(* Every file of --no-pipeline is an unbroken tail of one group's frames   *)
(* of an input read to its end, whenever the run is looked at or killed.   *)
THEOREM FilesAreWholeAlways == LegacySpec => []FilesAreWhole
<1>1. LegacyInv => FilesAreWhole
  BY DEF LegacyInv, DirInv
<1>. QED
  BY <1>1, LegacyInitInv, LegacyNextInv, PTL DEF LegacySpec

(* An input that is done keeps its files, or -d has taken them.            *)
LEMMA LegacyInvHasFiles == LegacyInv => EverySessionHasItsFile
<1>. SUFFICES ASSUME LegacyInv, NEW i \in Done, KeepsItsFiles(i)
              PROVE  AllFiles(i)
  BY DEF EverySessionHasItsFile, AllFiles
<1>1. Keeps(i) /\ (options.clean => stage = "ok" /\ i = Len(inputs))
  BY DEF KeepsItsFiles, Keeps
<1>2. current \in 1..Len(inputs) /\ Len(inputs) \in Nat /\ DOMAIN inputs = 1..Len(inputs)
  BY InputTypes DEF LegacyInv, LineTypes
<1>3. stage = "ok" => current = Len(inputs) /\ (Keeps(current) => AllFiles(current))
  BY DEF LegacyInv, DirInv
<1>4. CASE stage = "ok" /\ i = current
  BY <1>1, <1>3, <1>4
<1>5. CASE i \in 1..current - 1
  <2>1. i # Len(inputs)
    <3>1. PICK last, n : last = current /\ n = Len(inputs)
      OBVIOUS
    <3>2. n \in Nat /\ last \in 1..n /\ i \in 1..(last - 1)
      BY <1>2, <1>5, <3>1
    <3>3. i # n
      BY <3>2
    <3>. QED
      BY <3>1, <3>3
  <2>2. ~options.clean
    BY <1>1, <2>1, Zenon
  <2>. QED
    BY <1>1, <1>5, <2>2, Zenon DEF LegacyInv, DirInv
<1>6. CASE stage = "ok"
  <2>1. i \in 1..current
    BY <1>2, <1>3, <1>6 DEF Done
  <2>2. i = current \/ i \in 1..current - 1
    BY <1>2, <2>1
  <2>. QED
    BY <1>4, <1>5, <1>6, <2>2
<1>. QED
  BY <1>5, <1>6 DEF Done

(* By session and below the limit, an input that is done has a whole file  *)
(* for each of its sessions with a name of its own, and no file but its    *)
(* sessions'.                                                              *)
THEOREM EverySessionHasItsFileAlways == LegacySpec => []EverySessionHasItsFile
<1>. QED
  BY LegacyInvHasFiles, LegacyInitInv, LegacyNextInv, PTL DEF LegacySpec
=============================================================================

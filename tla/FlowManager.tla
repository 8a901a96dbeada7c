----------------------------- MODULE FlowManager -----------------------------
(***************************************************************************)
(* The flow table of flow/mod.rs: which packets each group has gathered,   *)
(* under a limit on the number of groups (-p, max_sessions) enforced by    *)
(* evicting the least recently used one.                                   *)
(*                                                                         *)
(* A packet is a number, its place in the order of the add_packet calls.   *)
(* FlowState's packet_count is Len(packets) (both grow in the same two     *)
(* functions), and its byte total and time stamps are read off `packets':  *)
(* none of them is a field here.                                           *)
(***************************************************************************)
EXTENDS LruTable, Sequences, SequencesExt

CONSTANTS
  MaxSessions,  \* max_sessions
  Packet        \* the packets; alone, this module adds 1, 2, ... while
                \* they are in Packet, which bounds the behaviours

FlowState == [flow_id : Nat \ {0}, packets : Seq(Packet), last_access : Nat]

ASSUME AbsentAssumption == Absent \notin Key \cup FlowState
ASSUME MaxSessionsAssumption == MaxSessions \in Nat

VARIABLES
  flows,         \* group key -> FlowState or Absent
  next_flow_id,
  lru_gen,
  given,         \* history: the packets added under each key so far
  last_use       \* history: the generation of each key's last add, 0 if none

vars == <<flows, next_flow_id, lru_gen, given, last_use>>

Init ==
  /\ flows = [k \in Key |-> Absent]
  /\ next_flow_id = 1
  /\ lru_gen = 0
  /\ given = [k \in Key |-> <<>>]
  /\ last_use = [k \in Key |-> 0]

(* Mutants: the time stamp or the packet is forgotten; the id never moves on. *)
ExtendedUnstamped(flow, pkt, gen) == [flow EXCEPT !.packets = Append(@, pkt)]

ExtendedStampOnly(flow, pkt, gen) == [flow EXCEPT !.last_access = gen]

IdAfterStuck(id) == id

(* FlowState::new, FlowState::add_packet, and the id counter's step. *)
NewFlow(id, pkt, gen) ==
  [flow_id |-> id, packets |-> <<pkt>>, last_access |-> gen]

Extended(flow, pkt, gen) ==
  [flow_id |-> flow.flow_id, packets |-> Append(flow.packets, pkt), last_access |-> gen]

IdAfter(id) == id + 1

(* add_packet: evict, advance the generation, then extend the flow of the  *)
(* key or start one.  The eviction may take the very flow the packet       *)
(* belongs to, which is then started again under a new id.                 *)
AddPacket(key, pkt) ==
  \E victim \in Victims(flows, MaxSessions) :
    LET kept == Without(flows, victim) IN
      /\ lru_gen' = lru_gen + 1
      /\ \/ /\ kept[key] # Absent
            /\ flows' = [kept EXCEPT ![key] = Extended(@, pkt, lru_gen')]
            /\ UNCHANGED next_flow_id
         \/ /\ kept[key] = Absent
            /\ flows' = [kept EXCEPT ![key] = NewFlow(next_flow_id, pkt, lru_gen')]
            /\ next_flow_id' = IdAfter(next_flow_id)
      /\ given' = [given EXCEPT ![key] = Append(@, pkt)]
      /\ last_use' = [last_use EXCEPT ![key] = lru_gen']

(* The capture ends: into_flows hands the table over and nothing changes.  *)
InputEnds == lru_gen + 1 \notin Packet /\ UNCHANGED vars

Next ==
  \/ lru_gen + 1 \in Packet /\ \E key \in Key : AddPacket(key, lru_gen + 1)
  \/ InputEnds

Spec == Init /\ [][Next]_vars
-----------------------------------------------------------------------------
(* The flows in the table hold ids, packets and generations.               *)
TypeOK ==
  /\ flows \in [Key -> FlowState \cup {Absent}]
  /\ next_flow_id \in Nat \ {0}
  /\ lru_gen \in Nat
  /\ given \in [Key -> Seq(Packet)]
  /\ last_use \in [Key -> Nat]

Touched == {k \in Key : last_use[k] > 0}

(* The table never outgrows its limit, whatever order the keys come in.    *)
(* The eviction tests the size before the insertion and keeps a flow for   *)
(* the packet in hand even when max_sessions is 0.                         *)
TableBounded ==
  Cardinality(Live(flows)) <= IF MaxSessions = 0 THEN 1 ELSE MaxSessions

(* The eviction is least-recently-used across the whole history: every     *)
(* flow in the table was used after every flow that has left it.           *)
LiveAreMostRecent ==
  \A k \in Live(flows) :
    /\ flows[k].last_access = last_use[k]
    /\ \A j \in Key \ Live(flows) : last_use[j] < last_use[k]

(* What the table holds for a group is an unbroken tail of the packets     *)
(* added to it, in order, ending with the latest one.                      *)
FlowsHoldTheirTail ==
  \A k \in Live(flows) :
    /\ flows[k].packets # <<>>
    /\ flows[k].packets \in Suffixes(given[k])

(* While fewer groups than the limit have been seen, no packet is lost:    *)
(* the table holds every packet of every group.                            *)
CompleteBelowLimit ==
  Cardinality(Touched) < MaxSessions =>
    \A k \in Touched : flows[k] # Absent /\ flows[k].packets = given[k]

(* Two live flows never share an id, and the next id is a new one.         *)
FlowIdsUnique ==
  \A k, j \in Live(flows) :
    /\ flows[k].flow_id < next_flow_id
    /\ flows[k].flow_id = flows[j].flow_id => k = j
=============================================================================

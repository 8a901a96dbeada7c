--------------------------- MODULE GroupingProofs ---------------------------
(***************************************************************************)
(* Theorems about GroupStrategy and Grouping, for every set of packets and *)
(* filters and captures of any length.                                     *)
(***************************************************************************)
EXTENDS Grouping, SequenceFacts

(* The addresses and ports of the other direction, which is a five-tuple.  *)
LEMMA ReversedFields ==
  ASSUME NEW t \in FiveTuple
  PROVE  /\ Reversed(t) \in FiveTuple
         /\ Reversed(t).protocol = t.protocol
         /\ Reversed(t).src_ip = t.dst_ip /\ Reversed(t).dst_ip = t.src_ip
         /\ Reversed(t).src_port = t.dst_port /\ Reversed(t).dst_port = t.src_port
BY DEF FiveTuple, Reversed

(* Five-tuples that agree on every field are the same. *)
LEMMA SameFields ==
  ASSUME NEW t \in FiveTuple, NEW u \in FiveTuple, TupleKey(t) = TupleKey(u)
  PROVE  t = u
BY DEF FiveTuple, TupleKey

(* session_key (packet.rs:19): two five-tuples get one key exactly when    *)
(* they are the same or the two directions of a conversation, also when    *)
(* the addresses, or the ports too, are equal.                             *)
LEMMA SessionKeyIsConversation ==
  ASSUME NEW t \in FiveTuple, NEW u \in FiveTuple
  PROVE  TupleKey(SessionKey(t)) = TupleKey(SessionKey(u)) <=> u = t \/ u = Reversed(t)
<1>. DEFINE first(v) == v.src_ip < v.dst_ip \/ (v.src_ip = v.dst_ip /\ v.src_port < v.dst_port)
<1>1. ASSUME NEW v \in FiveTuple
      PROVE  /\ SessionKey(v) = IF first(v) THEN v ELSE Reversed(v)
             /\ SessionKey(v) \in FiveTuple
             /\ Reversed(Reversed(v)) = v
  <2>1. SessionKey(v) = IF first(v) THEN v ELSE Reversed(v)
    BY DEF SessionKey
  <2>2. SessionKey(v) \in FiveTuple
    BY <2>1, ReversedFields
  <2>3. Reversed(Reversed(v)) = v
    <3>1. Reversed(v) \in FiveTuple /\ Reversed(Reversed(v)) \in FiveTuple
      BY ReversedFields
    <3>2. TupleKey(Reversed(Reversed(v))) = TupleKey(v)
      BY <3>1, ReversedFields DEF TupleKey
    <3>. QED
      BY <3>1, <3>2, SameFields
  <2>. QED
    BY <2>1, <2>2, <2>3
<1>2. ASSUME NEW v \in FiveTuple
      PROVE  SessionKey(Reversed(v)) = SessionKey(v)
  <2>1. Reversed(v) \in FiveTuple
    BY ReversedFields
  <2>2. CASE first(v)
    <3>1. ~first(Reversed(v))
      BY <2>2, ReversedFields DEF FiveTuple
    <3>. QED
      BY <1>1, <2>1, <2>2, <3>1
  <2>3. CASE ~first(v) /\ first(Reversed(v))
    BY <1>1, <2>1, <2>3
  <2>4. CASE ~first(v) /\ ~first(Reversed(v))
    <3>1. v.src_ip = v.dst_ip /\ v.src_port = v.dst_port
      BY <2>4, ReversedFields DEF FiveTuple
    <3>2. TupleKey(Reversed(v)) = TupleKey(v)
      BY <3>1, ReversedFields DEF TupleKey
    <3>3. Reversed(v) = v
      BY <2>1, <3>2, SameFields
    <3>. QED
      BY <3>3
  <2>. QED
    BY <2>2, <2>3, <2>4
<1>. HIDE DEF first
<1>3. ASSUME TupleKey(SessionKey(t)) = TupleKey(SessionKey(u))
      PROVE  u = t \/ u = Reversed(t)
  <2>1. SessionKey(t) = SessionKey(u)
    BY <1>1, <1>3, SameFields
  <2>. QED
    BY <1>1, <2>1
<1>. QED
  BY <1>2, <1>3

(* Filter::matches reads the two ends of a packet alike. *)
LEMMA FilterIgnoresDirection ==
  ASSUME NEW f, NEW p, NEW q, p.five_tuple \in FiveTuple,
         q.five_tuple = p.five_tuple \/ q.five_tuple = Reversed(p.five_tuple)
  PROVE  Matches(f, p) <=> Matches(f, q)
<1>1. /\ q.five_tuple \in FiveTuple
      /\ {q.five_tuple.src_ip, q.five_tuple.dst_ip} = {p.five_tuple.src_ip, p.five_tuple.dst_ip}
      /\ {q.five_tuple.src_port, q.five_tuple.dst_port}
           = {p.five_tuple.src_port, p.five_tuple.dst_port}
  BY ReversedFields
<1>2. p.five_tuple # Absent /\ q.five_tuple # Absent
  BY <1>1, AbsentAssumption
<1>. QED
  BY <1>1, <1>2 DEF Matches
-----------------------------------------------------------------------------
(* Only packets of the input are seen. *)
SeenPackets == seen \in Seq(Packets)

LEMMA SeenIsInput == Spec => []SeenPackets
<1>1. Init => SeenPackets
  BY EmptySeq DEF Init, SeenPackets
<1>2. SeenPackets /\ [Next]_vars => SeenPackets'
  <2>. SUFFICES ASSUME SeenPackets, [Next]_vars
                PROVE  SeenPackets'
    OBVIOUS
  <2>1. ASSUME NEW pkt \in Packets, ReadPacket(pkt)
        PROVE  SeenPackets'
    BY <2>1, AppendProperties DEF ReadPacket, SeenPackets
  <2>2. CASE InputEnds \/ UNCHANGED vars
    BY <2>2 DEF InputEnds, vars, SeenPackets
  <2>. QED
    BY <2>1, <2>2 DEF Next
<1>. QED
  BY <1>1, <1>2, PTL DEF Spec

LEMMA TupleType ==
  ASSUME SeenPackets, NEW i \in DOMAIN seen
  PROVE  seen[i] \in Packets /\ Tuple(i) \in FiveTuple \cup {Absent}
BY PacketsAssumption, ElementOfSeq, LenProperties DEF SeenPackets, Tuple

(* The filter takes or leaves a conversation as a whole, in both           *)
(* directions, for any lists of addresses and ports.                       *)
THEOREM FilterKeepsConversationsWholeAlways == Spec => []FilterKeepsConversationsWhole
<1>1. SeenPackets => FilterKeepsConversationsWhole
  <2>. SUFFICES ASSUME SeenPackets, NEW i \in DOMAIN seen, NEW j \in DOMAIN seen,
                       SameConversation(i, j)
                PROVE  i \in Passing <=> j \in Passing
    BY DEF FilterKeepsConversationsWhole
  <2>1. /\ seen[i].five_tuple \in FiveTuple
        /\ \/ seen[j].five_tuple = seen[i].five_tuple
           \/ seen[j].five_tuple = Reversed(seen[i].five_tuple)
    BY TupleType DEF SameConversation, Tuple
  <2>2. Matches(filter, seen[i]) <=> Matches(filter, seen[j])
    BY <2>1, FilterIgnoresDirection
  <2>. QED
    BY <2>2 DEF Passing
<1>. QED
  BY <1>1, SeenIsInput, PTL
-----------------------------------------------------------------------------
(* The strategies on two packets of the input. *)
LEMMA KeysNest ==
  ASSUME NEW p, NEW q, p.five_tuple \in FiveTuple \cup {Absent},
         q.five_tuple \in FiveTuple \cup {Absent}
  PROVE  /\ FlowKeys(p) = FlowKeys(q) => SessionKeys(p) = SessionKeys(q)
         /\ SessionKeys(p) = SessionKeys(q) => HostpairKeys(p) = HostpairKeys(q)
         /\ HostpairKeys(p) = HostpairKeys(q) => ToSet(HostKeys(p)) = ToSet(HostKeys(q))
<1>. DEFINE t == p.five_tuple
            u == q.five_tuple
<1>1. CASE t = Absent /\ u = Absent
  BY <1>1 DEF FlowKeys, SessionKeys, HostpairKeys, HostKeys
<1>2. CASE (t = Absent) # (u = Absent)
  <2>1. FlowKeys(p) # FlowKeys(q)
    BY <1>2 DEF FlowKeys, TupleKey
  <2>2. SessionKeys(p) # SessionKeys(q)
    BY <1>2 DEF SessionKeys, TupleKey
  <2>3. HostpairKeys(p) # HostpairKeys(q)
    BY <1>2 DEF HostpairKeys
  <2>. QED
    BY <2>1, <2>2, <2>3
<1>3. CASE t # Absent /\ u # Absent
  <2>1. t \in FiveTuple /\ u \in FiveTuple
    BY <1>3
  <2>2. FlowKeys(p) = FlowKeys(q) => t = u
    BY <1>3, <2>1, SameFields DEF FlowKeys
  <2>3. SessionKeys(p) = SessionKeys(q) => u = t \/ u = Reversed(t)
    BY <1>3, <2>1, SessionKeyIsConversation DEF SessionKeys
  <2>4. u = t \/ u = Reversed(t) => HostpairKeys(p) = HostpairKeys(q)
    BY <1>3, <2>1, ReversedFields DEF HostpairKeys, FiveTuple
  <2>5. HostpairKeys(p) = HostpairKeys(q) => {t.src_ip, t.dst_ip} = {u.src_ip, u.dst_ip}
    BY <1>3, <2>1 DEF HostpairKeys, FiveTuple
  <2>6. ToSet(HostKeys(p)) = {<<"ip", t.src_ip>>, <<"ip", t.dst_ip>>}
    BY <1>3 DEF HostKeys, ToSet
  <2>7. ToSet(HostKeys(q)) = {<<"ip", u.src_ip>>, <<"ip", u.dst_ip>>}
    BY <1>3 DEF HostKeys, ToSet
  <2>8. t = u => SessionKeys(p) = SessionKeys(q)
    BY <1>3 DEF SessionKeys
  <2>. QED
    BY <2>2, <2>3, <2>4, <2>5, <2>6, <2>7, <2>8
<1>. QED
  BY <1>1, <1>2, <1>3

(* Flows nest in sessions, sessions in hostpairs, hostpairs in hosts. *)
THEOREM StrategiesNestAlways == Spec => []StrategiesNest
<1>1. SeenPackets => StrategiesNest
  <2>. SUFFICES ASSUME SeenPackets, NEW i \in DOMAIN seen, NEW j \in DOMAIN seen
                PROVE  LET p == seen[i]
                           q == seen[j]
                       IN /\ FlowKeys(p) = FlowKeys(q) => SessionKeys(p) = SessionKeys(q)
                          /\ SessionKeys(p) = SessionKeys(q) => HostpairKeys(p) = HostpairKeys(q)
                          /\ HostpairKeys(p) = HostpairKeys(q) =>
                               ToSet(HostKeys(p)) = ToSet(HostKeys(q))
    BY DEF StrategiesNest
  <2>. QED
    BY TupleType, KeysNest DEF Tuple
<1>. QED
  BY <1>1, SeenIsInput, PTL
-----------------------------------------------------------------------------
(* The strategy is one of the nine, chosen before the loop.                *)
StrategyFixed == strategy \in Strategies

(* How often a packet is handed on under a key.                            *)
Handed(keys, key, n) ==
  [i \in 1..Cardinality({j \in DOMAIN keys : keys[j] = key}) |-> n]

SelfTalk(pkt) ==
  /\ strategy.by = "host"
  /\ pkt.five_tuple # Absent /\ pkt.five_tuple.src_ip = pkt.five_tuple.dst_ip

(* Facts about sequences. *)
LEMMA SeqMonotone ==
  ASSUME NEW A, NEW B, A \subseteq B
  PROVE  Seq(A) \subseteq Seq(B)
OBVIOUS

LEMMA ConcatShort ==
  ASSUME NEW x, NEW y
  PROVE  /\ <<>> \o <<>> = <<>> /\ <<x>> \o <<>> = <<x>> /\ <<>> \o <<y>> = <<y>>
         /\ <<x>> \o <<y>> = <<x, y>>
<1>. <<x>> \in Seq({x, y}) /\ <<y>> \in Seq({x, y}) /\ <<>> \in Seq({x, y})
  OBVIOUS
<1>1. <<x>> \o <<>> = <<x>> /\ <<>> \o <<y>> = <<y>> /\ <<>> \o <<>> = <<>>
  BY ConcatEmptySeq
<1>2. <<x>> \o <<y>> = <<x, y>>
  <2>. DEFINE s == <<x>>
              t == <<y>>
              u == <<x, y>>
  <2>1. /\ Len(s) = 1 /\ Len(t) = 1 /\ s[1] = x /\ t[1] = y
        /\ u \in Seq({x, y}) /\ Len(u) = 2 /\ u[1] = x /\ u[2] = y
    OBVIOUS
  <2>2. /\ s \o t \in Seq({x, y}) /\ Len(s \o t) = 2
        /\ \A i \in 1..2 : (s \o t)[i] = IF i <= 1 THEN s[i] ELSE t[i - 1]
    BY <2>1, ConcatProperties
  <2>. HIDE DEF s, t, u
  <2>3. \A i \in 1..2 : (s \o t)[i] = u[i]
    BY <2>1, <2>2
  <2>4. s \o t = u
    BY <2>1, <2>2, <2>3, SeqEqual
  <2>. QED
    BY <2>4 DEF s, t, u
<1>. QED
  BY <1>1, <1>2

(* group_keys names at least one group, at most two, and one twice only    *)
(* when an address talks to itself under host.                             *)
OneOrTwo(keys, a, b) == keys = <<a>> \/ keys = <<a, b>>

LEMMA OneOrTwoKeys ==
  ASSUME StrategyFixed, NEW pkt, NEW idx
  PROVE  \E a, b : /\ OneOrTwo(GroupKeys(strategy, pkt, idx), a, b)
                   /\ GroupKeys(strategy, pkt, idx) = <<a, b>> /\ a = b => SelfTalk(pkt)
<1>. DEFINE keys == GroupKeys(strategy, pkt, idx)
            Goal == \E a, b : OneOrTwo(keys, a, b) /\ (keys = <<a, b>> /\ a = b => SelfTalk(pkt))
<1>. SUFFICES Goal
  OBVIOUS
<1>1. strategy.by \in {"session", "flow", "host", "hostpair", "mac", "bssid", "nosplit",
                       "seconds", "packets"}
  BY StrategiesAssumption DEF StrategyFixed
<1>2. ASSUME NEW a, keys = <<a>>
      PROVE  Goal
  <2>1. <<a>> # <<a, a>>
    OBVIOUS
  <2>2. OneOrTwo(keys, a, a) /\ keys # <<a, a>>
    BY <1>2, <2>1 DEF OneOrTwo
  <2>. HIDE DEF keys
  <2>. QED
    BY <2>2
<1>3. CASE strategy.by = "host"
  <2>1. keys = HostKeys(pkt)
    BY <1>3 DEF GroupKeys
  <2>2. CASE pkt.five_tuple = Absent
    BY <1>2, <2>1, <2>2 DEF HostKeys
  <2>3. CASE pkt.five_tuple # Absent
    <3>. DEFINE a == <<"ip", pkt.five_tuple.src_ip>>
                b == <<"ip", pkt.five_tuple.dst_ip>>
    <3>1. keys = <<a, b>> /\ (a = b => pkt.five_tuple.src_ip = pkt.five_tuple.dst_ip)
      BY <2>1, <2>3 DEF HostKeys
    <3>. HIDE DEF keys, a, b
    <3>2. OneOrTwo(keys, a, b) /\ (a = b => SelfTalk(pkt))
      BY <1>3, <2>3, <3>1 DEF OneOrTwo, SelfTalk
    <3>. QED
      BY <3>2
  <2>. QED
    BY <2>2, <2>3
<1>4. CASE strategy.by = "mac"
  <2>1. keys = MacKeys(pkt)
    BY <1>4 DEF GroupKeys
  <2>. DEFINE x == <<"mac", pkt.src_mac>>
              y == <<"mac", pkt.dst_mac>>
  <2>2. \/ keys = << <<"no_mac">> >> \/ keys = <<x>> \/ keys = <<y>>
        \/ keys = <<x, y>> /\ x # y
    <3>1. /\ <<>> \o <<>> = <<>> /\ <<x>> \o <<>> = <<x>> /\ <<>> \o <<y>> = <<y>>
          /\ <<x>> \o <<y>> = <<x, y>>
      BY ConcatShort, Zenon
    <3>2. pkt.src_mac # pkt.dst_mac => x # y
      OBVIOUS
    <3>. QED
      BY <2>1, <3>1, <3>2, Zenon DEF MacKeys
  <2>3. ASSUME keys = <<x, y>>, x # y
        PROVE  Goal
    <3>1. OneOrTwo(keys, x, y)
      BY <2>3 DEF OneOrTwo
    <3>. HIDE DEF keys, x, y
    <3>. QED
      BY <2>3, <3>1
  <2>. HIDE DEF keys, x, y, Goal
  <2>. QED
    BY <1>2, <2>2, <2>3
<1>5. CASE strategy.by \notin {"host", "mac"}
  <2>1. \E a : keys = <<a>>
    BY <1>1, <1>5 DEF GroupKeys, SessionKeys, FlowKeys, HostpairKeys, BssidKeys,
                      SecondsKeys, PacketsKeys
  <2>. HIDE DEF keys, Goal
  <2>. QED
    BY <1>2, <2>1
<1>. QED
  BY <1>3, <1>4, <1>5

(* A packet's number is added to each of its groups, twice where its two   *)
(* keys are one.                                                           *)
LEMMA HandedShape ==
  ASSUME NEW keys, NEW a, NEW b, OneOrTwo(keys, a, b), NEW key, NEW n
  PROVE  /\ Handed(keys, key, n) \in {<<>>, <<n>>, <<n, n>>}
         /\ Handed(keys, key, n) # <<>> <=> key \in ToSet(keys)
         /\ Handed(keys, key, n) = <<n, n>> => keys = <<a, b>> /\ a = b
<1>. DEFINE places == {j \in DOMAIN keys : keys[j] = key}
            h == Handed(keys, key, n)
<1>1. /\ Cardinality({}) = 0 /\ Cardinality({1}) = 1 /\ Cardinality({2}) = 1
      /\ Cardinality({1, 2}) = 2
  <2>1. {1} \cup {2} = {1, 2} /\ 2 \notin {1}
    OBVIOUS
  <2>2. IsFiniteSet({1}) /\ Cardinality({1}) = 1
    BY FS_Singleton
  <2>3. Cardinality({1} \cup {2}) = Cardinality({1}) + 1
    BY <2>1, <2>2, FS_AddElement
  <2>. QED
    BY <2>1, <2>2, <2>3, FS_EmptySet, FS_Singleton
<1>2. /\ [i \in 1..0 |-> n] = <<>> /\ [i \in 1..1 |-> n] = <<n>>
      /\ [i \in 1..2 |-> n] = <<n, n>>
      /\ <<n>> # <<>> /\ <<n, n>> # <<>> /\ <<n>> # <<n, n>>
  OBVIOUS
<1>3. h = [i \in 1..Cardinality(places) |-> n]
  BY DEF Handed
<1>4. CASE keys = <<a>>
  <2>1. DOMAIN keys = {1} /\ keys[1] = a
    BY <1>4
  <2>2. key \in ToSet(keys) <=> key = a
    BY <2>1 DEF ToSet
  <2>3. places = IF key = a THEN {1} ELSE {}
    BY <2>1
  <2>. HIDE DEF places, h
  <2>4. h = IF key = a THEN <<n>> ELSE <<>>
    BY <1>1, <1>2, <1>3, <2>3
  <2>. QED
    BY <1>2, <2>2, <2>4 DEF h
<1>5. CASE keys = <<a, b>>
  <2>1. DOMAIN keys = {1, 2} /\ keys[1] = a /\ keys[2] = b
    BY <1>5
  <2>2. key \in ToSet(keys) <=> key \in {a, b}
    BY <2>1 DEF ToSet
  <2>3. places = (IF key = a THEN {1} ELSE {}) \cup (IF key = b THEN {2} ELSE {})
    BY <2>1
  <2>4. places = IF key = a THEN IF key = b THEN {1, 2} ELSE {1}
                 ELSE IF key = b THEN {2} ELSE {}
    BY <2>3
  <2>. HIDE DEF places, h
  <2>5. h = IF key = a THEN IF key = b THEN <<n, n>> ELSE <<n>>
            ELSE IF key = b THEN <<n>> ELSE <<>>
    BY <1>1, <1>2, <1>3, <2>4
  <2>. QED
    BY <1>2, <1>5, <2>2, <2>5 DEF h
<1>. QED
  BY <1>4, <1>5 DEF OneOrTwo

(* A packet with one key is added to that group alone.                     *)
GroupsTyped == \A key \in DOMAIN groups : groups[key] \in Seq(Passing)

LEMMA HandedOnce ==
  ASSUME GroupsTyped, NEW pkt, ReadPacket(pkt), Matches(filter, pkt),
         NEW k, GroupKeys(strategy, pkt, global_pkt_idx) = <<k>>
  PROVE  /\ DOMAIN groups' = DOMAIN groups \cup {k}
         /\ \A key \in DOMAIN groups : key # k => groups'[key] = groups[key]
         /\ GroupOf(k) \in Seq(Passing)
         /\ groups'[k] = GroupOf(k) \o <<Len(seen) + 1>>
<1>. DEFINE n == Len(seen) + 1
            keys == GroupKeys(strategy, pkt, global_pkt_idx)
<1>1. groups' = [key \in DOMAIN groups \cup ToSet(keys) |-> GroupOf(key) \o Handed(keys, key, n)]
  BY DEF ReadPacket, Handed
<1>. HIDE DEF keys, n
<1>2. keys = <<k>> /\ ToSet(keys) = {k} /\ keys # <<k, k>>
  <2>1. keys = <<k>>
    BY DEF keys
  <2>2. <<k>> # <<k, k>>
    OBVIOUS
  <2>3. ToSet(<<k>>) = {k}
    BY DEF ToSet
  <2>. QED
    BY <2>1, <2>2, <2>3
<1>3. ASSUME NEW key
      PROVE  Handed(keys, key, n) = IF key = k THEN <<n>> ELSE <<>>
  <2>1. OneOrTwo(keys, k, k)
    BY <1>2 DEF OneOrTwo
  <2>2. /\ Handed(keys, key, n) \in {<<>>, <<n>>, <<n, n>>}
        /\ Handed(keys, key, n) # <<>> <=> key \in {k}
        /\ Handed(keys, key, n) # <<n, n>>
    BY <1>2, <2>1, HandedShape
  <2>. QED
    BY <2>2
<1>4. GroupOf(k) \in Seq(Passing)
  BY EmptySeq DEF GroupOf, GroupsTyped
<1>5. \A key \in DOMAIN groups : key # k => groups'[key] = groups[key] \o <<>>
  BY <1>1, <1>3 DEF GroupOf
<1>6. \A key \in DOMAIN groups : groups[key] \o <<>> = groups[key]
  BY ConcatEmptySeq DEF GroupsTyped
<1>7. groups'[k] = GroupOf(k) \o <<n>> /\ DOMAIN groups' = DOMAIN groups \cup {k}
  BY <1>1, <1>2, <1>3
<1>. QED
  BY <1>4, <1>5, <1>6, <1>7 DEF n
-----------------------------------------------------------------------------
(* What is in a session's group.  SessionsAreConversations is about pairs  *)
(* of packets; what is inductive is that each passing packet is in the     *)
(* group of its own key, and in no other.                                  *)
KeyOf(i) == SessionKeys(seen[i])[1]

GroupsByKey ==
  strategy.by = "session" =>
    /\ \A key \in DOMAIN groups : groups[key] \in Seq(Passing)
    /\ \A key \in DOMAIN groups : \A i \in ToSet(groups[key]) : KeyOf(i) = key
    /\ \A i \in Passing : KeyOf(i) \in DOMAIN groups /\ i \in ToSet(groups[KeyOf(i)])

(* The elements of a concatenation. *)
LEMMA ToSetConcat ==
  ASSUME NEW S, NEW s \in Seq(S), NEW t \in Seq(S)
  PROVE  ToSet(s \o t) = ToSet(s) \cup ToSet(t)
<1>1. /\ Len(s) \in Nat /\ Len(t) \in Nat
      /\ DOMAIN s = 1..Len(s) /\ DOMAIN t = 1..Len(t)
      /\ DOMAIN (s \o t) = 1..Len(s) + Len(t)
      /\ \A i \in 1..Len(s) + Len(t) :
           (s \o t)[i] = IF i <= Len(s) THEN s[i] ELSE t[i - Len(s)]
  BY LenProperties, ConcatProperties
<1>. DEFINE st == s \o t
<1>2. ASSUME NEW x \in ToSet(st)
      PROVE  x \in ToSet(s) \cup ToSet(t)
  <2>1. PICK i \in 1..Len(s) + Len(t) : x = st[i]
    BY <1>1 DEF ToSet
  <2>2. CASE i <= Len(s)
    BY <1>1, <2>1, <2>2 DEF ToSet
  <2>3. CASE i > Len(s)
    <3>1. i - Len(s) \in 1..Len(t) /\ x = t[i - Len(s)]
      BY <1>1, <2>1, <2>3
    <3>. QED
      BY <1>1, <3>1 DEF ToSet
  <2>. QED
    BY <1>1, <2>2, <2>3
<1>3. ASSUME NEW x \in ToSet(s)
      PROVE  x \in ToSet(st)
  <2>1. PICK i \in 1..Len(s) : x = s[i]
    BY <1>1 DEF ToSet
  <2>2. i \in 1..Len(s) + Len(t) /\ st[i] = x
    BY <1>1, <2>1
  <2>. QED
    BY <1>1, <2>2 DEF ToSet
<1>4. ASSUME NEW x \in ToSet(t)
      PROVE  x \in ToSet(st)
  <2>1. PICK i \in 1..Len(t) : x = t[i]
    BY <1>1 DEF ToSet
  <2>2. Len(s) + i \in 1..Len(s) + Len(t) /\ st[Len(s) + i] = x
    BY <1>1, <2>1
  <2>. QED
    BY <1>1, <2>2 DEF ToSet
<1>. QED
  BY <1>2, <1>3, <1>4

(* A packet that was read keeps its number, and what is known of it.       *)
LEMMA SeenGrows ==
  ASSUME SeenPackets, NEW pkt \in Packets, ReadPacket(pkt)
  PROVE  /\ Len(seen) \in Nat /\ DOMAIN seen = 1..Len(seen)
         /\ DOMAIN seen' = 1..Len(seen) + 1
         /\ \A i \in 1..Len(seen) : seen'[i] = seen[i] /\ KeyOf(i)' = KeyOf(i)
         /\ \A i : i = Len(seen) + 1 => KeyOf(i)' = SessionKeys(pkt)[1]
         /\ Passing' = IF Matches(filter, pkt) THEN Passing \cup {Len(seen) + 1} ELSE Passing
<1>1. seen' = Append(seen, pkt) /\ filter' = filter
  BY DEF ReadPacket
<1>2. /\ Len(seen) \in Nat /\ DOMAIN seen = 1..Len(seen)
      /\ DOMAIN seen' = 1..Len(seen) + 1
      /\ \A i \in 1..Len(seen) : seen'[i] = seen[i]
      /\ seen'[Len(seen) + 1] = pkt
  BY <1>1, AppendProperties, LenProperties DEF SeenPackets
<1>3. \A i \in 1..Len(seen) : KeyOf(i)' = KeyOf(i)
  BY <1>2 DEF KeyOf
<1>4. Passing' = IF Matches(filter, pkt) THEN Passing \cup {Len(seen) + 1} ELSE Passing
  BY <1>1, <1>2 DEF Passing
<1>5. \A i : i = Len(seen) + 1 => KeyOf(i)' = SessionKeys(pkt)[1]
  BY <1>2 DEF KeyOf
<1>. QED
  BY <1>2, <1>3, <1>4, <1>5

(* A passing packet is added to the group of its key alone.                *)
LEMMA HandedToItsGroup ==
  ASSUME SeenPackets, GroupsByKey, strategy.by = "session",
         NEW pkt \in Packets, ReadPacket(pkt), Matches(filter, pkt)
  PROVE  LET k == SessionKeys(pkt)[1]
         IN /\ DOMAIN groups' = DOMAIN groups \cup {k}
            /\ \A key \in DOMAIN groups : key # k => groups'[key] = groups[key]
            /\ groups'[k] \in Seq(Passing')
            /\ ToSet(groups'[k]) = ToSet(GroupOf(k)) \cup {Len(seen) + 1}
<1>. DEFINE n == Len(seen) + 1
            k == SessionKeys(pkt)[1]
<1>1. n \in Passing' /\ Passing \subseteq Passing'
  BY SeenGrows
<1>2. GroupKeys(strategy, pkt, global_pkt_idx) = <<k>>
  BY DEF GroupKeys, SessionKeys
<1>3. GroupsTyped
  BY DEF GroupsByKey, GroupsTyped
<1>. HIDE DEF k, n
<1>4. /\ DOMAIN groups' = DOMAIN groups \cup {k}
      /\ \A key \in DOMAIN groups : key # k => groups'[key] = groups[key]
      /\ GroupOf(k) \in Seq(Passing)
      /\ groups'[k] = GroupOf(k) \o <<n>>
  BY <1>2, <1>3, HandedOnce DEF n
<1>5. GroupOf(k) \in Seq(Passing') /\ <<n>> \in Seq(Passing')
  BY <1>1, <1>4, SeqMonotone
<1>6. groups'[k] \in Seq(Passing') /\ ToSet(groups'[k]) = ToSet(GroupOf(k)) \cup {n}
  <2>1. ToSet(<<n>>) = {n}
    BY DEF ToSet
  <2>2. GroupOf(k) \o <<n>> \in Seq(Passing')
    BY <1>5, ConcatProperties
  <2>3. ToSet(GroupOf(k) \o <<n>>) = ToSet(GroupOf(k)) \cup ToSet(<<n>>)
    BY <1>5, ToSetConcat, ZenonT(30)
  <2>. QED
    BY <1>4, <2>1, <2>2, <2>3, Zenon
<1>. QED
  BY <1>4, <1>6 DEF n, k

(* Every step keeps the groups by key. *)
LEMMA NextGroupsByKey == SeenPackets /\ GroupsByKey /\ [Next]_vars => GroupsByKey'
<1>. SUFFICES ASSUME SeenPackets, GroupsByKey, [Next]_vars, strategy.by = "session"
              PROVE  GroupsByKey'
  BY DEF GroupsByKey, Next, ReadPacket, InputEnds, vars
<1>1. ASSUME NEW pkt \in Packets, ReadPacket(pkt), ~Matches(filter, pkt)
      PROVE  GroupsByKey'
  <2>1. groups' = groups /\ Passing' = Passing
    BY <1>1, SeenGrows DEF ReadPacket
  <2>2. \A i \in Passing : KeyOf(i)' = KeyOf(i)
    BY <1>1, SeenGrows DEF Passing
  <2>3. \A key \in DOMAIN groups : ToSet(groups[key]) \subseteq Passing
    BY ElementOfSeq, LenProperties DEF GroupsByKey, ToSet
  <2>. QED
    BY <2>1, <2>2, <2>3 DEF GroupsByKey
<1>2. ASSUME NEW pkt \in Packets, ReadPacket(pkt), Matches(filter, pkt)
      PROVE  GroupsByKey'
  <2>. DEFINE n == Len(seen) + 1
              k == SessionKeys(pkt)[1]
  <2>1. /\ DOMAIN groups' = DOMAIN groups \cup {k}
        /\ \A key \in DOMAIN groups : key # k => groups'[key] = groups[key]
        /\ groups'[k] \in Seq(Passing')
        /\ ToSet(groups'[k]) = ToSet(GroupOf(k)) \cup {n}
    BY <1>2, HandedToItsGroup
  <2>2. /\ Passing' = Passing \cup {n}
        /\ \A i \in Passing : KeyOf(i)' = KeyOf(i)
        /\ \A i : i = n => KeyOf(i)' = k
    BY <1>2, SeenGrows DEF Passing
  <2>3. /\ \A key \in DOMAIN groups : ToSet(groups[key]) \subseteq Passing
        /\ ToSet(GroupOf(k)) \subseteq Passing
        /\ \A i \in ToSet(GroupOf(k)) : KeyOf(i) = k
    <3>1. \A key \in DOMAIN groups : ToSet(groups[key]) \subseteq Passing
      BY ElementOfSeq, LenProperties DEF GroupsByKey, ToSet
    <3>2. ToSet(<<>>) = {}
      BY DEF ToSet
    <3>. QED
      BY <3>1, <3>2 DEF GroupOf, GroupsByKey
  <2>. HIDE DEF k, n
  <2>4. \A key \in DOMAIN groups' : groups'[key] \in Seq(Passing')
    <3>1. Seq(Passing) \subseteq Seq(Passing')
      BY <2>2
    <3>. QED
      BY <2>1, <3>1 DEF GroupsByKey
  <2>5. ASSUME NEW key \in DOMAIN groups', NEW i \in ToSet(groups'[key])
        PROVE  KeyOf(i)' = key
    <3>1. CASE key = k
      BY <2>1, <2>2, <2>3, <2>5, <3>1
    <3>2. CASE key # k
      <4>1. key \in DOMAIN groups /\ i \in ToSet(groups[key]) /\ i \in Passing
        BY <2>1, <2>3, <2>5, <3>2
      <4>. QED
        BY <2>2, <4>1 DEF GroupsByKey
    <3>. QED
      BY <3>1, <3>2
  <2>6. ASSUME NEW i \in Passing'
        PROVE  KeyOf(i)' \in DOMAIN groups' /\ i \in ToSet(groups'[KeyOf(i)'])
    <3>1. CASE i = n
      BY <2>1, <2>2, <3>1
    <3>2. CASE i \in Passing
      <4>1. KeyOf(i)' = KeyOf(i) /\ KeyOf(i) \in DOMAIN groups /\ i \in ToSet(groups[KeyOf(i)])
        BY <2>2, <3>2 DEF GroupsByKey
      <4>2. CASE KeyOf(i) = k
        BY <2>1, <4>1, <4>2 DEF GroupOf
      <4>3. CASE KeyOf(i) # k
        BY <2>1, <4>1, <4>3
      <4>. QED
        BY <4>2, <4>3
    <3>. QED
      BY <2>2, <3>1, <3>2
  <2>. QED
    BY <2>4, <2>5, <2>6 DEF GroupsByKey
<1>3. CASE InputEnds \/ UNCHANGED vars
  BY <1>3 DEF InputEnds, vars, GroupsByKey, Passing, KeyOf
<1>. QED
  BY <1>1, <1>2, <1>3 DEF Next

(* Both directions of a conversation are in one session, and nothing else  *)
(* is, for captures of any length and any filter.                          *)
THEOREM SessionsAreConversationsAlways == Spec => []SessionsAreConversations
<1>1. Init => GroupsByKey
  <2>1. Init => Passing = {} /\ DOMAIN groups = {}
    BY DEF Init, Passing
  <2>. QED
    BY <2>1 DEF GroupsByKey
<1>2. SeenPackets /\ GroupsByKey => SessionsAreConversations
  <2>. SUFFICES ASSUME SeenPackets, GroupsByKey, strategy.by = "session",
                       NEW i \in Passing, NEW j \in Passing,
                       Tuple(i) # Absent, Tuple(j) # Absent
                PROVE  Together(i, j) <=> SameConversation(i, j)
    BY DEF SessionsAreConversations
  <2>1. Tuple(i) \in FiveTuple /\ Tuple(j) \in FiveTuple
    BY TupleType DEF Passing
  <2>2. Together(i, j) <=> KeyOf(i) = KeyOf(j)
    BY DEF Together, GroupsByKey
  <2>3. KeyOf(i) = TupleKey(SessionKey(Tuple(i))) /\ KeyOf(j) = TupleKey(SessionKey(Tuple(j)))
    BY DEF KeyOf, SessionKeys, Tuple
  <2>. QED
    BY <2>1, <2>2, <2>3, SessionKeyIsConversation DEF SameConversation
<1>. QED
  BY <1>1, <1>2, SeenIsInput, NextGroupsByKey,
     PTL DEF Spec
-----------------------------------------------------------------------------
(* Packet numbers in capture order, only those of `again' repeated.        *)
InOrder(s, again) ==
  \A n \in 1..Len(s) - 1 : s[n] < s[n + 1] \/ (s[n] = s[n + 1] /\ s[n] \in again)

LEMMA InOrderExtended ==
  ASSUME NEW m \in Nat, NEW s \in Seq(1..m), NEW again, InOrder(s, again),
         NEW n, n = m + 1, NEW h, h \in {<<>>, <<n>>, <<n, n>>}, h = <<n, n>> => n \in again
  PROVE  InOrder(s \o h, again)
<1>. DEFINE so == s \o h
<1>0. h = <<>> \/ h = <<n>> \/ h = <<n, n>>
  OBVIOUS
<1>1. Len(h) \in 0..2 /\ (\A i \in 1..Len(h) : h[i] = n) /\ h \in Seq({n})
  <2>1. CASE h = <<>>
    BY <2>1
  <2>2. CASE h = <<n>>
    BY <2>2
  <2>3. CASE h = <<n, n>>
    BY <2>3
  <2>. QED
    BY <1>0, <2>1, <2>2, <2>3
<1>2. Len(s) \in Nat /\ \A i \in 1..Len(s) : s[i] \in 1..m
  BY LenProperties, ElementOfSeq
<1>4. Len(so) = Len(s) + Len(h) /\ \A i \in 1..Len(s) + Len(h) :
        so[i] = IF i <= Len(s) THEN s[i] ELSE h[i - Len(s)]
  <2>1. s \in Seq((1..m) \cup {n}) /\ h \in Seq((1..m) \cup {n})
    BY <1>1
  <2>. QED
    BY <2>1, ConcatProperties
<1>5. Len(h) = 2 => n \in again
  <2>1. Len(<<>>) # 2 /\ Len(<<n>>) # 2
    OBVIOUS
  <2>. QED
    BY <1>0, <2>1
<1>. HIDE DEF so
<1>6. ASSUME NEW i \in 1..Len(so) - 1
      PROVE  so[i] < so[i + 1] \/ (so[i] = so[i + 1] /\ so[i] \in again)
  <2>1. i \in Nat /\ i + 1 \in Nat /\ i >= 1 /\ i + 1 <= Len(s) + Len(h)
    BY <1>1, <1>2, <1>4
  <2>2. CASE i + 1 <= Len(s)
    <3>1. so[i] = s[i] /\ so[i + 1] = s[i + 1] /\ i \in 1..Len(s) - 1
      BY <1>1, <1>2, <1>4, <2>1, <2>2, SMTT(30)
    <3>. QED
      BY <3>1 DEF InOrder
  <2>3. CASE i = Len(s)
    <3>1. so[i] = s[i] /\ so[i + 1] = h[1] /\ s[i] \in 1..m /\ 1 \in 1..Len(h)
      BY <1>1, <1>2, <1>4, <2>1, <2>3
    <3>2. h[1] = n
      BY <1>1, <3>1
    <3>. HIDE DEF InOrder
    <3>3. s[i] < n
      BY <3>1
    <3>4. so[i] < so[i + 1]
      BY <3>1, <3>2, <3>3, Zenon
    <3>. QED
      BY <3>4, Zenon
  <2>4. CASE i > Len(s)
    <3>1. /\ so[i] = h[i - Len(s)] /\ so[i + 1] = h[i + 1 - Len(s)]
          /\ i - Len(s) \in 1..Len(h) /\ i + 1 - Len(s) \in 1..Len(h) /\ Len(h) = 2
      BY <1>1, <1>2, <1>4, <2>1, <2>4
    <3>. QED
      BY <1>1, <1>5, <3>1
  <2>. QED
    BY <1>2, <2>1, <2>2, <2>3, <2>4
<1>. QED
  BY <1>6 DEF InOrder, so

(* Every passing packet is in a group, the groups hold nothing else, in    *)
(* the order read.                                                         *)
Again == {i \in Passing : SelfTalk(seen[i])}

GroupsInOrder ==
  /\ \A key \in DOMAIN groups : groups[key] \in Seq(Passing)
  /\ \A i \in Passing : \E key \in DOMAIN groups : i \in ToSet(groups[key])
  /\ \A key \in DOMAIN groups : InOrder(groups[key], Again)

CoverInv == SeenPackets /\ StrategyFixed /\ GroupsInOrder

(* A passing packet under all of its keys. *)
LEMMA HandedInOrder ==
  ASSUME CoverInv, NEW pkt \in Packets, ReadPacket(pkt), Matches(filter, pkt)
  PROVE  GroupsInOrder'
<1>. DEFINE m == Len(seen)
            n == m + 1
            keys == GroupKeys(strategy, pkt, global_pkt_idx)
<1>1. /\ m \in Nat /\ Passing' = Passing \cup {n} /\ Passing \subseteq 1..m
      /\ \A i \in 1..m : seen'[i] = seen[i]
  BY SeenGrows DEF CoverInv, Passing
<1>2. seen' = Append(seen, pkt) /\ strategy' = strategy
  BY DEF ReadPacket
<1>3. seen'[n] = pkt
  BY <1>2, AppendProperties, LenProperties DEF CoverInv, SeenPackets
<1>4. PICK a, b : OneOrTwo(keys, a, b) /\ (keys = <<a, b>> /\ a = b => SelfTalk(pkt))
  BY OneOrTwoKeys DEF CoverInv
<1>5. groups' = [key \in DOMAIN groups \cup ToSet(keys) |-> GroupOf(key) \o Handed(keys, key, n)]
  BY DEF ReadPacket, Handed
<1>6. Again \subseteq Again' /\ (SelfTalk(pkt) => n \in Again')
  BY <1>1, <1>2, <1>3 DEF Again, SelfTalk
<1>7. ToSet(keys) # {}
  BY <1>4 DEF OneOrTwo, ToSet
<1>. HIDE DEF keys, n, m
<1>8. ASSUME NEW key
      PROVE  /\ Handed(keys, key, n) \in {<<>>, <<n>>, <<n, n>>}
             /\ Handed(keys, key, n) # <<>> <=> key \in ToSet(keys)
             /\ Handed(keys, key, n) = <<n, n>> => n \in Again'
  BY <1>4, <1>6, HandedShape
<1>9. ASSUME NEW key
      PROVE  GroupOf(key) \in Seq(Passing) /\ InOrder(GroupOf(key), Again)
  <2>1. InOrder(<<>>, Again)
    BY DEF InOrder
  <2>. QED
    BY <2>1, EmptySeq DEF GroupOf, CoverInv, GroupsInOrder
<1>10. ASSUME NEW key \in DOMAIN groups'
       PROVE  /\ groups'[key] \in Seq(Passing') /\ InOrder(groups'[key], Again')
              /\ ToSet(groups'[key]) = ToSet(GroupOf(key)) \cup ToSet(Handed(keys, key, n))
  <2>. DEFINE h == Handed(keys, key, n)
              s == GroupOf(key)
  <2>1. groups'[key] = s \o h
    BY <1>5, <1>10
  <2>2. s \in Seq(Passing') /\ s \in Seq(1..m)
    <3>1. s \in Seq(Passing)
      BY <1>9
    <3>2. Seq(Passing) \subseteq Seq(Passing') /\ Seq(Passing) \subseteq Seq(1..m)
      BY <1>1, SeqMonotone
    <3>. QED
      BY <3>1, <3>2
  <2>3. <<>> \in Seq({n}) /\ <<n>> \in Seq({n}) /\ <<n, n>> \in Seq({n})
    OBVIOUS
  <2>4. h \in Seq(Passing')
    <3>1. h \in Seq({n}) /\ {n} \subseteq Passing'
      BY <1>1, <1>8, <2>3
    <3>. HIDE DEF h
    <3>. QED
      BY <3>1
  <2>5. InOrder(s, Again')
    BY <1>6, <1>9 DEF InOrder
  <2>. HIDE DEF h, s
  <2>6. s \o h \in Seq(Passing') /\ ToSet(s \o h) = ToSet(s) \cup ToSet(h)
    BY <2>2, <2>4, ConcatProperties, ToSetConcat
  <2>7. InOrder(s \o h, Again')
    <3>1. h \in {<<>>, <<n>>, <<n, n>>} /\ (h = <<n, n>> => n \in Again') /\ m \in Nat /\ n = m + 1
      BY <1>1, <1>8 DEF n, h
    <3>. QED
      BY <2>2, <2>5, <3>1, InOrderExtended
  <2>. QED
    BY <2>1, <2>6, <2>7 DEF s, h
<1>11. ASSUME NEW i \in Passing'
       PROVE  \E key \in DOMAIN groups' : i \in ToSet(groups'[key])
  <2>1. CASE i \in Passing
    <3>1. PICK key \in DOMAIN groups : i \in ToSet(groups[key])
      BY <2>1 DEF CoverInv, GroupsInOrder
    <3>2. key \in DOMAIN groups' /\ GroupOf(key) = groups[key]
      BY <1>5 DEF GroupOf
    <3>. QED
      BY <1>10, <3>1, <3>2
  <2>2. CASE i = n
    <3>1. PICK key \in ToSet(keys) : TRUE
      BY <1>7
    <3>2. key \in DOMAIN groups'
      BY <1>5
    <3>3. Handed(keys, key, n) \in {<<n>>, <<n, n>>}
      BY <1>8
    <3>4. n \in ToSet(<<n>>) /\ n \in ToSet(<<n, n>>)
      BY DEF ToSet
    <3>. QED
      BY <1>10, <2>2, <3>2, <3>3, <3>4
  <2>. QED
    BY <1>1, <2>1, <2>2
<1>. QED
  BY <1>10, <1>11 DEF GroupsInOrder

LEMMA CoverInvariant == Spec => []CoverInv
<1>1. Init => CoverInv
  <2>. SUFFICES ASSUME Init
                PROVE  CoverInv
    OBVIOUS
  <2>1. Passing = {} /\ DOMAIN groups = {}
    BY DEF Init, Passing
  <2>. QED
    BY <2>1, EmptySeq DEF Init, CoverInv, SeenPackets, StrategyFixed, GroupsInOrder
<1>2. CoverInv /\ [Next]_vars => CoverInv'
  <2>. SUFFICES ASSUME CoverInv, [Next]_vars
                PROVE  CoverInv'
    OBVIOUS
  <2>1. ASSUME NEW pkt \in Packets, ReadPacket(pkt)
        PROVE  CoverInv'
    <3>1. SeenPackets' /\ StrategyFixed'
      BY <2>1, AppendProperties DEF CoverInv, ReadPacket, SeenPackets, StrategyFixed
    <3>2. CASE ~Matches(filter, pkt)
      <4>1. groups' = groups /\ Passing' = Passing /\ strategy' = strategy
        BY <2>1, <3>2, SeenGrows DEF CoverInv, ReadPacket
      <4>2. \A i \in Passing : seen'[i] = seen[i]
        BY <2>1, SeenGrows DEF CoverInv, Passing
      <4>3. Again' = Again
        BY <4>1, <4>2 DEF Again, SelfTalk
      <4>. QED
        BY <3>1, <4>1, <4>3 DEF CoverInv, GroupsInOrder, InOrder
    <3>3. CASE Matches(filter, pkt)
      BY <2>1, <3>1, <3>3, HandedInOrder DEF CoverInv
    <3>. QED
      BY <3>2, <3>3
  <2>2. CASE InputEnds \/ UNCHANGED vars
    BY <2>2 DEF InputEnds, vars, CoverInv, SeenPackets, StrategyFixed, GroupsInOrder, Passing,
                Again, SelfTalk, InOrder
  <2>. QED
    BY <2>1, <2>2 DEF Next
<1>. QED
  BY <1>1, <1>2, PTL DEF Spec

(* Whatever the strategy and the filter, every packet that passes is in a  *)
(* group, in capture order, and nothing else is.                           *)
THEOREM GroupsCoverTheCaptureAlways == Spec => []GroupsCoverTheCapture
<1>1. CoverInv => GroupsCoverTheCapture
  <2>. SUFFICES ASSUME CoverInv
                PROVE  GroupsCoverTheCapture
    OBVIOUS
  <2>1. \A key \in DOMAIN groups : ToSet(groups[key]) \subseteq Passing
    BY ElementOfSeq, LenProperties DEF CoverInv, GroupsInOrder, ToSet
  <2>2. UNION {ToSet(groups[key]) : key \in DOMAIN groups} = Passing
    BY <2>1 DEF CoverInv, GroupsInOrder
  <2>3. ASSUME NEW key \in DOMAIN groups, NEW n \in 1..Len(groups[key]) - 1
        PROVE  LET i == groups[key][n] IN
                 \/ i < groups[key][n + 1]
                 \/ /\ i = groups[key][n + 1]
                    /\ strategy.by = "host" /\ Tuple(i).src_ip = Tuple(i).dst_ip
    BY DEF CoverInv, GroupsInOrder, InOrder, Again, SelfTalk, Tuple
  <2>. QED
    BY <2>2, <2>3 DEF GroupsCoverTheCapture
<1>. QED
  BY <1>1, CoverInvariant, PTL
-----------------------------------------------------------------------------
(* The bucket of a packet: after k * n - n + r of them, r of them in the   *)
(* last of the k buckets, it is that bucket's, or a new one's.             *)
LEMMA BucketOf ==
  ASSUME NEW n \in Nat \ {0}, NEW k \in Nat, NEW r \in 1..n
  PROVE  LET idx == k * n - n + r
         IN /\ k # 0 => idx \in Nat
            /\ (r = n => idx = k * n /\ idx \div n = k)
            /\ (r # n /\ k # 0 => idx \div n = k - 1)
<1>1. k * n \in Nat
  OBVIOUS
<1>2. (k * n) \div n = k
  OBVIOUS
<1>3. k # 0 /\ r # n => (k * n - n + r) \div n = k - 1
  OBVIOUS
<1>4. k # 0 => k * n >= n
  OBVIOUS
<1>. QED
  BY <1>1, <1>2, <1>3, <1>4

(* -s packets: the packets handed on fill k buckets, of which the last     *)
(* holds r packets; none have been filled when k is zero.                  *)
Bucket(b) == <<"pkt", b>>

Buckets(k, r) ==
  /\ k \in Nat /\ r \in 1..strategy.n /\ (k = 0 => r = strategy.n)
  /\ global_pkt_idx = k * strategy.n - strategy.n + r
  /\ DOMAIN groups = {Bucket(b) : b \in 0..k-1}
  /\ IsFiniteSet(DOMAIN groups) /\ Cardinality(DOMAIN groups) = k
  /\ \A b \in 0..k-1 : Len(groups[Bucket(b)]) = IF b = k - 1 THEN r ELSE strategy.n
  /\ \A b \in 0..k-2 : groups[Bucket(b)][strategy.n] < groups[Bucket(b + 1)][1]

BucketInv == strategy.by = "packets" => \E k, r : Buckets(k, r)

(* A full bucket is followed by a new one; one that is not is added to.    *)
LEMMA BucketsFill ==
  ASSUME CoverInv, strategy.by = "packets", NEW k, NEW r, Buckets(k, r),
         NEW pkt \in Packets, ReadPacket(pkt), Matches(filter, pkt)
  PROVE  IF r = strategy.n THEN Buckets(k + 1, 1)' ELSE Buckets(k, r + 1)'
<1>. DEFINE n == strategy.n
            m == Len(seen) + 1
            b == IF r = n THEN k ELSE k - 1
<1>1. n \in Nat \ {0} /\ k \in Nat /\ r \in 1..n /\ (k = 0 => r = n)
  BY StrategiesAssumption DEF CoverInv, StrategyFixed, Buckets
<1>2. strategy' = strategy /\ global_pkt_idx' = global_pkt_idx + 1
  BY DEF ReadPacket, NextIdx
<1>3. global_pkt_idx = k * n - n + r /\ global_pkt_idx \div n = b
  <2>1. global_pkt_idx = k * n - n + r
    BY DEF Buckets
  <2>. HIDE DEF n
  <2>. QED
    BY <1>1, <2>1, BucketOf
<1>4. GroupKeys(strategy, pkt, global_pkt_idx) = <<Bucket(b)>>
  BY <1>3 DEF GroupKeys, PacketsKeys, Bucket
<1>5. GroupsTyped
  BY DEF CoverInv, GroupsInOrder, GroupsTyped
<1>6. /\ DOMAIN groups' = DOMAIN groups \cup {Bucket(b)}
      /\ \A key \in DOMAIN groups : key # Bucket(b) => groups'[key] = groups[key]
      /\ GroupOf(Bucket(b)) \in Seq(Passing)
      /\ groups'[Bucket(b)] = GroupOf(Bucket(b)) \o <<m>>
  <2>1. PICK key : key = Bucket(b)
    OBVIOUS
  <2>2. GroupKeys(strategy, pkt, global_pkt_idx) = <<key>>
    BY <1>4, <2>1, Zenon
  <2>. HIDE DEF b
  <2>. QED
    BY <1>5, <2>1, <2>2, HandedOnce
<1>7. \A c, d : Bucket(c) = Bucket(d) => c = d
  BY DEF Bucket
<1>8. m \in Nat /\ \A key \in DOMAIN groups : \A i \in 1..Len(groups[key]) : groups[key][i] \in 1..m - 1
  <2>1. Passing \subseteq 1..Len(seen) /\ Len(seen) \in Nat
    BY LenProperties DEF Passing, CoverInv, SeenPackets
  <2>2. \A key \in DOMAIN groups : \A i \in 1..Len(groups[key]) : groups[key][i] \in Passing
    BY <1>5, ElementOfSeq DEF GroupsTyped
  <2>3. Passing \subseteq 1..m - 1 /\ m \in Nat
    BY <2>1
  <2>. QED
    BY <2>2, <2>3, Zenon
<1>. DEFINE old == GroupOf(Bucket(b))
            new == groups'[Bucket(b)]
<1>9. /\ Len(old) \in Nat /\ Len(new) = Len(old) + 1
      /\ \A i \in 1..Len(old) : new[i] = old[i]
      /\ new[Len(old) + 1] = m
  <2>1. old \in Seq(Passing \cup {m}) /\ <<m>> \in Seq(Passing \cup {m})
    <3>1. Seq(Passing) \subseteq Seq(Passing \cup {m})
      BY SeqMonotone
    <3>. QED
      BY <1>6, <3>1
  <2>2. Len(<<m>>) = 1 /\ <<m>>[1] = m
    OBVIOUS
  <2>. HIDE DEF old, m
  <2>3. /\ Len(old) \in Nat /\ Len(old \o <<m>>) = Len(old) + 1
        /\ \A i \in 1..Len(old) + 1 :
             (old \o <<m>>)[i] = IF i <= Len(old) THEN old[i] ELSE <<m>>[i - Len(old)]
    BY <2>1, <2>2, LenProperties, ConcatProperties
  <2>. QED
    BY <1>6, <2>2, <2>3 DEF old
<1>10. CASE r = n
  <2>1. b = k
    BY <1>10
  <2>2. Bucket(k) \notin DOMAIN groups
    BY <1>1, <1>7 DEF Buckets
  <2>3. old = <<>> /\ Len(old) = 0
    BY <2>1, <2>2 DEF GroupOf
  <2>4. \A c \in 0..k-1 : Bucket(c) \in DOMAIN groups /\ groups'[Bucket(c)] = groups[Bucket(c)]
    <3>1. \A c \in 0..k-1 : Bucket(c) \in DOMAIN groups /\ c # k
      BY <1>1 DEF Buckets
    <3>. HIDE DEF b
    <3>. QED
      BY <1>6, <1>7, <2>1, <3>1
  <2>5. groups'[Bucket(k)] = new /\ Len(new) = 1 /\ new[1] = m
    BY <1>9, <2>1, <2>3
  <2>6. DOMAIN groups' = {Bucket(c) : c \in 0..(k + 1)-1}
    <3>1. DOMAIN groups = {Bucket(c) : c \in 0..k-1} /\ 0..(k + 1)-1 = 0..k-1 \cup {k}
      BY <1>1 DEF Buckets
    <3>2. DOMAIN groups' = DOMAIN groups \cup {Bucket(k)}
      BY <1>6, <2>1, Zenon
    <3>3. {Bucket(c) : c \in 0..k-1 \cup {k}} = {Bucket(c) : c \in 0..k-1} \cup {Bucket(k)}
      OBVIOUS
    <3>. QED
      BY <3>1, <3>2, <3>3, Zenon
  <2>7. IsFiniteSet(DOMAIN groups') /\ Cardinality(DOMAIN groups') = k + 1
    <3>1. IsFiniteSet(DOMAIN groups) /\ Cardinality(DOMAIN groups) = k
      BY DEF Buckets
    <3>2. DOMAIN groups' = DOMAIN groups \cup {Bucket(k)}
      BY <1>6, <2>1, Zenon
    <3>3. /\ IsFiniteSet(DOMAIN groups \cup {Bucket(k)})
          /\ Cardinality(DOMAIN groups \cup {Bucket(k)}) = Cardinality(DOMAIN groups) + 1
      BY <2>2, <3>1, FS_AddElement
    <3>. QED
      BY <3>1, <3>2, <3>3, Zenon
  <2>8. \A c \in 0..k-1 : Len(groups[Bucket(c)]) = n
    BY <1>10 DEF Buckets
  <2>. HIDE DEF new, m, n
  <2>9. \A c \in 0..(k + 1)-1 : Len(groups'[Bucket(c)]) = IF c = (k + 1) - 1 THEN 1 ELSE n
    <3>. SUFFICES ASSUME NEW c \in 0..(k + 1)-1
                  PROVE  Len(groups'[Bucket(c)]) = IF c = (k + 1) - 1 THEN 1 ELSE n
      OBVIOUS
    <3>1. (c \in 0..k-1 /\ c # (k + 1) - 1) \/ (c = k /\ c = (k + 1) - 1)
      BY <1>1
    <3>. QED
      BY <2>4, <2>5, <2>8, <3>1
  <2>10. ASSUME NEW c \in 0..(k + 1)-2
         PROVE  groups'[Bucket(c)][n] < groups'[Bucket(c + 1)][1]
    <3>1. c \in 0..k-1 /\ groups'[Bucket(c)] = groups[Bucket(c)] /\ n \in 1..Len(groups[Bucket(c)])
      BY <1>1, <2>4, <2>8
    <3>2. groups[Bucket(c)][n] \in 1..m - 1
      BY <1>8, <2>4, <3>1
    <3>3. CASE c = k - 1
      <4>1. groups'[Bucket(c + 1)][1] = m
        BY <1>1, <2>5, <3>3
      <4>. QED
        BY <1>8, <3>1, <3>2, <4>1
    <3>4. CASE c # k - 1
      <4>1. c \in 0..k-2 /\ c + 1 \in 0..k-1
        BY <1>1, <3>4
      <4>. QED
        BY <2>4, <3>1, <4>1 DEF Buckets, n
    <3>. QED
      BY <3>3, <3>4
  <2>11. k + 1 \in Nat /\ 1 \in 1..n /\ k + 1 # 0
    BY <1>1
  <2>12. global_pkt_idx' = (k + 1) * n - n + 1
    BY <1>1, <1>2, <1>3, <1>10
  <2>. QED
    BY <1>2, <1>10, <2>6, <2>7, <2>9, <2>10, <2>11, <2>12 DEF Buckets, n
<1>11. CASE r # n
  <2>1. b = k - 1 /\ k # 0 /\ b \in 0..k-1
    BY <1>1, <1>11
  <2>2. Bucket(b) \in DOMAIN groups /\ old = groups[Bucket(b)] /\ Len(old) = r
    BY <1>1, <2>1 DEF Buckets, GroupOf
  <2>3. DOMAIN groups' = DOMAIN groups
    BY <1>6, <2>2
  <2>4. \A c \in 0..k-1 : Bucket(c) \in DOMAIN groups
    BY DEF Buckets
  <2>5. \A c \in 0..k-1 : c # b => groups'[Bucket(c)] = groups[Bucket(c)]
    BY <1>6, <1>7, <2>4
  <2>6. Len(new) = r + 1 /\ new[1] = old[1]
    BY <1>1, <1>9, <2>2
  <2>. HIDE DEF new, old, m, n, b
  <2>7. \A c \in 0..k-1 : Len(groups'[Bucket(c)]) = IF c = k - 1 THEN r + 1 ELSE n
    BY <1>1, <2>1, <2>5, <2>6 DEF Buckets, n, new
  <2>8. ASSUME NEW c \in 0..k-2
        PROVE  groups'[Bucket(c)][n] < groups'[Bucket(c + 1)][1]
    <3>1. c \in 0..k-1 /\ c # b /\ c + 1 \in 0..k-1
      BY <1>1, <2>1
    <3>2. groups'[Bucket(c)] = groups[Bucket(c)]
      BY <2>5, <3>1
    <3>3. groups'[Bucket(c + 1)][1] = groups[Bucket(c + 1)][1]
      BY <2>2, <2>5, <2>6, <3>1 DEF new
    <3>. QED
      BY <3>2, <3>3 DEF Buckets, n
  <2>9. r + 1 \in 1..n /\ global_pkt_idx' = k * n - n + (r + 1)
    BY <1>1, <1>2, <1>3, <1>11
  <2>. QED
    BY <1>1, <1>2, <1>11, <2>1, <2>3, <2>7, <2>8, <2>9 DEF Buckets, n
<1>. QED
  BY <1>10, <1>11

LEMMA BucketInvariant == Spec => [](CoverInv /\ BucketInv)
<1>1. Init => BucketInv
  <2>. SUFFICES ASSUME Init, strategy.by = "packets"
                PROVE  Buckets(0, strategy.n)
    BY DEF BucketInv
  <2>1. strategy.n \in Nat \ {0}
    BY StrategiesAssumption DEF Init
  <2>2. DOMAIN groups = {} /\ 0..0-1 = {} /\ 0..0-2 = {} /\ global_pkt_idx = 0
    BY DEF Init
  <2>3. IsFiniteSet({}) /\ Cardinality({}) = 0
    BY FS_EmptySet
  <2>. QED
    BY <2>1, <2>2, <2>3 DEF Buckets
<1>2. CoverInv /\ BucketInv /\ [Next]_vars => BucketInv'
  <2>. SUFFICES ASSUME CoverInv, BucketInv, [Next]_vars, strategy'.by = "packets"
                PROVE  \E k, r : Buckets(k, r)'
    BY DEF BucketInv
  <2>1. strategy' = strategy
    BY DEF Next, ReadPacket, InputEnds, vars
  <2>2. PICK k, r : Buckets(k, r)
    BY <2>1 DEF BucketInv
  <2>3. CASE UNCHANGED <<strategy, global_pkt_idx, groups>>
    BY <2>2, <2>3 DEF Buckets
  <2>4. ASSUME NEW pkt \in Packets, ReadPacket(pkt)
        PROVE  \E l, s : Buckets(l, s)'
    <3>1. CASE Matches(filter, pkt)
      <4>1. IF r = strategy.n THEN Buckets(k + 1, 1)' ELSE Buckets(k, r + 1)'
        BY <2>1, <2>2, <2>4, <3>1, BucketsFill
      <4>. QED
        BY <4>1, Zenon
    <3>2. CASE ~Matches(filter, pkt)
      BY <2>3, <2>4, <3>2 DEF ReadPacket, NextIdx
    <3>. QED
      BY <3>1, <3>2
  <2>. QED
    BY <2>3, <2>4 DEF Next, InputEnds, vars
<1>. QED
  BY <1>1, <1>2, CoverInvariant, PTL DEF Spec

(* -s packets n fills each file with n packets before the next is begun,   *)
(* counting the packets that pass the filter alone.                        *)
THEOREM PacketBucketsAreFullAlways == Spec => []PacketBucketsAreFull
<1>1. CoverInv /\ BucketInv => PacketBucketsAreFull
  <2>. SUFFICES ASSUME CoverInv, BucketInv, strategy.by = "packets",
                       NEW b \in 0..Cardinality(DOMAIN groups) - 1
                PROVE  LET bucket == GroupOf(<<"pkt", b>>)
                           size   == Len(bucket)
                       IN /\ size \in 1..strategy.n
                          /\ b < Cardinality(DOMAIN groups) - 1 =>
                               /\ size = strategy.n
                               /\ bucket[size] < GroupOf(<<"pkt", b + 1>>)[1]
    BY DEF PacketBucketsAreFull
  <2>. DEFINE n == strategy.n
  <2>1. PICK k, r : Buckets(k, r)
    BY DEF BucketInv
  <2>2. /\ Cardinality(DOMAIN groups) = k /\ k \in Nat /\ r \in 1..n
        /\ \A c \in 0..k-1 : Bucket(c) \in DOMAIN groups
        /\ \A c \in 0..k-1 : Len(groups[Bucket(c)]) = IF c = k - 1 THEN r ELSE n
        /\ \A c \in 0..k-2 : groups[Bucket(c)][n] < groups[Bucket(c + 1)][1]
    BY <2>1 DEF Buckets
  <2>3. n \in Nat \ {0}
    BY StrategiesAssumption DEF CoverInv, StrategyFixed
  <2>. HIDE DEF n
  <2>4. b \in 0..k-1 /\ GroupOf(Bucket(b)) = groups[Bucket(b)]
    BY <2>2 DEF GroupOf
  <2>5. Len(GroupOf(Bucket(b))) \in 1..n
    BY <2>2, <2>3, <2>4, SMTT(30)
  <2>6. ASSUME b < k - 1
        PROVE  /\ Len(GroupOf(Bucket(b))) = n
               /\ GroupOf(Bucket(b))[n] < GroupOf(Bucket(b + 1))[1]
    <3>1. b \in 0..k-2 /\ b # k - 1 /\ b + 1 \in 0..k-1
      BY <2>2, <2>4, <2>6
    <3>2. GroupOf(Bucket(b + 1)) = groups[Bucket(b + 1)]
      BY <2>2, <3>1 DEF GroupOf
    <3>. QED
      BY <2>2, <2>4, <3>1, <3>2
  <2>. QED
    BY <2>2, <2>5, <2>6 DEF Bucket, n
<1>. QED
  BY <1>1, BucketInvariant, PTL

(* The five digits of a number, from the last to the first.                *)
IsWritten(n, text, a, b, c, d, e) ==
  /\ a \in Nat /\ b \in Nat /\ c \in Nat /\ d \in Nat /\ e \in Nat
  /\ a < 10 /\ b < 10 /\ c < 10 /\ d < 10
  /\ n = a + 10 * (b + 10 * (c + 10 * (d + 10 * e)))
  /\ text = a + 16 * (b + 16 * (c + 16 * (d + 16 * e)))

LEMMA DigitsOf ==
  ASSUME NEW n \in Nat
  PROVE  \E a, b, c, d, e : IsWritten(n, Decimal(n), a, b, c, d, e)
<1>. DEFINE p == n \div 10
            q == p \div 10
            r == q \div 10
            e == r \div 10
            a == n % 10
            b == p % 10
            c == q % 10
            d == r % 10
<1>1. p \in Nat /\ a \in Nat /\ a < 10 /\ n = 10 * p + a
  OBVIOUS
<1>2. n \div 1 = n
  OBVIOUS
<1>. HIDE DEF a
<1>3. q \in Nat /\ b \in Nat /\ b < 10 /\ p = 10 * q + b /\ n \div 100 = q
  BY <1>1
<1>4. r \in Nat /\ c \in Nat /\ c < 10 /\ q = 10 * r + c /\ n \div 1000 = r
  BY <1>1, <1>3
<1>5. e \in Nat /\ d \in Nat /\ d < 10 /\ r = 10 * e + d /\ n \div 10000 = e
  BY <1>1, <1>3, <1>4
<1>6. Decimal(n) = a + 16 * b + 256 * c + 4096 * d + 65536 * e
  BY <1>2, <1>3, <1>4, <1>5 DEF Decimal, Digit, a
<1>. HIDE DEF p, q, r, e, b, c, d
<1>7. n = a + 10 * (b + 10 * (c + 10 * (d + 10 * e)))
  BY <1>1, <1>3, <1>4, <1>5
<1>8. Decimal(n) = a + 16 * (b + 16 * (c + 16 * (d + 16 * e)))
  BY <1>1, <1>3, <1>4, <1>5, <1>6
<1>9. IsWritten(n, Decimal(n), a, b, c, d, e)
  <2>1. /\ a \in Nat /\ b \in Nat /\ c \in Nat /\ d \in Nat /\ e \in Nat
        /\ a < 10 /\ b < 10 /\ c < 10 /\ d < 10
    BY <1>1, <1>3, <1>4, <1>5
  <2>. QED
    BY <1>7, <1>8, <2>1 DEF IsWritten
<1>. QED
  BY <1>9, Zenon

(* The last hexadecimal place of a number and what is before it.           *)
LEMMA LastPlace ==
  ASSUME NEW a \in Nat, NEW b \in Nat, NEW u \in Nat, NEW v \in Nat,
         a < 10, u < 10, a + 16 * b = u + 16 * v
  PROVE  a = u /\ b = v
OBVIOUS

(* A decimal number is told by its numeral.                                *)
LEMMA DecimalTells ==
  ASSUME NEW n \in Nat, NEW m \in Nat
  PROVE  Decimal(n) \in Nat /\ (Decimal(n) = Decimal(m) => n = m)
<1>1. PICK a, b, c, d, e : IsWritten(n, Decimal(n), a, b, c, d, e)
  BY DigitsOf
<1>2. PICK u, v, w, x, y : IsWritten(m, Decimal(m), u, v, w, x, y)
  BY DigitsOf
<1>3. /\ a \in Nat /\ b \in Nat /\ c \in Nat /\ d \in Nat /\ e \in Nat
      /\ u \in Nat /\ v \in Nat /\ w \in Nat /\ x \in Nat /\ y \in Nat
      /\ a < 10 /\ b < 10 /\ c < 10 /\ d < 10
      /\ u < 10 /\ v < 10 /\ w < 10 /\ x < 10
  BY <1>1, <1>2, Zenon DEF IsWritten
<1>. DEFINE e1 == d + 16 * e
            e2 == c + 16 * e1
            e3 == b + 16 * e2
            y1 == x + 16 * y
            y2 == w + 16 * y1
            y3 == v + 16 * y2
<1>4. Decimal(n) = a + 16 * e3 /\ Decimal(m) = u + 16 * y3
  BY <1>1, <1>2, Zenon DEF IsWritten
<1>5. e1 \in Nat /\ e2 \in Nat /\ e3 \in Nat /\ y1 \in Nat /\ y2 \in Nat /\ y3 \in Nat
  BY <1>3
<1>6. ASSUME Decimal(n) = Decimal(m)
      PROVE  a = u /\ b = v /\ c = w /\ d = x /\ e = y
  <2>1. a = u /\ e3 = y3
    <3>. HIDE DEF e3, y3
    <3>. QED
      BY <1>3, <1>4, <1>5, <1>6, LastPlace
  <2>2. b = v /\ e2 = y2
    <3>1. b + 16 * e2 = v + 16 * y2
      BY <2>1
    <3>. HIDE DEF e2, y2
    <3>. QED
      BY <1>3, <1>5, <3>1, LastPlace
  <2>3. c = w /\ e1 = y1
    <3>1. c + 16 * e1 = w + 16 * y1
      BY <2>2
    <3>. HIDE DEF e1, y1
    <3>. QED
      BY <1>3, <1>5, <3>1, LastPlace
  <2>4. d = x /\ e = y
    <3>1. d + 16 * e = x + 16 * y
      BY <2>3
    <3>. QED
      BY <1>3, <3>1, LastPlace
  <2>. QED
    BY <2>1, <2>2, <2>3, <2>4
<1>7. ASSUME Decimal(n) = Decimal(m)
      PROVE  n = m
  BY <1>1, <1>2, <1>6, <1>7, Zenon DEF IsWritten
<1>8. Decimal(n) \in Nat
  <2>. HIDE DEF e3
  <2>. QED
    BY <1>3, <1>4, <1>5
<1>. QED
  BY <1>7, <1>8

LEMMA SameSegments ==
  ASSUME NEW g \in Seq(Nat), NEW h \in Seq(Nat), Len(g) = Len(h),
         \A i \in 1..Len(g) : g[i] = h[i]
  PROVE  g = h
<1>1. IsSequence(g) /\ IsSequence(h)
  BY SeqIsSequence
<1>. QED
  BY <1>1 DEF IsSequence

LEMMA DecimalsAre ==
  ASSUME NEW g \in Seq(Nat)
  PROVE  /\ Decimals(g) \in Seq(Nat) /\ Len(Decimals(g)) = Len(g)
         /\ \A i \in 1..Len(g) : Decimals(g)[i] = Decimal(g[i]) /\ g[i] \in Nat
<1>. DEFINE n == Len(g)
<1>1. n \in Nat /\ DOMAIN g = 1..n /\ \A i \in 1..n : g[i] \in Nat
  BY LenProperties, ElementOfSeq
<1>2. Decimals(g) = [i \in 1..n |-> Decimal(g[i])]
  BY <1>1 DEF Decimals
<1>3. \A i \in 1..n : Decimal(g[i]) \in Nat
  BY <1>1, DecimalTells
<1>. HIDE DEF n
<1>4. [i \in 1..n |-> Decimal(g[i])] \in Seq(Nat) /\ Len([i \in 1..n |-> Decimal(g[i])]) = n
  BY <1>1, <1>3
<1>. QED
  BY <1>1, <1>2, <1>4 DEF n

LEMMA SameDecimals ==
  ASSUME NEW g \in Seq(Nat), NEW h \in Seq(Nat), Decimals(g) = Decimals(h)
  PROVE  g = h
<1>1. Len(g) = Len(h)
  BY DecimalsAre
<1>2. ASSUME NEW i \in 1..Len(g)
      PROVE  g[i] = h[i]
  <2>1. /\ g[i] \in Nat /\ Decimals(g)[i] = Decimal(g[i])
        /\ h[i] \in Nat /\ Decimals(h)[i] = Decimal(h[i])
    BY <1>1, DecimalsAre
  <2>. QED
    BY <2>1, DecimalTells
<1>. QED
  BY <1>1, <1>2, SameSegments

(* A text that writes the numbers g with separators between them.          *)
Alternates(text, g, n, sep) ==
  /\ IsSequence(text) /\ Len(text) = IF n = 0 THEN 0 ELSE 2 * n - 1
  /\ \A i \in 1..n : text[2 * i - 1] = g[i]
  /\ \A i \in 1..n - 1 : text[2 * i] = sep

LEMMA JoinedAlternates ==
  ASSUME NEW g \in Seq(Nat), NEW sep
  PROVE  Alternates(Joined(g, sep), g, Len(g), sep)
<1>. DEFINE n == Len(g)
            parts == [i \in 1..n |-> IF i = 1 THEN <<g[i]>> ELSE <<sep, g[i]>>]
            S == Nat \cup {sep}
<1>1. n \in Nat /\ DOMAIN g = 1..n /\ \A i \in 1..n : g[i] \in Nat
  BY LenProperties, ElementOfSeq
<1>2. Joined(g, sep) = FlattenSeq(parts)
  BY <1>1 DEF Joined
<1>3. ASSUME NEW i \in 1..n
      PROVE  parts[i] \in Seq(S)
  <2>1. g[i] \in S /\ sep \in S
    BY <1>1
  <2>. HIDE DEF S
  <2>2. <<g[i]>> \in Seq(S) /\ <<sep, g[i]>> \in Seq(S)
    BY <2>1
  <2>3. parts[i] = <<g[i]>> \/ parts[i] = <<sep, g[i]>>
    OBVIOUS
  <2>. QED
    BY <2>2, <2>3
<1>4. parts = [i \in 1..n |-> parts[i]]
  OBVIOUS
<1>5. \A i \in 1..n : parts[i] = IF i = 1 THEN <<g[i]>> ELSE <<sep, g[i]>>
  OBVIOUS
<1>. HIDE DEF parts, S
<1>6. PICK f \in [0..n -> Seq(S)] : Flattens(parts, n, f)
  <2>. HIDE DEF n
  <2>. QED
    BY <1>1, <1>3, FlattenByParts
<1>7. /\ f[0] = <<>> /\ \A i \in 0..n - 1 : f[i + 1] = f[i] \o parts[i + 1]
      /\ f[n] = FlattenSeq(parts)
  <2>. HIDE DEF n
  <2>1. n \in 0..n
    BY <1>1
  <2>2. f[n] = FlattenSeq([j \in 1..n |-> parts[j]])
    BY <1>6, <2>1 DEF Flattens
  <2>3. f[n] = FlattenSeq(parts)
    BY <1>4, <2>2, Zenon
  <2>. QED
    BY <1>6, <2>3 DEF Flattens
<1>. HIDE DEF n
<1>. DEFINE G == {i \in 0..n : Alternates(f[i], g, i, sep)}
<1>8. 0 \in G
  <2>1. IsSequence(<<>>) /\ Len(<<>>) = 0
    BY DEF IsSequence
  <2>. QED
    BY <1>1, <1>7, <2>1 DEF Alternates
<1>9. ASSUME NEW i \in 0..n - 1, i \in G
      PROVE  i + 1 \in G
  <2>. DEFINE s == f[i]
              t == parts[i + 1]
              u == s \o t
  <2>1. i \in Nat /\ i + 1 \in 0..n /\ i + 1 \in 1..n /\ (i + 1) - 1 = i
    BY <1>1
  <2>2. Alternates(s, g, i, sep) /\ f[i + 1] = u
    BY <1>7, <1>9
  <2>3. IsSequence(s) /\ IsSequence(t)
    BY <1>3, <2>1, <2>2, SeqIsSequence DEF Alternates
  <2>4. t = IF i = 0 THEN <<g[i + 1]>> ELSE <<sep, g[i + 1]>>
    BY <1>5, <2>1
  <2>. HIDE DEF s, t
  <2>5. /\ IsSequence(u) /\ Len(u) = Len(s) + Len(t)
        /\ \A j \in 1..Len(s) : u[j] = s[j]
        /\ \A j \in 1..Len(t) : u[Len(s) + j] = t[j]
    BY <2>3, SequenceConcat
  <2>. HIDE DEF u
  <2>6. Alternates(u, g, i + 1, sep)
    <3>1. CASE i = 0
      <4>1. Len(s) = 0 /\ Len(t) = 1 /\ t[1] = g[1]
        BY <2>2, <2>4, <3>1 DEF Alternates
      <4>2. Len(u) = 1 /\ u[1] = g[1]
        BY <2>5, <4>1
      <4>3. i + 1 = 1 /\ 2 * 1 - 1 = 1 /\ 1 # 0 /\ 1..1 = {1} /\ 1..1 - 1 = {}
        BY <3>1
      <4>4. Alternates(u, g, 1, sep)
        BY <2>5, <4>2, <4>3 DEF Alternates
      <4>. QED
        BY <4>3, <4>4
    <3>2. CASE i # 0
      <4>1. /\ Len(s) = 2 * i - 1 /\ Len(t) = 2 /\ t[1] = sep /\ t[2] = g[i + 1]
        BY <2>2, <2>4, <3>2 DEF Alternates
      <4>2. Len(u) = 2 * (i + 1) - 1 /\ u[2 * i] = sep /\ u[2 * (i + 1) - 1] = g[i + 1]
        <5>1. u[Len(s) + 1] = t[1] /\ u[Len(s) + 2] = t[2]
          BY <2>5, <4>1
        <5>2. (2 * i - 1) + 1 = 2 * i /\ (2 * i - 1) + 2 = 2 * (i + 1) - 1
          BY <2>1
        <5>. QED
          BY <2>5, <4>1, <5>1, <5>2
      <4>3. \A j \in 1..i : u[2 * j - 1] = g[j]
        <5>1. \A j \in 1..i : 2 * j - 1 \in 1..2 * i - 1
          <6>. HIDE DEF G
          <6>1. i \in Nat
            BY <2>1
          <6>. QED
            BY <6>1
        <5>. QED
          BY <2>2, <2>5, <4>1, <5>1 DEF Alternates
      <4>4. \A j \in 1..i - 1 : u[2 * j] = sep
        <5>1. \A j \in 1..i - 1 : 2 * j \in 1..Len(s)
          BY <2>1, <4>1
        <5>. QED
          BY <2>2, <2>5, <5>1 DEF Alternates
      <4>5. \A j \in 1..i + 1 : j \in 1..i \/ j = i + 1
        BY <2>1
      <4>6. \A j \in 1..(i + 1) - 1 : j \in 1..i - 1 \/ j = i
        BY <2>1
      <4>7. i + 1 # 0 /\ Len(u) = 2 * (i + 1) - 1
        BY <2>1, <4>2
      <4>8. \A j \in 1..i + 1 : u[2 * j - 1] = g[j]
        BY <4>2, <4>3, <4>5
      <4>9. \A j \in 1..(i + 1) - 1 : u[2 * j] = sep
        BY <4>2, <4>4, <4>6
      <4>. QED
        BY <2>5, <4>7, <4>8, <4>9 DEF Alternates
    <3>. QED
      BY <3>1, <3>2
  <2>. QED
    BY <2>1, <2>2, <2>6
<1>10. \A i \in 0..n : i \in G
  <2>. HIDE DEF G
  <2>. QED
    BY <1>1, <1>8, <1>9, CountInduction
<1>. QED
  BY <1>1, <1>2, <1>7, <1>10 DEF n

(* A name is its text but for the dots and colons.                         *)
LEMMA Sanitized ==
  ASSUME NEW text, IsSequence(text)
  PROVE  /\ IsSequence(SanitizeKey(text)) /\ Len(SanitizeKey(text)) = Len(text)
         /\ \A i \in 1..Len(text) :
              /\ text[i] \in Nat => SanitizeKey(text)[i] = text[i]
              /\ text[i] = Colon => SanitizeKey(text)[i] = Underscore
<1>. DEFINE name == [i \in 1..Len(text) |->
                       IF text[i] \in {Dot, Colon} THEN Underscore ELSE text[i]]
            n == Len(text)
<1>1. n \in Nat /\ DOMAIN text = 1..n
  BY SequenceOfItsElements DEF IsSequence
<1>2. SanitizeKey(text) = name
  BY <1>1 DEF SanitizeKey
<1>3. \A i \in 1..n : /\ text[i] \in Nat => name[i] = text[i]
                      /\ text[i] = Colon => name[i] = Underscore
  BY SeparatorsAssumption
<1>4. name = [i \in 1..n |-> name[i]]
  OBVIOUS
<1>. HIDE DEF name
<1>5. IsSequence(name) /\ Len(name) = n
  BY <1>1, <1>4, SequenceByValue
<1>. QED
  BY <1>2, <1>3, <1>5

(* Runs of more zeros, then runs that start earlier, have the lower rank.  *)
LEMMA RankOrder ==
  ASSUME NEW a \in Nat, NEW b \in Nat, NEW c \in Nat, NEW e \in Nat,
         1 <= a, c <= 8, 9 * (8 - (b - a)) + a <= 9 * (8 - (e - c)) + c
  PROVE  b - a > e - c \/ (b - a = e - c /\ a <= c)
<1>. DEFINE p == b - a
            q == e - c
<1>1. p \in Int /\ q \in Int /\ 9 * (8 - p) + a <= 9 * (8 - q) + c
  OBVIOUS
<1>. HIDE DEF p, q
<1>2. p > q \/ p = q \/ p + 1 <= q
  BY <1>1
<1>. QED
  BY <1>1, <1>2 DEF p, q

(* The run of zeros that is left out is one of the runs.                   *)
LEMMA LongestIsRun ==
  ASSUME NEW g \in Seq(Nat), Len(g) = 8, ZeroRuns(g) # {}
  PROVE  LongestRun(ZeroRuns(g)) \in ZeroRuns(g)
<1>. DEFINE runs == ZeroRuns(g)
            rank == [r \in runs |-> 9 * (8 - (r[2] - r[1])) + r[1]]
<1>1. \A r \in runs : r[1] \in 1..8 /\ r[2] \in 1..8 /\ r[1] < r[2]
  BY LenProperties DEF ZeroRuns
<1>2. ASSUME NEW r \in runs
      PROVE  rank[r] \in Nat
  <2>1. r[1] \in 1..8 /\ r[2] \in 1..8 /\ r[1] < r[2]
    BY <1>1
  <2>2. PICK p \in Nat, q \in Nat : p = r[1] /\ q = r[2] /\ p < q /\ q <= 8
    BY <2>1
  <2>3. 9 * (8 - (q - p)) + p \in Nat
    BY <2>2
  <2>. QED
    BY <2>2, <2>3
<1>3. PICK r \in runs : \A s \in runs : rank[r] <= rank[s]
  <2>. HIDE DEF rank, runs
  <2>. QED
    BY <1>2, LeastOf DEF runs
<1>4. ASSUME NEW s \in runs
      PROVE  \/ r[2] - r[1] > s[2] - s[1]
             \/ r[2] - r[1] = s[2] - s[1] /\ r[1] <= s[1]
  <2>1. /\ r[1] \in 1..8 /\ r[2] \in 1..8 /\ r[1] < r[2]
        /\ s[1] \in 1..8 /\ s[2] \in 1..8 /\ s[1] < s[2]
    BY <1>1
  <2>2. 9 * (8 - (r[2] - r[1])) + r[1] <= 9 * (8 - (s[2] - s[1])) + s[1]
    BY <1>3
  <2>. HIDE DEF runs
  <2>3. /\ r[1] \in Nat /\ r[2] \in Nat /\ 1 <= r[1] /\ r[2] <= 8
        /\ s[1] \in Nat /\ s[2] \in Nat /\ 1 <= s[1] /\ s[1] <= 8
    <3>1. \A x \in 1..8 : x \in Nat /\ 1 <= x /\ x <= 8
      OBVIOUS
    <3>. QED
      BY <2>1, <3>1, Zenon
  <2>. QED
    BY <2>2, <2>3, RankOrder
<1>. QED
  BY <1>4 DEF LongestRun

(* The name of an address without `::', and of one with k groups before    *)
(* and m groups after it.                                                  *)
Plain(name, g) ==
  Len(name) = 2 * Len(g) - 1 /\ \A i \in 1..Len(g) : name[2 * i - 1] = g[i]

Shortened(name, g, k, m) ==
  LET at == IF k = 0 THEN 2 ELSE 2 * k + 1
  IN /\ k \in Nat /\ m \in Nat /\ k + m <= 6
     /\ \A i \in k + 1..8 - m : g[i] = 0
     /\ Len(name) = at + (IF m = 0 THEN 0 ELSE 2 * m - 1)
     /\ name[2 * k + 1] = Underscore
     /\ \A i \in 1..k : name[2 * i - 1] = g[i]
     /\ \A j \in 1..m : name[at + (2 * j - 1)] = g[8 - m + j]

LEMMA PlainName ==
  ASSUME NEW g \in Seq(Nat), Len(g) # 0, NEW sep
  PROVE  Plain(SanitizeKey(Joined(g, sep)), g)
<1>. DEFINE text == Joined(g, sep)
            name == SanitizeKey(text)
            n == Len(g)
<1>1. n \in Nat \ {0} /\ \A i \in 1..n : g[i] \in Nat
  BY LenProperties, ElementOfSeq
<1>2. Alternates(text, g, n, sep)
  BY JoinedAlternates
<1>. HIDE DEF text, n
<1>3. /\ IsSequence(text) /\ Len(text) = 2 * n - 1 /\ \A i \in 1..n : text[2 * i - 1] = g[i]
  BY <1>1, <1>2 DEF Alternates
<1>4. Len(name) = Len(text) /\ \A i \in 1..Len(text) : text[i] \in Nat => name[i] = text[i]
  BY <1>3, Sanitized
<1>5. \A i \in 1..n : 2 * i - 1 \in 1..2 * n - 1
  BY <1>1
<1>. HIDE DEF name
<1>6. \A i \in 1..n : name[2 * i - 1] = g[i]
  BY <1>1, <1>3, <1>4, <1>5
<1>. QED
  BY <1>3, <1>4, <1>6 DEF Plain, text, name, n

LEMMA PartOfGroups ==
  ASSUME NEW g \in Seq(Nat), Len(g) = 8, NEW i \in Nat, NEW j \in Nat,
         1 <= i, j <= 8, i <= j + 1
  PROVE  /\ SubSeq(g, i, j) \in Seq(Nat) /\ Len(SubSeq(g, i, j)) = j - i + 1
         /\ \A q \in 1..j - i + 1 : SubSeq(g, i, j)[q] = g[i - 1 + q]
<1>1. ASSUME NEW q \in i..j
      PROVE  g[q] \in Nat
  <2>1. q \in 1..Len(g)
    OBVIOUS
  <2>. QED
    BY <2>1, ElementOfSeq
<1>2. i \in Int /\ j \in Int
  OBVIOUS
<1>3. /\ SubSeq(g, i, j) \in Seq(Nat)
      /\ Len(SubSeq(g, i, j)) = IF i <= j THEN j - i + 1 ELSE 0
      /\ \A q \in 1..j - i + 1 : SubSeq(g, i, j)[q] = g[i + q - 1]
  BY <1>1, <1>2, SubSeqProperties
<1>4. (i <= j \/ j - i + 1 = 0) /\ \A q \in 1..j - i + 1 : i + q - 1 = i - 1 + q
  OBVIOUS
<1>. QED
  BY <1>3, <1>4

LEMMA ShortName ==
  ASSUME NEW g \in Seq(Nat), Len(g) = 8, NEW run \in ZeroRuns(g)
  PROVE  Shortened(SanitizeKey(Joined(SubSeq(g, 1, run[1] - 1), Colon) \o <<Colon, Colon>>
                                 \o Joined(SubSeq(g, run[2] + 1, Len(g)), Colon)),
                   g, run[1] - 1, 8 - run[2])
<1>. DEFINE k == run[1] - 1
            m == 8 - run[2]
            a == SubSeq(g, 1, run[1] - 1)
            b == SubSeq(g, run[2] + 1, Len(g))
            s == Joined(a, Colon)
            t == Joined(b, Colon)
            mid == <<Colon, Colon>>
            st == s \o mid
            text == st \o t
            name == SanitizeKey(text)
            at == IF k = 0 THEN 2 ELSE 2 * k + 1
<1>1. /\ DOMAIN g = 1..8 /\ \A i \in 1..8 : g[i] \in Nat
  BY LenProperties, ElementOfSeq
<1>2. /\ run[1] \in Nat /\ run[2] \in Nat /\ 1 <= run[1] /\ run[1] < run[2] /\ run[2] <= 8
      /\ \A i \in run[1]..run[2] : g[i] = 0
  BY <1>1 DEF ZeroRuns
<1>3. /\ k \in Nat /\ m \in Nat /\ k + m <= 6 /\ k + 1 = run[1] /\ 8 - m = run[2] /\ k <= 6 /\ m <= 6
  BY <1>2
<1>4. a \in Seq(Nat) /\ Len(a) = k /\ \A i \in 1..k : a[i] = g[i]
  <2>1. PICK e \in Nat : e = run[1] - 1 /\ e <= 8
    BY <1>2
  <2>2. /\ SubSeq(g, 1, e) \in Seq(Nat) /\ Len(SubSeq(g, 1, e)) = e
        /\ \A i \in 1..e : SubSeq(g, 1, e)[i] = g[i]
    <3>1. 1 \in Nat /\ 1 <= e + 1 /\ e - 1 + 1 = e /\ \A i \in 1..e : 1 - 1 + i = i
      BY <2>1
    <3>2. e \in Nat /\ e <= 8 /\ 1 <= 1
      BY <2>1
    <3>3. /\ SubSeq(g, 1, e) \in Seq(Nat) /\ Len(SubSeq(g, 1, e)) = e - 1 + 1
          /\ \A i \in 1..e - 1 + 1 : SubSeq(g, 1, e)[i] = g[1 - 1 + i]
      BY <3>1, <3>2, PartOfGroups, Zenon
    <3>. QED
      BY <3>1, <3>3
  <2>. QED
    BY <2>1, <2>2
<1>5. b \in Seq(Nat) /\ Len(b) = m /\ \A j \in 1..m : b[j] = g[8 - m + j]
  <2>1. PICK e \in Nat : e = run[2] + 1 /\ 1 <= e /\ e <= 8 + 1
    BY <1>2
  <2>2. /\ SubSeq(g, e, 8) \in Seq(Nat) /\ Len(SubSeq(g, e, 8)) = 8 - e + 1
        /\ \A i \in 1..8 - e + 1 : SubSeq(g, e, 8)[i] = g[e - 1 + i]
    <3>1. 8 \in Nat /\ 8 <= 8
      OBVIOUS
    <3>. QED
      BY <2>1, <3>1, PartOfGroups, Zenon
  <2>3. 8 - e + 1 = m /\ e - 1 = 8 - m
    BY <1>2, <2>1
  <2>4. b = SubSeq(g, e, 8)
    BY <2>1
  <2>. HIDE DEF b, m
  <2>. QED
    BY <2>2, <2>3, <2>4
<1>. HIDE DEF a, b, k, m
<1>6. Alternates(s, a, k, Colon) /\ Alternates(t, b, m, Colon)
  BY <1>4, <1>5, JoinedAlternates
<1>. HIDE DEF s, t
<1>7. /\ IsSequence(s) /\ Len(s) = IF k = 0 THEN 0 ELSE 2 * k - 1
      /\ \A i \in 1..k : s[2 * i - 1] = g[i]
      /\ IsSequence(t) /\ Len(t) = IF m = 0 THEN 0 ELSE 2 * m - 1
      /\ \A j \in 1..m : t[2 * j - 1] = g[8 - m + j]
  BY <1>4, <1>5, <1>6 DEF Alternates
<1>8. /\ IsSequence(st) /\ Len(st) = Len(s) + 2
      /\ \A i \in 1..Len(s) : st[i] = s[i]
      /\ st[Len(s) + 1] = Colon /\ st[Len(s) + 2] = Colon
  <2>1. IsSequence(mid) /\ Len(mid) = 2 /\ mid[1] = Colon /\ mid[2] = Colon /\ 1 \in 1..2 /\ 2 \in 1..2
    BY DEF IsSequence
  <2>. HIDE DEF mid
  <2>2. /\ IsSequence(s \o mid) /\ Len(s \o mid) = Len(s) + Len(mid)
        /\ \A i \in 1..Len(s) : (s \o mid)[i] = s[i]
        /\ \A i \in 1..Len(mid) : (s \o mid)[Len(s) + i] = mid[i]
    <3>1. IsSequence(s) /\ IsSequence(mid)
      BY <1>7, <2>1
    <3>. QED
      BY <3>1, SequenceConcat
  <2>. QED
    BY <2>1, <2>2
<1>. HIDE DEF st
<1>9. /\ IsSequence(text) /\ Len(text) = Len(st) + Len(t)
      /\ \A i \in 1..Len(st) : text[i] = st[i]
      /\ \A i \in 1..Len(t) : text[Len(st) + i] = t[i]
  <2>1. IsSequence(st) /\ IsSequence(t)
    BY <1>7, <1>8
  <2>. QED
    BY <2>1, SequenceConcat
<1>. HIDE DEF text
<1>10. /\ Len(name) = Len(text)
       /\ \A i \in 1..Len(text) : /\ text[i] \in Nat => name[i] = text[i]
                                  /\ text[i] = Colon => name[i] = Underscore
  BY <1>9, Sanitized
<1>. HIDE DEF name
<1>11. /\ Len(st) = at /\ at \in Nat /\ 2 * k + 1 \in 1..at
       /\ 2 * k + 1 \in {Len(s) + 1, Len(s) + 2}
       /\ \A i \in 1..k : 2 * i - 1 \in 1..Len(s) /\ 2 * i - 1 \in 1..at
       /\ \A j \in 1..m : 2 * j - 1 \in 1..Len(t)
  <2>1. CASE k = 0
    BY <1>3, <1>7, <1>8, <2>1
  <2>2. CASE k # 0
    BY <1>3, <1>7, <1>8, <2>2
  <2>. QED
    BY <2>1, <2>2
<1>. HIDE DEF at
<1>12. /\ Len(text) \in Nat /\ \A i \in 1..at : i \in 1..Len(text)
       /\ \A i \in 1..Len(t) : at + i \in 1..Len(text)
  BY <1>7, <1>9, <1>11 DEF IsSequence
<1>13. name[2 * k + 1] = Underscore
  BY <1>8, <1>9, <1>10, <1>11, <1>12
<1>14. ASSUME NEW i \in 1..k
       PROVE  name[2 * i - 1] = g[i]
  <2>0. PICK at_i : at_i = 2 * i - 1
    OBVIOUS
  <2>1. text[2 * i - 1] = g[i] /\ 2 * i - 1 \in 1..Len(text)
    <3>1. at_i \in 1..Len(s) /\ at_i \in 1..Len(st) /\ s[at_i] = g[i]
      BY <1>7, <1>11, <2>0
    <3>2. text[at_i] = g[i] /\ at_i \in 1..Len(text)
      BY <1>8, <1>9, <1>11, <1>12, <3>1
    <3>. QED
      BY <2>0, <3>2
  <2>2. g[i] \in Nat
    <3>1. i \in 1..8
      BY <1>3
    <3>. QED
      BY <1>1, <3>1
  <2>. QED
    BY <1>10, <2>1, <2>2
<1>15. ASSUME NEW j \in 1..m
       PROVE  name[at + (2 * j - 1)] = g[8 - m + j]
  <2>1. 2 * j - 1 \in 1..Len(t)
    BY <1>11
  <2>2. text[at + (2 * j - 1)] = g[8 - m + j] /\ at + (2 * j - 1) \in 1..Len(text)
    <3>1. PICK at_j : at_j = 2 * j - 1
      OBVIOUS
    <3>2. at_j \in 1..Len(t) /\ t[at_j] = g[8 - m + j]
      BY <1>7, <2>1, <3>1
    <3>3. text[at + at_j] = g[8 - m + j] /\ at + at_j \in 1..Len(text)
      BY <1>9, <1>11, <1>12, <3>2
    <3>. QED
      BY <3>1, <3>3
  <2>3. 8 - m + j \in 1..8
    BY <1>3
  <2>4. g[8 - m + j] \in Nat
    BY <1>1, <2>3
  <2>. QED
    BY <1>10, <2>2, <2>4
<1>16. Shortened(name, g, k, m)
  <2>1. Len(name) = at + (IF m = 0 THEN 0 ELSE 2 * m - 1)
    BY <1>7, <1>9, <1>10, <1>11
  <2>2. \A i \in k + 1..8 - m : g[i] = 0
    BY <1>2, <1>3
  <2>. QED
    BY <1>3, <1>13, <1>14, <1>15, <2>1, <2>2 DEF Shortened, at
<1>. QED
  BY <1>16 DEF name, text, st, s, t, a, b, k, m

Names(name, g) ==
  Plain(name, g) \/ (Len(g) = 8 /\ \E k, m : Shortened(name, g, k, m))

LEMMA LengthsDiffer ==
  ASSUME NEW k \in Nat, NEW m \in Nat, k + m <= 6, NEW n \in {4, 8}, ~(k + 1 <= n)
  PROVE  k # 0 /\ 2 * n - 1 # 2 * k + 1 + (IF m = 0 THEN 0 ELSE 2 * m - 1)
OBVIOUS

(* A name tells the groups.  The first odd place with an underscore is     *)
(* behind the groups before `::', and the length tells how many follow.    *)
LEMMA NameTells ==
  ASSUME NEW g \in Seq(Nat), Len(g) \in {4, 8}, NEW h \in Seq(Nat), Len(h) \in {4, 8}, NEW name,
         Names(name, g), Names(name, h)
  PROVE  g = h
<1>. DEFINE IsShort(s) == Len(s) = 8 /\ \E k, m : Shortened(name, s, k, m)
<1>0. ASSUME NEW s \in Seq(Nat), NEW i \in 1..Len(s)
      PROVE  s[i] \in Nat /\ s[i] # Underscore
  BY ElementOfSeq, SeparatorsAssumption
<1>1. CASE Plain(name, g) /\ Plain(name, h)
  <2>1. Len(g) = Len(h)
    BY <1>1 DEF Plain
  <2>. QED
    BY <1>1, <2>1, SameSegments DEF Plain
<1>2. ASSUME NEW s \in Seq(Nat), Len(s) \in {4, 8}, NEW t \in Seq(Nat), Len(t) = 8,
             Plain(name, s), NEW k, NEW m, Shortened(name, t, k, m)
      PROVE  FALSE
  <2>1. k \in Nat /\ m \in Nat /\ k + m <= 6 /\ name[2 * k + 1] = Underscore
    BY <1>2 DEF Shortened
  <2>2. Len(name) = 2 * Len(s) - 1 /\ \A i \in 1..Len(s) : name[2 * i - 1] = s[i]
    BY <1>2 DEF Plain
  <2>3. CASE k + 1 <= Len(s)
    <3>1. k + 1 \in 1..Len(s) /\ 2 * (k + 1) - 1 = 2 * k + 1
      BY <1>2, <2>1, <2>3
    <3>2. name[2 * k + 1] = s[k + 1]
      BY <2>2, <3>1
    <3>. QED
      BY <1>0, <2>1, <3>1, <3>2
  <2>4. CASE ~(k + 1 <= Len(s))
    <3>1. k # 0 /\ 2 * Len(s) - 1 # 2 * k + 1 + (IF m = 0 THEN 0 ELSE 2 * m - 1)
      BY <1>2, <2>1, <2>4, LengthsDiffer
    <3>. QED
      BY <1>2, <2>2, <3>1 DEF Shortened
  <2>. QED
    BY <2>3, <2>4
<1>3. ASSUME NEW s \in Seq(Nat), Len(s) = 8, NEW t \in Seq(Nat), Len(t) = 8,
             NEW k, NEW m, Shortened(name, s, k, m), NEW p, NEW q, Shortened(name, t, p, q)
      PROVE  k >= p
  <2>1. /\ k \in Nat /\ m \in Nat /\ k + m <= 6 /\ name[2 * k + 1] = Underscore
        /\ p \in Nat /\ q \in Nat /\ p + q <= 6 /\ \A i \in 1..p : name[2 * i - 1] = t[i]
    BY <1>3 DEF Shortened
  <2>. SUFFICES ASSUME k < p
                PROVE  FALSE
    BY <2>1
  <2>2. k + 1 \in 1..p /\ k + 1 \in 1..Len(t) /\ 2 * (k + 1) - 1 = 2 * k + 1
    BY <1>3, <2>1
  <2>3. name[2 * k + 1] = t[k + 1]
    BY <2>1, <2>2
  <2>. QED
    BY <1>0, <2>1, <2>2, <2>3
<1>4. ASSUME Len(g) = 8, Len(h) = 8,
             NEW k, NEW m, Shortened(name, g, k, m), NEW p, NEW q, Shortened(name, h, p, q)
      PROVE  g = h
  <2>1. /\ k \in Nat /\ m \in Nat /\ k + m <= 6 /\ p \in Nat /\ q \in Nat /\ p + q <= 6
    BY <1>4 DEF Shortened
  <2>2. k = p
    BY <1>3, <1>4, <2>1
  <2>. DEFINE at == IF k = 0 THEN 2 ELSE 2 * k + 1
  <2>3. at + (IF m = 0 THEN 0 ELSE 2 * m - 1) = at + (IF q = 0 THEN 0 ELSE 2 * q - 1)
    BY <1>4, <2>2 DEF Shortened
  <2>4. m = q
    BY <2>1, <2>3
  <2>5. /\ \A i \in k + 1..8 - m : g[i] = 0 /\ h[i] = 0
        /\ \A i \in 1..k : g[i] = h[i]
        /\ \A j \in 1..m : g[8 - m + j] = h[8 - m + j]
    BY <1>4, <2>2, <2>4 DEF Shortened
  <2>6. ASSUME NEW i \in 1..8
        PROVE  g[i] = h[i]
    <3>1. CASE i <= 8 - m
      BY <2>1, <2>5, <3>1
    <3>2. CASE i > 8 - m
      <4>1. PICK j \in 1..m : j = i - (8 - m) /\ 8 - m + j = i
        BY <2>1, <3>2
      <4>. QED
        BY <2>5, <4>1
    <3>. QED
      BY <2>1, <3>1, <3>2
  <2>. QED
    BY <1>4, <2>6, SameSegments
<1>5. CASE IsShort(g) /\ IsShort(h)
  BY <1>4, <1>5
<1>6. CASE Plain(name, g) /\ IsShort(h)
  BY <1>2, <1>6
<1>7. CASE IsShort(g) /\ Plain(name, h)
  BY <1>2, <1>7
<1>. QED
  BY <1>1, <1>5, <1>6, <1>7 DEF Names

(* The name of an IPv4-mapped address: two underscores, ffff, its octets.  *)
MappedName(name, octets) ==
  /\ Len(name) = 11 /\ name[1] = Underscore /\ name[3] = 65535
  /\ \A i \in 1..4 : name[4 + (2 * i - 1)] = Decimal(octets[i])

LEMMA MappedOctets ==
  ASSUME NEW ip \in Hosts, IsMapped(ip)
  PROVE  /\ Len(Segments(ip)) = 8 /\ \A i \in 1..8 : Segments(ip)[i] \in Nat
         /\ Octets(ip) \in Seq(Nat) /\ Len(Octets(ip)) = 4
         /\ Segments(ip)[7] = 256 * Octets(ip)[1] + Octets(ip)[2]
         /\ Segments(ip)[8] = 256 * Octets(ip)[3] + Octets(ip)[4]
<1>. DEFINE g == Segments(ip)
<1>1. g \in Seq(Nat) /\ Len(g) = 8
  BY SegmentsAssumption DEF IsMapped, IsV4
<1>2. \A i \in 1..8 : g[i] \in Nat
  BY <1>1, ElementOfSeq
<1>3. PICK x \in Nat, y \in Nat : x = g[7] /\ y = g[8]
  BY <1>2
<1>4. /\ x \div 256 \in Nat /\ x % 256 \in Nat /\ x = 256 * (x \div 256) + (x % 256)
      /\ y \div 256 \in Nat /\ y % 256 \in Nat /\ y = 256 * (y \div 256) + (y % 256)
  OBVIOUS
<1>5. PICK p \in Nat, q \in Nat, r \in Nat, t \in Nat :
        /\ p = x \div 256 /\ q = x % 256 /\ r = y \div 256 /\ t = y % 256
        /\ x = 256 * p + q /\ y = 256 * r + t
  BY <1>4
<1>6. Octets(ip) = <<p, q, r, t>>
  BY <1>3, <1>5 DEF Octets
<1>7. /\ Octets(ip) \in Seq(Nat) /\ Len(Octets(ip)) = 4
      /\ Octets(ip)[1] = p /\ Octets(ip)[2] = q /\ Octets(ip)[3] = r /\ Octets(ip)[4] = t
  BY <1>6
<1>8. /\ g[7] = 256 * Octets(ip)[1] + Octets(ip)[2]
      /\ g[8] = 256 * Octets(ip)[3] + Octets(ip)[4]
  BY <1>3, <1>5, <1>7
<1>. QED
  BY <1>1, <1>2, <1>7, <1>8

LEMMA MappedNamed ==
  ASSUME NEW ip \in Hosts, IsMapped(ip)
  PROVE  MappedName(SanitizeKey(IpText(ip)), Octets(ip))
<1>. DEFINE o == Octets(ip)
            s == <<Colon, Colon, 65535, Colon>>
            t == Joined(Decimals(o), Dot)
            text == s \o t
            name == SanitizeKey(text)
<1>1. IpText(ip) = text
  <2>1. ~IsV4(ip)
    BY DEF IsMapped
  <2>. QED
    BY <2>1 DEF IpText
<1>2. o \in Seq(Nat) /\ Len(o) = 4
  BY MappedOctets
<1>. HIDE DEF o
<1>3. /\ Decimals(o) \in Seq(Nat) /\ Len(Decimals(o)) = 4
      /\ \A i \in 1..4 : Decimals(o)[i] = Decimal(o[i]) /\ Decimal(o[i]) \in Nat
  BY <1>2, DecimalsAre, DecimalTells
<1>4. Alternates(t, Decimals(o), 4, Dot)
  BY <1>3, JoinedAlternates
<1>. HIDE DEF t
<1>5. IsSequence(t) /\ Len(t) = 7 /\ \A i \in 1..4 : t[2 * i - 1] = Decimal(o[i])
  BY <1>3, <1>4 DEF Alternates
<1>6. IsSequence(s) /\ Len(s) = 4 /\ s[1] = Colon /\ s[3] = 65535
  BY DEF IsSequence
<1>. HIDE DEF s
<1>7. /\ IsSequence(text) /\ Len(text) = 11
      /\ \A i \in 1..4 : text[i] = s[i]
      /\ \A i \in 1..7 : text[4 + i] = t[i]
  <2>1. /\ IsSequence(text) /\ Len(text) = Len(s) + Len(t)
        /\ \A i \in 1..Len(s) : text[i] = s[i]
        /\ \A i \in 1..Len(t) : text[Len(s) + i] = t[i]
    <3>1. IsSequence(s) /\ IsSequence(t)
      BY <1>5, <1>6
    <3>. QED
      BY <3>1, SequenceConcat
  <2>. HIDE DEF text
  <2>. QED
    BY <1>5, <1>6, <2>1
<1>. HIDE DEF text
<1>8. /\ Len(name) = 11
      /\ \A i \in 1..11 : /\ text[i] \in Nat => name[i] = text[i]
                          /\ text[i] = Colon => name[i] = Underscore
  BY <1>7, Sanitized
<1>. HIDE DEF name
<1>9. name[1] = Underscore /\ name[3] = 65535
  <2>1. 1 \in 1..4 /\ 3 \in 1..4 /\ 1 \in 1..11 /\ 3 \in 1..11 /\ 65535 \in Nat
    OBVIOUS
  <2>. QED
    BY <1>6, <1>7, <1>8, <2>1
<1>10. ASSUME NEW i \in 1..4
       PROVE  name[4 + (2 * i - 1)] = Decimal(o[i])
  <2>1. PICK j \in 1..7 : j = 2 * i - 1 /\ 4 + j \in 1..11
    OBVIOUS
  <2>2. text[4 + j] = Decimal(o[i]) /\ Decimal(o[i]) \in Nat
    BY <1>3, <1>5, <1>7, <2>1
  <2>. QED
    BY <1>8, <2>1, <2>2
<1>. QED
  BY <1>1, <1>8, <1>9, <1>10 DEF MappedName, name, o

LEMMA V4IsDotted ==
  ASSUME NEW ip, IsV4(ip)
  PROVE  IpText(ip) = Joined(Decimals(Segments(ip)), Dot)
<1>1. ~IsMapped(ip)
  BY DEF IsMapped
<1>. QED
  BY <1>1 DEF IpText

(* The three shapes of the name of an address.                             *)
LEMMA HostNamed ==
  ASSUME NEW ip \in Hosts
  PROVE  LET name == SanitizeKey(IpText(ip))
             g == Segments(ip)
         IN \/ IsV4(ip) /\ Len(g) = 4 /\ Plain(name, Decimals(g))
            \/ IsMapped(ip) /\ MappedName(name, Octets(ip))
            \/ ~IsV4(ip) /\ ~IsMapped(ip) /\ Len(g) = 8 /\ Names(name, g)
<1>. DEFINE g == Segments(ip)
            run == LongestRun(ZeroRuns(g))
<1>1. g \in Seq(Nat) /\ Len(g) \in {4, 8}
  BY SegmentsAssumption
<1>2. CASE Len(g) = 4
  <2>1. IsV4(ip)
    BY <1>2 DEF IsV4
  <2>3. IpText(ip) = Joined(Decimals(g), Dot)
    BY <2>1, V4IsDotted
  <2>2. Decimals(g) \in Seq(Nat) /\ Len(Decimals(g)) # 0
    BY <1>1, <1>2, DecimalsAre
  <2>4. Plain(SanitizeKey(Joined(Decimals(g), Dot)), Decimals(g))
    BY <2>2, PlainName
  <2>. QED
    BY <1>2, <2>1, <2>3, <2>4
<1>3. CASE Len(g) = 8 /\ IsMapped(ip)
  BY <1>3, MappedNamed
<1>4. CASE Len(g) = 8 /\ ~IsMapped(ip) /\ ZeroRuns(g) = {}
  <2>1. IpText(ip) = Joined(g, Colon) /\ ~IsV4(ip)
    BY <1>4 DEF IpText, IsV4
  <2>2. Plain(SanitizeKey(Joined(g, Colon)), g)
    <3>1. g \in Seq(Nat) /\ Len(g) # 0
      BY <1>1, <1>4
    <3>. HIDE DEF g
    <3>. QED
      BY <3>1, PlainName
  <2>3. Names(SanitizeKey(IpText(ip)), g)
    BY <2>1, <2>2 DEF Names
  <2>. QED
    BY <1>4, <2>1, <2>3
<1>5. CASE Len(g) = 8 /\ ~IsMapped(ip) /\ ZeroRuns(g) # {}
  <2>1. /\ ~IsV4(ip)
        /\ IpText(ip) = Joined(SubSeq(g, 1, run[1] - 1), Colon) \o <<Colon, Colon>>
                          \o Joined(SubSeq(g, run[2] + 1, Len(g)), Colon)
    BY <1>5 DEF IpText, IsV4
  <2>2. run \in ZeroRuns(g)
    BY <1>1, <1>5, LongestIsRun
  <2>. HIDE DEF run
  <2>3. Shortened(SanitizeKey(IpText(ip)), g, run[1] - 1, 8 - run[2])
    BY <1>1, <1>5, <2>1, <2>2, ShortName
  <2>4. Names(SanitizeKey(IpText(ip)), g)
    BY <1>5, <2>3 DEF Names
  <2>. QED
    BY <1>5, <2>1, <2>4
<1>. QED
  BY <1>1, <1>2, <1>3, <1>4, <1>5

(* IPv4-mapped addresses have names of their own, ...                      *)
LEMMA MappedApart ==
  ASSUME NEW a \in Hosts, IsMapped(a), NEW b \in Hosts, IsMapped(b), NEW name,
         MappedName(name, Octets(a)), MappedName(name, Octets(b))
  PROVE  a = b
<1>. DEFINE o == Octets(a)
            p == Octets(b)
            g == Segments(a)
            h == Segments(b)
<1>1. /\ Len(g) = 8 /\ o \in Seq(Nat) /\ Len(o) = 4
      /\ g[7] = 256 * o[1] + o[2] /\ g[8] = 256 * o[3] + o[4]
  BY MappedOctets
<1>2. /\ Len(h) = 8 /\ p \in Seq(Nat) /\ Len(p) = 4
      /\ h[7] = 256 * p[1] + p[2] /\ h[8] = 256 * p[3] + p[4]
  BY MappedOctets
<1>3. \A i \in 1..4 : Decimal(o[i]) = Decimal(p[i])
  BY DEF MappedName
<1>. HIDE DEF o, p
<1>4. \A i \in 1..4 : o[i] = p[i]
  <2>1. \A i \in 1..4 : o[i] \in Nat /\ p[i] \in Nat
    BY <1>1, <1>2, ElementOfSeq
  <2>. QED
    BY <1>3, <2>1, DecimalTells
<1>5. o = p
  <2>1. Len(o) = Len(p) /\ \A i \in 1..Len(o) : o[i] = p[i]
    BY <1>1, <1>2, <1>4
  <2>. QED
    BY <1>1, <1>2, <2>1, SameSegments
<1>6. \A i \in 1..8 : g[i] = h[i]
  <2>1. \A i \in 1..5 : g[i] = 0 /\ h[i] = 0
    BY DEF IsMapped
  <2>2. g[6] = 65535 /\ h[6] = 65535
    BY DEF IsMapped
  <2>3. g[7] = h[7] /\ g[8] = h[8]
    BY <1>1, <1>2, <1>5
  <2>4. \A i \in 1..8 : i \in 1..5 \/ i = 6 \/ i = 7 \/ i = 8
    OBVIOUS
  <2>. QED
    BY <2>1, <2>2, <2>3, <2>4
<1>7. g \in Seq(Nat) /\ h \in Seq(Nat)
  BY SegmentsAssumption
<1>8. g = h
  <2>1. Len(g) = Len(h) /\ \A i \in 1..Len(g) : g[i] = h[i]
    BY <1>1, <1>2, <1>6
  <2>. QED
    BY <1>7, <2>1, SameSegments
<1>. QED
  BY <1>8, SegmentsAssumption

LEMMA FiveFollow ==
  ASSUME NEW m \in Nat, 11 = 2 + (IF m = 0 THEN 0 ELSE 2 * m - 1)
  PROVE  m = 5
OBVIOUS

(* ... and share none with another address but their twin.                 *)
LEMMA MappedTwin ==
  ASSUME NEW a \in Hosts, IsMapped(a), NEW b \in Hosts, ~IsV4(b), NEW name,
         MappedName(name, Octets(a)), Len(Segments(b)) = 8, Names(name, Segments(b))
  PROVE  Twins(a, b)
<1>. DEFINE g == Segments(b)
<1>0. g \in Seq(Nat)
  BY SegmentsAssumption
<1>1. \A i \in 1..8 : g[i] \in Nat /\ g[i] # Underscore
  <2>1. \A i \in 1..Len(g) : g[i] \in Nat
    BY <1>0, ElementOfSeq
  <2>. QED
    BY <2>1, SeparatorsAssumption
<1>2. /\ Len(name) = 11 /\ name[1] = Underscore /\ name[3] = 65535
      /\ \A i \in 1..4 : name[4 + (2 * i - 1)] = Decimal(Octets(a)[i])
  BY DEF MappedName
<1>3. ~Plain(name, g)
  BY <1>2 DEF Plain
<1>4. PICK k, m : Shortened(name, g, k, m)
  BY <1>3 DEF Names
<1>5. k \in Nat /\ m \in Nat /\ k + m <= 6 /\ \A i \in 1..k : name[2 * i - 1] = g[i]
  BY <1>4 DEF Shortened
<1>6. k = 0
  <2>. SUFFICES ASSUME k # 0
                PROVE  FALSE
    OBVIOUS
  <2>1. 1 \in 1..k /\ 2 * 1 - 1 = 1
    BY <1>5
  <2>2. name[1] = g[1]
    BY <1>5, <2>1
  <2>. QED
    BY <1>1, <1>2, <2>2
<1>7. Len(name) = 2 + (IF m = 0 THEN 0 ELSE 2 * m - 1)
  BY <1>4, <1>6 DEF Shortened
<1>8. m = 5
  <2>1. m \in Nat
    BY <1>5
  <2>2. Len(name) = 11
    BY <1>2
  <2>3. 11 = 2 + (IF m = 0 THEN 0 ELSE 2 * m - 1)
    BY <1>7, <2>2
  <2>. QED
    BY <2>1, <2>3, FiveFollow
<1>9. /\ \A i \in 1..3 : g[i] = 0
      /\ \A j \in 1..5 : name[2 + (2 * j - 1)] = g[3 + j]
  <2>1. 0 + 1 = 1 /\ 8 - 5 = 3
    OBVIOUS
  <2>. QED
    BY <1>4, <1>6, <1>8, <2>1 DEF Shortened
<1>10. g[4] = 65535
  <2>1. 1 \in 1..5 /\ 2 + (2 * 1 - 1) = 3 /\ 3 + 1 = 4
    OBVIOUS
  <2>. QED
    BY <1>2, <1>9, <2>1
<1>11. \A i \in 1..4 : g[4 + i] = Decimal(Octets(a)[i])
  <2>1. \A i \in 1..4 : /\ i + 1 \in 1..5 /\ 3 + (i + 1) = 4 + i
                         /\ 2 + (2 * (i + 1) - 1) = 4 + (2 * i - 1)
    OBVIOUS
  <2>. QED
    BY <1>2, <1>9, <2>1
<1>. QED
  BY <1>9, <1>10, <1>11 DEF Twins

(* The files of hosts, IPv4 or IPv6, are named apart, but for twins.       *)
LEMMA HostsApart ==
  ASSUME NEW a \in Hosts, NEW b \in Hosts, SanitizeKey(IpText(a)) = SanitizeKey(IpText(b))
  PROVE  a = b \/ Twins(a, b) \/ Twins(b, a)
<1>. DEFINE name == SanitizeKey(IpText(a))
            g == Segments(a)
            h == Segments(b)
            V4(ip) == IsV4(ip) /\ Len(Segments(ip)) = 4 /\ Plain(name, Decimals(Segments(ip)))
            Mapped(ip) == IsMapped(ip) /\ MappedName(name, Octets(ip))
            Other(ip) == ~IsV4(ip) /\ Len(Segments(ip)) = 8 /\ Names(name, Segments(ip))
<1>1. /\ V4(a) \/ Mapped(a) \/ Other(a)
      /\ V4(b) \/ Mapped(b) \/ Other(b)
  BY HostNamed
<1>. HIDE DEF name
<1>2. g \in Seq(Nat) /\ h \in Seq(Nat) /\ (g = h => a = b)
  BY SegmentsAssumption
<1>3. ASSUME NEW ip \in Hosts, V4(ip)
      PROVE  /\ Decimals(Segments(ip)) \in Seq(Nat) /\ Len(Decimals(Segments(ip))) = 4
             /\ Names(name, Decimals(Segments(ip))) /\ Len(name) = 7
  <2>1. Decimals(Segments(ip)) \in Seq(Nat) /\ Len(Decimals(Segments(ip))) = 4
    BY <1>3, SegmentsAssumption, DecimalsAre
  <2>. QED
    BY <1>3, <2>1 DEF Names, Plain
<1>4. CASE V4(a) /\ V4(b)
  <2>1. Decimals(g) = Decimals(h)
    BY <1>3, <1>4, NameTells
  <2>. QED
    BY <1>2, <2>1, SameDecimals
<1>5. ASSUME NEW p \in Hosts, NEW q \in Hosts, V4(p), Other(q)
      PROVE  FALSE
  <2>1. /\ Decimals(Segments(p)) \in Seq(Nat) /\ Len(Decimals(Segments(p))) = 4
        /\ Names(name, Decimals(Segments(p)))
    BY <1>3, <1>5
  <2>2. Segments(q) \in Seq(Nat) /\ Len(Segments(q)) = 8 /\ Names(name, Segments(q))
    BY <1>5, SegmentsAssumption
  <2>3. Decimals(Segments(p)) = Segments(q)
    BY <2>1, <2>2, NameTells
  <2>4. Len(Segments(q)) = 4
    BY <2>1, <2>3
  <2>5. Len(Segments(q)) = 8
    BY <1>5
  <2>. QED
    BY <2>4, <2>5
<1>6. ASSUME NEW p \in Hosts, NEW q \in Hosts, V4(p), Mapped(q)
      PROVE  FALSE
  <2>1. Len(name) = 11
    BY <1>6 DEF MappedName
  <2>. QED
    BY <1>3, <1>6, <2>1
<1>7. CASE Other(a) /\ Other(b)
  <2>1. g = h
    BY <1>2, <1>7, NameTells
  <2>. QED
    BY <1>2, <2>1
<1>8. CASE Mapped(a) /\ Mapped(b)
  BY <1>8, MappedApart
<1>9. CASE Mapped(a) /\ Other(b)
  BY <1>9, MappedTwin
<1>10. CASE Mapped(b) /\ Other(a)
  BY <1>10, MappedTwin
<1>. QED
  BY <1>1, <1>4, <1>5, <1>6, <1>7, <1>8, <1>9, <1>10

(* An IPv4 address in a text, from place at + 1 on.                        *)
WritesV4(text, at, ip) == \A i \in 1..4 : text[at + (2 * i - 1)] = Decimal(Segments(ip)[i])

LEMMA V4Text ==
  ASSUME NEW ip \in Hosts, IsV4(ip)
  PROVE  /\ IsSequence(IpText(ip)) /\ Len(IpText(ip)) = 7 /\ WritesV4(IpText(ip), 0, ip)
         /\ \A i \in 1..4 : Segments(ip)[i] \in Nat /\ Decimal(Segments(ip)[i]) \in Nat
<1>. DEFINE g == Segments(ip)
<1>1. g \in Seq(Nat) /\ Len(g) = 4
  BY SegmentsAssumption DEF IsV4
<1>2. /\ Decimals(g) \in Seq(Nat) /\ Len(Decimals(g)) = 4
      /\ \A i \in 1..4 : Decimals(g)[i] = Decimal(g[i]) /\ g[i] \in Nat
  BY <1>1, DecimalsAre
<1>3. IpText(ip) = Joined(Decimals(g), Dot)
  BY V4IsDotted
<1>4. Alternates(Joined(Decimals(g), Dot), Decimals(g), 4, Dot)
  BY <1>2, JoinedAlternates
<1>5. \A i \in 1..4 : Decimal(g[i]) \in Nat
  BY <1>2, DecimalTells
<1>6. \A i \in 1..4 : 0 + (2 * i - 1) = 2 * i - 1
  OBVIOUS
<1>. QED
  BY <1>2, <1>3, <1>4, <1>5, <1>6 DEF Alternates, WritesV4

(* Texts side by side keep their numbers.                                  *)
LEMMA SideBySide ==
  ASSUME NEW s, IsSequence(s), NEW t, IsSequence(t), NEW m, m = Len(s), NEW n, n = Len(t)
  PROVE  /\ IsSequence(s \o t) /\ Len(s \o t) = m + n
         /\ \A i \in 1..m : (s \o t)[i] = s[i]
         /\ \A i \in 1..n : (s \o t)[m + i] = t[i]
         /\ \A ip : \A at \in Nat :
              WritesV4(s, at, ip) /\ at + 7 <= m => WritesV4(s \o t, at, ip)
         /\ \A ip : WritesV4(t, 0, ip) /\ 7 <= n => WritesV4(s \o t, m, ip)
<1>1. /\ IsSequence(s \o t) /\ Len(s \o t) = Len(s) + Len(t)
      /\ \A i \in 1..Len(s) : (s \o t)[i] = s[i]
      /\ \A i \in 1..Len(t) : (s \o t)[Len(s) + i] = t[i]
      /\ Len(s) \in Nat /\ Len(t) \in Nat
  BY SequenceConcat DEF IsSequence
<1>2. \A i \in 1..4 : 2 * i - 1 \in 1..7 /\ 0 + (2 * i - 1) = 2 * i - 1
  OBVIOUS
<1>. DEFINE u == s \o t
<1>. HIDE DEF u
<1>3. ASSUME NEW ip, NEW at \in Nat, WritesV4(s, at, ip), at + 7 <= Len(s), NEW i \in 1..4
      PROVE  u[at + (2 * i - 1)] = Decimal(Segments(ip)[i])
  <2>1. at + (2 * i - 1) \in 1..Len(s)
    BY <1>1, <1>2, <1>3
  <2>. QED
    BY <1>1, <1>3, <2>1 DEF WritesV4, u
<1>4. ASSUME NEW ip, WritesV4(t, 0, ip), 7 <= Len(t), NEW i \in 1..4
      PROVE  u[Len(s) + (2 * i - 1)] = Decimal(Segments(ip)[i])
  <2>1. 2 * i - 1 \in 1..Len(t) /\ 0 + (2 * i - 1) = 2 * i - 1
    BY <1>1, <1>2, <1>4
  <2>2. t[2 * i - 1] = Decimal(Segments(ip)[i])
    BY <1>4, <2>1 DEF WritesV4
  <2>. QED
    BY <1>1, <2>1, <2>2 DEF u
<1>. QED
  BY <1>1, <1>3, <1>4 DEF WritesV4, u

(* The same place of the same name holds the same address.                 *)
LEMMA SameV4 ==
  ASSUME NEW s, IsSequence(s), NEW t, IsSequence(t), SanitizeKey(s) = SanitizeKey(t),
         NEW at \in Nat, at + 7 <= Len(s), at + 7 <= Len(t),
         NEW a \in Hosts, IsV4(a), WritesV4(s, at, a),
         NEW b \in Hosts, IsV4(b), WritesV4(t, at, b)
  PROVE  a = b
<1>1. ASSUME NEW i \in 1..4
      PROVE  Segments(a)[i] = Segments(b)[i]
  <2>1. PICK p : p = at + (2 * i - 1)
    OBVIOUS
  <2>2. p \in 1..Len(s) /\ p \in 1..Len(t)
    BY <2>1 DEF IsSequence
  <2>3. /\ s[p] = Decimal(Segments(a)[i]) /\ s[p] \in Nat /\ Segments(a)[i] \in Nat
        /\ t[p] = Decimal(Segments(b)[i]) /\ t[p] \in Nat /\ Segments(b)[i] \in Nat
    BY <2>1, V4Text DEF WritesV4
  <2>4. SanitizeKey(s)[p] = s[p] /\ SanitizeKey(t)[p] = t[p]
    BY <2>2, <2>3, Sanitized
  <2>. QED
    BY <2>3, <2>4, DecimalTells
<1>2. /\ Segments(a) \in Seq(Nat) /\ Len(Segments(a)) = 4
      /\ Segments(b) \in Seq(Nat) /\ Len(Segments(b)) = 4
  BY SegmentsAssumption DEF IsV4
<1>3. Segments(a) = Segments(b)
  BY <1>1, <1>2, SameSegments
<1>. QED
  BY <1>3, SegmentsAssumption

(* The text of a pair of IPv4 addresses.                                   *)
LEMMA PairText ==
  ASSUME NEW a \in Hosts, IsV4(a), NEW b \in Hosts, IsV4(b)
  PROVE  LET text == IpText(a) \o <<Underscore>> \o IpText(b)
         IN IsSequence(text) /\ Len(text) = 15 /\ WritesV4(text, 0, a) /\ WritesV4(text, 8, b)
<1>. DEFINE s == IpText(a)
            u == <<Underscore>>
            t == IpText(b)
            su == s \o u
            text == su \o t
<1>1. /\ IsSequence(s) /\ Len(s) = 7 /\ WritesV4(s, 0, a)
      /\ IsSequence(t) /\ Len(t) = 7 /\ WritesV4(t, 0, b)
  BY V4Text
<1>2. IsSequence(u) /\ Len(u) = 1
  BY DEF IsSequence
<1>. HIDE DEF s, t, u
<1>3. IsSequence(su) /\ Len(su) = 8 /\ WritesV4(su, 0, a)
  <2>1. IsSequence(s) /\ IsSequence(u) /\ 7 = Len(s) /\ 1 = Len(u)
    BY <1>1, <1>2
  <2>2. /\ IsSequence(su) /\ Len(su) = 7 + 1
        /\ \A i \in 1..7 : su[i] = s[i]
        /\ \A i \in 1..1 : su[7 + i] = u[i]
        /\ \A ip : \A at \in Nat :
             WritesV4(s, at, ip) /\ at + 7 <= 7 => WritesV4(su, at, ip)
        /\ \A ip : WritesV4(u, 0, ip) /\ 7 <= 1 => WritesV4(su, 7, ip)
    BY <2>1, SideBySide
  <2>. HIDE DEF su
  <2>. QED
    BY <1>1, <1>2, <2>2
<1>. HIDE DEF su
<1>4. IsSequence(text) /\ Len(text) = 15 /\ WritesV4(text, 0, a) /\ WritesV4(text, 8, b)
  <2>1. IsSequence(su) /\ IsSequence(t) /\ 8 = Len(su) /\ 7 = Len(t)
    BY <1>1, <1>3
  <2>2. /\ IsSequence(text) /\ Len(text) = 8 + 7
        /\ \A i \in 1..8 : text[i] = su[i]
        /\ \A i \in 1..7 : text[8 + i] = t[i]
        /\ \A ip : \A at \in Nat :
             WritesV4(su, at, ip) /\ at + 7 <= 8 => WritesV4(text, at, ip)
        /\ \A ip : WritesV4(t, 0, ip) /\ 7 <= 7 => WritesV4(text, 8, ip)
    BY <2>1, SideBySide
  <2>. HIDE DEF text
  <2>. QED
    BY <1>1, <1>3, <2>2
<1>. QED
  BY <1>4 DEF text, su, s, t, u

(* The text of a tuple with IPv4 addresses.                                *)
LEMMA TupleTextIs ==
  ASSUME NEW a \in Hosts, IsV4(a), NEW b \in Hosts, IsV4(b),
         NEW protocol \in Nat, NEW p \in Nat, NEW q \in Nat
  PROVE  LET text == TupleText(<<protocol, a, b, p, q>>)
         IN /\ IsSequence(text) /\ Len(text) = 21
            /\ WritesV4(text, 2, a) /\ WritesV4(text, 10, b)
            /\ text[1] = Decimal(protocol) /\ text[19] = Decimal(p) /\ text[21] = Decimal(q)
<1>. DEFINE h == <<Decimal(protocol), Underscore>>
            s == IpText(a)
            u == <<Underscore>>
            t == IpText(b)
            e == <<Underscore, Decimal(p), Underscore, Decimal(q)>>
            hs == h \o s
            hsu == hs \o u
            hsut == hsu \o t
            text == hsut \o e
<1>1. /\ IsSequence(s) /\ Len(s) = 7 /\ WritesV4(s, 0, a)
      /\ IsSequence(t) /\ Len(t) = 7 /\ WritesV4(t, 0, b)
  BY V4Text
<1>2. /\ IsSequence(u) /\ Len(u) = 1
      /\ IsSequence(h) /\ Len(h) = 2 /\ h[1] = Decimal(protocol)
      /\ IsSequence(e) /\ Len(e) = 4 /\ e[2] = Decimal(p) /\ e[4] = Decimal(q)
  BY DEF IsSequence
<1>3. TupleText(<<protocol, a, b, p, q>>) = text
  BY DEF TupleText
<1>. HIDE DEF h, s, t, u, e
<1>4. IsSequence(hs) /\ Len(hs) = 9 /\ WritesV4(hs, 2, a) /\ hs[1] = Decimal(protocol)
  <2>1. IsSequence(h) /\ IsSequence(s) /\ 2 = Len(h) /\ 7 = Len(s)
    BY <1>1, <1>2
  <2>2. /\ IsSequence(hs) /\ Len(hs) = 2 + 7
        /\ \A i \in 1..2 : hs[i] = h[i]
        /\ \A i \in 1..7 : hs[2 + i] = s[i]
        /\ \A ip : \A at \in Nat :
             WritesV4(h, at, ip) /\ at + 7 <= 2 => WritesV4(hs, at, ip)
        /\ \A ip : WritesV4(s, 0, ip) /\ 7 <= 7 => WritesV4(hs, 2, ip)
    BY <2>1, SideBySide
  <2>. HIDE DEF hs
  <2>. QED
    BY <1>1, <1>2, <2>2
<1>. HIDE DEF hs
<1>5. IsSequence(hsu) /\ Len(hsu) = 10 /\ WritesV4(hsu, 2, a) /\ hsu[1] = Decimal(protocol)
  <2>1. IsSequence(hs) /\ IsSequence(u) /\ 9 = Len(hs) /\ 1 = Len(u)
    BY <1>2, <1>4
  <2>2. /\ IsSequence(hsu) /\ Len(hsu) = 9 + 1
        /\ \A i \in 1..9 : hsu[i] = hs[i]
        /\ \A i \in 1..1 : hsu[9 + i] = u[i]
        /\ \A ip : \A at \in Nat :
             WritesV4(hs, at, ip) /\ at + 7 <= 9 => WritesV4(hsu, at, ip)
        /\ \A ip : WritesV4(u, 0, ip) /\ 7 <= 1 => WritesV4(hsu, 9, ip)
    BY <2>1, SideBySide
  <2>. HIDE DEF hsu
  <2>. QED
    BY <1>2, <1>4, <2>2
<1>. HIDE DEF hsu
<1>6. /\ IsSequence(hsut) /\ Len(hsut) = 17
      /\ WritesV4(hsut, 2, a) /\ WritesV4(hsut, 10, b) /\ hsut[1] = Decimal(protocol)
  <2>1. IsSequence(hsu) /\ IsSequence(t) /\ 10 = Len(hsu) /\ 7 = Len(t)
    BY <1>1, <1>5
  <2>2. /\ IsSequence(hsut) /\ Len(hsut) = 10 + 7
        /\ \A i \in 1..10 : hsut[i] = hsu[i]
        /\ \A i \in 1..7 : hsut[10 + i] = t[i]
        /\ \A ip : \A at \in Nat :
             WritesV4(hsu, at, ip) /\ at + 7 <= 10 => WritesV4(hsut, at, ip)
        /\ \A ip : WritesV4(t, 0, ip) /\ 7 <= 7 => WritesV4(hsut, 10, ip)
    BY <2>1, SideBySide
  <2>. HIDE DEF hsut
  <2>. QED
    BY <1>1, <1>5, <2>2
<1>. HIDE DEF hsut
<1>7. /\ IsSequence(text) /\ Len(text) = 21
      /\ WritesV4(text, 2, a) /\ WritesV4(text, 10, b)
      /\ text[1] = Decimal(protocol) /\ text[17 + 2] = Decimal(p) /\ text[17 + 4] = Decimal(q)
  <2>1. IsSequence(hsut) /\ IsSequence(e) /\ 17 = Len(hsut) /\ 4 = Len(e)
    BY <1>2, <1>6
  <2>2. /\ IsSequence(text) /\ Len(text) = 17 + 4
        /\ \A i \in 1..17 : text[i] = hsut[i]
        /\ \A i \in 1..4 : text[17 + i] = e[i]
        /\ \A ip : \A at \in Nat :
             WritesV4(hsut, at, ip) /\ at + 7 <= 17 => WritesV4(text, at, ip)
        /\ \A ip : WritesV4(e, 0, ip) /\ 7 <= 4 => WritesV4(text, 17, ip)
    BY <2>1, SideBySide
  <2>. HIDE DEF text
  <2>. QED
    BY <1>2, <1>6, <2>2
<1>. HIDE DEF text
<1>8. text[19] = Decimal(p) /\ text[21] = Decimal(q)
  BY <1>7
<1>. QED
  BY <1>3, <1>7, <1>8

(* Pairs of IPv4 addresses, and IPv4 tuples, have names of their own.      *)
LEMMA PairsApart ==
  ASSUME NEW a \in Hosts, NEW b \in Hosts, NEW c \in Hosts, NEW d \in Hosts,
         IsV4(a), IsV4(b), IsV4(c), IsV4(d),
         SanitizeKey(IpText(a) \o <<Underscore>> \o IpText(b))
           = SanitizeKey(IpText(c) \o <<Underscore>> \o IpText(d))
  PROVE  a = c /\ b = d
<1>. DEFINE s == IpText(a) \o <<Underscore>> \o IpText(b)
            t == IpText(c) \o <<Underscore>> \o IpText(d)
<1>1. IsSequence(s) /\ Len(s) = 15 /\ WritesV4(s, 0, a) /\ WritesV4(s, 8, b)
  BY PairText
<1>2. IsSequence(t) /\ Len(t) = 15 /\ WritesV4(t, 0, c) /\ WritesV4(t, 8, d)
  BY PairText
<1>3. SanitizeKey(s) = SanitizeKey(t)
  OBVIOUS
<1>. HIDE DEF s, t
<1>4. a = c
  <2>1. /\ IsSequence(s) /\ IsSequence(t) /\ SanitizeKey(s) = SanitizeKey(t) /\ 0 \in Nat
        /\ 0 + 7 <= Len(s) /\ 0 + 7 <= Len(t)
        /\ WritesV4(s, 0, a) /\ WritesV4(t, 0, c)
    BY <1>1, <1>2, <1>3
  <2>. QED
    BY <2>1, SameV4
<1>5. b = d
  <2>1. /\ IsSequence(s) /\ IsSequence(t) /\ SanitizeKey(s) = SanitizeKey(t) /\ 8 \in Nat
        /\ 8 + 7 <= Len(s) /\ 8 + 7 <= Len(t)
        /\ WritesV4(s, 8, b) /\ WritesV4(t, 8, d)
    BY <1>1, <1>2, <1>3
  <2>. QED
    BY <2>1, SameV4
<1>. QED
  BY <1>4, <1>5

TupleV4(key) ==
  \E protocol, p, q \in Nat, a, b \in Hosts :
    key = <<protocol, a, b, p, q>> /\ IsV4(a) /\ IsV4(b)

LEMMA TuplesApart ==
  ASSUME NEW k, TupleV4(k), NEW j, TupleV4(j),
         SanitizeKey(TupleText(k)) = SanitizeKey(TupleText(j))
  PROVE  k = j
<1>1a. PICK protocol \in Nat, p \in Nat, q \in Nat, a \in Hosts, b \in Hosts :
        k = <<protocol, a, b, p, q>> /\ IsV4(a) /\ IsV4(b)
  BY DEF TupleV4
<1>1b. PICK other \in Nat, x \in Nat, y \in Nat, c \in Hosts, d \in Hosts :
        j = <<other, c, d, x, y>> /\ IsV4(c) /\ IsV4(d)
  BY DEF TupleV4
<1>. DEFINE s == TupleText(k)
            t == TupleText(j)
<1>1. /\ IsSequence(s) /\ Len(s) = 21 /\ WritesV4(s, 2, a) /\ WritesV4(s, 10, b)
      /\ s[1] = Decimal(protocol) /\ s[19] = Decimal(p) /\ s[21] = Decimal(q)
  BY <1>1a, TupleTextIs
<1>2. /\ IsSequence(t) /\ Len(t) = 21 /\ WritesV4(t, 2, c) /\ WritesV4(t, 10, d)
      /\ t[1] = Decimal(other) /\ t[19] = Decimal(x) /\ t[21] = Decimal(y)
  BY <1>1b, TupleTextIs
<1>3. SanitizeKey(s) = SanitizeKey(t)
  OBVIOUS
<1>. HIDE DEF s, t
<1>4. a = c
  <2>1. /\ IsSequence(s) /\ IsSequence(t) /\ SanitizeKey(s) = SanitizeKey(t) /\ 2 \in Nat
        /\ 2 + 7 <= Len(s) /\ 2 + 7 <= Len(t)
        /\ WritesV4(s, 2, a) /\ WritesV4(t, 2, c)
    BY <1>1, <1>2, <1>3
  <2>. QED
    BY <1>1a, <1>1b, <2>1, SameV4
<1>5. b = d
  <2>1. /\ IsSequence(s) /\ IsSequence(t) /\ SanitizeKey(s) = SanitizeKey(t) /\ 10 \in Nat
        /\ 10 + 7 <= Len(s) /\ 10 + 7 <= Len(t)
        /\ WritesV4(s, 10, b) /\ WritesV4(t, 10, d)
    BY <1>1, <1>2, <1>3
  <2>. QED
    BY <1>1a, <1>1b, <2>1, SameV4
<1>6. \A i \in {1, 19, 21} : s[i] \in Nat /\ t[i] \in Nat => s[i] = t[i]
  <2>1. {1, 19, 21} \subseteq 1..21
    OBVIOUS
  <2>2. \A i \in 1..21 : /\ s[i] \in Nat => SanitizeKey(s)[i] = s[i]
                         /\ t[i] \in Nat => SanitizeKey(t)[i] = t[i]
    BY <1>1, <1>2, Sanitized
  <2>. QED
    BY <1>3, <2>1, <2>2
<1>7. protocol = other /\ p = x /\ q = y
  BY <1>1, <1>2, <1>6, DecimalTells
<1>. QED
  BY <1>1a, <1>1b, <1>4, <1>5, <1>7

(* The keys with addresses that a strategy makes.                          *)
AddressKey(key) ==
  \/ /\ strategy.by \in {"session", "flow"}
     /\ \E protocol, p, q \in Nat, a, b \in Hosts : key = <<protocol, a, b, p, q>>
  \/ strategy.by = "host" /\ \E a \in Hosts : key = <<"ip", a>>
  \/ strategy.by = "hostpair" /\ \E a, b \in Hosts : key = <<"ips", a, b>>

AddressKeys == \A key \in Named : AddressKey(key)

(* group_keys makes no other.                                              *)
LEMMA KeysOfPacket ==
  ASSUME StrategyFixed, NEW pkt \in Packets, NEW idx,
         NEW key \in ToSet(GroupKeys(strategy, pkt, idx)), HasAddresses(key)
  PROVE  AddressKey(key)
<1>. DEFINE ft == pkt.five_tuple
<1>1. strategy.by \in {"session", "flow", "host", "hostpair", "mac", "bssid", "nosplit",
                       "seconds", "packets"}
  BY StrategiesAssumption DEF StrategyFixed
<1>2. ASSUME ft # Absent
      PROVE  ft \in FiveTuple /\ ft.src_ip \in Hosts /\ ft.dst_ip \in Hosts
  BY <1>2, PacketsAssumption DEF Hosts
<1>3. ASSUME NEW t \in FiveTuple, t.src_ip \in Hosts, t.dst_ip \in Hosts
      PROVE  \E protocol, p, q \in Nat, a, b \in Hosts : TupleKey(t) = <<protocol, a, b, p, q>>
  BY <1>3 DEF FiveTuple, TupleKey
<1>4. ASSUME NEW x, <<x>> = key
      PROVE  x \in {"ip", "ips"}
  BY <1>4 DEF HasAddresses, IsTuple
<1>5. ASSUME NEW x, NEW y, <<x, y>> = key
      PROVE  x \in {"ip", "ips"}
  BY <1>5 DEF HasAddresses, IsTuple
<1>6. ASSUME NEW x, ToSet(GroupKeys(strategy, pkt, idx)) = ToSet(<<x>>)
      PROVE  key = x
  BY <1>6 DEF ToSet
<1>7. CASE strategy.by = "session"
  <2>1. GroupKeys(strategy, pkt, idx) = SessionKeys(pkt)
    BY <1>7 DEF GroupKeys
  <2>2. CASE ft = Absent
    BY <1>4, <1>6, <2>1, <2>2 DEF SessionKeys
  <2>3. CASE ft # Absent
    <3>1. key = TupleKey(SessionKey(ft))
      BY <1>6, <2>1, <2>3 DEF SessionKeys
    <3>2. SessionKey(ft) \in {ft, Reversed(ft)}
      BY DEF SessionKey
    <3>3. /\ SessionKey(ft) \in FiveTuple
          /\ SessionKey(ft).src_ip \in Hosts /\ SessionKey(ft).dst_ip \in Hosts
      BY <1>2, <2>3, <3>2, ReversedFields
    <3>. QED
      BY <1>3, <1>7, <3>1, <3>3 DEF AddressKey
  <2>. QED
    BY <2>2, <2>3
<1>8. CASE strategy.by = "flow"
  <2>1. GroupKeys(strategy, pkt, idx) = FlowKeys(pkt)
    BY <1>8 DEF GroupKeys
  <2>2. CASE ft = Absent
    BY <1>4, <1>6, <2>1, <2>2 DEF FlowKeys
  <2>3. CASE ft # Absent
    <3>1. key = TupleKey(ft)
      BY <1>6, <2>1, <2>3 DEF FlowKeys
    <3>. QED
      BY <1>2, <1>3, <1>8, <2>3, <3>1 DEF AddressKey
  <2>. QED
    BY <2>2, <2>3
<1>9. CASE strategy.by = "host"
  <2>1. GroupKeys(strategy, pkt, idx) = HostKeys(pkt)
    BY <1>9 DEF GroupKeys
  <2>2. CASE ft = Absent
    BY <1>4, <1>6, <2>1, <2>2 DEF HostKeys
  <2>3. CASE ft # Absent
    <3>1. key \in {<<"ip", ft.src_ip>>, <<"ip", ft.dst_ip>>}
      BY <2>1, <2>3 DEF HostKeys, ToSet
    <3>. QED
      BY <1>2, <1>9, <2>3, <3>1 DEF AddressKey
  <2>. QED
    BY <2>2, <2>3
<1>10. CASE strategy.by = "hostpair"
  <2>1. GroupKeys(strategy, pkt, idx) = HostpairKeys(pkt)
    BY <1>10 DEF GroupKeys
  <2>2. CASE ft = Absent
    BY <1>4, <1>6, <2>1, <2>2 DEF HostpairKeys
  <2>3. CASE ft # Absent
    <3>1. key \in {<<"ips", ft.src_ip, ft.dst_ip>>, <<"ips", ft.dst_ip, ft.src_ip>>}
      BY <1>6, <2>1, <2>3 DEF HostpairKeys
    <3>. QED
      BY <1>2, <1>10, <2>3, <3>1 DEF AddressKey
  <2>. QED
    BY <2>2, <2>3
<1>11. CASE strategy.by = "mac"
  <2>1. GroupKeys(strategy, pkt, idx) = MacKeys(pkt)
    BY <1>11 DEF GroupKeys
  <2>. DEFINE x == <<"mac", pkt.src_mac>>
              y == <<"mac", pkt.dst_mac>>
              none == <<"no_mac">>
  <2>2. \/ MacKeys(pkt) = <<none>> \/ MacKeys(pkt) = <<x>> \/ MacKeys(pkt) = <<y>>
        \/ MacKeys(pkt) = <<x, y>>
    <3>1. /\ <<>> \o <<>> = <<>> /\ <<x>> \o <<>> = <<x>> /\ <<>> \o <<y>> = <<y>>
          /\ <<x>> \o <<y>> = <<x, y>>
      BY ConcatShort, Zenon
    <3>. QED
      BY <3>1, Zenon DEF MacKeys
  <2>. HIDE DEF x, y, none
  <2>3. key \in {x, y, none}
    BY <2>1, <2>2 DEF ToSet
  <2>. QED
    BY <1>4, <1>5, <2>3 DEF x, y, none
<1>12. CASE strategy.by = "bssid"
  <2>1. GroupKeys(strategy, pkt, idx) = BssidKeys(pkt)
    BY <1>12 DEF GroupKeys
  <2>2. key \in {<<"no_bssid">>, <<"mac", pkt.bssid>>}
    BY <1>6, <2>1 DEF BssidKeys
  <2>. QED
    BY <1>4, <1>5, <2>2
<1>13. CASE strategy.by \in {"nosplit", "seconds", "packets"}
  <2>1. \/ GroupKeys(strategy, pkt, idx) = << <<"all">> >>
        \/ GroupKeys(strategy, pkt, idx) = SecondsKeys(pkt, strategy.n)
        \/ GroupKeys(strategy, pkt, idx) = PacketsKeys(idx, strategy.n)
    BY <1>13 DEF GroupKeys
  <2>2. key \in {<<"all">>, <<"ts", pkt.ts_sec \div strategy.n>>, <<"pkt", idx \div strategy.n>>}
    BY <1>6, <2>1 DEF SecondsKeys, PacketsKeys
  <2>. QED
    BY <1>4, <1>5, <2>2
<1>. QED
  BY <1>1, <1>7, <1>8, <1>9, <1>10, <1>11, <1>12, <1>13

LEMMA AddressKeysAlways == Spec => [](CoverInv /\ AddressKeys)
<1>1. Init => AddressKeys
  BY DEF Init, AddressKeys, Named
<1>2. CoverInv /\ AddressKeys /\ [Next]_vars => AddressKeys'
  <2>. SUFFICES ASSUME CoverInv, AddressKeys, [Next]_vars
                PROVE  AddressKeys'
    OBVIOUS
  <2>1. ASSUME NEW pkt \in Packets, ReadPacket(pkt)
        PROVE  AddressKeys'
    <3>1. strategy' = strategy
      BY <2>1 DEF ReadPacket
    <3>2. DOMAIN groups' \subseteq
            DOMAIN groups \cup ToSet(GroupKeys(strategy, pkt, global_pkt_idx))
      BY <2>1 DEF ReadPacket
    <3>3. ASSUME NEW key \in DOMAIN groups', HasAddresses(key)
          PROVE  AddressKey(key)
      <4>1. CASE key \in DOMAIN groups
        BY <3>3, <4>1 DEF AddressKeys, Named
      <4>2. CASE key \in ToSet(GroupKeys(strategy, pkt, global_pkt_idx))
        BY <3>3, <4>2, KeysOfPacket DEF CoverInv
      <4>. QED
        BY <3>2, <4>1, <4>2
    <3>. QED
      BY <3>1, <3>3 DEF AddressKeys, AddressKey, Named
  <2>2. CASE InputEnds \/ UNCHANGED vars
    BY <2>2 DEF InputEnds, vars, AddressKeys, AddressKey, Named
  <2>. QED
    BY <2>1, <2>2 DEF Next
<1>. QED
  BY <1>1, <1>2, CoverInvariant, PTL DEF Spec

(* No two groups of IPv4 addresses, and no two hosts of any kind but an    *)
(* IPv4-mapped address and its twin, share a file: what sanitize_key       *)
(* (output/split.rs:220) makes of their keys differs, for any addresses,   *)
(* ports and protocols.                                                    *)
THEOREM GroupsHaveTheirFileAlways == Spec => []GroupsHaveTheirFile
<1>1. AddressKeys => GroupsHaveTheirFile
  <2>. DEFINE V4(key) == \A ip \in AddressesOf(key) : IsV4(ip)
  <2>. SUFFICES ASSUME AddressKeys, NEW k \in Named, NEW j \in Named,
                       SanitizedKey(k) = SanitizedKey(j),
                       strategy.by = "host" \/ (V4(k) /\ V4(j))
                PROVE  k = j \/ (strategy.by = "host" /\ (Twins(k[2], j[2]) \/ Twins(j[2], k[2])))
    BY DEF GroupsHaveTheirFile
  <2>1. AddressKey(k) /\ AddressKey(j)
    BY DEF AddressKeys
  <2>2. CASE strategy.by = "host"
    <3>1. PICK a \in Hosts : k = <<"ip", a>>
      BY <2>1, <2>2 DEF AddressKey
    <3>2. PICK b \in Hosts : j = <<"ip", b>>
      BY <2>1, <2>2 DEF AddressKey
    <3>3. \A c : KeyText(<<"ip", c>>) = IpText(c)
      BY DEF KeyText, IsTuple
    <3>4. a = b \/ Twins(a, b) \/ Twins(b, a)
      BY <3>1, <3>2, <3>3, HostsApart DEF SanitizedKey
    <3>5. k[2] = a /\ j[2] = b
      BY <3>1, <3>2
    <3>. QED
      BY <2>2, <3>1, <3>2, <3>4, <3>5
  <2>3. CASE strategy.by = "hostpair"
    <3>1. PICK a \in Hosts, b \in Hosts : k = <<"ips", a, b>>
      BY <2>1, <2>3 DEF AddressKey
    <3>2. PICK c \in Hosts, d \in Hosts : j = <<"ips", c, d>>
      BY <2>1, <2>3 DEF AddressKey
    <3>3. \A x, y : /\ KeyText(<<"ips", x, y>>) = IpText(x) \o <<Underscore>> \o IpText(y)
                    /\ AddressesOf(<<"ips", x, y>>) = {x, y}
      <4>1. \A x, y : Tail(<<"ips", x, y>>) = <<x, y>> /\ ToSet(<<x, y>>) = {x, y}
        BY DEF ToSet
      <4>2. \A x, y : /\ Len(<<"ips", x, y>>) = 3 /\ <<"ips", x, y>>[1] # "ip"
                      /\ <<"ips", x, y>>[2] = x /\ <<"ips", x, y>>[3] = y
        OBVIOUS
      <4>3. \A key : Len(key) = 3 => ~IsTuple(key)
        BY DEF IsTuple
      <4>4. ASSUME NEW x, NEW y
            PROVE  KeyText(<<"ips", x, y>>) = IpText(x) \o <<Underscore>> \o IpText(y)
        BY <4>2, <4>3, Zenon DEF KeyText
      <4>5. ASSUME NEW x, NEW y
            PROVE  AddressesOf(<<"ips", x, y>>) = {x, y}
        <5>1. ~IsTuple(<<"ips", x, y>>)
          BY <4>2, <4>3
        <5>2. AddressesOf(<<"ips", x, y>>) = ToSet(Tail(<<"ips", x, y>>))
          BY <5>1 DEF AddressesOf
        <5>. QED
          BY <4>1, <5>2, Zenon
      <4>. QED
        BY <4>4, <4>5
    <3>4. IsV4(a) /\ IsV4(b) /\ IsV4(c) /\ IsV4(d)
      BY <2>3, <3>1, <3>2, <3>3
    <3>5. SanitizeKey(IpText(a) \o <<Underscore>> \o IpText(b))
            = SanitizeKey(IpText(c) \o <<Underscore>> \o IpText(d))
      BY <3>1, <3>2, <3>3, Zenon DEF SanitizedKey
    <3>6. a = c /\ b = d
      BY <3>4, <3>5, PairsApart
    <3>. QED
      BY <3>1, <3>2, <3>6
  <2>4. CASE strategy.by \in {"session", "flow"}
    <3>1. PICK protocol \in Nat, p \in Nat, q \in Nat, a \in Hosts, b \in Hosts :
            k = <<protocol, a, b, p, q>>
      BY <2>1, <2>4 DEF AddressKey
    <3>2. PICK other \in Nat, x \in Nat, y \in Nat, c \in Hosts, d \in Hosts :
            j = <<other, c, d, x, y>>
      BY <2>1, <2>4 DEF AddressKey
    <3>3. /\ KeyText(k) = TupleText(k) /\ AddressesOf(k) = {a, b}
          /\ KeyText(j) = TupleText(j) /\ AddressesOf(j) = {c, d}
      BY <3>1, <3>2 DEF KeyText, IsTuple, AddressesOf
    <3>4. IsV4(a) /\ IsV4(b) /\ IsV4(c) /\ IsV4(d)
      BY <2>4, <3>3
    <3>5. TupleV4(k) /\ TupleV4(j)
      BY <3>1, <3>2, <3>4 DEF TupleV4
    <3>. QED
      BY <3>3, <3>5, TuplesApart DEF SanitizedKey
  <2>. QED
    BY <2>1, <2>2, <2>3, <2>4 DEF AddressKey
<1>. QED
  BY <1>1, AddressKeysAlways, PTL
=============================================================================

------------------------- MODULE CaptureReaderProofs -------------------------
(***************************************************************************)
(* What the readers promise of every file: first PCAP-NG, whose blocks are *)
(* read in order, then PCAP, and last the frames: what their senders put   *)
(* into them is what the dissection takes out.                             *)
(***************************************************************************)
EXTENDS CaptureReader, SequenceFacts, FiniteSetTheorems

(* One element more at the end. *)
LEMMA SequenceAppend ==
  ASSUME NEW s, IsSequence(s), NEW e
  PROVE  /\ IsSequence(Append(s, e)) /\ Len(Append(s, e)) = Len(s) + 1
         /\ \A i \in 1..Len(s) : Append(s, e)[i] = s[i]
         /\ Append(s, e)[Len(s) + 1] = e
<1>. DEFINE S == {s[i] : i \in 1..Len(s)}
            U == S \cup {e}
            t == Append(s, e)
<1>1. s \in Seq(S) /\ DOMAIN s = 1..Len(s) /\ Len(s) \in Nat
  BY SequenceOfItsElements DEF IsSequence
<1>. HIDE DEF S
<1>2. s \in Seq(U)
  BY <1>1
<1>. HIDE DEF U
<1>3. e \in U
  BY DEF U
<1>4. /\ t \in Seq(U) /\ Len(t) = Len(s) + 1
      /\ \A i \in 1..Len(s) : t[i] = s[i]
      /\ t[Len(s) + 1] = e
  BY <1>2, <1>3, AppendProperties
<1>. QED
  BY <1>4, SeqIsSequence

(* What is known of a PCAP-NG reader beyond the order of its packets: only *)
(* other blocks lie before the first packet, which is where it is opened.  *)
Reading ==
  /\ IsSequence(blocks) /\ IsSequence(packets)
  /\ next \in 1..Len(blocks) + 1
  /\ reader = "opening" => packets = <<>> /\ \A b \in 1..next - 1 : ~Pcapng!IsPacket(blocks[b])

LEMMA PcapngInit == Pcapng!Init => Reading /\ Pcapng!FollowTheBlocks
<1>. SUFFICES ASSUME Pcapng!Init
              PROVE  Reading /\ Pcapng!FollowTheBlocks
  OBVIOUS
<1>0. PICK n \in 0..MaxBlocks - 1 : blocks \in {<<Pcapng!SHB>> \o bs : bs \in [1..n -> Blocks]}
  BY DEF Pcapng!Init
<1>1. PICK bs \in [1..n -> Blocks] : blocks = <<Pcapng!SHB>> \o bs
  BY <1>0
<1>2. IsSequence(blocks) /\ Len(blocks) \in Nat \ {0}
  <2>1. bs \in Seq(Blocks) /\ <<Pcapng!SHB>> \in Seq({Pcapng!SHB}) /\ Len(<<Pcapng!SHB>>) = 1
    BY SeqDef
  <2>2. IsSequence(bs) /\ IsSequence(<<Pcapng!SHB>>)
    BY <2>1, SeqIsSequence
  <2>3. IsSequence(blocks) /\ Len(blocks) = 1 + Len(bs)
    BY <1>1, <2>1, <2>2, SequenceConcat
  <2>. QED
    BY <2>2, <2>3 DEF IsSequence
<1>3. next = 1 /\ packets = <<>> /\ reader = "opening"
  BY DEF Pcapng!Init
<1>4. IsSequence(packets) /\ DOMAIN packets = {}
  BY <1>3 DEF IsSequence
<1>5. Reading
  BY <1>2, <1>3, <1>4 DEF Reading
<1>6. Pcapng!FollowTheBlocks
  <2>1. 1..next - 1 = {}
    BY <1>3
  <2>. QED
    BY <1>3, <1>4, <2>1 DEF Pcapng!FollowTheBlocks
<1>. QED
  BY <1>5, <1>6

(* A packet block passed on, with its packet; or passed over.              *)
LEMMA PacketPassed ==
  ASSUME Reading, Pcapng!FollowTheBlocks, next <= Len(blocks), Pcapng!IsData(blocks[next]),
         NEW packet, packet.block = next, packets' = Append(packets, packet),
         next' = next + 1, blocks' = blocks, reader = "reading", reader' = "reading"
  PROVE  Reading' /\ Pcapng!FollowTheBlocks'
<1>. DEFINE n == Len(packets)
<1>1. /\ IsSequence(packets') /\ Len(packets') = n + 1 /\ packets'[n + 1] = packet
      /\ \A i \in 1..n : packets'[i] = packets[i]
      /\ DOMAIN packets = 1..n /\ DOMAIN packets' = 1..n + 1 /\ n \in Nat
  <2>1. PICK s, t, e : s = packets /\ t = packets' /\ e = packet
    OBVIOUS
  <2>2. IsSequence(s) /\ t = Append(s, e) /\ Len(s) \in Nat
    BY <2>1 DEF Reading, IsSequence
  <2>3. /\ IsSequence(t) /\ Len(t) = Len(s) + 1 /\ t[Len(s) + 1] = e
        /\ \A i \in 1..Len(s) : t[i] = s[i]
    BY <2>2, SequenceAppend
  <2>4. DOMAIN s = 1..Len(s) /\ DOMAIN t = 1..Len(t)
    BY <2>2, <2>3, SequenceOfItsElements
  <2>. QED
    BY <2>1, <2>2, <2>3, <2>4
<1>2. Reading'
  <2>1. Len(blocks) \in Nat /\ next \in 1..Len(blocks) + 1
    BY DEF Reading, IsSequence
  <2>2. next' \in 1..Len(blocks') + 1
    BY <2>1
  <2>. QED
    BY <1>1, <2>2 DEF Reading
<1>. HIDE DEF n
<1>3. \A i \in 1..n : packets[i].block \in 1..next - 1
  BY <1>1 DEF Pcapng!FollowTheBlocks
<1>4. \A i, j \in DOMAIN packets' : i < j => packets'[i].block < packets'[j].block
  <2>. SUFFICES ASSUME NEW i \in 1..n + 1, NEW j \in 1..n + 1, i < j
                PROVE  packets'[i].block < packets'[j].block
    BY <1>1
  <2>1. i \in 1..n /\ (j \in 1..n \/ j = n + 1)
    BY <1>1
  <2>2. next \in Nat
    BY DEF Reading
  <2>3. CASE j \in 1..n
    BY <1>1, <2>1, <2>3 DEF Pcapng!FollowTheBlocks
  <2>4. CASE j = n + 1
    BY <1>1, <1>3, <2>1, <2>2, <2>4
  <2>. QED
    BY <2>1, <2>3, <2>4
<1>5. {packets'[i].block : i \in DOMAIN packets'} =
        {b \in 1..next' - 1 : Pcapng!IsData(blocks'[b])}
  <2>0. next \in Nat \ {0}
    BY DEF Reading
  <2>1. {packets[i].block : i \in 1..n} = {b \in 1..next - 1 : Pcapng!IsData(blocks[b])}
    BY <1>1 DEF Pcapng!FollowTheBlocks
  <2>2. 1..n + 1 = (1..n) \cup {n + 1} /\ 1..next' - 1 = (1..next - 1) \cup {next}
    BY <1>1, <2>0
  <2>3. {packets'[i].block : i \in 1..n + 1} = {packets[i].block : i \in 1..n} \cup {next}
    BY <1>1, <2>2
  <2>4. {b \in 1..next' - 1 : Pcapng!IsData(blocks[b])} =
          {b \in 1..next - 1 : Pcapng!IsData(blocks[b])} \cup {next}
    BY <2>2
  <2>. QED
    BY <1>1, <2>1, <2>3, <2>4
<1>6. Pcapng!FollowTheBlocks'
  BY <1>4, <1>5 DEF Pcapng!FollowTheBlocks
<1>. QED
  BY <1>2, <1>6

LEMMA OtherPassed ==
  ASSUME Reading, Pcapng!FollowTheBlocks, next <= Len(blocks), ~Pcapng!IsData(blocks[next]),
         UNCHANGED <<blocks, packets>>, next' = next + 1,
         reader' = "opening" => reader = "opening" /\ ~Pcapng!IsPacket(blocks[next]),
         reader' = "eof" => blocks[next].is = "SPB" /\ blocks[next].data = <<>>
  PROVE  Reading' /\ Pcapng!FollowTheBlocks'
<1>0. next \in Nat \ {0} /\ Len(blocks) \in Nat
  BY DEF Reading, IsSequence
<1>1. 1..next' - 1 = (1..next - 1) \cup {next} /\ next' - 1 = next
  BY <1>0
<1>2. {b \in 1..next' - 1 : Pcapng!IsData(blocks[b])} = {b \in 1..next - 1 : Pcapng!IsData(blocks[b])}
  BY <1>1
<1>3. Reading'
  <2>1. next' \in 1..Len(blocks) + 1
    BY <1>0
  <2>. QED
    BY <1>1, <2>1 DEF Reading
<1>4. Pcapng!FollowTheBlocks'
  BY <1>1, <1>2 DEF Pcapng!FollowTheBlocks, Pcapng!AtEnd
<1>. QED
  BY <1>3, <1>4

LEMMA PcapngStep ==
  ASSUME Reading, Pcapng!FollowTheBlocks, Pcapng!Next
  PROVE  Reading' /\ Pcapng!FollowTheBlocks'
<1>0. Pcapng!AtEnd \/ next <= Len(blocks)
  BY DEF Pcapng!AtEnd, Reading, IsSequence
<1>1. ASSUME UNCHANGED <<blocks, cut, next, packets>>,
             reader' = "opening" => reader = "opening",
             reader' = "eof" => reader = "eof" \/ Pcapng!AtEnd
      PROVE  Reading' /\ Pcapng!FollowTheBlocks'
  BY <1>1 DEF Reading, Pcapng!FollowTheBlocks, Pcapng!AtEnd
<1>2. CASE Pcapng!ParseBlock
  <2>1. reader' # "eof" /\ reader = "opening"
    BY <1>2 DEF Pcapng!ParseBlock
  <2>2. CASE UNCHANGED next
    BY <1>1, <1>2, <2>1, <2>2 DEF Pcapng!ParseBlock
  <2>3. CASE next' = next + 1
    BY <1>0, <1>2, <2>1, <2>3, OtherPassed
      DEF Pcapng!ParseBlock, Pcapng!Block, Pcapng!IsPacket, Pcapng!IsData
  <2>. QED
    BY <1>2, <2>2, <2>3 DEF Pcapng!ParseBlock
<1>3. CASE Pcapng!Opened
  BY <1>1, <1>3 DEF Pcapng!Opened
<1>4. CASE Pcapng!ReadEpb
  <2>1. CASE UNCHANGED <<next, packets>>
    BY <1>1, <1>4, <2>1 DEF Pcapng!ReadEpb
  <2>2. ASSUME NEW packet, packet.block = next, packets' = Append(packets, packet), next' = next + 1,
               UNCHANGED reader
        PROVE  Reading' /\ Pcapng!FollowTheBlocks'
    BY <1>0, <1>4, <2>2, PacketPassed DEF Pcapng!ReadEpb, Pcapng!Block, Pcapng!IsData
  <2>3. \A time, link, bytes : Pcapng!PacketOf(time, link, bytes).block = next
    BY DEF Pcapng!PacketOf
  <2>. QED
    BY <1>4, <2>1, <2>2, <2>3 DEF Pcapng!ReadEpb
<1>5. CASE Pcapng!ReadSpb
  <2>1. CASE Pcapng!Block.data = <<>> /\ reader' = "eof" /\ UNCHANGED packets
    BY <1>0, <1>5, <2>1, OtherPassed DEF Pcapng!ReadSpb, Pcapng!Block, Pcapng!IsData
  <2>2. ASSUME Pcapng!Block.data # <<>>,
               NEW packet, packet.block = next, packets' = Append(packets, packet), UNCHANGED reader
        PROVE  Reading' /\ Pcapng!FollowTheBlocks'
    BY <1>0, <1>5, <2>2, PacketPassed DEF Pcapng!ReadSpb, Pcapng!Block, Pcapng!IsData
  <2>3. \A time, link, bytes : Pcapng!PacketOf(time, link, bytes).block = next
    BY DEF Pcapng!PacketOf
  <2>. QED
    BY <1>5, <2>1, <2>2, <2>3 DEF Pcapng!ReadSpb
<1>6. CASE Pcapng!ReadBad
  BY <1>1, <1>6 DEF Pcapng!ReadBad
<1>7. CASE Pcapng!SkipBlock
  BY <1>0, <1>7, OtherPassed DEF Pcapng!SkipBlock, Pcapng!Block, Pcapng!IsPacket, Pcapng!IsData
<1>8. CASE Pcapng!ReadNone
  BY <1>1, <1>8 DEF Pcapng!ReadNone
<1>9. CASE Pcapng!Stopped
  BY <1>1, <1>9 DEF Pcapng!Stopped, Pcapng!vars
<1>. QED
  BY <1>2, <1>3, <1>4, <1>5, <1>6, <1>7, <1>8, <1>9 DEF Pcapng!Next

(* PacketsFollowTheBlocks: no packet of a PCAP-NG file is lost, repeated   *)
(* or reordered, whatever lies between the packet blocks (next_packet of   *)
(* parser/pcapng.rs).                                                      *)
THEOREM ThmPacketsFollowTheBlocks == Spec => []PacketsFollowTheBlocks
<1>. DEFINE IInv == format = "pcapng" => Reading /\ Pcapng!FollowTheBlocks
<1>1. Init => IInv
  BY PcapngInit DEF Init
<1>2. IInv /\ [Next]_vars => IInv'
  <2>. SUFFICES ASSUME IInv, [Next]_vars, format' = "pcapng"
                PROVE  Reading' /\ Pcapng!FollowTheBlocks'
    OBVIOUS
  <2>1. CASE Next
    <3>1. (format = "pcapng" /\ Pcapng!Next) \/ UNCHANGED vars
      BY <2>1 DEF Next, ReadPcap, ReadPcapng, UnknownFormat, NothingRead
    <3>2. CASE UNCHANGED vars
      BY <3>2 DEF vars, pcapngVars, Reading, Pcapng!FollowTheBlocks, Pcapng!AtEnd
    <3>. QED
      BY <3>1, <3>2, PcapngStep
  <2>2. CASE UNCHANGED vars
    BY <2>2 DEF vars, pcapngVars, Reading, Pcapng!FollowTheBlocks, Pcapng!AtEnd
  <2>. QED
    BY <2>1, <2>2
<1>3. IInv => PacketsFollowTheBlocks
  BY DEF PacketsFollowTheBlocks
<1>. QED
  BY <1>1, <1>2, <1>3, PTL DEF Spec
-----------------------------------------------------------------------------
(* The seconds and microseconds that next_packet makes of the ticks of a   *)
(* timestamp are the ticks in microseconds, rounded down.                  *)
LEMMA SecondsAndMicroseconds ==
  ASSUME NEW ts \in Nat, NEW resolution \in Nat \ {0}, Million \in Nat \ {0},
         resolution >= Million => resolution % Million = 0
  PROVE  LET time == Pcapng!Time(ts, resolution)
         IN time[1] * Million + time[2] = (ts * Million) \div resolution
<1>. DEFINE q == ts \div resolution
            r == ts % resolution
            k == resolution \div Million
            a == (IF resolution >= Million THEN r \div k ELSE (r * Million) \div resolution)
<1>1. q \in Nat /\ r \in 0..resolution - 1 /\ ts = resolution * q + r
  BY DivMod
<1>2. Pcapng!Time(ts, resolution) = <<q, a>>
  BY DEF Pcapng!Time
<1>3. resolution >= Million => k \in Nat \ {0} /\ resolution = Million * k
  <2>1. k \in Nat /\ resolution % Million \in 0..Million - 1 /\ resolution = Million * k + (resolution % Million)
    BY DivMod
  <2>. HIDE DEF k
  <2>2. CASE resolution >= Million
    <3>1. resolution = Million * k
      BY <2>1, <2>2
    <3>2. k # 0
      BY <3>1
    <3>. QED
      BY <2>1, <3>1, <3>2
  <2>. QED
    BY <2>2
<1>. HIDE DEF q, r
<1>4. q * Million + a = (ts * Million) \div resolution
  <2>1. ts * Million \in Nat /\ ts * Million = resolution * (q * Million) + r * Million
        /\ r * Million \in Nat /\ q * Million \in Nat
    <3>1. (resolution * q + r) * Million = (resolution * q) * Million + r * Million
      BY <1>1
    <3>2. (resolution * q) * Million = resolution * (q * Million)
      BY <1>1
    <3>. QED
      BY <1>1, <3>1, <3>2
  <2>. DEFINE x == r * Million
              p == q * Million
              n == ts * Million
  <2>2. CASE resolution >= Million
    <3>1. k \in Nat \ {0} /\ resolution = Million * k /\ a = r \div k
      BY <1>3, <2>2
    <3>. HIDE DEF k, a
    <3>2. a \in Nat /\ r % k \in 0..k - 1 /\ r = k * a + (r % k)
      <4>1. r \in Nat /\ k \in Nat \ {0}
        BY <1>1, <3>1
      <4>2. r \div k \in Nat /\ r % k \in 0..k - 1 /\ r = k * (r \div k) + (r % k)
        BY <4>1, DivMod
      <4>. QED
        BY <3>1, <4>2, Zenon
    <3>. DEFINE e == r % k
    <3>. HIDE DEF e
    <3>3. e \in 0..k - 1 /\ r = k * a + e /\ a \in Nat
      BY <3>2 DEF e
    <3>4. x = resolution * a + e * Million
      <4>1. (k * a + e) * Million = (k * a) * Million + e * Million
        BY <3>1, <3>3
      <4>2. (k * a) * Million = (Million * k) * a
        BY <3>1, <3>3
      <4>. QED
        BY <3>1, <3>3, <4>1, <4>2
    <3>5. e * Million \in 0..resolution - 1
      <4>1. (e + 1) * Million <= k * Million
        BY <3>1, <3>3
      <4>2. (e + 1) * Million = e * Million + Million /\ e * Million \in Nat
        BY <3>1, <3>3
      <4>. QED
        BY <3>1, <3>3, <4>1, <4>2
    <3>. DEFINE f == e * Million
    <3>. HIDE DEF x, p, f
    <3>6. /\ p \in Nat /\ a \in Nat /\ f \in 0..resolution - 1
          /\ ts * Million = resolution * p + x /\ x = resolution * a + f /\ ts * Million \in Nat
      BY <2>1, <3>3, <3>4, <3>5 DEF x, p, f
    <3>. HIDE DEF n
    <3>7. n \in Nat /\ n = resolution * (p + a) + f /\ p + a \in Nat
      <4>1. resolution * (p + a) = resolution * p + resolution * a
        BY <3>6
      <4>2. resolution * p \in Int /\ resolution * a \in Int
        BY <3>6
      <4>. QED
        BY <3>6, <4>1, <4>2 DEF n
    <3>8. n \div resolution = p + a
      BY <3>6, <3>7, DivModUnique
    <3>. QED
      BY <3>8 DEF n, p
  <2>3. CASE resolution < Million
    <3>1. a = x \div resolution
      BY <2>3
    <3>. HIDE DEF a, x, p, n, k
    <3>2. /\ p \in Nat /\ n \in Nat /\ n = resolution * p + x /\ x \in Nat
      BY <2>1 DEF n, p, x
    <3>3. a \in Nat /\ x % resolution \in 0..resolution - 1 /\ x = resolution * a + (x % resolution)
      <4>1. /\ x \div resolution \in Nat /\ x % resolution \in 0..resolution - 1
            /\ x = resolution * (x \div resolution) + (x % resolution)
        BY <3>2, DivMod
      <4>. QED
        BY <3>1, <4>1, Zenon
    <3>. DEFINE f == x % resolution
    <3>. HIDE DEF f
    <3>4. f \in 0..resolution - 1 /\ x = resolution * a + f
      BY <3>3 DEF f
    <3>7. n = resolution * (p + a) + f /\ p + a \in Nat
      <4>1. resolution * (p + a) = resolution * p + resolution * a
        BY <3>2, <3>3
      <4>2. resolution * p \in Int /\ resolution * a \in Int
        BY <3>2, <3>3
      <4>. QED
        BY <3>2, <3>3, <3>4, <4>1, <4>2
    <3>8. n \div resolution = p + a
      BY <3>2, <3>4, <3>7, DivModUnique
    <3>. QED
      BY <3>8 DEF n, p
  <2>. QED
    BY <2>2, <2>3
<1>. QED
  BY <1>2, <1>4
(* The interface table holds the descriptions before block f, in order.    *)
TableUpTo(f) ==
  /\ IsSequence(interfaces) /\ Len(interfaces) = Cardinality(Pcapng!IdbsBefore(f))
  /\ \A d \in Pcapng!IdbsBefore(f) :
       /\ Cardinality(Pcapng!IdbsBefore(d)) + 1 \in 1..Len(interfaces)
       /\ interfaces[Cardinality(Pcapng!IdbsBefore(d)) + 1] =
            [link_type |-> blocks[d].link_type,
             ts_resolution |-> Pcapng!Resolution(blocks[d].tsresol)]

Tables ==
  /\ \A b \in 1..Len(blocks) : blocks[b] \in Blocks \cup {Pcapng!SHB}
  /\ reader = "opening" => TableUpTo(next)
  /\ reader = "reading" /\ (\E b \in DOMAIN blocks : Pcapng!IsPacket(blocks[b])) =>
       TableUpTo(Pcapng!FirstPacketBlock)

LEMMA IdbsAreFinite ==
  ASSUME NEW b \in Nat
  PROVE  IsFiniteSet(Pcapng!IdbsBefore(b)) /\ Cardinality(Pcapng!IdbsBefore(b)) \in Nat
<1>1. IsFiniteSet(1..b - 1)
  BY FS_Interval
<1>2. Pcapng!IdbsBefore(b) \subseteq 1..b - 1
  BY DEF Pcapng!IdbsBefore
<1>. QED
  BY <1>1, <1>2, FS_Subset, FS_CardinalityType

(* A description, or another block, is read while opening.                 *)
LEMMA TableGrows ==
  ASSUME next \in Nat \ {0}, TableUpTo(next), UNCHANGED blocks, next' = next + 1,
         blocks[next].is = "IDB",
         interfaces' = Append(interfaces,
           [link_type |-> blocks[next].link_type,
            ts_resolution |-> Pcapng!Resolution(blocks[next].tsresol)])
  PROVE  TableUpTo(next)'
<1>. DEFINE n == Len(interfaces)
            entry(d) == [link_type |-> blocks[d].link_type,
                         ts_resolution |-> Pcapng!Resolution(blocks[d].tsresol)]
<1>1. /\ IsSequence(interfaces') /\ Len(interfaces') = n + 1 /\ interfaces'[n + 1] = entry(next)
      /\ \A i \in 1..n : interfaces'[i] = interfaces[i]
      /\ n \in Nat
  <2>1. PICK s, t, e : s = interfaces /\ t = interfaces' /\ e = entry(next)
    OBVIOUS
  <2>2. IsSequence(s) /\ t = Append(s, e) /\ Len(s) \in Nat
    BY <2>1 DEF TableUpTo, IsSequence
  <2>3. /\ IsSequence(t) /\ Len(t) = Len(s) + 1 /\ t[Len(s) + 1] = e
        /\ \A i \in 1..Len(s) : t[i] = s[i]
    BY <2>2, SequenceAppend
  <2>. QED
    BY <2>1, <2>2, <2>3
<1>2. Pcapng!IdbsBefore(next + 1) = Pcapng!IdbsBefore(next) \cup {next}
      /\ next \notin Pcapng!IdbsBefore(next)
  <2>1. 1..(next + 1) - 1 = (1..next - 1) \cup {next} /\ next \notin 1..next - 1
    OBVIOUS
  <2>. QED
    BY <2>1 DEF Pcapng!IdbsBefore
<1>3. Cardinality(Pcapng!IdbsBefore(next + 1)) = n + 1
  <2>1. IsFiniteSet(Pcapng!IdbsBefore(next)) /\ Cardinality(Pcapng!IdbsBefore(next)) = n
    BY IdbsAreFinite DEF TableUpTo
  <2>. QED
    BY <1>2, <2>1, FS_AddElement
<1>. HIDE DEF n
<1>4. ASSUME NEW d \in Pcapng!IdbsBefore(next) \cup {next}
      PROVE  /\ Cardinality(Pcapng!IdbsBefore(d)) + 1 \in 1..n + 1
             /\ interfaces'[Cardinality(Pcapng!IdbsBefore(d)) + 1] = entry(d)
  <2>1. CASE d = next
    <3>1. Cardinality(Pcapng!IdbsBefore(d)) = n
      BY <2>1 DEF TableUpTo, n
    <3>. QED
      BY <1>1, <2>1, <3>1
  <2>2. CASE d \in Pcapng!IdbsBefore(next)
    <3>1. /\ Cardinality(Pcapng!IdbsBefore(d)) + 1 \in 1..n
          /\ interfaces[Cardinality(Pcapng!IdbsBefore(d)) + 1] = entry(d)
      BY <2>2 DEF TableUpTo, n
    <3>. HIDE DEF entry
    <3>. QED
      BY <1>1, <3>1
  <2>. QED
    BY <2>1, <2>2
<1>5. \A d : Pcapng!IdbsBefore(d)' = Pcapng!IdbsBefore(d')
  BY DEF Pcapng!IdbsBefore
<1>. QED
  BY <1>1, <1>2, <1>3, <1>4, <1>5 DEF TableUpTo, n

LEMMA TableStays ==
  ASSUME next \in Nat \ {0}, TableUpTo(next), UNCHANGED <<blocks, interfaces>>, next' = next + 1,
         blocks[next].is # "IDB"
  PROVE  TableUpTo(next)'
<1>1. Pcapng!IdbsBefore(next + 1) = Pcapng!IdbsBefore(next)
  <2>1. 1..(next + 1) - 1 = (1..next - 1) \cup {next} /\ next \notin 1..next - 1
    OBVIOUS
  <2>. QED
    BY <2>1 DEF Pcapng!IdbsBefore
<1>2. TableUpTo(next)' = TableUpTo(next')
  BY DEF TableUpTo, Pcapng!IdbsBefore
<1>3. TableUpTo(next + 1)
  BY <1>1 DEF TableUpTo
<1>. QED
  BY <1>2, <1>3

LEMMA FirstPacketIs ==
  ASSUME IsSequence(blocks), NEW f \in 1..Len(blocks), Pcapng!IsPacket(blocks[f]),
         \A c \in 1..f - 1 : ~Pcapng!IsPacket(blocks[c])
  PROVE  Pcapng!FirstPacketBlock = f
<1>. DEFINE First(b) == Pcapng!IsPacket(blocks[b]) /\ \A c \in 1..b - 1 : ~Pcapng!IsPacket(blocks[c])
<1>1. DOMAIN blocks = 1..Len(blocks) /\ Len(blocks) \in Nat
  BY SequenceOfItsElements DEF IsSequence
<1>2. f \in DOMAIN blocks /\ First(f)
  BY <1>1
<1>3. ASSUME NEW b \in DOMAIN blocks, First(b)
      PROVE  b = f
  <2>1. b \in Nat \ {0} /\ f \in Nat \ {0}
    BY <1>1
  <2>2. ~(b < f) /\ ~(f < b)
    BY <1>3, <2>1
  <2>. QED
    BY <2>1, <2>2
<1>. HIDE DEF First
<1>4. Pcapng!FirstPacketBlock = CHOOSE b \in DOMAIN blocks : First(b)
  BY DEF Pcapng!FirstPacketBlock, First
<1>. QED
  BY <1>2, <1>3, <1>4

LEMMA ResolutionOf ==
  ASSUME NEW tsresol \in 0..19
  PROVE  Pcapng!Resolution(tsresol) = 10 ^ tsresol
<1>1. tsresol # Absent /\ ~(tsresol >= 128) /\ tsresol \notin 64..127
  BY AbsentAssumption
<1>. QED
  BY <1>1 DEF Pcapng!Resolution

(* FiniteSets is the same in the module of the reader. *)
LEMMA SameCardinality == \A S : Pcapng!Cardinality(S) = Cardinality(S)
BY DEF Pcapng!Cardinality, Cardinality

(* The packet that ReadEpb makes of a block. *)
LEMMA EpbAsDescribed ==
  ASSUME IsSequence(blocks), NEW f \in Nat, f <= Len(blocks) + 1, TableUpTo(f),
         (\A b \in 1..Len(blocks) : blocks[b] \in Blocks \cup {Pcapng!SHB}),
         next \in 1..Len(blocks), blocks[next].is = "EPB",
         Pcapng!Interface(blocks[next].iface).ts_resolution # 0,
         NEW d \in Pcapng!Described(blocks[next].iface, f),
         NEW packet,
         packet = Pcapng!PacketOf(Pcapng!Time(blocks[next].ts, Pcapng!Interface(blocks[next].iface).ts_resolution),
                                  Pcapng!Interface(blocks[next].iface).link_type, blocks[next].data)
  PROVE  Pcapng!AsDescribed(packet, next, d)
<1>. DEFINE id == blocks[next].iface
            entry == [link_type |-> blocks[d].link_type,
                      ts_resolution |-> Pcapng!Resolution(blocks[d].tsresol)]
            time == Pcapng!Time(blocks[next].ts, entry.ts_resolution)
<1>1. d \in Pcapng!IdbsBefore(f) /\ Cardinality(Pcapng!IdbsBefore(d)) = id
  <2>1. d \in {e \in Pcapng!IdbsBefore(f) : Cardinality(Pcapng!IdbsBefore(e)) = blocks[next].iface}
    BY SameCardinality DEF Pcapng!Described
  <2>. QED
    BY <2>1
<1>2. id + 1 \in 1..Len(interfaces) /\ interfaces[id + 1] = entry
  BY <1>1 DEF TableUpTo
<1>3. DOMAIN interfaces = 1..Len(interfaces)
  BY SequenceOfItsElements DEF TableUpTo
<1>. HIDE DEF entry
<1>4. Pcapng!Interface(id) = entry
  BY <1>2, <1>3 DEF Pcapng!Interface
<1>5. packet.time = time /\ packet.frame = Pcapng!PD!FromPcapRecord(entry.link_type, blocks[next].data)
  BY <1>4 DEF Pcapng!PacketOf
<1>6. entry.link_type = blocks[d].link_type /\ entry.ts_resolution = Pcapng!Resolution(blocks[d].tsresol)
  BY DEF entry
<1>7. d \in 1..Len(blocks) /\ blocks[d].is = "IDB"
  BY <1>1 DEF Pcapng!IdbsBefore, IsSequence
<1>8. blocks[d] \in Blocks /\ blocks[next] \in Blocks
  BY <1>7 DEF Pcapng!SHB
<1>9. ASSUME blocks[d].tsresol \in 0..19
      PROVE  packet.time[1] * Million + packet.time[2] =
               (blocks[next].ts * Million) \div (10 ^ blocks[d].tsresol)
  <2>1. entry.ts_resolution = 10 ^ blocks[d].tsresol
    BY <1>6, <1>9, ResolutionOf
  <2>2. PICK ts, resolution : ts = blocks[next].ts /\ resolution = 10 ^ blocks[d].tsresol
    OBVIOUS
  <2>3. ts \in Nat /\ resolution \in Nat \ {0} /\ (resolution >= Million => resolution % Million = 0)
    BY <1>7, <1>8, <1>9, <2>2, BlocksAssumption
  <2>4. LET t == Pcapng!Time(ts, resolution)
        IN t[1] * Million + t[2] = (ts * Million) \div resolution
    BY <2>3, MillionAssumption, SecondsAndMicroseconds
  <2>. QED
    BY <1>5, <2>1, <2>2, <2>4
<1>. QED
  BY <1>5, <1>6, <1>9 DEF Pcapng!AsDescribed

LEMMA TablesInit == Pcapng!Init => Tables /\ Pcapng!LeadingInterfaces
<1>. SUFFICES ASSUME Pcapng!Init
              PROVE  Tables /\ Pcapng!LeadingInterfaces
  OBVIOUS
<1>1. next = 1 /\ interfaces = <<>> /\ packets = <<>> /\ reader = "opening"
  BY DEF Pcapng!Init
<1>2. Pcapng!IdbsBefore(1) = {} /\ Cardinality({}) = 0
  BY FS_EmptySet DEF Pcapng!IdbsBefore
<1>3. TableUpTo(1)
  <2>1. IsSequence(interfaces) /\ Len(interfaces) = 0
    BY <1>1 DEF IsSequence
  <2>. QED
    BY <1>2, <2>1 DEF TableUpTo
<1>4. PICK n \in 0..MaxBlocks - 1 : blocks \in {<<Pcapng!SHB>> \o bs : bs \in [1..n -> Blocks]}
  BY DEF Pcapng!Init
<1>5. PICK bs \in [1..n -> Blocks] : blocks = <<Pcapng!SHB>> \o bs
  BY <1>4
<1>6. ASSUME NEW b \in 1..Len(blocks)
      PROVE  blocks[b] \in Blocks \cup {Pcapng!SHB}
  <2>. DEFINE S == Blocks \cup {Pcapng!SHB}
  <2>1. bs \in Seq(S) /\ <<Pcapng!SHB>> \in Seq(S)
    <3>1. bs \in Seq(Blocks)
      BY SeqDef
    <3>. QED
      BY <3>1
  <2>. HIDE DEF S
  <2>2. blocks \in Seq(S)
    BY <1>5, <2>1, ConcatProperties
  <2>3. blocks[b] \in S
    BY <2>2, ElementOfSeq
  <2>. QED
    BY <2>3 DEF S
<1>. QED
  BY <1>1, <1>3, <1>6 DEF Tables, Pcapng!LeadingInterfaces

(* Everything but the reader's state is unchanged, or all the tables.      *)
LEMMA TablesKept ==
  ASSUME Tables, Pcapng!LeadingInterfaces, UNCHANGED <<blocks, interfaces, packets>>,
         (reader' = "opening" => reader = "opening" /\ UNCHANGED next),
         (reader' = "reading" => reader = "reading")
  PROVE  Tables' /\ Pcapng!LeadingInterfaces'
<1>1. \A f : TableUpTo(f) => TableUpTo(f)'
  BY DEF TableUpTo, Pcapng!IdbsBefore
<1>2. Pcapng!LeadingInterfaces'
  BY DEF Pcapng!LeadingInterfaces, Pcapng!Described, Pcapng!IdbsBefore, Pcapng!FirstPacketBlock,
         Pcapng!AsDescribed
<1>3. ASSUME reader' = "opening"
      PROVE  TableUpTo(next)'
  BY <1>3 DEF Tables, TableUpTo, Pcapng!IdbsBefore
<1>4. ASSUME reader' = "reading", \E b \in DOMAIN blocks : Pcapng!IsPacket(blocks[b])
      PROVE  TableUpTo(Pcapng!FirstPacketBlock)'
  BY <1>4 DEF Tables, TableUpTo, Pcapng!IdbsBefore, Pcapng!FirstPacketBlock
<1>. QED
  BY <1>2, <1>3, <1>4 DEF Tables

LEMMA TablesParsed ==
  ASSUME Reading, Tables, Pcapng!LeadingInterfaces, Pcapng!ParseBlock
  PROVE  Tables' /\ Pcapng!LeadingInterfaces'
<1>0. next \in Nat \ {0} /\ TableUpTo(next) /\ UNCHANGED <<blocks, packets>>
  BY DEF Pcapng!ParseBlock, Tables, Reading
<1>1. Pcapng!LeadingInterfaces'
  BY <1>0 DEF Pcapng!LeadingInterfaces, Pcapng!Described, Pcapng!IdbsBefore,
         Pcapng!FirstPacketBlock, Pcapng!AsDescribed
<1>2. CASE Pcapng!Block.is = "IDB" /\ ~Pcapng!Block.bad
  <2>1. TableUpTo(next)'
    BY <1>0, <1>2, TableGrows DEF Pcapng!ParseBlock, Pcapng!Block
  <2>. QED
    BY <1>0, <1>1, <1>2, <2>1 DEF Tables, Pcapng!ParseBlock
<1>3. CASE Pcapng!Block.is \in {"SHB", "IDB"} /\ Pcapng!Block.bad /\ reader' = "error"
  BY <1>0, <1>1, <1>3 DEF Tables
<1>4. CASE Pcapng!Block.is # "IDB" /\ next' = next + 1 /\ UNCHANGED <<interfaces, reader>>
  <2>1. TableUpTo(next)'
    BY <1>0, <1>4, TableStays DEF Pcapng!Block
  <2>. QED
    BY <1>0, <1>1, <1>4, <2>1 DEF Tables, Pcapng!ParseBlock
<1>. QED
  BY <1>2, <1>3, <1>4 DEF Pcapng!ParseBlock

LEMMA TablesOpened ==
  ASSUME Reading, Tables, Pcapng!LeadingInterfaces, Pcapng!Opened
  PROVE  Tables' /\ Pcapng!LeadingInterfaces'
<1>0. /\ next \in 1..Len(blocks) + 1 /\ IsSequence(blocks) /\ TableUpTo(next)
      /\ \A b \in 1..next - 1 : ~Pcapng!IsPacket(blocks[b])
      /\ UNCHANGED <<blocks, packets, next, interfaces>> /\ reader' = "reading"
  BY DEF Pcapng!Opened, Tables, Reading
<1>1. Pcapng!LeadingInterfaces'
  <2>1. UNCHANGED <<blocks, packets>>
    BY <1>0
  <2>. QED
    BY <2>1 DEF Pcapng!LeadingInterfaces, Pcapng!Described, Pcapng!IdbsBefore,
                Pcapng!FirstPacketBlock, Pcapng!AsDescribed
<1>2. ASSUME NEW b \in DOMAIN blocks, Pcapng!IsPacket(blocks[b])
      PROVE  Pcapng!FirstPacketBlock = next
  <2>1. b \in 1..Len(blocks) /\ Len(blocks) \in Nat
    BY <1>0, SequenceOfItsElements DEF IsSequence
  <2>2. b >= next
    BY <1>0, <1>2, <2>1
  <2>3. next \in 1..Len(blocks)
    BY <1>0, <2>1, <2>2
  <2>4. Pcapng!IsPacket(blocks[next])
    <3>1. CASE Pcapng!AtEnd
      <4>1. next = Len(blocks)
        BY <2>1, <2>3, <3>1 DEF Pcapng!AtEnd
      <4>2. b = next
        BY <2>1, <2>2, <4>1
      <4>. QED
        BY <1>2, <4>2
    <3>. QED
      BY <3>1 DEF Pcapng!Opened, Pcapng!Block
  <2>5. PICK f : f = next
    OBVIOUS
  <2>. QED
    BY <1>0, <2>3, <2>4, <2>5, FirstPacketIs
<1>3. TableUpTo(next)'
  BY <1>0 DEF TableUpTo, Pcapng!IdbsBefore
<1>4. ASSUME \E b \in DOMAIN blocks : Pcapng!IsPacket(blocks[b])
      PROVE  TableUpTo(Pcapng!FirstPacketBlock)'
  <2>1. Pcapng!FirstPacketBlock' = next'
    BY <1>0, <1>2, <1>4 DEF Pcapng!FirstPacketBlock
  <2>. QED
    BY <1>3, <2>1 DEF TableUpTo
<1>. QED
  BY <1>0, <1>1, <1>4 DEF Tables

(* A packet more; an enhanced one is as its interface is described.        *)
LEMMA TablesRead ==
  ASSUME Reading, Tables, Pcapng!LeadingInterfaces, reader = "reading", reader' = "reading",
         UNCHANGED <<blocks, interfaces>>,
         NEW packet, packet.block = next, packets' = Append(packets, packet),
         blocks[next].is = "EPB" =>
           \A d \in Pcapng!Described(blocks[next].iface, Pcapng!FirstPacketBlock) :
             Pcapng!AsDescribed(packet, next, d)
  PROVE  Tables' /\ Pcapng!LeadingInterfaces'
<1>1. Tables'
  BY DEF Tables, TableUpTo, Pcapng!IdbsBefore, Pcapng!FirstPacketBlock
<1>. DEFINE n == Len(packets)
<1>2. /\ packets'[n + 1] = packet /\ \A i \in 1..n : packets'[i] = packets[i]
      /\ DOMAIN packets = 1..n /\ DOMAIN packets' = 1..n + 1 /\ n \in Nat
  <2>1. PICK s, t, e : s = packets /\ t = packets' /\ e = packet
    OBVIOUS
  <2>2. IsSequence(s) /\ t = Append(s, e) /\ Len(s) \in Nat
    BY <2>1 DEF Reading, IsSequence
  <2>3. /\ IsSequence(t) /\ Len(t) = Len(s) + 1 /\ t[Len(s) + 1] = e
        /\ \A i \in 1..Len(s) : t[i] = s[i]
    BY <2>2, SequenceAppend
  <2>4. DOMAIN s = 1..Len(s) /\ DOMAIN t = 1..Len(t)
    BY <2>2, <2>3, SequenceOfItsElements
  <2>. QED
    BY <2>1, <2>2, <2>3, <2>4
<1>. HIDE DEF n
<1>. DEFINE Right(p) ==
       blocks[p.block].is = "EPB" =>
         \A d \in Pcapng!Described(blocks[p.block].iface, Pcapng!FirstPacketBlock) :
           Pcapng!AsDescribed(p, p.block, d)
<1>3. \A i \in 1..n : Right(packets[i])
  BY <1>2 DEF Pcapng!LeadingInterfaces
<1>4. Right(packet)
  OBVIOUS
<1>. HIDE DEF Right
<1>5. \A i \in DOMAIN packets' : Right(packets'[i])
  <2>1. 1..n + 1 = (1..n) \cup {n + 1}
    BY <1>2
  <2>. QED
    BY <1>2, <1>3, <1>4, <2>1
<1>6. Pcapng!LeadingInterfaces'
  <2>1. /\ Pcapng!FirstPacketBlock' = Pcapng!FirstPacketBlock
        /\ \A id, f : Pcapng!Described(id, f)' = Pcapng!Described(id, f)
        /\ \A p, b, d : Pcapng!AsDescribed(p, b, d)' = Pcapng!AsDescribed(p, b, d)
    BY DEF Pcapng!FirstPacketBlock, Pcapng!Described, Pcapng!IdbsBefore, Pcapng!AsDescribed
  <2>2. ASSUME NEW i \in DOMAIN packets', NEW b, b = packets'[i].block, blocks'[b].is = "EPB",
               NEW d \in Pcapng!Described(blocks[b].iface, Pcapng!FirstPacketBlock)'
        PROVE  Pcapng!AsDescribed(packets[i], b, d)'
    <3>1. PICK p, id, f : p = packets'[i] /\ id = blocks[b].iface /\ f = Pcapng!FirstPacketBlock
      OBVIOUS
    <3>2. blocks'[b].iface = id /\ Pcapng!FirstPacketBlock' = f
      BY <2>1, <3>1
    <3>3. Pcapng!Described(blocks[b].iface, Pcapng!FirstPacketBlock)' = Pcapng!Described(id, f)'
      BY <3>2 DEF Pcapng!Described
    <3>4. d \in Pcapng!Described(id, f)
      BY <2>1, <2>2, <3>3
    <3>5. Pcapng!AsDescribed(p, b, d)
      BY <1>5, <2>2, <3>1, <3>4 DEF Right
    <3>6. Pcapng!AsDescribed(p, b, d)'
      BY <2>1, <3>5
    <3>. QED
      BY <3>1, <3>6 DEF Pcapng!AsDescribed
  <2>. QED
    BY <2>2 DEF Pcapng!LeadingInterfaces
<1>. QED
  BY <1>1, <1>6

LEMMA TablesReadEpb ==
  ASSUME Reading, Tables, Pcapng!LeadingInterfaces, Pcapng!ReadEpb
  PROVE  Tables' /\ Pcapng!LeadingInterfaces'
<1>0. /\ reader = "reading" /\ blocks[next].is = "EPB" /\ UNCHANGED <<blocks, interfaces>>
      /\ next \in 1..Len(blocks) /\ IsSequence(blocks) /\ Len(blocks) \in Nat
  BY DEF Pcapng!ReadEpb, Pcapng!Block, Pcapng!AtEnd, Reading, IsSequence
<1>. DEFINE made == Pcapng!PacketOf(
       Pcapng!Time(blocks[next].ts, Pcapng!Interface(blocks[next].iface).ts_resolution),
       Pcapng!Interface(blocks[next].iface).link_type, blocks[next].data)
<1>1. CASE UNCHANGED packets /\ reader' = "panicked"
  BY <1>0, <1>1, TablesKept
<1>2. CASE /\ Pcapng!Interface(blocks[next].iface).ts_resolution # 0
           /\ packets' = Append(packets, made) /\ UNCHANGED reader
  <2>1. Pcapng!IsPacket(blocks[next]) /\ next \in DOMAIN blocks
    BY <1>0, SequenceOfItsElements DEF Pcapng!IsPacket
  <2>2. PICK f \in 1..Len(blocks) : f = Pcapng!FirstPacketBlock
    <3>. DEFINE B == {b \in 1..Len(blocks) : Pcapng!IsPacket(blocks[b])}
    <3>1. PICK f \in B : \A b \in B : f <= b
      <4>1. B \subseteq Nat /\ B # {}
        BY <1>0, <2>1
      <4>. HIDE DEF B
      <4>. QED
        BY <4>1, LeastNatural
    <3>2. \A c \in 1..f - 1 : ~Pcapng!IsPacket(blocks[c])
      <4>. SUFFICES ASSUME NEW c \in 1..f - 1, Pcapng!IsPacket(blocks[c])
                    PROVE  FALSE
        OBVIOUS
      <4>1. c \in B /\ c < f /\ c \in Nat /\ f \in Nat
        BY <1>0, <3>1
      <4>. HIDE DEF B
      <4>. QED
        BY <3>1, <4>1
    <3>. QED
      BY <1>0, <3>1, <3>2, FirstPacketIs
  <2>3. TableUpTo(f)
    BY <1>0, <2>1, <2>2 DEF Tables
  <2>4. \A d \in Pcapng!Described(blocks[next].iface, f) : Pcapng!AsDescribed(made, next, d)
    <3>. SUFFICES ASSUME NEW d \in Pcapng!Described(blocks[next].iface, f)
                  PROVE  Pcapng!AsDescribed(made, next, d)
      OBVIOUS
    <3>1. PICK packet : packet = made
      OBVIOUS
    <3>2. f \in Nat /\ f <= Len(blocks) + 1
      BY <1>0
    <3>3. \A b \in 1..Len(blocks) : blocks[b] \in Blocks \cup {Pcapng!SHB}
      BY DEF Tables
    <3>. HIDE DEF made
    <3>4. Pcapng!AsDescribed(packet, next, d)
      <4>1. packet = Pcapng!PacketOf(
              Pcapng!Time(blocks[next].ts, Pcapng!Interface(blocks[next].iface).ts_resolution),
              Pcapng!Interface(blocks[next].iface).link_type, blocks[next].data)
        BY <3>1 DEF made
      <4>. QED
        BY <1>0, <1>2, <2>3, <3>2, <3>3, <4>1, EpbAsDescribed
    <3>. QED
      BY <3>1, <3>4
  <2>5. PICK packet : packet = made
    OBVIOUS
  <2>6. packet.block = next
    BY <2>5 DEF Pcapng!PacketOf
  <2>7. blocks[next].is = "EPB" =>
           \A d \in Pcapng!Described(blocks[next].iface, Pcapng!FirstPacketBlock) :
             Pcapng!AsDescribed(packet, next, d)
    <3>. HIDE DEF made
    <3>. QED
      BY <2>2, <2>4, <2>5
  <2>8. packets' = Append(packets, packet) /\ reader' = "reading"
    BY <1>0, <1>2, <2>5
  <2>. HIDE DEF made
  <2>. QED
    BY <1>0, <2>6, <2>7, <2>8, TablesRead
<1>. QED
  BY <1>1, <1>2 DEF Pcapng!ReadEpb, Pcapng!Block

LEMMA TablesStep ==
  ASSUME Reading, Tables, Pcapng!LeadingInterfaces, Pcapng!Next
  PROVE  Tables' /\ Pcapng!LeadingInterfaces'
<1>1. CASE Pcapng!ParseBlock
  BY <1>1, TablesParsed
<1>2. CASE Pcapng!Opened
  BY <1>2, TablesOpened
<1>3. CASE Pcapng!ReadEpb
  BY <1>3, TablesReadEpb
<1>4. CASE Pcapng!ReadSpb
  <2>1. CASE reader' = "eof" /\ UNCHANGED packets
    BY <1>4, <2>1, TablesKept DEF Pcapng!ReadSpb
  <2>2. ASSUME NEW packet, packet.block = next, packets' = Append(packets, packet), UNCHANGED reader
        PROVE  Tables' /\ Pcapng!LeadingInterfaces'
    <3>1. blocks[next].is # "EPB"
      BY <1>4 DEF Pcapng!ReadSpb, Pcapng!Block
    <3>. QED
      BY <1>4, <2>2, <3>1, TablesRead DEF Pcapng!ReadSpb
  <2>3. \A time, link, bytes : Pcapng!PacketOf(time, link, bytes).block = next
    BY DEF Pcapng!PacketOf
  <2>. QED
    BY <1>4, <2>1, <2>2, <2>3 DEF Pcapng!ReadSpb
<1>5. CASE Pcapng!ReadBad
  BY <1>5, TablesKept DEF Pcapng!ReadBad
<1>6. CASE Pcapng!SkipBlock
  BY <1>6, TablesKept DEF Pcapng!SkipBlock
<1>7. CASE Pcapng!ReadNone
  BY <1>7, TablesKept DEF Pcapng!ReadNone
<1>8. CASE Pcapng!Stopped
  BY <1>8, TablesKept DEF Pcapng!Stopped, Pcapng!vars
<1>. QED
  BY <1>1, <1>2, <1>3, <1>4, <1>5, <1>6, <1>7, <1>8 DEF Pcapng!Next

(* PacketsAreOfTheirInterface: a packet of a PCAP-NG file has the time and *)
(* the fields that its own interface's description gives it, when that one *)
(* comes before the first packet (parse_idb and read_next_epb of           *)
(* parser/pcapng.rs).                                                      *)
THEOREM ThmPacketsAreOfTheirInterface == Spec => []PacketsAreOfTheirInterface
<1>. DEFINE IInv == format = "pcapng" =>
                      /\ Reading /\ Pcapng!FollowTheBlocks
                      /\ Tables /\ Pcapng!LeadingInterfaces
<1>1. Init => IInv
  BY PcapngInit, TablesInit DEF Init
<1>2. IInv /\ [Next]_vars => IInv'
  <2>. SUFFICES ASSUME IInv, [Next]_vars, format' = "pcapng"
                PROVE  /\ Reading' /\ Pcapng!FollowTheBlocks'
                       /\ Tables' /\ Pcapng!LeadingInterfaces'
    OBVIOUS
  <2>1. format = "pcapng" /\ (Pcapng!Next \/ UNCHANGED vars)
    BY DEF Next, ReadPcap, ReadPcapng, UnknownFormat, NothingRead, vars
  <2>2. CASE UNCHANGED vars
    <3>1. Reading' /\ Pcapng!FollowTheBlocks'
      BY <2>1, <2>2 DEF vars, pcapngVars, Reading, Pcapng!FollowTheBlocks, Pcapng!AtEnd
    <3>2. Tables' /\ Pcapng!LeadingInterfaces'
      BY <2>1, <2>2, TablesKept DEF vars, pcapngVars
    <3>. QED
      BY <3>1, <3>2
  <2>. QED
    BY <2>1, <2>2, PcapngStep, TablesStep
<1>3. IInv => PacketsAreOfTheirInterface
  BY DEF PacketsAreOfTheirInterface
<1>. QED
  BY <1>1, <1>2, <1>3, PTL DEF Spec

(* The records of a capture, and the places they take one after the other. *)
Recorded(rs) ==
  /\ IsSequence(rs)
  /\ \A i \in 1..Len(rs) :
       /\ Pcap!Wire(rs[i]) \in Seq(Octet)
       /\ rs[i].incl_len \in 0..Len(Pcap!Wire(rs[i]))

LEMMA SameFlattenSeq == \A parts : Pcap!FlattenSeq(parts) = FlattenSeq(parts)
BY DEF Pcap!FlattenSeq, FlattenSeq

(* SubSeq of anything. *)
LEMMA FirstOfSequence ==
  ASSUME NEW s, IsSequence(s), NEW n \in 0..Len(s)
  PROVE  /\ IsSequence(SubSeq(s, 1, n)) /\ Len(SubSeq(s, 1, n)) = n
         /\ \A i \in 1..n : SubSeq(s, 1, n)[i] = s[i]
<1>. DEFINE S == {s[i] : i \in 1..Len(s)}
            t == SubSeq(s, 1, n)
<1>1. Len(s) \in Nat /\ 1 \in Int /\ n \in Int /\ \A i \in 1..n : s[i] \in S
  BY DEF IsSequence
<1>. HIDE DEF S
<1>2. /\ t \in Seq(S) /\ Len(t) = IF 1 <= n THEN n - 1 + 1 ELSE 0
      /\ \A i \in 1..n - 1 + 1 : t[i] = s[1 + i - 1]
  BY <1>1, SubSeqProperties
<1>. HIDE DEF t
<1>3. Len(t) = n /\ \A i \in 1..n : t[i] = s[i]
  BY <1>1, <1>2
<1>4. IsSequence(t)
  BY <1>2, SeqIsSequence
<1>. QED
  BY <1>3, <1>4 DEF t

LEMMA CapturedIs ==
  ASSUME NEW record, Pcap!Wire(record) \in Seq(Octet),
         record.incl_len \in 0..Len(Pcap!Wire(record))
  PROVE  /\ IsSequence(Pcap!Captured(record)) /\ Len(Pcap!Captured(record)) = record.incl_len
         /\ DOMAIN Pcap!Captured(record) = 1..record.incl_len
         /\ \A i \in 1..record.incl_len : Pcap!Captured(record)[i] = Pcap!Wire(record)[i]
<1>. DEFINE s == Pcap!Wire(record)
            n == record.incl_len
<1>1. IsSequence(s) /\ n \in 0..Len(s)
  BY SeqIsSequence
<1>. HIDE DEF s, n
<1>2. /\ IsSequence(SubSeq(s, 1, n)) /\ Len(SubSeq(s, 1, n)) = n
      /\ \A i \in 1..n : SubSeq(s, 1, n)[i] = s[i]
  BY <1>1, FirstOfSequence
<1>3. DOMAIN SubSeq(s, 1, n) = 1..n
  BY <1>2, SequenceOfItsElements
<1>. QED
  BY <1>2, <1>3 DEF Pcap!Captured, s, n

(* The places of one record: its header, then its bytes. *)
LEMMA PlacesAre ==
  ASSUME NEW record, Pcap!Wire(record) \in Seq(Octet),
         record.incl_len \in 0..Len(Pcap!Wire(record))
  PROVE  /\ IsSequence(Pcap!Places(record)) /\ Len(Pcap!Places(record)) = 1 + record.incl_len
         /\ Pcap!Places(record)[1] = [is |-> "header", record |-> record]
         /\ \A i \in 1..record.incl_len :
              Pcap!Places(record)[1 + i] = [is |-> "data", byte |-> Pcap!Captured(record)[i]]
<1>. DEFINE head == <<[is |-> "header", record |-> record]>>
            bytes == Pcap!Captured(record)
            tail == [i \in DOMAIN bytes |-> [is |-> "data", byte |-> bytes[i]]]
            n == record.incl_len
<1>1. DOMAIN bytes = 1..n /\ n \in Nat
  <2>1. DOMAIN bytes = 1..n
    BY CapturedIs
  <2>2. Len(Pcap!Wire(record)) \in Nat
    BY LenProperties
  <2>. QED
    BY <2>1, <2>2
<1>. HIDE DEF n, bytes
<1>2. IsSequence(tail) /\ Len(tail) = n /\ \A i \in 1..n : tail[i] = [is |-> "data", byte |-> bytes[i]]
  <2>1. tail = [i \in 1..n |-> tail[i]]
    BY <1>1
  <2>2. \A i \in 1..n : tail[i] = [is |-> "data", byte |-> bytes[i]]
    BY <1>1
  <2>. HIDE DEF tail
  <2>3. IsSequence(tail) /\ Len(tail) = n
    BY <1>1, <2>1, SequenceByValue
  <2>. QED
    BY <2>2, <2>3
<1>3. IsSequence(head) /\ Len(head) = 1 /\ head[1] = [is |-> "header", record |-> record]
  <2>1. head \in Seq({[is |-> "header", record |-> record]})
    OBVIOUS
  <2>. QED
    BY <2>1, SeqIsSequence
<1>4. Pcap!Places(record) = head \o tail
  BY DEF Pcap!Places, bytes
<1>. HIDE DEF head, tail
<1>5. /\ IsSequence(head \o tail) /\ Len(head \o tail) = Len(head) + Len(tail)
      /\ \A i \in 1..Len(head) : (head \o tail)[i] = head[i]
      /\ \A i \in 1..Len(tail) : (head \o tail)[Len(head) + i] = tail[i]
  <2>1. IsSequence(head) /\ IsSequence(tail)
    BY <1>2, <1>3
  <2>. QED
    BY <2>1, SequenceConcat
<1>. QED
  BY <1>1, <1>2, <1>3, <1>4, <1>5 DEF n, bytes

LEMMA FirstPlaces ==
  ASSUME NEW rs, Recorded(rs), NEW n \in 0..Len(rs)
  PROVE  Pcap!AllPlaces(SubSeq(rs, 1, n)) = FlattenSeq([i \in 1..n |-> Pcap!Places(rs[i])])
<1>. DEFINE t == SubSeq(rs, 1, n)
<1>1. IsSequence(t) /\ Len(t) = n /\ \A i \in 1..n : t[i] = rs[i]
  BY FirstOfSequence DEF Recorded
<1>2. DOMAIN t = 1..n
  BY <1>1, SequenceOfItsElements
<1>. HIDE DEF t
<1>3. [i \in DOMAIN t |-> Pcap!Places(t[i])] = [i \in 1..n |-> Pcap!Places(rs[i])]
  BY <1>1, <1>2
<1>. QED
  BY <1>3, SameFlattenSeq DEF Pcap!AllPlaces, t

(* A file has one record after the other, each where the one before ends.  *)
LEMMA RecordsAreInPlace ==
  ASSUME NEW rs, Recorded(rs)
  PROVE  /\ IsSequence(Pcap!AllPlaces(rs))
         /\ Len(Pcap!AllPlaces(SubSeq(rs, 1, 0))) = 0
         /\ Len(Pcap!AllPlaces(SubSeq(rs, 1, Len(rs)))) = Len(Pcap!AllPlaces(rs))
         /\ \A n \in 0..Len(rs) - 1 :
              /\ HasAt(Pcap!AllPlaces(rs), Len(Pcap!AllPlaces(SubSeq(rs, 1, n))), Pcap!Places(rs[n + 1]))
              /\ Len(Pcap!AllPlaces(SubSeq(rs, 1, n + 1))) =
                   Len(Pcap!AllPlaces(SubSeq(rs, 1, n))) + 1 + rs[n + 1].incl_len
<1>. DEFINE parts == [i \in 1..Len(rs) |-> Pcap!Places(rs[i])]
            Elements(i) == {parts[i][j] : j \in 1..Len(parts[i])}
            S == UNION {Elements(i) : i \in 1..Len(rs)}
            m == Len(rs)
            all == FlattenSeq(parts)
            First(n) == FlattenSeq([j \in 1..n |-> parts[j]])
<1>1. m \in Nat /\ DOMAIN rs = 1..m
  BY SequenceOfItsElements DEF Recorded, IsSequence
<1>2. \A i \in 1..m : IsSequence(parts[i]) /\ Len(parts[i]) = 1 + rs[i].incl_len
  BY PlacesAre DEF Recorded
<1>3. Pcap!AllPlaces(rs) = all
  BY <1>1, SameFlattenSeq DEF Pcap!AllPlaces
<1>4. \A n \in 0..m : Pcap!AllPlaces(SubSeq(rs, 1, n)) = First(n)
  <2>. SUFFICES ASSUME NEW n \in 0..m
                PROVE  Pcap!AllPlaces(SubSeq(rs, 1, n)) = First(n)
    OBVIOUS
  <2>1. [i \in 1..n |-> Pcap!Places(rs[i])] = [j \in 1..n |-> parts[j]]
    BY <1>1
  <2>. HIDE DEF parts
  <2>. QED
    BY <2>1, FirstPlaces
<1>5. parts = [i \in 1..m |-> parts[i]] /\ \A i \in 1..m : parts[i] = Pcap!Places(rs[i])
  OBVIOUS
<1>. HIDE DEF parts
<1>6. ASSUME NEW i \in 1..m
      PROVE  parts[i] \in Seq(S)
  <2>. DEFINE s == parts[i]
  <2>1. s \in Seq(Elements(i)) /\ Len(s) \in Nat
    BY <1>2, SequenceOfItsElements DEF IsSequence
  <2>2. Elements(i) \subseteq S
    OBVIOUS
  <2>. HIDE DEF s, Elements, S
  <2>3. s \in [1..Len(s) -> Elements(i)]
    BY <2>1, LenProperties
  <2>4. s \in [1..Len(s) -> S]
    BY <2>2, <2>3
  <2>5. s \in Seq(S)
    BY <2>1, <2>4, SeqDef
  <2>. QED
    BY <2>5 DEF s
<1>. HIDE DEF S, m
<1>7. PICK f \in [0..m -> Seq(S)] : Flattens(parts, m, f)
  BY <1>1, <1>6, FlattenByParts
<1>8. /\ f[0] = <<>> /\ \A n \in 0..m : f[n] = First(n)
      /\ \A n \in 0..m - 1 : f[n + 1] = f[n] \o parts[n + 1]
  BY <1>7 DEF Flattens
<1>9. First(m) = all
  BY <1>5
<1>. HIDE DEF First, all
<1>10. IsSequence(all) /\ Len(First(0)) = 0
  <2>1. f[m] \in Seq(S) /\ 0 \in 0..m /\ m \in 0..m
    BY <1>1
  <2>2. all \in Seq(S) /\ First(0) = <<>>
    BY <1>8, <1>9, <2>1
  <2>. QED
    BY <2>2, SeqIsSequence
<1>11. ASSUME NEW n \in 0..m - 1
       PROVE  /\ HasAt(all, Len(First(n)), Pcap!Places(rs[n + 1]))
              /\ Len(First(n + 1)) = Len(First(n)) + 1 + rs[n + 1].incl_len
  <2>1. n + 1 \in 1..m /\ (n + 1) - 1 = n /\ n \in 0..m /\ n + 1 \in 0..m
    BY <1>1
  <2>2. PICK i \in 1..m : i = n + 1
    BY <2>1
  <2>3. HasAt(FlattenSeq(parts), Len(FlattenSeq([j \in 1..i - 1 |-> parts[j]])), parts[i])
    BY <1>1, <1>5, <1>6, FlattenHasParts
  <2>4. i - 1 = n
    BY <2>1, <2>2
  <2>5. HasAt(all, Len(First(n)), parts[n + 1])
    BY <2>2, <2>3, <2>4 DEF all, First
  <2>6. f[n] \in Seq(S) /\ parts[n + 1] \in Seq(S) /\ First(n + 1) = First(n) \o parts[n + 1]
        /\ First(n) = f[n]
    BY <1>6, <1>8, <2>1
  <2>7. Len(First(n + 1)) = Len(First(n)) + Len(parts[n + 1])
    <3>1. PICK a \in Seq(S), b \in Seq(S) : a = First(n) /\ b = parts[n + 1]
      BY <2>6
    <3>2. Len(a \o b) = Len(a) + Len(b)
      BY <3>1, ConcatProperties
    <3>. QED
      BY <2>6, <3>1, <3>2
  <2>8. Len(First(n)) \in Nat
    BY <2>6, LenProperties
  <2>9. Len(parts[n + 1]) = 1 + rs[n + 1].incl_len /\ rs[n + 1].incl_len \in Int
    <3>1. Len(Pcap!Wire(rs[n + 1])) \in Nat
      BY <2>1, LenProperties DEF Recorded, m
    <3>. QED
      BY <1>2, <2>1, <3>1 DEF Recorded, m
  <2>10. parts[n + 1] = Pcap!Places(rs[n + 1])
    BY <1>5, <2>1
  <2>11. Len(First(n + 1)) = Len(First(n)) + 1 + rs[n + 1].incl_len
    <3>1. PICK a, b, c : a = Len(First(n)) /\ b = Len(parts[n + 1]) /\ c = rs[n + 1].incl_len
      OBVIOUS
    <3>2. a \in Nat /\ c \in Int /\ b = 1 + c
      BY <2>8, <2>9, <3>1
    <3>3. a + b = a + 1 + c
      BY <3>2
    <3>. QED
      BY <2>7, <3>1, <3>3, Zenon
  <2>. QED
    BY <2>5, <2>10, <2>11, Zenon
<1>12. 0 \in 0..m /\ m \in 0..m /\ \A n \in 0..m - 1 : n \in 0..m /\ n + 1 \in 0..m
  BY <1>1
<1>. QED
  BY <1>3, <1>4, <1>9, <1>10, <1>11, <1>12 DEF m

(* What is known of a PCAP reader beyond its packets' data: the file has   *)
(* the first places of the records, and between calls the reader is where  *)
(* the packets returned end.                                               *)
ReadingRecords ==
  /\ Recorded(records) /\ IsSequence(packets) /\ IsSequence(data)
  /\ Len(data) <= Len(Pcap!AllPlaces(records))
  /\ \A i \in 1..Len(data) : data[i] = Pcap!AllPlaces(records)[i]
  /\ short => data = <<>>
  /\ reader \in {"none", "open"} => pos = Pcap!Extent(Len(packets))
  /\ reader = "none" => packets = <<>>
  /\ \A i \in DOMAIN packets :
       packets[i].frame = Pcap!PD!FromPcapRecord(link_type, Pcap!Captured(records[i]))

LEMMA Extents ==
  ASSUME Recorded(records)
  PROVE  /\ Len(records) \in Nat /\ IsSequence(Pcap!AllPlaces(records))
         /\ Pcap!Extent(0) = 0
         /\ Pcap!Extent(Len(records)) = Len(Pcap!AllPlaces(records))
         /\ \A n \in 0..Len(records) - 1 :
              /\ HasAt(Pcap!AllPlaces(records), Pcap!Extent(n), Pcap!Places(records[n + 1]))
              /\ Pcap!Extent(n + 1) = Pcap!Extent(n) + 1 + records[n + 1].incl_len
<1>1. PICK rs : rs = records
  OBVIOUS
<1>2. \A n : Pcap!Extent(n) = Len(Pcap!AllPlaces(SubSeq(rs, 1, n)))
  BY <1>1 DEF Pcap!Extent
<1>3. Recorded(rs) /\ Len(rs) \in Nat
  BY <1>1 DEF Recorded, IsSequence
<1>. QED
  BY <1>1, <1>2, <1>3, RecordsAreInPlace

LEMMA RecordsInit ==
  ASSUME Pcap!Init
  PROVE  ReadingRecords /\ Pcap!WholeRecords
<1>1. PICK file \in PcapFiles :
        /\ short = file.short /\ records = file.records
        /\ \E left \in file.cuts \cap 0..Len(Pcap!AllPlaces(file.records)) :
             data = SubSeq(Pcap!AllPlaces(file.records), 1, left)
  BY DEF Pcap!Init
<1>2. PICK left \in file.cuts \cap 0..Len(Pcap!AllPlaces(records)) :
        data = SubSeq(Pcap!AllPlaces(records), 1, left)
  BY <1>1
<1>3. reader = "none" /\ pos = 0 /\ packets = <<>>
  BY DEF Pcap!Init
<1>4. Recorded(records)
  <2>1. IsSequence(records) /\ DOMAIN records = 1..Len(records)
    BY <1>1, PcapFilesAssumption, SeqIsSequence
  <2>. QED
    BY <1>1, <2>1, PcapFilesAssumption DEF Recorded
<1>5. /\ IsSequence(data) /\ Len(data) = left
      /\ \A i \in 1..Len(data) : data[i] = Pcap!AllPlaces(records)[i]
  <2>1. PICK all, t : all = Pcap!AllPlaces(records) /\ t = data
    OBVIOUS
  <2>2. IsSequence(all) /\ left \in 0..Len(all) /\ t = SubSeq(all, 1, left)
    BY <1>2, <1>4, <2>1, Extents
  <2>3. IsSequence(t) /\ Len(t) = left /\ \A i \in 1..left : t[i] = all[i]
    BY <2>2, FirstOfSequence
  <2>. QED
    BY <2>1, <2>3
<1>6. short => data = <<>>
  <2>. SUFFICES ASSUME short
                PROVE  data = <<>>
    OBVIOUS
  <2>1. left = 0
    BY <1>1, <1>2, PcapFilesAssumption
  <2>2. 1..0 = {} /\ DOMAIN data = 1..Len(data)
    BY <1>5, SequenceOfItsElements
  <2>. QED
    BY <1>5, <2>1, <2>2 DEF IsSequence
<1>7. IsSequence(packets) /\ Len(packets) = 0 /\ DOMAIN packets = {}
  BY <1>3 DEF IsSequence
<1>8. /\ Len(records) \in Nat /\ Len(data) \in Nat /\ Pcap!Extent(0) = 0
      /\ Len(data) <= Len(Pcap!AllPlaces(records))
  BY <1>2, <1>4, <1>5, Extents DEF IsSequence
<1>9. ReadingRecords
  BY <1>3, <1>4, <1>5, <1>6, <1>7, <1>8 DEF ReadingRecords
<1>10. Pcap!WholeRecords
  BY <1>3, <1>7, <1>8 DEF Pcap!WholeRecords
<1>. QED
  BY <1>9, <1>10

(* The record that comes next, when there is more in the file. *)
LEMMA RecordComesNext ==
  ASSUME ReadingRecords, Pcap!WholeRecords, reader = "open", Pcap!Left >= 1
  PROVE  LET k == Len(packets)
             record == records[k + 1]
         IN /\ k \in 0..Len(records) - 1 /\ pos = Pcap!Extent(k) /\ pos \in Nat
            /\ k + 1 \in 1..Len(records) /\ record.incl_len \in Nat
            /\ data[pos + 1] = [is |-> "header", record |-> record]
            /\ Pcap!Extent(k + 1) = pos + 1 + record.incl_len
            /\ Pcap!Fits(record) =>
                 [i \in 1..record.incl_len |-> data[pos + 1 + i].byte] = Pcap!Captured(record)
<1>. DEFINE k == Len(packets)
            record == records[k + 1]
            all == Pcap!AllPlaces(records)
            n == record.incl_len
<1>1. k \in Nat /\ Len(data) \in Nat /\ Len(records) \in Nat /\ k <= Len(records)
  BY Extents DEF ReadingRecords, Pcap!WholeRecords, IsSequence
<1>2. pos = Pcap!Extent(k) /\ Len(data) <= Len(all) /\ Pcap!Extent(k) <= Len(data)
  BY DEF ReadingRecords, Pcap!WholeRecords
<1>3. IsSequence(all) /\ Len(all) \in Nat /\ Pcap!Extent(Len(records)) = Len(all)
  BY Extents DEF ReadingRecords, IsSequence
<1>4. k # Len(records)
  BY <1>1, <1>2, <1>3 DEF Pcap!Left
<1>5. k \in 0..Len(records) - 1 /\ k + 1 \in 1..Len(records)
  BY <1>1, <1>4
<1>6. HasAt(all, pos, Pcap!Places(record)) /\ Pcap!Extent(k + 1) = pos + 1 + n
  BY <1>2, <1>5, Extents DEF ReadingRecords
<1>7. Pcap!Wire(record) \in Seq(Octet) /\ n \in 0..Len(Pcap!Wire(record))
  BY <1>5 DEF ReadingRecords, Recorded
<1>8. n \in Nat
  <2>1. Len(Pcap!Wire(record)) \in Nat
    BY <1>7, LenProperties
  <2>. QED
    BY <1>7, <2>1
<1>9. /\ Len(Pcap!Places(record)) = 1 + n
      /\ Pcap!Places(record)[1] = [is |-> "header", record |-> record]
      /\ \A i \in 1..n :
           Pcap!Places(record)[1 + i] = [is |-> "data", byte |-> Pcap!Captured(record)[i]]
      /\ Pcap!Captured(record) = [i \in 1..n |-> Pcap!Captured(record)[i]]
  <2>1. PICK r : r = record
    OBVIOUS
  <2>2. Pcap!Wire(r) \in Seq(Octet) /\ r.incl_len \in 0..Len(Pcap!Wire(r))
    BY <1>7, <2>1
  <2>3. IsSequence(Pcap!Captured(r)) /\ Len(Pcap!Captured(r)) = r.incl_len
    BY <2>2, CapturedIs
  <2>4. /\ Len(Pcap!Places(r)) = 1 + r.incl_len
        /\ Pcap!Places(r)[1] = [is |-> "header", record |-> r]
        /\ \A i \in 1..r.incl_len :
              Pcap!Places(r)[1 + i] = [is |-> "data", byte |-> Pcap!Captured(r)[i]]
    BY <2>2, PlacesAre
  <2>. QED
    BY <2>1, <2>3, <2>4 DEF IsSequence
<1>. HIDE DEF n, record, all
<1>10. pos \in Nat /\ \A i \in 1..1 + n : all[pos + i] = Pcap!Places(record)[i]
  BY <1>6, <1>9 DEF HasAt
<1>11. data[pos + 1] = [is |-> "header", record |-> record]
  <2>1. pos + 1 \in 1..Len(data) /\ 1 \in 1..1 + n
    BY <1>1, <1>8, <1>10 DEF Pcap!Left
  <2>. QED
    BY <1>9, <1>10, <2>1 DEF ReadingRecords, all
<1>12. ASSUME n <= Pcap!Left - 1
       PROVE  [i \in 1..n |-> data[pos + 1 + i].byte] = Pcap!Captured(record)
  <2>1. ASSUME NEW i \in 1..n
        PROVE  data[pos + 1 + i].byte = Pcap!Captured(record)[i]
    <3>1. pos + 1 + i \in 1..Len(data) /\ 1 + i \in 1..1 + n /\ pos + 1 + i = pos + (1 + i)
      BY <1>1, <1>8, <1>10, <1>12 DEF Pcap!Left
    <3>2. data[pos + 1 + i] = all[pos + (1 + i)]
      BY <3>1 DEF ReadingRecords, all
    <3>3. data[pos + 1 + i] = [is |-> "data", byte |-> Pcap!Captured(record)[i]]
      BY <1>9, <1>10, <3>1, <3>2
    <3>. QED
      BY <3>3
  <2>. QED
    BY <1>9, <2>1
<1>. QED
  BY <1>2, <1>5, <1>6, <1>8, <1>10, <1>11, <1>12 DEF Pcap!Fits, n, record

(* Everything but the reader and its place is unchanged. *)
LEMMA RecordsKept ==
  ASSUME ReadingRecords, Pcap!WholeRecords,
         UNCHANGED <<link_type, short, records, data, packets>>,
         reader' \in {"none", "open"} => pos' = Pcap!Extent(Len(packets)),
         reader' = "none" => reader = "none",
         reader' \in {"eof", "error"} =>
           Len(packets) = Len(records) \/ Pcap!Extent(Len(packets) + 1) > Len(data),
         reader' = "eof" => Len(data) = Pcap!Extent(Len(packets))
  PROVE  ReadingRecords' /\ Pcap!WholeRecords'
<1>1. \A n : Pcap!Extent(n)' = Pcap!Extent(n)
  BY DEF Pcap!Extent
<1>2. ReadingRecords'
  BY <1>1 DEF ReadingRecords, Recorded
<1>3. Pcap!WholeRecords'
  BY <1>1 DEF Pcap!WholeRecords
<1>. QED
  BY <1>2, <1>3

LEMMA RecordRead ==
  ASSUME ReadingRecords, Pcap!WholeRecords, Pcap!NextPacket
  PROVE  ReadingRecords' /\ Pcap!WholeRecords'
<1>. DEFINE k == Len(packets)
            record == records[k + 1]
            bytes == Pcap!Captured(record)
            packet == [ts_usec |-> Pcap!Converted(record.fraction), data |-> bytes,
                       frame |-> Pcap!PD!FromPcapRecord(link_type, bytes)]
<1>0. UNCHANGED <<link_type, short, records, data, reader>> /\ reader = "open" /\ Pcap!Left >= 1
  BY DEF Pcap!NextPacket
<1>1. /\ k \in 0..Len(records) - 1 /\ pos = Pcap!Extent(k) /\ pos \in Nat
      /\ k + 1 \in 1..Len(records) /\ record.incl_len \in Nat
      /\ data[pos + 1] = [is |-> "header", record |-> record]
      /\ Pcap!Extent(k + 1) = pos + 1 + record.incl_len
      /\ Pcap!Fits(record) =>
           [i \in 1..record.incl_len |-> data[pos + 1 + i].byte] = bytes
  BY <1>0, RecordComesNext
<1>2. data[pos + 1].record = record
  BY <1>1
<1>3. /\ Pcap!Fits(record) /\ pos' = pos + 1 + record.incl_len
      /\ packets' = Append(packets, packet)
  BY <1>1, <1>2 DEF Pcap!NextPacket
<1>4. pos' = Pcap!Extent(k + 1) /\ Pcap!Extent(k + 1) <= Len(data)
  <2>1. Len(data) \in Nat
    BY DEF ReadingRecords, IsSequence
  <2>. QED
    BY <1>1, <1>3, <2>1 DEF Pcap!Fits, Pcap!Left
<1>5. /\ IsSequence(packets') /\ Len(packets') = k + 1 /\ packets'[k + 1] = packet
      /\ \A i \in 1..k : packets'[i] = packets[i]
      /\ DOMAIN packets = 1..k /\ DOMAIN packets' = 1..k + 1
  <2>1. PICK s, t, e : s = packets /\ t = packets' /\ e = packet
    OBVIOUS
  <2>2. IsSequence(s) /\ t = Append(s, e) /\ Len(s) \in Nat
    BY <1>3, <2>1 DEF ReadingRecords, IsSequence
  <2>3. /\ IsSequence(t) /\ Len(t) = Len(s) + 1 /\ t[Len(s) + 1] = e
        /\ \A i \in 1..Len(s) : t[i] = s[i]
    BY <2>2, SequenceAppend
  <2>4. DOMAIN s = 1..Len(s) /\ DOMAIN t = 1..Len(t)
    BY <2>2, <2>3, SequenceOfItsElements
  <2>. QED
    BY <2>1, <2>2, <2>3, <2>4
<1>6. packet.data = Pcap!Captured(records[k + 1])
      /\ packet.frame = Pcap!PD!FromPcapRecord(link_type, Pcap!Captured(records[k + 1]))
  OBVIOUS
<1>7. \A n : Pcap!Extent(n)' = Pcap!Extent(n)
  BY <1>0 DEF Pcap!Extent
<1>. HIDE DEF packet, bytes, record
<1>8. ASSUME NEW i \in DOMAIN packets'
      PROVE  /\ packets'[i].data = Pcap!Captured(records[i])
             /\ packets'[i].frame = Pcap!PD!FromPcapRecord(link_type, Pcap!Captured(records[i]))
  <2>1. i \in 1..k \/ i = k + 1
    BY <1>1, <1>5
  <2>2. CASE i \in 1..k
    BY <1>5, <2>2 DEF ReadingRecords, Pcap!WholeRecords
  <2>3. CASE i = k + 1
    BY <1>5, <1>6, <2>3
  <2>. QED
    BY <2>1, <2>2, <2>3
<1>9. ReadingRecords'
  <2>1. pos' = Pcap!Extent(Len(packets))'
    BY <1>0, <1>4, <1>5 DEF Pcap!Extent
  <2>2. \A i \in DOMAIN packets' :
          packets'[i].frame = Pcap!PD!FromPcapRecord(link_type', Pcap!Captured(records'[i]))
    BY <1>0, <1>8
  <2>. QED
    BY <1>0, <1>5, <2>1, <2>2 DEF ReadingRecords, Recorded
<1>10. Pcap!WholeRecords'
  <2>1. Pcap!Extent(Len(packets))' <= Len(data')
    BY <1>0, <1>4, <1>5 DEF Pcap!Extent
  <2>2. Len(packets') <= Len(records')
    BY <1>0, <1>1, <1>5
  <2>. QED
    BY <1>0, <1>8, <2>1, <2>2 DEF Pcap!WholeRecords
<1>. QED
  BY <1>9, <1>10

LEMMA RecordsStep ==
  ASSUME ReadingRecords, Pcap!WholeRecords, Pcap!Next
  PROVE  ReadingRecords' /\ Pcap!WholeRecords'
<1>. DEFINE k == Len(packets)
<1>0. k \in Nat /\ Len(data) \in Nat /\ Len(records) \in Nat /\ k <= Len(records)
  BY Extents DEF ReadingRecords, Pcap!WholeRecords, IsSequence
<1>1. CASE Pcap!OpenReader
  <2>1. reader = "none" /\ pos = Pcap!Extent(k) /\ k = 0 /\ Pcap!Extent(0) = 0
    BY <1>1, Extents DEF Pcap!OpenReader, ReadingRecords
  <2>2. ASSUME short, k # Len(records)
        PROVE  Pcap!Extent(k + 1) > Len(data)
    <3>1. Len(data) = 0
      BY <2>2 DEF ReadingRecords
    <3>2. 0 \in 0..Len(records) - 1 /\ 0 + 1 = 1
      BY <1>0, <2>1, <2>2
    <3>3. Pcap!Extent(0 + 1) = Pcap!Extent(0) + 1 + records[0 + 1].incl_len
      BY <3>2, Extents DEF ReadingRecords
    <3>4. records[1].incl_len \in Nat
      <4>1. 1 \in 1..Len(records)
        BY <3>2
      <4>2. Pcap!Wire(records[1]) \in Seq(Octet) /\ records[1].incl_len \in 0..Len(Pcap!Wire(records[1]))
        BY <4>1 DEF ReadingRecords, Recorded
      <4>3. Len(Pcap!Wire(records[1])) \in Nat
        BY <4>2, LenProperties
      <4>. QED
        BY <4>2, <4>3
    <3>. QED
      BY <2>1, <3>1, <3>2, <3>3, <3>4
  <2>3. reader' \in {"error", "open", "panicked"} /\ (reader' = "error" => short)
    BY <1>1 DEF Pcap!OpenReader
  <2>. QED
    BY <1>1, <2>1, <2>2, <2>3, RecordsKept DEF Pcap!OpenReader
<1>2. CASE Pcap!NextPacket
  BY <1>2, RecordRead
<1>3. CASE Pcap!NextPacketError
  <2>1. /\ reader = "open" /\ Pcap!Left >= 1 /\ ~Pcap!Fits(data[pos + 1].record)
        /\ reader' = "error" /\ UNCHANGED <<link_type, short, records, data, packets>>
    BY <1>3 DEF Pcap!NextPacketError
  <2>2. /\ pos \in Nat /\ records[k + 1].incl_len \in Nat
        /\ data[pos + 1] = [is |-> "header", record |-> records[k + 1]]
        /\ Pcap!Extent(k + 1) = pos + 1 + records[k + 1].incl_len
    BY <2>1, RecordComesNext
  <2>3. ~Pcap!Fits(records[k + 1])
    BY <2>1, <2>2
  <2>4. Pcap!Extent(k + 1) > Len(data)
    BY <1>0, <2>2, <2>3 DEF Pcap!Fits, Pcap!Left
  <2>. QED
    BY <2>1, <2>4, RecordsKept
<1>4. CASE Pcap!NextPacketNone
  <2>1. /\ reader = "open" /\ Pcap!Left < 1 /\ reader' = "eof"
        /\ UNCHANGED <<link_type, short, records, data, pos, packets>>
    BY <1>4 DEF Pcap!NextPacketNone
  <2>2. pos = Pcap!Extent(k) /\ Pcap!Extent(k) <= Len(data)
    BY <2>1 DEF ReadingRecords, Pcap!WholeRecords
  <2>3. /\ Pcap!Extent(k) \in Nat
        /\ k # Len(records) => Pcap!Extent(k + 1) > Pcap!Extent(k)
    <3>1. CASE k = Len(records)
      BY <3>1, Extents DEF ReadingRecords, IsSequence
    <3>2. CASE k # Len(records)
      <4>1. k \in 0..Len(records) - 1 /\ k + 1 \in 1..Len(records)
        BY <1>0, <3>2
      <4>2. /\ Pcap!Extent(k) \in Nat
            /\ Pcap!Extent(k + 1) = Pcap!Extent(k) + 1 + records[k + 1].incl_len
        BY <4>1, Extents DEF ReadingRecords, HasAt
      <4>3. records[k + 1].incl_len \in Nat
        <5>1. /\ Pcap!Wire(records[k + 1]) \in Seq(Octet)
              /\ records[k + 1].incl_len \in 0..Len(Pcap!Wire(records[k + 1]))
          BY <4>1 DEF ReadingRecords, Recorded
        <5>2. Len(Pcap!Wire(records[k + 1])) \in Nat
          BY <5>1, LenProperties
        <5>. QED
          BY <5>1, <5>2
      <4>. QED
        BY <4>2, <4>3
    <3>. QED
      BY <3>1, <3>2
  <2>4. Len(data) = Pcap!Extent(k)
    BY <1>0, <2>1, <2>2, <2>3 DEF Pcap!Left
  <2>. QED
    BY <2>1, <2>3, <2>4, RecordsKept
<1>5. CASE Pcap!Stopped
  BY <1>5, RecordsKept DEF Pcap!Stopped, Pcap!vars, ReadingRecords, Pcap!WholeRecords
<1>. QED
  BY <1>1, <1>2, <1>3, <1>4, <1>5 DEF Pcap!Next

(* The inductive invariant of the PCAP reader. *)
LEMMA RecordsInvariant ==
  Spec => [](format = "pcap" => ReadingRecords /\ Pcap!WholeRecords)
<1>. DEFINE IInv == format = "pcap" => ReadingRecords /\ Pcap!WholeRecords
<1>1. Init => IInv
  BY RecordsInit DEF Init
<1>2. IInv /\ [Next]_vars => IInv'
  <2>. SUFFICES ASSUME IInv, [Next]_vars, format' = "pcap"
                PROVE  ReadingRecords' /\ Pcap!WholeRecords'
    OBVIOUS
  <2>1. format = "pcap" /\ (Pcap!Next \/ UNCHANGED vars)
    BY DEF Next, ReadPcap, ReadPcapng, UnknownFormat, NothingRead, vars
  <2>2. CASE UNCHANGED vars
    <3>1. UNCHANGED <<link_type, short, records, data, packets, reader, pos>>
      BY <2>2 DEF vars, pcapVars
    <3>. QED
      BY <2>1, <3>1, RecordsKept DEF ReadingRecords, Pcap!WholeRecords
  <2>. QED
    BY <2>1, <2>2, RecordsStep
<1>. QED
  BY <1>1, <1>2, PTL DEF Spec

(* PacketsAreWholeRecords: whatever the cut of a PCAP file, the packets    *)
(* returned are the first records of the capture, with all their data, and *)
(* a file cut within a packet is an error (next_packet of parser/pcap.rs). *)
THEOREM ThmPacketsAreWholeRecords == Spec => []PacketsAreWholeRecords
<1>1. (format = "pcap" => ReadingRecords /\ Pcap!WholeRecords) => PacketsAreWholeRecords
  BY DEF PacketsAreWholeRecords
<1>. QED
  BY <1>1, RecordsInvariant, PTL

(* The first bytes of a frame. *)
CutOf(d, w) ==
  /\ d \in Seq(Octet) /\ w \in Seq(Octet) /\ Len(d) <= Len(w)
  /\ \A i \in 1..Len(d) : d[i] = w[i]

LEMMA FromIs ==
  ASSUME NEW d \in Seq(Octet), NEW at \in Nat
  PROVE  /\ Pcap!PD!From(d, at) \in Seq(Octet)
         /\ Len(Pcap!PD!From(d, at)) = IF at <= Len(d) THEN Len(d) - at ELSE 0
         /\ \A i \in 1..Len(d) - at : Pcap!PD!From(d, at)[i] = d[at + i]
<1>. DEFINE S == Octet
            m == at + 1
            n == Len(d)
            t == SubSeq(d, m, n)
<1>1. m \in Int /\ n \in Int /\ n \in Nat /\ \A i \in m..n : d[i] \in S
  <2>1. Len(d) \in Nat /\ \A k \in 1..Len(d) : d[k] \in S
    BY LenProperties, ElementOfSeq
  <2>2. \A i \in m..n : i \in 1..Len(d)
    BY <2>1
  <2>. QED
    BY <2>1, <2>2
<1>. HIDE DEF S, t, m, n
<1>2. /\ SubSeq(d, m, n) \in Seq(S)
      /\ Len(SubSeq(d, m, n)) = IF m <= n THEN n - m + 1 ELSE 0
      /\ \A i \in 1..n - m + 1 : SubSeq(d, m, n)[i] = d[m + i - 1]
  BY <1>1, SubSeqProperties
<1>3. /\ Len(t) = IF at <= n THEN n - at ELSE 0
      /\ \A i \in 1..n - at : t[i] = d[at + i]
  BY <1>1, <1>2 DEF t, m
<1>. QED
  BY <1>2, <1>3 DEF t, m, n, S, Pcap!PD!From

LEMMA BytesAre ==
  ASSUME NEW d \in Seq(Octet), NEW i \in Nat, NEW j \in Nat, i <= j, j <= Len(d)
  PROVE  /\ Pcap!PD!Bytes(d, i, j) \in Seq(Octet)
         /\ IsSequence(Pcap!PD!Bytes(d, i, j)) /\ Len(Pcap!PD!Bytes(d, i, j)) = j - i
         /\ \A k \in 1..j - i : Pcap!PD!Bytes(d, i, j)[k] = d[i + k]
<1>. DEFINE S == Octet
            m == i + 1
            t == SubSeq(d, m, j)
<1>1. m \in Int /\ j \in Int /\ \A k \in m..j : d[k] \in S
  <2>1. Len(d) \in Nat /\ \A k \in 1..Len(d) : d[k] \in S
    BY LenProperties, ElementOfSeq
  <2>2. \A k \in m..j : k \in 1..Len(d)
    BY <2>1
  <2>. QED
    BY <2>1, <2>2
<1>. HIDE DEF S, t, m
<1>2. /\ SubSeq(d, m, j) \in Seq(S)
      /\ Len(SubSeq(d, m, j)) = IF m <= j THEN j - m + 1 ELSE 0
      /\ \A k \in 1..j - m + 1 : SubSeq(d, m, j)[k] = d[m + k - 1]
  BY <1>1, SubSeqProperties
<1>3. /\ Len(t) = j - i
      /\ \A k \in 1..j - i : t[k] = d[i + k]
  BY <1>1, <1>2 DEF t, m
<1>4. IsSequence(t)
  BY <1>2, SeqIsSequence DEF t
<1>. QED
  BY <1>2, <1>3, <1>4 DEF t, m, S, Pcap!PD!Bytes

(* What lies within the cut is read from both alike. *)
LEMMA BytesOfCut ==
  ASSUME NEW d, NEW w, CutOf(d, w), NEW i \in Nat, NEW j \in Nat, i <= j, j <= Len(d)
  PROVE  Pcap!PD!Bytes(d, i, j) = Pcap!PD!Bytes(w, i, j)
<1>. DEFINE a == Pcap!PD!Bytes(d, i, j)
            b == Pcap!PD!Bytes(w, i, j)
            n == j - i
<1>1. /\ d \in Seq(Octet) /\ w \in Seq(Octet) /\ Len(d) \in Nat /\ Len(w) \in Nat
      /\ Len(d) <= Len(w) /\ \A k \in 1..Len(d) : d[k] = w[k]
  BY LenProperties DEF CutOf
<1>2. j <= Len(w) /\ n \in Nat
  BY <1>1
<1>3. IsSequence(a) /\ Len(a) = n /\ \A k \in 1..n : a[k] = d[i + k]
  <2>1. d \in Seq(Octet) /\ i \in Nat /\ j \in Nat /\ i <= j /\ j <= Len(d)
    BY <1>1
  <2>. QED
    BY <2>1, BytesAre, Zenon
<1>4. IsSequence(b) /\ Len(b) = n /\ \A k \in 1..n : b[k] = w[i + k]
  <2>1. w \in Seq(Octet) /\ i \in Nat /\ j \in Nat /\ i <= j /\ j <= Len(w)
    BY <1>1, <1>2
  <2>. QED
    BY <2>1, BytesAre, Zenon
<1>5. \A k \in 1..n : d[i + k] = w[i + k]
  <2>1. \A k \in 1..n : i + k \in 1..Len(d)
    BY <1>1
  <2>. QED
    BY <1>1, <2>1
<1>. HIDE DEF a, b, n
<1>6. a = [k \in 1..n |-> a[k]] /\ b = [k \in 1..n |-> b[k]]
  BY <1>3, <1>4 DEF IsSequence
<1>7. \A k \in 1..n : a[k] = b[k]
  BY <1>3, <1>4, <1>5
<1>8. a = b
  BY <1>6, <1>7
<1>. QED
  BY <1>8 DEF a, b

LEMMA FromOfCut ==
  ASSUME NEW d, NEW w, CutOf(d, w), NEW at \in Nat, at <= Len(d)
  PROVE  CutOf(Pcap!PD!From(d, at), Pcap!PD!From(w, at))
<1>. DEFINE a == Pcap!PD!From(d, at)
            b == Pcap!PD!From(w, at)
<1>1. /\ d \in Seq(Octet) /\ w \in Seq(Octet) /\ Len(d) \in Nat /\ Len(w) \in Nat
      /\ Len(d) <= Len(w) /\ \A k \in 1..Len(d) : d[k] = w[k]
  BY LenProperties DEF CutOf
<1>2. a \in Seq(Octet) /\ Len(a) = Len(d) - at /\ \A i \in 1..Len(d) - at : a[i] = d[at + i]
  <2>1. d \in Seq(Octet) /\ at \in Nat
    BY <1>1
  <2>2. /\ a \in Seq(Octet) /\ Len(a) = (IF at <= Len(d) THEN Len(d) - at ELSE 0)
        /\ \A i \in 1..Len(d) - at : a[i] = d[at + i]
    BY <2>1, FromIs, Zenon
  <2>. QED
    BY <2>2
<1>3. b \in Seq(Octet) /\ Len(b) = Len(w) - at /\ \A i \in 1..Len(w) - at : b[i] = w[at + i]
  <2>1. w \in Seq(Octet) /\ at \in Nat /\ at <= Len(w)
    BY <1>1
  <2>2. /\ b \in Seq(Octet) /\ Len(b) = (IF at <= Len(w) THEN Len(w) - at ELSE 0)
        /\ \A i \in 1..Len(w) - at : b[i] = w[at + i]
    BY <2>1, FromIs, Zenon
  <2>. QED
    BY <2>1, <2>2
<1>. HIDE DEF a, b
<1>4. ASSUME NEW i \in 1..Len(a)
      PROVE  a[i] = b[i]
  <2>1. i \in 1..Len(d) - at /\ i \in 1..Len(w) - at /\ at + i \in 1..Len(d)
    BY <1>1, <1>2
  <2>. QED
    BY <1>1, <1>2, <1>3, <2>1
<1>. QED
  BY <1>1, <1>2, <1>3, <1>4 DEF CutOf, a, b

LEMMA ByteIs ==
  ASSUME NEW d \in Seq(Octet), NEW i \in Nat, i < Len(d)
  PROVE  Pcap!PD!Byte(d, i) \in Octet
<1>1. i + 1 \in 1..Len(d)
  BY LenProperties
<1>. QED
  BY <1>1, ElementOfSeq DEF Pcap!PD!Byte

LEMMA ByteOfCut ==
  ASSUME NEW d, NEW w, CutOf(d, w), NEW i \in Nat, i < Len(d)
  PROVE  Pcap!PD!Byte(d, i) = Pcap!PD!Byte(w, i) /\ Pcap!PD!Byte(d, i) \in Octet
<1>1. i + 1 \in 1..Len(d)
  BY LenProperties DEF CutOf
<1>. QED
  BY <1>1, ByteIs DEF CutOf, Pcap!PD!Byte

LEMMA OctetIs == \A b \in Octet : b \in Nat /\ b < 256
BY DEF Octet

LEMMA Be16Is ==
  ASSUME NEW d \in Seq(Octet), NEW i \in Nat, i + 1 < Len(d)
  PROVE  Pcap!PD!Be16(d, i) \in Nat
<1>1. i < Len(d) /\ i + 1 \in Nat
  BY LenProperties
<1>2. Pcap!PD!Byte(d, i) \in Octet /\ Pcap!PD!Byte(d, i + 1) \in Octet
  BY <1>1, ByteIs
<1>. QED
  BY <1>2, OctetIs DEF Pcap!PD!Be16

LEMMA Be16OfCut ==
  ASSUME NEW d, NEW w, CutOf(d, w), NEW i \in Nat, i + 1 < Len(d)
  PROVE  Pcap!PD!Be16(d, i) = Pcap!PD!Be16(w, i) /\ Pcap!PD!Be16(d, i) \in Nat
<1>1. d \in Seq(Octet) /\ i < Len(d) /\ i + 1 \in Nat
  BY LenProperties DEF CutOf
<1>2. Pcap!PD!Byte(d, i) = Pcap!PD!Byte(w, i) /\ Pcap!PD!Byte(d, i + 1) = Pcap!PD!Byte(w, i + 1)
  BY <1>1, ByteOfCut
<1>3. Pcap!PD!Be16(d, i) \in Nat
  BY <1>1, Be16Is
<1>. QED
  BY <1>2, <1>3 DEF Pcap!PD!Be16

LEMMA L7OffsetIs ==
  ASSUME NEW d \in Seq(Octet), NEW protocol, NEW at \in Nat
  PROVE  Pcap!PD!L7Offset(d, protocol, at) \in Nat \cup {Absent}
<1>1. Len(d) \in Nat
  BY LenProperties
<1>2. \A i \in Nat : Pcap!PD!Clipped(i, d) \in Nat
  BY <1>1 DEF Pcap!PD!Clipped
<1>3. ASSUME Len(d) >= at + 20
      PROVE  at + 4 * (Pcap!PD!Byte(d, at + 12) \div 16) \in Nat
  <2>1. at + 12 \in Nat /\ at + 12 < Len(d)
    BY <1>1, <1>3
  <2>2. PICK b \in Octet : b = Pcap!PD!Byte(d, at + 12)
    BY <2>1, ByteIs
  <2>3. b \div 16 \in Nat
    BY OctetIs
  <2>. QED
    BY <2>2, <2>3
<1>4. at + 8 \in Nat
  OBVIOUS
<1>. QED
  BY <1>2, <1>3, <1>4 DEF Pcap!PD!L7Offset

LEMMA TransportIs ==
  ASSUME NEW d \in Seq(Octet), NEW protocol, NEW icmp, NEW at \in Nat
  PROVE  Pcap!PD!Transport(d, protocol, icmp, at) \in
           [src_port : Nat, dst_port : Nat, l7_offset : Nat \cup {Absent}]
<1>1. CASE protocol \in {6, 17} /\ Len(d) >= at + 4
  <2>1. at + 1 < Len(d) /\ at + 2 \in Nat /\ (at + 2) + 1 < Len(d)
    BY <1>1, LenProperties
  <2>2. Pcap!PD!Be16(d, at) \in Nat /\ Pcap!PD!Be16(d, at + 2) \in Nat
    BY <2>1, Be16Is
  <2>3. Pcap!PD!L7Offset(d, protocol, at) \in Nat \cup {Absent}
    BY L7OffsetIs
  <2>. QED
    BY <1>1, <2>2, <2>3 DEF Pcap!PD!Transport, Pcap!PD!Tcp, Pcap!PD!Udp
<1>2. CASE ~(protocol \in {6, 17} /\ Len(d) >= at + 4)
  BY <1>2 DEF Pcap!PD!Transport, Pcap!PD!Tcp, Pcap!PD!Udp, Pcap!PD!NoPorts
<1>. QED
  BY <1>1, <1>2

(* A cut frame has the ports of the whole one, or none. *)
LEMMA TransportOfCut ==
  ASSUME NEW d, NEW w, CutOf(d, w), NEW protocol, NEW icmp, NEW at \in Nat
  PROVE  LET a == Pcap!PD!Transport(d, protocol, icmp, at)
             b == Pcap!PD!Transport(w, protocol, icmp, at)
         IN \/ a.src_port = b.src_port /\ a.dst_port = b.dst_port
            \/ a.src_port = 0 /\ a.dst_port = 0
<1>1. d \in Seq(Octet) /\ w \in Seq(Octet) /\ Len(d) <= Len(w) /\ Len(d) \in Nat /\ Len(w) \in Nat
  BY LenProperties DEF CutOf
<1>2. CASE protocol \in {6, 17} /\ Len(d) >= at + 4
  <2>1. at + 1 < Len(d) /\ at + 2 \in Nat /\ (at + 2) + 1 < Len(d)
    BY <1>1, <1>2
  <2>2. Pcap!PD!Be16(d, at) = Pcap!PD!Be16(w, at) /\ Pcap!PD!Be16(d, at + 2) = Pcap!PD!Be16(w, at + 2)
    BY <2>1, Be16OfCut
  <2>3. Len(w) >= at + 4
    BY <1>1, <1>2
  <2>. QED
    BY <1>2, <2>2, <2>3 DEF Pcap!PD!Transport, Pcap!PD!Tcp, Pcap!PD!Udp
<1>3. CASE ~(protocol \in {6, 17} /\ Len(d) >= at + 4)
  BY <1>3 DEF Pcap!PD!Transport, Pcap!PD!Tcp, Pcap!PD!Udp, Pcap!PD!NoPorts
<1>. QED
  BY <1>2, <1>3

(* What a cut datagram is read as: nothing, or the same with or without    *)
(* the ports.                                                              *)
ForgetsPorts(a, b) ==
  a # Absent =>
    /\ b # Absent
    /\ a.five_tuple \in {b.five_tuple, [b.five_tuple EXCEPT !.src_port = 0, !.dst_port = 0]}

LEMMA InfoIs ==
  ASSUME NEW protocol \in Octet, NEW src \in Seq(Octet), NEW dst \in Seq(Octet),
         NEW l4 \in [src_port : Nat, dst_port : Nat, l7_offset : Nat \cup {Absent}]
  PROVE  Pcap!PD!IpInfo(protocol, src, dst, l4) # Absent
<1>. DEFINE info == Pcap!PD!IpInfo(protocol, src, dst, l4)
<1>1. info \in [five_tuple : FiveTuple, l7_offset : Nat \cup {Absent}]
  BY DEF Pcap!PD!IpInfo, FiveTuple
<1>. QED
  BY <1>1, AbsentAssumption

LEMMA InfoForgets ==
  ASSUME NEW protocol \in Octet, NEW src \in Seq(Octet), NEW dst \in Seq(Octet), NEW l4,
         NEW whole \in [src_port : Nat, dst_port : Nat, l7_offset : Nat \cup {Absent}],
         \/ l4.src_port = whole.src_port /\ l4.dst_port = whole.dst_port
         \/ l4.src_port = 0 /\ l4.dst_port = 0
  PROVE  ForgetsPorts(Pcap!PD!IpInfo(protocol, src, dst, l4),
                      Pcap!PD!IpInfo(protocol, src, dst, whole))
<1>. DEFINE Tuple(sp, dp) ==
       [protocol |-> protocol, src_ip |-> src, dst_ip |-> dst, src_port |-> sp, dst_port |-> dp]
<1>1. Pcap!PD!IpInfo(protocol, src, dst, whole) # Absent
  BY InfoIs
<1>2. /\ Pcap!PD!IpInfo(protocol, src, dst, l4).five_tuple = Tuple(l4.src_port, l4.dst_port)
      /\ Pcap!PD!IpInfo(protocol, src, dst, whole).five_tuple = Tuple(whole.src_port, whole.dst_port)
  BY DEF Pcap!PD!IpInfo
<1>3. [Tuple(whole.src_port, whole.dst_port) EXCEPT !.src_port = 0, !.dst_port = 0] = Tuple(0, 0)
  <2>. DEFINE t == Tuple(whole.src_port, whole.dst_port)
              u == [t EXCEPT !.src_port = 0]
  <2>1. u = Tuple(0, whole.dst_port)
    OBVIOUS
  <2>2. [Tuple(0, whole.dst_port) EXCEPT !.dst_port = 0] = Tuple(0, 0)
    OBVIOUS
  <2>3. [t EXCEPT !.src_port = 0, !.dst_port = 0] = [u EXCEPT !.dst_port = 0]
    OBVIOUS
  <2>. QED
    BY <2>1, <2>2, <2>3, Zenon
<1>. HIDE DEF Tuple
<1>. QED
  BY <1>1, <1>2, <1>3 DEF ForgetsPorts

LEMMA Ipv4OfCut ==
  ASSUME NEW d, NEW w, CutOf(d, w)
  PROVE  ForgetsPorts(Pcap!PD!ParseIpv4(d), Pcap!PD!ParseIpv4(w))
<1>. DEFINE short4(x) == Len(x) < 20 \/ Pcap!PD!HeaderLen(x) < 20 \/ Len(x) < Pcap!PD!HeaderLen(x)
            at == Pcap!PD!HeaderLen(d)
            protocol == Pcap!PD!Byte(d, 9)
            src == Pcap!PD!Bytes(d, 12, 16)
            dst == Pcap!PD!Bytes(d, 16, 20)
            a == Pcap!PD!Transport(d, protocol, 1, at)
            b == Pcap!PD!Transport(w, protocol, 1, at)
<1>1. /\ d \in Seq(Octet) /\ w \in Seq(Octet) /\ Len(d) \in Nat /\ Len(w) \in Nat /\ Len(d) <= Len(w)
  BY LenProperties DEF CutOf
<1>2. CASE short4(d)
  BY <1>2 DEF ForgetsPorts, Pcap!PD!ParseIpv4
<1>3. CASE ~short4(d)
  <2>1. Len(d) >= 20 /\ 0 < Len(d) /\ 9 < Len(d)
    BY <1>1, <1>3
  <2>2. /\ Pcap!PD!Byte(w, 0) = Pcap!PD!Byte(d, 0) /\ Pcap!PD!Byte(d, 0) \in Octet
        /\ Pcap!PD!Byte(w, 9) = protocol /\ protocol \in Octet
    BY <2>1, ByteOfCut
  <2>3. /\ Pcap!PD!Bytes(w, 12, 16) = src /\ Pcap!PD!Bytes(w, 16, 20) = dst
        /\ src \in Seq(Octet) /\ dst \in Seq(Octet)
    <3>1. 12 \in Nat /\ 16 \in Nat /\ 20 \in Nat /\ 12 <= 16 /\ 16 <= 20 /\ 16 <= Len(d) /\ 20 <= Len(d)
      BY <1>1, <2>1
    <3>2. Pcap!PD!Bytes(d, 12, 16) = Pcap!PD!Bytes(w, 12, 16)
      BY <3>1, BytesOfCut
    <3>3. Pcap!PD!Bytes(d, 16, 20) = Pcap!PD!Bytes(w, 16, 20)
      BY <3>1, BytesOfCut
    <3>4. Pcap!PD!Bytes(d, 12, 16) \in Seq(Octet)
      BY <1>1, <3>1, BytesAre
    <3>5. Pcap!PD!Bytes(d, 16, 20) \in Seq(Octet)
      BY <1>1, <3>1, BytesAre
    <3>. QED
      BY <3>2, <3>3, <3>4, <3>5
  <2>4. Pcap!PD!HeaderLen(w) = at /\ at \in Nat
    <3>1. PICK byte \in Octet : byte = Pcap!PD!Byte(d, 0)
      BY <2>2
    <3>2. 4 * (byte % 16) \in Nat
      BY OctetIs
    <3>. QED
      BY <2>2, <3>1, <3>2 DEF Pcap!PD!HeaderLen
  <2>5. ~short4(w)
    BY <1>1, <1>3, <2>4
  <2>6. Pcap!PD!ParseIpv4(d) = Pcap!PD!IpInfo(protocol, src, dst, a)
    BY <1>3 DEF Pcap!PD!ParseIpv4
  <2>7. Pcap!PD!ParseIpv4(w) = Pcap!PD!IpInfo(protocol, src, dst, b)
    BY <2>2, <2>3, <2>4, <2>5 DEF Pcap!PD!ParseIpv4
  <2>8. b \in [src_port : Nat, dst_port : Nat, l7_offset : Nat \cup {Absent}]
    BY <1>1, <2>4, TransportIs
  <2>9. \/ a.src_port = b.src_port /\ a.dst_port = b.dst_port
        \/ a.src_port = 0 /\ a.dst_port = 0
    BY <2>4, TransportOfCut
  <2>. HIDE DEF a, b, src, dst, protocol
  <2>10. ForgetsPorts(Pcap!PD!IpInfo(protocol, src, dst, a), Pcap!PD!IpInfo(protocol, src, dst, b))
    BY <2>2, <2>3, <2>8, <2>9, InfoForgets
  <2>. QED
    BY <2>6, <2>7, <2>10
<1>. QED
  BY <1>2, <1>3

(* Where a step along a chain of extension headers leads. *)
Chain == [is : {"transport", "opaque", "cut"}, protocol : Octet, pos : Nat]

LEMMA NextHeaderIs ==
  ASSUME NEW d \in Seq(Octet), NEW chain \in Chain
  PROVE  Pcap!PD!NextHeader(d, chain) \in Chain
<1>1. chain.is = "transport" /\ chain.pos \in Nat /\ ~(Len(d) < chain.pos + 2) =>
        Pcap!PD!Byte(d, chain.pos) \in Octet /\ Pcap!PD!Byte(d, chain.pos + 1) \in Octet
  <2>. SUFFICES ASSUME NEW at \in Nat, at = chain.pos, ~(Len(d) < at + 2)
                PROVE  Pcap!PD!Byte(d, at) \in Octet /\ Pcap!PD!Byte(d, at + 1) \in Octet
    OBVIOUS
  <2>1. at < Len(d) /\ at + 1 \in Nat /\ at + 1 < Len(d)
    BY LenProperties
  <2>. QED
    BY <2>1, ByteIs
<1>2. chain.pos \in Nat /\ \A b \in Octet : chain.pos + 8 * (b + 1) \in Nat
  BY OctetIs DEF Chain
<1>3. CASE chain.is = "transport" /\ chain.protocol \in {Pcap!PD!NoNextHeader, Pcap!PD!Esp}
  <2>1. Pcap!PD!NextHeader(d, chain) = [chain EXCEPT !.is = "opaque"]
    BY <1>3 DEF Pcap!PD!NextHeader, Pcap!PD!NoNextHeader, Pcap!PD!Esp, Pcap!PD!ExtensionHeaders
  <2>. QED
    BY <2>1 DEF Chain
<1>4. CASE /\ chain.is = "transport" /\ chain.protocol \notin {Pcap!PD!NoNextHeader, Pcap!PD!Esp}
           /\ chain.protocol \in Pcap!PD!ExtensionHeaders
  <2>1. Pcap!PD!NextHeader(d, chain) =
          IF Len(d) < chain.pos + 2 THEN Pcap!PD!ChainCut(chain)
          ELSE [is |-> "transport", protocol |-> Pcap!PD!Byte(d, chain.pos),
                pos |-> chain.pos + 8 * (Pcap!PD!Byte(d, chain.pos + 1) + 1)]
    BY <1>4 DEF Pcap!PD!NextHeader, Pcap!PD!NoNextHeader, Pcap!PD!Esp, Pcap!PD!ExtensionHeaders
  <2>2. CASE Len(d) < chain.pos + 2
    BY <2>1, <2>2 DEF Chain, Pcap!PD!ChainCut
  <2>3. CASE ~(Len(d) < chain.pos + 2)
    BY <1>1, <1>2, <1>4, <2>1, <2>3 DEF Chain
  <2>. QED
    BY <2>2, <2>3
<1>5. CASE ~ /\ chain.is = "transport"
             /\ \/ chain.protocol \in {Pcap!PD!NoNextHeader, Pcap!PD!Esp}
                \/ chain.protocol \in Pcap!PD!ExtensionHeaders
  BY <1>5 DEF Pcap!PD!NextHeader
<1>. QED
  BY <1>3, <1>4, <1>5

LEMMA NextHeaderOfCut ==
  ASSUME NEW d, NEW w, CutOf(d, w), NEW chain \in Chain
  PROVE  \/ Pcap!PD!NextHeader(d, chain) = Pcap!PD!NextHeader(w, chain)
         \/ Pcap!PD!NextHeader(d, chain).is = "cut"
<1>1. /\ Len(d) \in Nat /\ Len(w) \in Nat /\ Len(d) <= Len(w)
      /\ chain.pos \in Nat
  BY LenProperties DEF CutOf, Chain
<1>2. CASE ~(Len(d) < chain.pos + 2)
  <2>1. PICK at \in Nat : at = chain.pos
    BY <1>1
  <2>2. ~(Len(w) < at + 2) /\ ~(Len(d) < at + 2) /\ at < Len(d) /\ at + 1 \in Nat /\ at + 1 < Len(d)
    BY <1>1, <1>2, <2>1
  <2>3. /\ Pcap!PD!Byte(d, at) = Pcap!PD!Byte(w, at)
        /\ Pcap!PD!Byte(d, at + 1) = Pcap!PD!Byte(w, at + 1)
    BY <2>2, ByteOfCut
  <2>. QED
    BY <2>1, <2>2, <2>3 DEF Pcap!PD!NextHeader
<1>3. CASE Len(d) < chain.pos + 2
  BY <1>3 DEF Pcap!PD!NextHeader, Pcap!PD!ChainCut, Chain
<1>. QED
  BY <1>2, <1>3

(* The walk along the extension headers of a frame. *)
Walks(d, after) ==
  /\ \A i \in 0..8 : after[i] \in Chain
  /\ after[0] = [is |-> "transport", protocol |-> Pcap!PD!Byte(d, 6), pos |-> 40]
  /\ \A i \in 1..8 : after[i] = Pcap!PD!NextHeader(d, after[i - 1])

LEMMA ChainIsWalked ==
  ASSUME NEW d \in Seq(Octet), Len(d) >= 40
  PROVE  \E after : Walks(d, after) /\ Pcap!PD!ExtensionChain(d) = after[8]
<1>. DEFINE zero == [is |-> "transport", protocol |-> Pcap!PD!Byte(d, 6), pos |-> 40]
            step == [x \in (1..8) \X Chain |-> Pcap!PD!NextHeader(d, x[2])]
            Follows(f) == f = [i \in 0..8 |-> IF i = 0 THEN zero
                                              ELSE Pcap!PD!NextHeader(d, f[i - 1])]
<1>1. zero \in Chain
  <2>1. 6 \in Nat /\ 6 < Len(d)
    BY LenProperties
  <2>2. Pcap!PD!Byte(d, 6) \in Octet
    BY <2>1, ByteIs
  <2>. QED
    BY <2>2 DEF Chain
<1>2. \A i \in 1..8 : \A v \in Chain :
        step[<<i, v>>] = Pcap!PD!NextHeader(d, v) /\ step[<<i, v>>] \in Chain
  BY NextHeaderIs
<1>3. Pcap!PD!ExtensionChain(d) = (CHOOSE f : Follows(f))[8]
  BY DEF Pcap!PD!ExtensionChain, Pcap!PD!MaxExtHeaders
<1>. HIDE DEF step, zero
<1>4. PICK f \in [0..8 -> Chain] : Counts(f, 8, zero, step)
  <2>1. 8 \in Nat /\ \A i \in 1..8 : \A v \in Chain : step[<<i, v>>] \in Chain
    BY <1>2
  <2>. QED
    BY <1>1, <2>1, CountExists
<1>5. \A i \in 0..8 : f[i] = IF i = 0 THEN zero ELSE Pcap!PD!NextHeader(d, f[i - 1])
  <2>. SUFFICES ASSUME NEW i \in 0..8
                PROVE  f[i] = IF i = 0 THEN zero ELSE Pcap!PD!NextHeader(d, f[i - 1])
    OBVIOUS
  <2>1. f[i] = IF i = 0 THEN zero ELSE step[<<i, f[i - 1]>>]
    BY <1>4 DEF Counts
  <2>2. i # 0 => i \in 1..8 /\ f[i - 1] \in Chain
    OBVIOUS
  <2>. QED
    BY <1>2, <2>1, <2>2
<1>6. Follows(f)
  BY <1>5
<1>. DEFINE g == CHOOSE f_ : Follows(f_)
<1>7. Follows(g)
  <2>. HIDE DEF Follows
  <2>. QED
    BY <1>6
<1>8. \A i \in 0..8 : g[i] = IF i = 0 THEN zero ELSE Pcap!PD!NextHeader(d, g[i - 1])
  <2>. HIDE DEF g
  <2>. QED
    BY <1>7
<1>. HIDE DEF g
<1>9. \A i \in 0..8 : g[i] \in Chain
  <2>. DEFINE S == {i \in 0..8 : g[i] \in Chain}
  <2>1. 0 \in S
    BY <1>1, <1>8
  <2>2. ASSUME NEW i \in 0..8 - 1, i \in S
        PROVE  i + 1 \in S
    <3>1. i + 1 \in 0..8 /\ (i + 1) - 1 = i /\ i + 1 # 0
      OBVIOUS
    <3>2. g[i + 1] = Pcap!PD!NextHeader(d, g[i])
      BY <1>8, <3>1
    <3>3. g[i + 1] \in Chain
      BY <2>2, <3>2, NextHeaderIs
    <3>. QED
      BY <3>1, <3>3
  <2>3. \A i \in 0..8 : i \in S
    <3>1. 8 \in Nat
      OBVIOUS
    <3>. HIDE DEF S
    <3>. QED
      BY <2>1, <2>2, <3>1, CountInduction
  <2>. QED
    BY <2>3
<1>10. g[0] = zero /\ \A i \in 1..8 : g[i] = Pcap!PD!NextHeader(d, g[i - 1])
  BY <1>8
<1>11. Pcap!PD!ExtensionChain(d) = g[8]
  BY <1>3 DEF g
<1>. QED
  BY <1>9, <1>10, <1>11 DEF Walks, zero

LEMMA ChainIs ==
  ASSUME NEW d \in Seq(Octet), Len(d) >= 40
  PROVE  Pcap!PD!ExtensionChain(d) \in Chain
<1>1. PICK after : Walks(d, after) /\ Pcap!PD!ExtensionChain(d) = after[8]
  BY ChainIsWalked
<1>. QED
  BY <1>1 DEF Walks

LEMMA ChainOfCut ==
  ASSUME NEW d, NEW w, CutOf(d, w), Len(d) >= 40
  PROVE  \/ Pcap!PD!ExtensionChain(d) = Pcap!PD!ExtensionChain(w)
         \/ Pcap!PD!ExtensionChain(d).is = "cut"
<1>1. d \in Seq(Octet) /\ w \in Seq(Octet) /\ Len(w) >= 40
  BY LenProperties DEF CutOf
<1>2. PICK f : Walks(d, f) /\ Pcap!PD!ExtensionChain(d) = f[8]
  BY <1>1, ChainIsWalked
<1>3. PICK g : Walks(w, g) /\ Pcap!PD!ExtensionChain(w) = g[8]
  BY <1>1, ChainIsWalked
<1>. DEFINE S == {i \in 0..8 : f[i] = g[i] \/ f[i].is = "cut"}
<1>4. 0 \in S
  <2>1. 6 \in Nat /\ 6 < Len(d)
    BY <1>1, LenProperties
  <2>2. Pcap!PD!Byte(d, 6) = Pcap!PD!Byte(w, 6)
    BY <2>1, ByteOfCut
  <2>. QED
    BY <1>2, <1>3, <2>2 DEF Walks
<1>5. ASSUME NEW i \in 0..8 - 1, i \in S
      PROVE  i + 1 \in S
  <2>1. i + 1 \in 1..8 /\ (i + 1) - 1 = i /\ i \in 0..8
    OBVIOUS
  <2>2. /\ f[i + 1] = Pcap!PD!NextHeader(d, f[i]) /\ g[i + 1] = Pcap!PD!NextHeader(w, g[i])
        /\ f[i] \in Chain
    BY <1>2, <1>3, <2>1 DEF Walks
  <2>3. f[i] = g[i] \/ f[i].is = "cut"
    BY <1>5
  <2>4. f[i].is = "cut" => Pcap!PD!NextHeader(d, f[i]) = f[i]
    BY DEF Pcap!PD!NextHeader
  <2>5. Pcap!PD!NextHeader(d, f[i]) = Pcap!PD!NextHeader(w, f[i])
        \/ Pcap!PD!NextHeader(d, f[i]).is = "cut"
    BY <2>2, NextHeaderOfCut
  <2>6. f[i + 1] = g[i + 1] \/ f[i + 1].is = "cut"
    BY <2>2, <2>3, <2>4, <2>5
  <2>. QED
    BY <2>1, <2>6
<1>6. \A i \in 0..8 : i \in S
  <2>1. 8 \in Nat
    OBVIOUS
  <2>. HIDE DEF S
  <2>. QED
    BY <1>4, <1>5, <2>1, CountInduction
<1>. QED
  BY <1>2, <1>3, <1>6

LEMMA Ipv6OfCut ==
  ASSUME NEW d, NEW w, CutOf(d, w)
  PROVE  ForgetsPorts(Pcap!PD!ParseIpv6(d), Pcap!PD!ParseIpv6(w))
<1>. DEFINE chain == Pcap!PD!ExtensionChain(d)
            protocol == chain.protocol
            src == Pcap!PD!Bytes(d, 8, 24)
            dst == Pcap!PD!Bytes(d, 24, 40)
            l4(x) == IF chain.is = "opaque" THEN Pcap!PD!NoPorts(Absent)
                     ELSE Pcap!PD!Transport(x, protocol, 58, chain.pos)
            a == l4(d)
            b == l4(w)
<1>1. /\ d \in Seq(Octet) /\ w \in Seq(Octet) /\ Len(d) \in Nat /\ Len(w) \in Nat /\ Len(d) <= Len(w)
  BY LenProperties DEF CutOf
<1>2. CASE Len(d) < 40 \/ chain.is = "cut"
  BY <1>2 DEF ForgetsPorts, Pcap!PD!ParseIpv6
<1>3. CASE ~(Len(d) < 40) /\ chain.is # "cut"
  <2>1. Len(d) >= 40 /\ ~(Len(w) < 40)
    BY <1>1, <1>3
  <2>2. chain = Pcap!PD!ExtensionChain(w) /\ chain \in Chain
    BY <1>1, <1>3, <2>1, ChainIs, ChainOfCut
  <2>3. /\ Pcap!PD!Bytes(w, 8, 24) = src /\ Pcap!PD!Bytes(w, 24, 40) = dst
        /\ src \in Seq(Octet) /\ dst \in Seq(Octet)
    <3>1. 8 \in Nat /\ 24 \in Nat /\ 40 \in Nat /\ 8 <= 24 /\ 24 <= 40 /\ 24 <= Len(d) /\ 40 <= Len(d)
      BY <1>1, <2>1
    <3>2. Pcap!PD!Bytes(d, 8, 24) = Pcap!PD!Bytes(w, 8, 24)
      BY <3>1, BytesOfCut
    <3>3. Pcap!PD!Bytes(d, 24, 40) = Pcap!PD!Bytes(w, 24, 40)
      BY <3>1, BytesOfCut
    <3>4. Pcap!PD!Bytes(d, 8, 24) \in Seq(Octet)
      BY <1>1, <3>1, BytesAre
    <3>5. Pcap!PD!Bytes(d, 24, 40) \in Seq(Octet)
      BY <1>1, <3>1, BytesAre
    <3>. QED
      BY <3>2, <3>3, <3>4, <3>5
  <2>4. Pcap!PD!ParseIpv6(d) = Pcap!PD!IpInfo(protocol, src, dst, a)
    BY <1>3 DEF Pcap!PD!ParseIpv6
  <2>5. Pcap!PD!ParseIpv6(w) = Pcap!PD!IpInfo(protocol, src, dst, b)
    BY <1>3, <2>1, <2>2, <2>3 DEF Pcap!PD!ParseIpv6
  <2>6. protocol \in Octet /\ chain.pos \in Nat
    BY <2>2 DEF Chain
  <2>7. b \in [src_port : Nat, dst_port : Nat, l7_offset : Nat \cup {Absent}]
    <3>1. Pcap!PD!Transport(w, protocol, 58, chain.pos) \in
            [src_port : Nat, dst_port : Nat, l7_offset : Nat \cup {Absent}]
      <4>. HIDE DEF chain, protocol
      <4>. QED
        BY <1>1, <2>6, TransportIs
    <3>. QED
      BY <3>1 DEF Pcap!PD!NoPorts
  <2>8. \/ a.src_port = b.src_port /\ a.dst_port = b.dst_port
        \/ a.src_port = 0 /\ a.dst_port = 0
    <3>1. LET ta == Pcap!PD!Transport(d, protocol, 58, chain.pos)
              tb == Pcap!PD!Transport(w, protocol, 58, chain.pos)
          IN \/ ta.src_port = tb.src_port /\ ta.dst_port = tb.dst_port
             \/ ta.src_port = 0 /\ ta.dst_port = 0
      <4>. HIDE DEF chain, protocol
      <4>. QED
        BY <2>6, TransportOfCut
    <3>. QED
      BY <3>1
  <2>. HIDE DEF a, b, src, dst, protocol
  <2>9. ForgetsPorts(Pcap!PD!IpInfo(protocol, src, dst, a), Pcap!PD!IpInfo(protocol, src, dst, b))
    BY <2>3, <2>6, <2>7, <2>8, InfoForgets
  <2>. QED
    BY <2>4, <2>5, <2>9
<1>. QED
  BY <1>2, <1>3

LEMMA IpOfCut ==
  ASSUME NEW d, NEW w, CutOf(d, w)
  PROVE  ForgetsPorts(Pcap!PD!ParseIp(d), Pcap!PD!ParseIp(w))
<1>1. /\ d \in Seq(Octet) /\ w \in Seq(Octet) /\ Len(d) \in Nat /\ Len(w) \in Nat /\ Len(d) <= Len(w)
  BY LenProperties DEF CutOf
<1>2. CASE d = <<>>
  BY <1>2 DEF ForgetsPorts, Pcap!PD!ParseIp
<1>3. CASE d # <<>>
  <2>1. 0 < Len(d) /\ 0 \in Nat /\ w # <<>>
    BY <1>1, <1>3, EmptySeq
  <2>2. PICK first \in Octet : first = Pcap!PD!Byte(d, 0) /\ first = Pcap!PD!Byte(w, 0)
    BY <2>1, ByteOfCut
  <2>. DEFINE ip_version == first \div 16
              ip(x) == IF ip_version = 4 THEN Pcap!PD!ParseIpv4(x)
                       ELSE IF ip_version = 6 THEN Pcap!PD!ParseIpv6(x) ELSE Absent
  <2>3. Pcap!PD!ParseIp(d) = ip(d) /\ Pcap!PD!ParseIp(w) = ip(w)
    BY <1>3, <2>1, <2>2 DEF Pcap!PD!ParseIp
  <2>. HIDE DEF ip_version
  <2>4. CASE ip_version = 4
    BY <2>3, <2>4, Ipv4OfCut
  <2>5. CASE ip_version = 6
    BY <2>3, <2>5, Ipv6OfCut
  <2>6. CASE ip_version \notin {4, 6}
    BY <2>3, <2>6 DEF ForgetsPorts
  <2>. QED
    BY <2>4, <2>5, <2>6
<1>. QED
  BY <1>2, <1>3

(* What a frame may be to the whole one it was cut from. *)
Forgets(frame, whole) ==
  /\ frame.src_mac \in {Absent, whole.src_mac}
  /\ frame.dst_mac \in {Absent, whole.dst_mac}
  /\ frame.bssid \in {Absent, whole.bssid}
  /\ frame.five_tuple # Absent =>
       frame.five_tuple \in
         {whole.five_tuple, [whole.five_tuple EXCEPT !.src_port = 0, !.dst_port = 0]}

LEMMA ParsedForgets ==
  ASSUME NEW src, NEW dst, NEW bssid, NEW a, NEW b, NEW at_a, NEW at_b, ForgetsPorts(a, b)
  PROVE  Forgets(Pcap!PD!Parsed(src, dst, bssid, a, at_a), Pcap!PD!Parsed(src, dst, bssid, b, at_b))
<1>. DEFINE p == Pcap!PD!Parsed(src, dst, bssid, a, at_a)
            q == Pcap!PD!Parsed(src, dst, bssid, b, at_b)
<1>1. /\ p.src_mac = src /\ p.dst_mac = dst /\ p.bssid = bssid
      /\ p.five_tuple = IF a = Absent THEN Absent ELSE a.five_tuple
      /\ q.src_mac = src /\ q.dst_mac = dst /\ q.bssid = bssid
      /\ q.five_tuple = IF b = Absent THEN Absent ELSE b.five_tuple
  BY DEF Pcap!PD!Parsed
<1>. HIDE DEF p, q
<1>2. p.five_tuple # Absent => a # Absent /\ b # Absent
  BY <1>1 DEF ForgetsPorts
<1>. QED
  BY <1>1, <1>2 DEF Forgets, ForgetsPorts, p, q

LEMMA NothingForgets == \A whole : Forgets(Pcap!PD!NothingParsed, whole)
BY DEF Forgets, Pcap!PD!NothingParsed, Pcap!PD!Parsed

LEMMA EthernetOfCut ==
  ASSUME NEW d, NEW w, CutOf(d, w)
  PROVE  Forgets(Pcap!PD!ParseEthernet(d), Pcap!PD!ParseEthernet(w))
<1>. DEFINE info(x) == IF Pcap!PD!EthernetPayload(x) = Absent THEN Absent
                       ELSE Pcap!PD!ParseIp(Pcap!PD!From(x, Pcap!PD!EthernetPayload(x)))
<1>1. /\ d \in Seq(Octet) /\ w \in Seq(Octet) /\ Len(d) \in Nat /\ Len(w) \in Nat /\ Len(d) <= Len(w)
  BY LenProperties DEF CutOf
<1>2. CASE Len(d) < 14
  BY <1>2, NothingForgets DEF Pcap!PD!ParseEthernet
<1>3. CASE ~(Len(d) < 14)
  <2>1. ~(Len(w) < 14) /\ 12 \in Nat /\ 12 + 1 < Len(d)
    BY <1>1, <1>3
  <2>2. Pcap!PD!Be16(d, 12) = Pcap!PD!Be16(w, 12)
    BY <2>1, Be16OfCut
  <2>3. /\ Pcap!PD!Bytes(d, 6, 12) = Pcap!PD!Bytes(w, 6, 12)
        /\ Pcap!PD!Bytes(d, 0, 6) = Pcap!PD!Bytes(w, 0, 6)
    <3>1. 0 \in Nat /\ 6 \in Nat /\ 12 \in Nat /\ 6 <= 12 /\ 0 <= 6 /\ 12 <= Len(d) /\ 6 <= Len(d)
      BY <1>1, <1>3
    <3>2. Pcap!PD!Bytes(d, 6, 12) = Pcap!PD!Bytes(w, 6, 12)
      BY <3>1, BytesOfCut
    <3>. QED
      BY <3>1, <3>2, BytesOfCut
  <2>4. ForgetsPorts(info(d), info(w))
    <3>1. CASE Pcap!PD!Be16(d, 12) \in Pcap!PD!Ethertypes
      <4>1. Pcap!PD!EthernetPayload(d) = 14 /\ Pcap!PD!EthernetPayload(w) = 14
        BY <2>2, <3>1 DEF Pcap!PD!EthernetPayload, Pcap!PD!Ethertypes, Pcap!PD!Dot1Q
      <4>2. 14 \in Nat /\ 14 <= Len(d)
        BY <1>1, <1>3
      <4>3. CutOf(Pcap!PD!From(d, 14), Pcap!PD!From(w, 14))
        BY <4>2, FromOfCut
      <4>. QED
        BY <4>1, <4>2, <4>3, IpOfCut, AbsentAssumption
    <3>2. CASE /\ Pcap!PD!Be16(d, 12) = Pcap!PD!Dot1Q /\ Len(d) >= 18
      <4>1. Len(w) >= 18 /\ 16 \in Nat /\ 16 + 1 < Len(d) /\ 18 \in Nat /\ 18 <= Len(d)
        BY <1>1, <3>2
      <4>2. Pcap!PD!Be16(d, 16) = Pcap!PD!Be16(w, 16)
        BY <4>1, Be16OfCut
      <4>3. Pcap!PD!Be16(d, 12) \notin Pcap!PD!Ethertypes
        BY <3>2 DEF Pcap!PD!Ethertypes, Pcap!PD!Dot1Q
      <4>4. /\ Pcap!PD!EthernetPayload(d) =
                 IF Pcap!PD!Be16(d, 16) \in Pcap!PD!Ethertypes THEN 18 ELSE Absent
            /\ Pcap!PD!EthernetPayload(w) = Pcap!PD!EthernetPayload(d)
        BY <2>2, <3>2, <4>1, <4>2, <4>3 DEF Pcap!PD!EthernetPayload
      <4>5. CutOf(Pcap!PD!From(d, 18), Pcap!PD!From(w, 18))
        BY <4>1, FromOfCut
      <4>. QED
        BY <4>1, <4>4, <4>5, IpOfCut, AbsentAssumption DEF ForgetsPorts
    <3>3. CASE /\ Pcap!PD!Be16(d, 12) \notin Pcap!PD!Ethertypes
               /\ ~(Pcap!PD!Be16(d, 12) = Pcap!PD!Dot1Q /\ Len(d) >= 18)
      <4>1. Pcap!PD!EthernetPayload(d) = Absent
        BY <3>3 DEF Pcap!PD!EthernetPayload
      <4>. QED
        BY <4>1 DEF ForgetsPorts
    <3>. QED
      BY <3>1, <3>2, <3>3
  <2>5. /\ Pcap!PD!ParseEthernet(d) =
             Pcap!PD!Parsed(Pcap!PD!Bytes(d, 6, 12), Pcap!PD!Bytes(d, 0, 6), Absent,
                            info(d), Pcap!PD!EthernetPayload(d))
        /\ Pcap!PD!ParseEthernet(w) =
             Pcap!PD!Parsed(Pcap!PD!Bytes(w, 6, 12), Pcap!PD!Bytes(w, 0, 6), Absent,
                            info(w), Pcap!PD!EthernetPayload(w))
    BY <1>3, <2>1 DEF Pcap!PD!ParseEthernet
  <2>. HIDE DEF info
  <2>. QED
    BY <2>3, <2>4, <2>5, ParsedForgets
<1>. QED
  BY <1>2, <1>3

LEMMA FrameOfCut ==
  ASSUME NEW d, NEW w, CutOf(d, w), NEW at \in Nat
  PROVE  Forgets(Pcap!PD!Parse80211Frame(d, at), Pcap!PD!Parse80211Frame(w, at))
<1>1. /\ d \in Seq(Octet) /\ w \in Seq(Octet) /\ Len(d) \in Nat /\ Len(w) \in Nat /\ Len(d) <= Len(w)
  BY LenProperties DEF CutOf
<1>2. CASE Len(d) < at + 24
  BY <1>2, NothingForgets DEF Pcap!PD!Parse80211Frame
<1>3. CASE ~(Len(d) < at + 24)
  <2>. DEFINE h == Pcap!PD!From(d, at)
              k == Pcap!PD!From(w, at)
  <2>1. ~(Len(w) < at + 24) /\ at <= Len(d)
    BY <1>1, <1>3
  <2>2. CutOf(h, k) /\ Len(h) = Len(d) - at
    BY <1>1, <2>1, FromOfCut, FromIs
  <2>3. Len(h) \in Nat /\ 24 <= Len(h)
    BY <1>1, <1>3, <2>2
  <2>. HIDE DEF h, k
  <2>4. /\ Pcap!PD!Byte(h, 0) = Pcap!PD!Byte(k, 0) /\ Pcap!PD!Byte(h, 0) \in Octet
        /\ Pcap!PD!Byte(h, 1) = Pcap!PD!Byte(k, 1) /\ Pcap!PD!Byte(h, 1) \in Octet
    <3>1. 0 \in Nat /\ 1 \in Nat /\ 0 < Len(h) /\ 1 < Len(h)
      BY <2>3
    <3>2. Pcap!PD!Byte(h, 0) = Pcap!PD!Byte(k, 0) /\ Pcap!PD!Byte(h, 0) \in Octet
      BY <2>2, <3>1, ByteOfCut
    <3>. QED
      BY <2>2, <3>1, <3>2, ByteOfCut
  <2>5. /\ Pcap!PD!Bytes(h, 4, 10) = Pcap!PD!Bytes(k, 4, 10)
        /\ Pcap!PD!Bytes(h, 10, 16) = Pcap!PD!Bytes(k, 10, 16)
        /\ Pcap!PD!Bytes(h, 16, 22) = Pcap!PD!Bytes(k, 16, 22)
    <3>1. /\ 4 \in Nat /\ 10 \in Nat /\ 16 \in Nat /\ 22 \in Nat
          /\ 4 <= 10 /\ 10 <= 16 /\ 16 <= 22 /\ 10 <= Len(h) /\ 16 <= Len(h) /\ 22 <= Len(h)
      BY <2>3
    <3>2. Pcap!PD!Bytes(h, 4, 10) = Pcap!PD!Bytes(k, 4, 10)
      BY <2>2, <3>1, BytesOfCut
    <3>3. Pcap!PD!Bytes(h, 10, 16) = Pcap!PD!Bytes(k, 10, 16)
      BY <2>2, <3>1, BytesOfCut
    <3>. QED
      BY <2>2, <3>1, <3>2, <3>3, BytesOfCut
  <2>. DEFINE frame_type == (Pcap!PD!Byte(h, 0) \div 4) % 4
              to_ds == Pcap!PD!Byte(h, 1) % 2
              from_ds == (Pcap!PD!Byte(h, 1) \div 2) % 2
              skip == at + (IF frame_type = Pcap!PD!Data /\ to_ds = 1 /\ from_ds = 1 THEN 30 ELSE 24)
              llc(x) == Pcap!PD!From(x, skip)
              info(x) == IF Pcap!PD!CarriesIp(llc(x))
                         THEN Pcap!PD!ParseIp(Pcap!PD!From(llc(x), 8)) ELSE Absent
  <2>6. /\ Pcap!PD!Parse80211Frame(d, at) =
             Pcap!PD!Parsed(Pcap!PD!Bytes(h, 10, 16), Pcap!PD!Bytes(h, 4, 10),
                            Pcap!PD!Bssid(h, frame_type, to_ds, from_ds), info(d), skip + 8)
        /\ Pcap!PD!Parse80211Frame(w, at) =
             Pcap!PD!Parsed(Pcap!PD!Bytes(k, 10, 16), Pcap!PD!Bytes(k, 4, 10),
                            Pcap!PD!Bssid(k, frame_type, to_ds, from_ds), info(w), skip + 8)
    <3>1. Pcap!PD!Parse80211Frame(d, at) =
            Pcap!PD!Parsed(Pcap!PD!Bytes(h, 10, 16), Pcap!PD!Bytes(h, 4, 10),
                           Pcap!PD!Bssid(h, frame_type, to_ds, from_ds), info(d), skip + 8)
      BY <1>3 DEF Pcap!PD!Parse80211Frame, h
    <3>2. Pcap!PD!Parse80211Frame(w, at) =
            Pcap!PD!Parsed(Pcap!PD!Bytes(k, 10, 16), Pcap!PD!Bytes(k, 4, 10),
                           Pcap!PD!Bssid(k, frame_type, to_ds, from_ds), info(w), skip + 8)
      BY <2>1, <2>4 DEF Pcap!PD!Parse80211Frame, k
    <3>. QED
      BY <3>1, <3>2
  <2>7. Pcap!PD!Bssid(h, frame_type, to_ds, from_ds) = Pcap!PD!Bssid(k, frame_type, to_ds, from_ds)
    BY <2>5 DEF Pcap!PD!Bssid
  <2>8. skip \in Nat
    OBVIOUS
  <2>. HIDE DEF skip, frame_type, to_ds, from_ds
  <2>9. ForgetsPorts(info(d), info(w))
    <3>1. CASE ~Pcap!PD!CarriesIp(llc(d))
      BY <3>1 DEF ForgetsPorts
    <3>2. CASE Pcap!PD!CarriesIp(llc(d))
      <4>. DEFINE a == llc(d)
                  b == llc(w)
      <4>1. a \in Seq(Octet) /\ Len(a) = IF skip <= Len(d) THEN Len(d) - skip ELSE 0
        BY <1>1, <2>8, FromIs
      <4>2. Len(a) >= 8
        BY <3>2 DEF Pcap!PD!CarriesIp
      <4>3. skip <= Len(d)
        BY <1>1, <2>8, <4>1, <4>2
      <4>4. CutOf(a, b)
        BY <2>8, <4>3, FromOfCut
      <4>5. info(d) = Pcap!PD!ParseIp(Pcap!PD!From(a, 8))
        BY <3>2
      <4>. HIDE DEF a, b
      <4>6. /\ Len(a) \in Nat /\ Len(b) \in Nat /\ Len(b) >= 8
            /\ 0 \in Nat /\ 6 \in Nat /\ 0 <= 6 /\ 6 <= Len(a) /\ 6 + 1 < Len(a)
            /\ 8 \in Nat /\ 8 <= Len(a)
        BY <4>2, <4>4, LenProperties DEF CutOf
      <4>7. Pcap!PD!Bytes(a, 0, 6) = Pcap!PD!Bytes(b, 0, 6) /\ Pcap!PD!Be16(a, 6) = Pcap!PD!Be16(b, 6)
        BY <4>4, <4>6, BytesOfCut, Be16OfCut
      <4>8. Pcap!PD!CarriesIp(a)
        BY <3>2 DEF a
      <4>9. Pcap!PD!CarriesIp(b)
        BY <4>6, <4>7, <4>8 DEF Pcap!PD!CarriesIp
      <4>10. info(w) = Pcap!PD!ParseIp(Pcap!PD!From(b, 8))
        BY <4>9 DEF b
      <4>11. CutOf(Pcap!PD!From(a, 8), Pcap!PD!From(b, 8))
        BY <4>4, <4>6, FromOfCut
      <4>. QED
        BY <4>5, <4>10, <4>11, IpOfCut
    <3>. QED
      BY <3>1, <3>2
  <2>. HIDE DEF info
  <2>. QED
    BY <2>5, <2>6, <2>7, <2>9, ParsedForgets
<1>. QED
  BY <1>2, <1>3

LEMMA RadiotapOfCut ==
  ASSUME NEW d, NEW w, CutOf(d, w)
  PROVE  Forgets(Pcap!PD!ParseWifiRadiotap(d), Pcap!PD!ParseWifiRadiotap(w))
<1>1. Len(d) \in Nat /\ Len(w) \in Nat /\ Len(d) <= Len(w)
  BY LenProperties DEF CutOf
<1>. DEFINE at == Pcap!PD!Le16(d, 2)
            unread(x) == \/ Len(x) < 4 \/ Pcap!PD!Byte(x, 0) # 0
                         \/ Pcap!PD!Le16(x, 2) < 4 \/ Pcap!PD!Le16(x, 2) > Len(x)
<1>2. CASE unread(d)
  BY <1>2, NothingForgets DEF Pcap!PD!ParseWifiRadiotap
<1>3. CASE ~unread(d)
  <2>1. /\ 0 \in Nat /\ 2 \in Nat /\ 2 + 1 \in Nat
        /\ 0 < Len(d) /\ 2 < Len(d) /\ 2 + 1 < Len(d)
    BY <1>1, <1>3
  <2>2. Pcap!PD!Byte(d, 0) = Pcap!PD!Byte(w, 0)
    BY <2>1, ByteOfCut
  <2>3. Pcap!PD!Byte(d, 2) = Pcap!PD!Byte(w, 2) /\ Pcap!PD!Byte(d, 2) \in Octet
    BY <2>1, ByteOfCut
  <2>4. Pcap!PD!Byte(d, 2 + 1) = Pcap!PD!Byte(w, 2 + 1) /\ Pcap!PD!Byte(d, 2 + 1) \in Octet
    BY <2>1, ByteOfCut
  <2>5. at = Pcap!PD!Le16(w, 2) /\ at \in Nat
    BY <2>3, <2>4, OctetIs DEF Pcap!PD!Le16
  <2>. HIDE DEF at
  <2>6. Pcap!PD!Le16(d, 2) = at
    BY DEF at
  <2>7. ~unread(w)
    BY <1>1, <1>3, <2>2, <2>5, <2>6
  <2>8. /\ Pcap!PD!ParseWifiRadiotap(d) = Pcap!PD!Parse80211Frame(d, at)
        /\ Pcap!PD!ParseWifiRadiotap(w) = Pcap!PD!Parse80211Frame(w, at)
    BY <1>3, <2>5, <2>6, <2>7 DEF Pcap!PD!ParseWifiRadiotap
  <2>. QED
    BY <2>5, <2>8, FrameOfCut
<1>. QED
  BY <1>2, <1>3

LEMMA RecordOfCut ==
  ASSUME NEW d, NEW w, CutOf(d, w), NEW link
  PROVE  Forgets(Pcap!PD!FromPcapRecord(link, d), Pcap!PD!FromPcapRecord(link, w))
<1>1. CASE link = 1
  BY <1>1, EthernetOfCut DEF Pcap!PD!FromPcapRecord
<1>2. CASE link = 105
  <2>1. /\ Pcap!PD!FromPcapRecord(link, d) = Pcap!PD!Parse80211Frame(d, 0)
        /\ Pcap!PD!FromPcapRecord(link, w) = Pcap!PD!Parse80211Frame(w, 0)
        /\ 0 \in Nat
    BY <1>2 DEF Pcap!PD!FromPcapRecord
  <2>. QED
    BY <2>1, FrameOfCut
<1>3. CASE link = 127
  BY <1>3, RadiotapOfCut DEF Pcap!PD!FromPcapRecord
<1>4. CASE link \notin {1, 105, 127}
  <2>1. /\ Pcap!PD!FromPcapRecord(link, d) =
             Pcap!PD!Parsed(Absent, Absent, Absent, Pcap!PD!ParseIp(d), 0)
        /\ Pcap!PD!FromPcapRecord(link, w) =
             Pcap!PD!Parsed(Absent, Absent, Absent, Pcap!PD!ParseIp(w), 0)
    BY <1>4 DEF Pcap!PD!FromPcapRecord
  <2>. QED
    BY <2>1, IpOfCut, ParsedForgets
<1>. QED
  BY <1>1, <1>2, <1>3, <1>4

LEMMA CapturedIsCut ==
  ASSUME Recorded(records), NEW i \in DOMAIN records
  PROVE  CutOf(Pcap!Captured(records[i]), Pcap!Wire(records[i]))
<1>1. PICK record : record = records[i]
  OBVIOUS
<1>. DEFINE w == Pcap!Wire(record)
            d == Pcap!Captured(record)
            n == record.incl_len
<1>2. w \in Seq(Octet) /\ n \in 0..Len(w)
  BY <1>1 DEF Recorded
<1>3. /\ Len(d) = n /\ \A k \in 1..n : d[k] = w[k]
  BY <1>2, CapturedIs
<1>4. d \in Seq(Octet)
  <2>1. Len(w) \in Nat /\ n \in Nat /\ \A k \in 1..n : w[k] \in Octet
    BY <1>2, LenProperties, ElementOfSeq
  <2>2. d = SubSeq(w, 1, n)
    BY DEF Pcap!Captured
  <2>. HIDE DEF w, d, n
  <2>3. 1 \in 1..Len(w) + 1 /\ n \in 1 - 1..Len(w)
    BY <1>2, <2>1
  <2>. QED
    BY <1>2, <2>2, <2>3, SubSeqProperties
<1>5. Len(w) \in Nat
  BY <1>2, LenProperties
<1>. HIDE DEF w, d, n
<1>6. CutOf(d, w)
  BY <1>2, <1>3, <1>4, <1>5 DEF CutOf
<1>. QED
  BY <1>1, <1>6 DEF w, d

(* A frame cut by the snap length loses fields but invents none: what is   *)
(* read of it is what is read of the whole frame, or missing, or without   *)
(* its ports, for every frame, every cut and every link type.              *)
THEOREM ThmCutsOnlyForget == Spec => []CutsOnlyForget
<1>1. (format = "pcap" => ReadingRecords /\ Pcap!WholeRecords) => CutsOnlyForget
  <2>. SUFFICES ASSUME format = "pcap" => ReadingRecords /\ Pcap!WholeRecords, NEW i \in FramesRead
                PROVE  Forgets(packets[i].frame, Pcap!PD!FromPcapRecord(link_type, Pcap!Wire(records[i])))
    BY DEF CutsOnlyForget, Forgets
  <2>1. /\ format = "pcap" /\ i \in DOMAIN packets /\ ReadingRecords /\ Pcap!WholeRecords
    BY DEF FramesRead
  <2>2. Recorded(records) /\ i \in DOMAIN records
    BY <2>1 DEF ReadingRecords, Pcap!WholeRecords
  <2>3. CutOf(Pcap!Captured(records[i]), Pcap!Wire(records[i]))
    BY <2>2, CapturedIsCut
  <2>4. packets[i].frame = Pcap!PD!FromPcapRecord(link_type, Pcap!Captured(records[i]))
    BY <2>1 DEF ReadingRecords
  <2>. QED
    BY <2>3, <2>4, RecordOfCut
<1>. QED
  BY <1>1, RecordsInvariant, PTL
-----------------------------------------------------------------------------
(* Dissection against encapsulation: what a captured frame shows. Parts of a*)
(* frame are found at a place of it, and a cut frame shows those that are  *)
(* short enough (packet.rs reads a slice, Encapsulation builds the frame). *)

(* What is known of a part by its length. *)
IsLong(s, n) == n \in Nat /\ IsSequence(s) /\ Len(s) = n

(* All that s has, t has at the same place. *)
Begins(s, t) == \A at, cells : IsSequence(cells) /\ HasAt(s, at, cells) => HasAt(t, at, cells)

LEMMA More ==
  ASSUME NEW s, NEW n, IsLong(s, n), NEW cells, NEW m, IsLong(cells, m),
         NEW k, k = n + m
  PROVE  /\ IsLong(s \o cells, k) /\ Begins(s, s \o cells)
         /\ HasAt(s \o cells, 0, s) /\ HasAt(s \o cells, n, cells)
<1>1. IsSequence(s) /\ IsSequence(cells) /\ Len(s) = n /\ Len(cells) = m /\ n \in Nat /\ m \in Nat
  BY DEF IsLong
<1>2. /\ IsSequence(s \o cells) /\ Len(s \o cells) = n + m
      /\ \A i \in 1..n : (s \o cells)[i] = s[i]
  BY <1>1, SequenceConcat
<1>3. HasAt(s \o cells, n, cells)
  BY <1>1, HasWhatIsAppended
<1>4. Begins(s, s \o cells)
  BY <1>1, StillHas DEF Begins
<1>. DEFINE u == s \o cells
<1>. HIDE DEF u
<1>5. \A i \in 1..n : u[0 + i] = s[i]
  <2>1. \A i \in 1..n : 0 + i = i
    BY <1>1
  <2>. QED
    BY <1>2, <2>1 DEF u
<1>6. HasAt(u, 0, s)
  BY <1>1, <1>2, <1>5 DEF HasAt, u
<1>. QED
  BY <1>1, <1>2, <1>3, <1>4, <1>6 DEF IsLong, u

LEMMA HasPart ==
  ASSUME NEW s, NEW m, IsLong(s, m), NEW at, NEW t, NEW n, IsLong(t, n), HasAt(s, at, t),
         NEW from, NEW cells, IsSequence(cells), HasAt(t, from, cells)
  PROVE  HasAt(s, at + from, cells)
BY HasAtWithin DEF IsLong

(* The bytes of a frame show what the sender put at a place, as far as     *)
(* they go.                                                                *)
Shows(d, at, cells) ==
  at \in Nat /\ \A i \in 1..Len(cells) : at + i <= Len(d) => d[at + i] = cells[i]

LEMMA CutShows ==
  ASSUME NEW d, NEW w, CutOf(d, w), NEW at, NEW cells, IsSequence(cells), HasAt(w, at, cells)
  PROVE  Shows(d, at, cells)
<1>1. /\ at \in Nat /\ Len(d) \in Nat /\ Len(cells) \in Nat
  BY LenProperties DEF HasAt, IsSequence, CutOf
<1>2. \A i \in 1..Len(cells) : at + i <= Len(d) => at + i \in 1..Len(d)
  BY <1>1
<1>. QED
  BY <1>1, <1>2 DEF HasAt, CutOf, Shows

LEMMA PartShows ==
  ASSUME NEW d, NEW at, NEW t, IsSequence(t), Shows(d, at, t),
         NEW from, NEW cells, IsSequence(cells), HasAt(t, from, cells)
  PROVE  Shows(d, at + from, cells)
<1>1. at \in Nat /\ from \in Nat /\ Len(t) \in Nat /\ Len(cells) \in Nat
  BY DEF HasAt, IsSequence, Shows
<1>2. \A i \in 1..Len(cells) : /\ from + i \in 1..Len(t) /\ (at + from) + i = at + (from + i)
                               /\ t[from + i] = cells[i]
  BY <1>1 DEF HasAt
<1>. QED
  BY <1>1, <1>2 DEF Shows

LEMMA FromShows ==
  ASSUME NEW d, d \in Seq(Octet), NEW o, o \in Nat, o <= Len(d), NEW at, at \in Nat,
         NEW cells, IsSequence(cells), Shows(d, o + at, cells)
  PROVE  Shows(Pcap!PD!From(d, o), at, cells)
<1>. DEFINE t == Pcap!PD!From(d, o)
<1>1. Len(t) = Len(d) - o /\ Len(d) \in Nat /\ \A i \in 1..Len(d) - o : t[i] = d[o + i]
  BY FromIs, LenProperties
<1>. HIDE DEF t
<1>2. \A i \in 1..Len(cells) : at + i <= Len(t) => t[at + i] = cells[i]
  <2>. SUFFICES ASSUME NEW i \in 1..Len(cells), at + i <= Len(t)
                PROVE  t[at + i] = cells[i]
    OBVIOUS
  <2>1. Len(cells) \in Nat /\ at + i \in 1..Len(d) - o /\ o + (at + i) = (o + at) + i
        /\ (o + at) + i <= Len(d)
    BY <1>1 DEF IsSequence
  <2>2. t[at + i] = d[o + (at + i)]
    BY <1>1, <2>1
  <2>. QED
    BY <2>1, <2>2 DEF Shows
<1>. QED
  BY <1>2 DEF Shows, t

LEMMA ByteShown ==
  ASSUME NEW d, d \in Seq(Octet), NEW at, NEW cells, IsSequence(cells), Shows(d, at, cells),
         NEW k, k \in Nat, at <= k, k < at + Len(cells), k < Len(d)
  PROVE  Pcap!PD!Byte(d, k) = cells[k - at + 1]
<1>1. /\ at \in Nat /\ Len(d) \in Nat /\ Len(cells) \in Nat /\ k - at + 1 \in 1..Len(cells)
      /\ at + (k - at + 1) <= Len(d) /\ at + (k - at + 1) = k + 1
  BY LenProperties DEF Shows, IsSequence
<1>2. d[at + (k - at + 1)] = cells[k - at + 1]
  BY <1>1 DEF Shows
<1>. QED
  BY <1>1, <1>2 DEF Pcap!PD!Byte

LEMMA BytesShown ==
  ASSUME NEW d, d \in Seq(Octet), NEW at, NEW cells, NEW n, IsLong(cells, n), Shows(d, at, cells),
         at + n <= Len(d)
  PROVE  Pcap!PD!Bytes(d, at, at + n) = cells
<1>1. /\ IsSequence(d) /\ IsSequence(cells) /\ Len(cells) = n /\ n \in Nat /\ at \in Nat
      /\ Len(d) \in Nat
  BY SeqIsSequence, LenProperties DEF IsLong, Shows
<1>2. \A i \in 1..n : at + i <= Len(d)
  BY <1>1
<1>3. HasAt(d, at, cells)
  BY <1>1, <1>2 DEF HasAt, Shows
<1>4. SubSeq(d, at + 1, at + Len(cells)) = cells
  BY <1>1, <1>3, SliceOfWhatItHas
<1>. QED
  BY <1>1, <1>4 DEF Pcap!PD!Bytes

LEMMA InBe16Is ==
  ASSUME NEW n
  PROVE  /\ IsLong(Enc!InBe16(n), 2)
         /\ Enc!InBe16(n)[1] = n \div 256 /\ Enc!InBe16(n)[2] = n % 256
BY DEF Enc!InBe16, IsSequence, IsLong

LEMMA Be16Shown ==
  ASSUME NEW d, d \in Seq(Octet), NEW at, NEW n, n \in Nat, Shows(d, at, Enc!InBe16(n)),
         at + 2 <= Len(d)
  PROVE  Pcap!PD!Be16(d, at) = n
<1>. DEFINE cells == Enc!InBe16(n)
            q == n \div 256
            r == n % 256
<1>1. IsSequence(cells) /\ Len(cells) = 2 /\ cells[1] = q /\ cells[2] = r
  BY InBe16Is DEF IsLong
<1>2. Shows(d, at, cells) /\ at \in Nat /\ Len(d) \in Nat
  BY LenProperties DEF Shows
<1>3. q \in Nat /\ r \in 0..255 /\ n = 256 * q + r
  BY DivMod
<1>. HIDE DEF cells, q, r
<1>4. /\ 1 \in 1..Len(cells) /\ at + 1 <= Len(d)
      /\ 2 \in 1..Len(cells) /\ at + 2 <= Len(d) /\ (at + 1) + 1 = at + 2
  BY <1>1, <1>2
<1>5. d[at + 1] = cells[1] /\ d[at + 2] = cells[2]
  BY <1>2, <1>4 DEF Shows
<1>7. Pcap!PD!Byte(d, at) = q /\ Pcap!PD!Byte(d, at + 1) = r
  BY <1>1, <1>4, <1>5 DEF Pcap!PD!Byte
<1>. QED
  BY <1>3, <1>7 DEF Pcap!PD!Be16

LEMMA FillIs ==
  ASSUME NEW n \in Nat
  PROVE  /\ IsLong(Enc!Fill(n), n)
         /\ \A i \in 1..n : Enc!Fill(n)[i] = 7
<1>. DEFINE f == [i \in 1..n |-> 7]
<1>1. Enc!Fill(n) = f
  BY DEF Enc!Fill, Enc!Filler
<1>2. f = [i \in 1..n |-> f[i]] /\ \A i \in 1..n : f[i] = 7
  OBVIOUS
<1>. HIDE DEF f
<1>. QED
  BY <1>1, <1>2, SequenceByValue DEF IsLong

LEMMA PayloadIs ==
  ASSUME NEW sent, sent.payload \in Nat
  PROVE  IsLong(Enc!Payload(sent), sent.payload)
<1>. DEFINE f == [i \in 1..sent.payload |-> 99]
<1>1. Enc!Payload(sent) = f
  BY DEF Enc!Payload, Enc!PayloadByte
<1>2. f = [i \in 1..sent.payload |-> f[i]]
  OBVIOUS
<1>. HIDE DEF f
<1>. QED
  BY <1>1, <1>2, SequenceByValue DEF IsLong

LEMMA OneIs == \A x : IsLong(<<x>>, 1) /\ <<x>>[1] = x
BY DEF IsSequence, IsLong

-----------------------------------------------------------------------------
(* The segment: what a station sends over TCP or UDP, and what the dissection*)
(* of the transport header (parse_transport) finds of it.                  *)

LEMMA SendableIs ==
  ASSUME NEW sent, Sendable(sent)
  PROVE  /\ sent.words \in 0..10 /\ sent.tcp_words \in 0..10 /\ sent.payload \in Nat
         /\ sent.src_port \in Nat /\ sent.dst_port \in Nat /\ sent.padding \in Nat
         /\ sent.protocol \in Octet /\ sent.src \in Seq(Octet) /\ sent.dst \in Seq(Octet)
         /\ sent.tcp_words \in Nat /\ sent.words \in Nat
<1>1. sent.tcp_words \in 0..10 /\ sent.payload \in Nat /\ sent.src_port \in Nat /\ sent.dst_port \in Nat
  BY DEF Sendable, SendableSegment
<1>2. /\ sent.words \in 0..10 /\ sent.protocol \in Octet
      /\ sent.src \in Seq(Octet) /\ sent.dst \in Seq(Octet)
  BY DEF Sendable, SendableDatagram
<1>3. sent.padding \in Nat
  BY DEF Sendable, SendableOver
<1>4. sent.tcp_words \in Nat /\ sent.words \in Nat
  BY <1>1, <1>2
<1>. QED
  BY <1>1, <1>2, <1>3, <1>4

(* The length of the transport header. *)
TransportLen(sent) == IF sent.protocol = 6 THEN 20 + 4 * sent.tcp_words ELSE 8

TcpFlags(sent) == <<16 * (5 + sent.tcp_words)>>

LEMMA TcpHeaderIs ==
  ASSUME NEW sent, sent.tcp_words \in Nat
  PROVE  /\ IsLong(Enc!TcpHeader(sent), 20 + 4 * sent.tcp_words)
         /\ HasAt(Enc!TcpHeader(sent), 0, Enc!InBe16(sent.src_port))
         /\ HasAt(Enc!TcpHeader(sent), 2, Enc!InBe16(sent.dst_port))
         /\ HasAt(Enc!TcpHeader(sent), 12, TcpFlags(sent))
<1>. DEFINE a == Enc!InBe16(sent.src_port)
            b == Enc!InBe16(sent.dst_port)
            c == Enc!Fill(8)
            e == TcpFlags(sent)
            n == 7 + 4 * sent.tcp_words
            f == Enc!Fill(n)
            p2 == a \o b
            p3 == p2 \o c
            p4 == p3 \o e
            p5 == p4 \o f
<1>1. IsLong(a, 2) /\ IsLong(b, 2) /\ IsLong(c, 8) /\ IsLong(e, 1) /\ IsLong(f, n)
  BY InBe16Is, FillIs, OneIs DEF TcpFlags
<1>2. Enc!TcpHeader(sent) = p5
  BY DEF Enc!TcpHeader, TcpFlags
<1>3. n \in Nat /\ 13 + n = 20 + 4 * sent.tcp_words /\ IsSequence(a) /\ IsSequence(b) /\ IsSequence(e)
  BY <1>1 DEF IsLong
<1>. HIDE DEF a, b, c, e, f, n
<1>4. IsLong(p2, 4) /\ HasAt(p2, 0, a) /\ HasAt(p2, 2, b)
  <2>1. IsLong(a, 2) /\ IsLong(b, 2) /\ 4 = 2 + 2
    BY <1>1
  <2>. QED
    BY <2>1, More, Zenon
<1>. HIDE DEF p2
<1>5. IsLong(p3, 12) /\ Begins(p2, p3)
  <2>1. IsLong(p2, 4) /\ IsLong(c, 8) /\ 12 = 4 + 8
    BY <1>1, <1>4
  <2>. QED
    BY <2>1, More, Zenon
<1>. HIDE DEF p3
<1>6. IsLong(p4, 13) /\ Begins(p3, p4) /\ HasAt(p4, 12, e)
  <2>1. IsLong(p3, 12) /\ IsLong(e, 1) /\ 13 = 12 + 1
    BY <1>1, <1>5
  <2>. QED
    BY <2>1, More, Zenon
<1>. HIDE DEF p4
<1>7. IsLong(p5, 13 + n) /\ Begins(p4, p5)
  <2>1. IsLong(p4, 13) /\ IsLong(f, n) /\ 13 + n = 13 + n
    BY <1>1, <1>6
  <2>. QED
    BY <2>1, More, Zenon
<1>. HIDE DEF p5
<1>8. HasAt(p5, 0, a) /\ HasAt(p5, 2, b) /\ HasAt(p5, 12, e)
  BY <1>3, <1>4, <1>5, <1>6, <1>7 DEF Begins
<1>. QED
  BY <1>2, <1>3, <1>7, <1>8 DEF a, b, e

LEMMA UdpHeaderIs ==
  ASSUME NEW sent, NEW u, u = Enc!InBe16(sent.src_port) \o Enc!InBe16(sent.dst_port) \o Enc!Fill(4)
  PROVE  /\ IsLong(u, 8)
         /\ HasAt(u, 0, Enc!InBe16(sent.src_port))
         /\ HasAt(u, 2, Enc!InBe16(sent.dst_port))
<1>. DEFINE a == Enc!InBe16(sent.src_port)
            b == Enc!InBe16(sent.dst_port)
            c == Enc!Fill(4)
            p2 == a \o b
            p3 == p2 \o c
<1>1. IsLong(a, 2) /\ IsLong(b, 2) /\ IsLong(c, 4) /\ u = p3
  BY InBe16Is, FillIs
<1>3. IsSequence(a) /\ IsSequence(b)
  BY <1>1 DEF IsLong
<1>. HIDE DEF a, b, c
<1>4. IsLong(p2, 4) /\ HasAt(p2, 0, a) /\ HasAt(p2, 2, b)
  <2>1. IsLong(a, 2) /\ IsLong(b, 2) /\ 4 = 2 + 2
    BY <1>1
  <2>. QED
    BY <2>1, More, Zenon
<1>. HIDE DEF p2
<1>5. IsLong(p3, 8) /\ Begins(p2, p3)
  <2>1. IsLong(p2, 4) /\ IsLong(c, 4) /\ 8 = 4 + 4
    BY <1>1, <1>4
  <2>. QED
    BY <2>1, More, Zenon
<1>. HIDE DEF p3
<1>6. HasAt(p3, 0, a) /\ HasAt(p3, 2, b)
  BY <1>3, <1>4, <1>5 DEF Begins
<1>. QED
  BY <1>1, <1>5, <1>6 DEF a, b

(* Where the segment has what the dissection reads of it.                  *)
HasSegment(segment, sent) ==
  /\ IsLong(segment, TransportLen(sent) + sent.payload)
  /\ HasAt(segment, TransportLen(sent), Enc!Payload(sent))
  /\ HasPorts(sent) => /\ HasAt(segment, 0, Enc!InBe16(sent.src_port))
                       /\ HasAt(segment, 2, Enc!InBe16(sent.dst_port))
  /\ sent.protocol = 6 => HasAt(segment, 12, TcpFlags(sent))

LEMMA SegmentIs ==
  ASSUME NEW sent, Sendable(sent)
  PROVE  /\ TransportLen(sent) \in Nat /\ TransportLen(sent) >= 8
         /\ HasSegment(Enc!Segment(sent), sent)
<1>. DEFINE a == Enc!InBe16(sent.src_port)
            b == Enc!InBe16(sent.dst_port)
            e == TcpFlags(sent)
            n == TransportLen(sent)
            l == Enc!Payload(sent)
            header == CASE sent.protocol = 6  -> Enc!TcpHeader(sent)
                        [] sent.protocol = 17 -> a \o b \o Enc!Fill(4)
                        [] OTHER -> Enc!Fill(8)
            u == header \o l
<1>1. /\ sent.tcp_words \in Nat /\ sent.payload \in Nat /\ n \in Nat /\ n >= 8
      /\ sent.protocol = 6 => n = 20 + 4 * sent.tcp_words
      /\ sent.protocol # 6 => n = 8
  BY SendableIs DEF TransportLen
<1>2. Enc!Segment(sent) = u
  BY DEF Enc!Segment
<1>3. IsLong(l, sent.payload) /\ IsLong(a, 2) /\ IsLong(b, 2) /\ IsLong(e, 1)
  BY <1>1, PayloadIs, InBe16Is, OneIs DEF TcpFlags
<1>. HIDE DEF n, l
<1>4. /\ IsLong(header, n)
      /\ sent.protocol \in {6, 17} => HasAt(header, 0, a) /\ HasAt(header, 2, b)
      /\ sent.protocol = 6 => HasAt(header, 12, e)
  <2>1. CASE sent.protocol = 6
    <3>1. header = Enc!TcpHeader(sent) /\ n = 20 + 4 * sent.tcp_words
      BY <1>1, <2>1
    <3>2. /\ IsLong(Enc!TcpHeader(sent), 20 + 4 * sent.tcp_words)
          /\ HasAt(Enc!TcpHeader(sent), 0, a) /\ HasAt(Enc!TcpHeader(sent), 2, b)
          /\ HasAt(Enc!TcpHeader(sent), 12, e)
      BY <1>1, TcpHeaderIs
    <3>. HIDE DEF header, a, b, e
    <3>. QED
      BY <3>1, <3>2
  <2>2. CASE sent.protocol = 17
    <3>1. header = a \o b \o Enc!Fill(4) /\ n = 8
      BY <1>1, <2>2
    <3>2. PICK v : v = header
      OBVIOUS
    <3>3. IsLong(v, 8) /\ HasAt(v, 0, a) /\ HasAt(v, 2, b)
      BY <3>1, <3>2, UdpHeaderIs, Zenon
    <3>. QED
      BY <2>2, <3>1, <3>2, <3>3
  <2>3. CASE sent.protocol \notin {6, 17}
    BY <1>1, <2>3, FillIs
  <2>. QED
    BY <2>1, <2>2, <2>3
<1>. HIDE DEF header
<1>5. IsLong(u, n + sent.payload) /\ Begins(header, u) /\ HasAt(u, n, l)
  <2>1. IsLong(header, n) /\ IsLong(l, sent.payload) /\ n + sent.payload = n + sent.payload
    BY <1>3, <1>4
  <2>. QED
    BY <2>1, More, Zenon
<1>. HIDE DEF u, a, b, e
<1>6. /\ sent.protocol \in {6, 17} => HasAt(u, 0, a) /\ HasAt(u, 2, b)
      /\ sent.protocol = 6 => HasAt(u, 12, e)
  <2>1. IsSequence(a) /\ IsSequence(b) /\ IsSequence(e)
    BY <1>3 DEF IsLong
  <2>. QED
    BY <1>4, <1>5, <2>1 DEF Begins
<1>. QED
  BY <1>1, <1>2, <1>5, <1>6 DEF HasSegment, HasPorts, a, b, e, n, l
-----------------------------------------------------------------------------
(* What the dissection finds of a segment that begins at a place of the n  *)
(* bytes: the addresses and ports, and the payload, which is cut if the    *)
(* bytes are.                                                              *)
FoundPayload(l7_offset, sent, at, n) ==
  HasPorts(sent) =>
    IF n < at + TransportLen(sent) THEN l7_offset \in {Absent, n}
    ELSE l7_offset = at + TransportLen(sent)

LEMMA TransportFound ==
  ASSUME NEW sent, Sendable(sent), NEW d, d \in Seq(Octet), NEW at,
         Shows(d, at, Enc!Segment(sent)), Len(d) >= at + 4, NEW icmp
  PROVE  LET l4 == Pcap!PD!Transport(d, sent.protocol, icmp, at)
         IN /\ l4.src_port = IF HasPorts(sent) THEN sent.src_port ELSE 0
            /\ l4.dst_port = IF HasPorts(sent) THEN sent.dst_port ELSE 0
            /\ FoundPayload(l4.l7_offset, sent, at, Len(d))
<1>. DEFINE segment == Enc!Segment(sent)
            n == Len(d)
            t == TransportLen(sent)
<1>1. /\ HasSegment(segment, sent) /\ IsSequence(segment) /\ n \in Nat /\ at \in Nat
      /\ sent.src_port \in Nat /\ sent.dst_port \in Nat /\ sent.tcp_words \in 0..10
      /\ sent.payload \in Nat /\ t \in Nat /\ t >= 8
  <2>1. HasSegment(segment, sent) /\ t \in Nat /\ t >= 8
    BY SegmentIs
  <2>2. at \in Nat /\ n \in Nat
    BY LenProperties DEF Shows
  <2>3. IsSequence(segment)
    BY <2>1 DEF HasSegment, IsLong
  <2>. QED
    BY <2>1, <2>2, <2>3, SendableIs
<1>. HIDE DEF segment
<1>2. CASE ~HasPorts(sent)
  BY <1>2 DEF Pcap!PD!Transport, Pcap!PD!NoPorts, HasPorts, Pcap!PD!Tcp, Pcap!PD!Udp, FoundPayload
<1>3. CASE HasPorts(sent)
  <2>1. Shows(d, at + 0, Enc!InBe16(sent.src_port)) /\ Shows(d, at + 2, Enc!InBe16(sent.dst_port))
    BY <1>1, <1>3, InBe16Is, PartShows DEF HasSegment, IsLong, segment
  <2>2. at + 0 = at /\ at + 2 <= n /\ (at + 2) + 2 <= n
    BY <1>1
  <2>3. Pcap!PD!Be16(d, at) = sent.src_port
    BY <1>1, <2>1, <2>2, Be16Shown
  <2>4. Pcap!PD!Be16(d, at + 2) = sent.dst_port
    BY <1>1, <2>1, <2>2, Be16Shown
  <2>5. Pcap!PD!Transport(d, sent.protocol, icmp, at) =
          [src_port |-> sent.src_port, dst_port |-> sent.dst_port,
           l7_offset |-> Pcap!PD!L7Offset(d, sent.protocol, at)]
    BY <1>3, <2>3, <2>4 DEF Pcap!PD!Transport, HasPorts, Pcap!PD!Tcp, Pcap!PD!Udp
  <2>6. FoundPayload(Pcap!PD!L7Offset(d, sent.protocol, at), sent, at, n)
    <3>1. CASE sent.protocol = 17
      <4>1. t = 8
        BY <3>1 DEF TransportLen
      <4>. QED
        BY <1>1, <3>1, <4>1 DEF Pcap!PD!L7Offset, Pcap!PD!Udp, Pcap!PD!Clipped, FoundPayload
    <3>2. CASE sent.protocol = 6 /\ n < at + 20
      <4>1. t >= 20
        <5>1. t = 20 + 4 * sent.tcp_words
          BY <3>2 DEF TransportLen
        <5>2. sent.tcp_words \in Nat
          BY <1>1
        <5>. HIDE DEF t
        <5>. QED
          BY <5>1, <5>2
      <4>2. Pcap!PD!L7Offset(d, sent.protocol, at) = Absent
        BY <1>1, <3>2 DEF Pcap!PD!L7Offset, Pcap!PD!Udp
      <4>3. n < at + t
        BY <1>1, <3>2, <4>1
      <4>. QED
        BY <4>2, <4>3 DEF FoundPayload
    <3>3. CASE sent.protocol = 6 /\ n >= at + 20
      <4>1. t = 4 * (5 + sent.tcp_words)
        <5>1. t = 20 + 4 * sent.tcp_words
          BY <3>3 DEF TransportLen
        <5>2. sent.tcp_words \in Nat
          BY <1>1
        <5>. HIDE DEF t
        <5>. QED
          BY <5>1, <5>2
      <4>2. Shows(d, at + 12, TcpFlags(sent))
        BY <1>1, <3>3, OneIs, PartShows DEF HasSegment, IsLong, segment, TcpFlags
      <4>3. /\ IsSequence(TcpFlags(sent)) /\ Len(TcpFlags(sent)) = 1
            /\ TcpFlags(sent)[1] = 16 * (5 + sent.tcp_words)
        BY OneIs DEF TcpFlags, IsLong
      <4>4. Pcap!PD!Byte(d, at + 12) = 16 * (5 + sent.tcp_words)
        <5>1. at + 12 \in Nat /\ (at + 12) - (at + 12) + 1 = 1 /\ at + 12 < n /\ at + 12 <= at + 12
              /\ at + 12 < (at + 12) + 1
          BY <1>1, <3>3
        <5>2. Pcap!PD!Byte(d, at + 12) = TcpFlags(sent)[(at + 12) - (at + 12) + 1]
          BY <4>2, <4>3, <5>1, ByteShown
        <5>. QED
          BY <4>3, <5>1, <5>2
      <4>5. (16 * (5 + sent.tcp_words)) \div 16 = 5 + sent.tcp_words
        <5>1. PICK m \in Nat : m = 5 + sent.tcp_words
          BY <1>1
        <5>2. (16 * m) \div 16 = m
          BY <5>1
        <5>. QED
          BY <5>1, <5>2
      <4>6. Pcap!PD!L7Offset(d, sent.protocol, at) = Pcap!PD!Clipped(at + t, d)
        BY <3>3, <4>1, <4>4, <4>5 DEF Pcap!PD!L7Offset, Pcap!PD!Udp
      <4>. QED
        BY <1>1, <4>6 DEF Pcap!PD!Clipped, FoundPayload
    <3>. QED
      BY <1>1, <1>3, <3>1, <3>2, <3>3 DEF HasPorts
  <2>. QED
    BY <1>3, <2>5, <2>6
<1>. QED
  BY <1>2, <1>3

-----------------------------------------------------------------------------
(* The datagram: IPv4 and IPv6 headers as they are sent, byte by byte.     *)

LEMMA SegmentIsLong ==
  ASSUME NEW sent, Sendable(sent)
  PROVE  IsLong(Enc!Segment(sent), TransportLen(sent) + sent.payload)
BY SegmentIs DEF HasSegment

LEMMA AddressIsLong ==
  ASSUME NEW a, a \in Seq(Octet), NEW n, Len(a) = n
  PROVE  IsLong(a, n)
BY SeqIsSequence, LenProperties DEF IsLong

LEMMA Ipv4Is ==
  ASSUME NEW sent, Sendable(sent), Enc!IsIpv4(sent)
  PROVE  LET dg == Enc!Ipv4(sent)
         IN /\ IsLong(dg, 20 + 4 * sent.words + (TransportLen(sent) + sent.payload))
            /\ HasAt(dg, 0, <<64 + 5 + sent.words>>) /\ HasAt(dg, 9, <<sent.protocol>>)
            /\ HasAt(dg, 12, sent.src) /\ HasAt(dg, 16, sent.dst)
            /\ HasAt(dg, 20 + 4 * sent.words, Enc!Segment(sent))
<1>. DEFINE m == 4 * sent.words
            s == TransportLen(sent) + sent.payload
            c1 == <<64 + 5 + sent.words>>
            c2 == Enc!Fill(8)
            c3 == <<sent.protocol>>
            c4 == Enc!Fill(2)
            c5 == sent.src
            c6 == sent.dst
            c7 == Enc!Fill(4 * sent.words)
            c8 == Enc!Segment(sent)
            p2 == c1 \o c2
            p3 == p2 \o c3
            p4 == p3 \o c4
            p5 == p4 \o c5
            p6 == p5 \o c6
            p7 == p6 \o c7
            p8 == p7 \o c8
<1>0. Enc!Ipv4(sent) = p8
  BY DEF Enc!Ipv4
<1>1. /\ IsLong(c1, 1) /\ IsLong(c2, 8) /\ IsLong(c3, 1) /\ IsLong(c4, 2)
      /\ IsLong(c5, 4) /\ IsLong(c6, 4) /\ IsLong(c7, m) /\ IsLong(c8, s)
      /\ m \in Nat /\ s \in Nat
  <2>1. IsLong(c1, 1) /\ IsLong(c3, 1)
    BY OneIs
  <2>2. m \in Nat
    BY SendableIs
  <2>3. IsLong(c2, 8) /\ IsLong(c4, 2) /\ IsLong(c7, m)
    BY <2>2, FillIs
  <2>4. IsLong(c5, 4) /\ IsLong(c6, 4)
    BY AddressIsLong DEF Enc!IsIpv4, Sendable, SendableDatagram
  <2>5. IsLong(c8, s) /\ s \in Nat
    BY SegmentIsLong DEF IsLong
  <2>. QED
    BY <2>1, <2>2, <2>3, <2>4, <2>5
<1>. HIDE DEF c1, c2, c3, c4, c5, c6, c7, c8, m, s
<1>2. /\ IsLong(p2, 9) /\ Begins(c1, p2) /\ HasAt(p2, 0, c1)
      /\ HasAt(p2, 1, c2)
  <2>1. IsLong(c1, 1) /\ IsLong(c2, 8) /\ 9 = 1 + 8
    BY <1>1
  <2>. QED
    BY <2>1, More, Zenon
<1>. HIDE DEF p2
<1>3. /\ IsLong(p3, 10) /\ Begins(p2, p3) /\ HasAt(p3, 0, p2)
      /\ HasAt(p3, 9, c3)
  <2>1. IsLong(p2, 9) /\ IsLong(c3, 1) /\ 10 = 9 + 1
    BY <1>1, <1>2
  <2>. QED
    BY <2>1, More, Zenon
<1>. HIDE DEF p3
<1>4. /\ IsLong(p4, 12) /\ Begins(p3, p4) /\ HasAt(p4, 0, p3)
      /\ HasAt(p4, 10, c4)
  <2>1. IsLong(p3, 10) /\ IsLong(c4, 2) /\ 12 = 10 + 2
    BY <1>1, <1>3
  <2>. QED
    BY <2>1, More, Zenon
<1>. HIDE DEF p4
<1>5. /\ IsLong(p5, 16) /\ Begins(p4, p5) /\ HasAt(p5, 0, p4)
      /\ HasAt(p5, 12, c5)
  <2>1. IsLong(p4, 12) /\ IsLong(c5, 4) /\ 16 = 12 + 4
    BY <1>1, <1>4
  <2>. QED
    BY <2>1, More, Zenon
<1>. HIDE DEF p5
<1>6. /\ IsLong(p6, 20) /\ Begins(p5, p6) /\ HasAt(p6, 0, p5)
      /\ HasAt(p6, 16, c6)
  <2>1. IsLong(p5, 16) /\ IsLong(c6, 4) /\ 20 = 16 + 4
    BY <1>1, <1>5
  <2>. QED
    BY <2>1, More, Zenon
<1>. HIDE DEF p6
<1>7. /\ IsLong(p7, 20 + m) /\ Begins(p6, p7) /\ HasAt(p7, 0, p6)
      /\ HasAt(p7, 20, c7)
  <2>1. IsLong(p6, 20) /\ IsLong(c7, m) /\ 20 + m = 20 + m
    BY <1>1, <1>6
  <2>. QED
    BY <2>1, More, Zenon
<1>. HIDE DEF p7
<1>8. /\ IsLong(p8, 20 + m + s) /\ Begins(p7, p8) /\ HasAt(p8, 0, p7)
      /\ HasAt(p8, 20 + m, c8)
  <2>1. IsLong(p7, 20 + m) /\ IsLong(c8, s) /\ 20 + m + s = 20 + m + s
    BY <1>1, <1>7
  <2>. QED
    BY <2>1, More, Zenon
<1>. HIDE DEF p8
<1>9. IsSequence(c1) /\ IsSequence(c3) /\ IsSequence(c5) /\ IsSequence(c6)
  BY <1>1 DEF IsLong
<1>10. HasAt(p8, 9, c3)
  BY <1>3, <1>4, <1>5, <1>6, <1>7, <1>8, <1>9 DEF Begins
<1>11. HasAt(p8, 12, c5) /\ HasAt(p8, 16, c6)
  BY <1>5, <1>6, <1>7, <1>8, <1>9 DEF Begins
<1>12. HasAt(p8, 0, c1)
  BY <1>2, <1>3, <1>4, <1>5, <1>6, <1>7, <1>8, <1>9 DEF Begins
<1>. QED
  BY <1>0, <1>8, <1>10, <1>11, <1>12 DEF c1, c3, c5, c6, c8, m, s

(* The extension headers, and how far they reach. *)
ExtHeader(sent, i) ==
  <<Enc!NextHeader(sent, i), sent.chain[i][2]>> \o Enc!Fill(6 + 8 * sent.chain[i][2])

ExtHeaders(sent) == Enc!FlattenSeq([i \in DOMAIN sent.chain |-> ExtHeader(sent, i)])

(* o says where the extension headers end, each of them. *)
ExtEnds(sent, o) ==
  /\ \A i \in 0..Len(sent.chain) : o[i] \in Nat
  /\ o[0] = 0
  /\ \A i \in 1..Len(sent.chain) :
       /\ o[i] = o[i - 1] + 8 * (sent.chain[i][2] + 1)
       /\ HasAt(ExtHeaders(sent), o[i - 1], <<Enc!NextHeader(sent, i), sent.chain[i][2]>>)
  /\ IsLong(ExtHeaders(sent), o[Len(sent.chain)])

LEMMA Ipv6Is ==
  ASSUME NEW sent, Sendable(sent), ~Enc!IsIpv4(sent), NEW m, IsLong(ExtHeaders(sent), m)
  PROVE  LET dg == Enc!Ipv6(sent)
         IN /\ IsLong(dg, 40 + m + (TransportLen(sent) + sent.payload))
            /\ HasAt(dg, 0, <<96>>) /\ HasAt(dg, 6, <<Enc!NextHeader(sent, 0)>>)
            /\ HasAt(dg, 8, sent.src) /\ HasAt(dg, 24, sent.dst)
            /\ HasAt(dg, 40, ExtHeaders(sent)) /\ HasAt(dg, 40 + m, Enc!Segment(sent))
<1>. DEFINE s == TransportLen(sent) + sent.payload
            c1 == <<96>>
            c2 == Enc!Fill(5)
            c3 == <<Enc!NextHeader(sent, 0)>>
            c4 == Enc!Fill(1)
            c5 == sent.src
            c6 == sent.dst
            c7 == ExtHeaders(sent)
            c8 == Enc!Segment(sent)
            p2 == c1 \o c2
            p3 == p2 \o c3
            p4 == p3 \o c4
            p5 == p4 \o c5
            p6 == p5 \o c6
            p7 == p6 \o c7
            p8 == p7 \o c8
<1>0. Enc!Ipv6(sent) = p8
  BY DEF Enc!Ipv6, ExtHeaders, ExtHeader
<1>1. /\ IsLong(c1, 1) /\ IsLong(c2, 5) /\ IsLong(c3, 1) /\ IsLong(c4, 1)
      /\ IsLong(c5, 16) /\ IsLong(c6, 16) /\ IsLong(c7, m) /\ IsLong(c8, s)
      /\ m \in Nat /\ s \in Nat
  <2>1. IsLong(c1, 1) /\ IsLong(c3, 1)
    BY OneIs
  <2>2. m \in Nat
    BY DEF IsLong
  <2>3. IsLong(c2, 5) /\ IsLong(c4, 1)
    BY <2>2, FillIs
  <2>4. IsLong(c5, 16) /\ IsLong(c6, 16)
    BY AddressIsLong DEF Enc!IsIpv4, Sendable, SendableDatagram
  <2>5. IsLong(c8, s) /\ s \in Nat
    BY SegmentIsLong DEF IsLong
  <2>. QED
    BY <2>1, <2>2, <2>3, <2>4, <2>5
<1>. HIDE DEF c1, c2, c3, c4, c5, c6, c7, c8, s
<1>2. /\ IsLong(p2, 6) /\ Begins(c1, p2) /\ HasAt(p2, 0, c1)
      /\ HasAt(p2, 1, c2)
  <2>1. IsLong(c1, 1) /\ IsLong(c2, 5) /\ 6 = 1 + 5
    BY <1>1
  <2>. QED
    BY <2>1, More, Zenon
<1>. HIDE DEF p2
<1>3. /\ IsLong(p3, 7) /\ Begins(p2, p3) /\ HasAt(p3, 0, p2)
      /\ HasAt(p3, 6, c3)
  <2>1. IsLong(p2, 6) /\ IsLong(c3, 1) /\ 7 = 6 + 1
    BY <1>1, <1>2
  <2>. QED
    BY <2>1, More, Zenon
<1>. HIDE DEF p3
<1>4. /\ IsLong(p4, 8) /\ Begins(p3, p4) /\ HasAt(p4, 0, p3)
      /\ HasAt(p4, 7, c4)
  <2>1. IsLong(p3, 7) /\ IsLong(c4, 1) /\ 8 = 7 + 1
    BY <1>1, <1>3
  <2>. QED
    BY <2>1, More, Zenon
<1>. HIDE DEF p4
<1>5. /\ IsLong(p5, 24) /\ Begins(p4, p5) /\ HasAt(p5, 0, p4)
      /\ HasAt(p5, 8, c5)
  <2>1. IsLong(p4, 8) /\ IsLong(c5, 16) /\ 24 = 8 + 16
    BY <1>1, <1>4
  <2>. QED
    BY <2>1, More, Zenon
<1>. HIDE DEF p5
<1>6. /\ IsLong(p6, 40) /\ Begins(p5, p6) /\ HasAt(p6, 0, p5)
      /\ HasAt(p6, 24, c6)
  <2>1. IsLong(p5, 24) /\ IsLong(c6, 16) /\ 40 = 24 + 16
    BY <1>1, <1>5
  <2>. QED
    BY <2>1, More, Zenon
<1>. HIDE DEF p6
<1>7. /\ IsLong(p7, 40 + m) /\ Begins(p6, p7) /\ HasAt(p7, 0, p6)
      /\ HasAt(p7, 40, c7)
  <2>1. IsLong(p6, 40) /\ IsLong(c7, m) /\ 40 + m = 40 + m
    BY <1>1, <1>6
  <2>. QED
    BY <2>1, More, Zenon
<1>. HIDE DEF p7
<1>8. /\ IsLong(p8, 40 + m + s) /\ Begins(p7, p8) /\ HasAt(p8, 0, p7)
      /\ HasAt(p8, 40 + m, c8)
  <2>1. IsLong(p7, 40 + m) /\ IsLong(c8, s) /\ 40 + m + s = 40 + m + s
    BY <1>1, <1>7
  <2>. QED
    BY <2>1, More, Zenon
<1>. HIDE DEF p8
<1>9. IsSequence(c1) /\ IsSequence(c3) /\ IsSequence(c5) /\ IsSequence(c6) /\ IsSequence(c7)
  BY <1>1 DEF IsLong
<1>10. HasAt(p8, 6, c3)
  BY <1>3, <1>4, <1>5, <1>6, <1>7, <1>8, <1>9 DEF Begins
<1>11. HasAt(p8, 8, c5) /\ HasAt(p8, 24, c6) /\ HasAt(p8, 40, c7)
  BY <1>5, <1>6, <1>7, <1>8, <1>9 DEF Begins
<1>12. HasAt(p8, 0, c1)
  BY <1>2, <1>3, <1>4, <1>5, <1>6, <1>7, <1>8, <1>9 DEF Begins
<1>. QED
  BY <1>0, <1>8, <1>10, <1>11, <1>12 DEF c1, c3, c5, c6, c7, c8, s

-----------------------------------------------------------------------------
(* Extension headers: where each of a chain begins and what it holds.      *)

(* Where the parts of a flattened sequence end. *)
LEMMA FlattenEnds ==
  ASSUME NEW n \in Nat, NEW parts, parts = [i \in 1..n |-> parts[i]],
         \A i \in 1..n : IsSequence(parts[i])
  PROVE  \E o : /\ \A i \in 0..n : o[i] \in Nat
                /\ o[0] = 0
                /\ \A i \in 1..n : /\ o[i] = o[i - 1] + Len(parts[i])
                                   /\ HasAt(FlattenSeq(parts), o[i - 1], parts[i])
                /\ IsLong(FlattenSeq(parts), o[n])
<1>. DEFINE Elements(i) == {parts[i][j] : j \in 1..Len(parts[i])}
            S == UNION {Elements(i) : i \in 1..n}
<1>1. ASSUME NEW i \in 1..n
      PROVE  parts[i] \in Seq(S)
  <2>. DEFINE s == parts[i]
  <2>1. s \in Seq(Elements(i)) /\ Len(s) \in Nat
    BY SequenceOfItsElements DEF IsSequence
  <2>2. Elements(i) \subseteq S
    OBVIOUS
  <2>. HIDE DEF s, Elements, S
  <2>3. s \in [1..Len(s) -> Elements(i)]
    BY <2>1, LenProperties
  <2>4. s \in [1..Len(s) -> S]
    BY <2>2, <2>3
  <2>5. s \in Seq(S)
    BY <2>1, <2>4, SeqDef
  <2>. QED
    BY <2>5 DEF s
<1>. HIDE DEF S
<1>2. PICK f \in [0..n -> Seq(S)] : Flattens(parts, n, f)
  BY <1>1, FlattenByParts
<1>. DEFINE o == [i \in 0..n |-> Len(f[i])]
<1>3. \A i \in 0..n : f[i] \in Seq(S)
  BY <1>2
<1>4. \A i \in 0..n : IsSequence(f[i]) /\ o[i] = Len(f[i]) /\ o[i] \in Nat
  BY <1>3, SeqIsSequence DEF IsSequence
<1>5. /\ f[0] = <<>> /\ 0 \in 0..n /\ n \in 0..n
      /\ \A i \in 0..n : f[i] = FlattenSeq([j \in 1..i |-> parts[j]])
      /\ \A i \in 0..n - 1 : f[i + 1] = f[i] \o parts[i + 1]
  <2>1. 0 \in 0..n /\ n \in 0..n
    OBVIOUS
  <2>2. f[0] = <<>> /\ \A m \in 0..n : f[m] = FlattenSeq([j \in 1..m |-> parts[j]])
    BY <1>2, Zenon DEF Flattens
  <2>3. \A m \in 0..n - 1 : f[m + 1] = f[m] \o parts[m + 1]
    BY <1>2, Zenon DEF Flattens
  <2>. QED
    BY <2>1, <2>2, <2>3, Zenon
<1>6. f[n] = FlattenSeq(parts)
  BY <1>5
<1>7. o[0] = 0 /\ IsLong(FlattenSeq(parts), o[n])
  BY <1>4, <1>5, <1>6 DEF IsLong
<1>8. ASSUME NEW i \in 1..n
      PROVE  o[i] = o[i - 1] + Len(parts[i]) /\ HasAt(FlattenSeq(parts), o[i - 1], parts[i])
  <2>1. i - 1 \in 0..n - 1 /\ i - 1 \in 0..n /\ i \in 0..n /\ (i - 1) + 1 = i
    OBVIOUS
  <2>2. f[i] = f[i - 1] \o parts[i] /\ f[i - 1] = FlattenSeq([j \in 1..i - 1 |-> parts[j]])
    BY <1>5, <2>1
  <2>3. o[i] = o[i - 1] + Len(parts[i])
    <3>1. IsSequence(f[i - 1]) /\ IsSequence(parts[i])
      BY <1>4, <2>1
    <3>2. Len(f[i]) = Len(f[i - 1]) + Len(parts[i])
      BY <2>2, <3>1, SequenceConcat
    <3>. QED
      BY <1>4, <2>1, <3>2
  <2>4. HasAt(FlattenSeq(parts), Len(f[i - 1]), parts[i])
    BY <1>1, <2>2, FlattenHasParts
  <2>. QED
    BY <1>4, <2>1, <2>3, <2>4
<1>. HIDE DEF o
<1>. QED
  BY <1>4, <1>7, <1>8

LEMMA ChainFields ==
  ASSUME NEW sent, Sendable(sent)
  PROVE  /\ IsSequence(sent.chain) /\ DOMAIN sent.chain = 1..Len(sent.chain) /\ Len(sent.chain) \in Nat
         /\ \A i \in 1..Len(sent.chain) :
              sent.chain[i][1] \in Pcap!PD!ExtensionHeaders /\ sent.chain[i][2] \in Octet
<1>. DEFINE S == Pcap!PD!ExtensionHeaders \X Octet
<1>1. sent.chain \in Seq(S)
  BY DEF Sendable, SendableDatagram
<1>2. \A x \in S : x[1] \in Pcap!PD!ExtensionHeaders /\ x[2] \in Octet
  OBVIOUS
<1>. HIDE DEF S
<1>3. \A i \in 1..Len(sent.chain) : sent.chain[i] \in S
  BY <1>1, ElementOfSeq
<1>. QED
  BY <1>1, <1>2, <1>3, SeqIsSequence DEF IsSequence

LEMMA ExtHeadersEnd ==
  ASSUME NEW sent, Sendable(sent)
  PROVE  \E o : ExtEnds(sent, o)
<1>. DEFINE n == Len(sent.chain)
            parts == [i \in DOMAIN sent.chain |-> ExtHeader(sent, i)]
            pair(i) == <<Enc!NextHeader(sent, i), sent.chain[i][2]>>
<1>1. n \in Nat /\ parts = [i \in 1..n |-> parts[i]] /\ \A i \in 1..n : parts[i] = ExtHeader(sent, i)
  BY ChainFields
<1>2. ASSUME NEW i \in 1..n
      PROVE  /\ IsLong(ExtHeader(sent, i), 8 * (sent.chain[i][2] + 1))
             /\ IsLong(pair(i), 2) /\ HasAt(ExtHeader(sent, i), 0, pair(i))
  <2>. DEFINE m == 6 + 8 * sent.chain[i][2]
              f == Enc!Fill(m)
              q == pair(i)
              k == 8 * (sent.chain[i][2] + 1)
  <2>1. sent.chain[i][2] \in Nat
    BY ChainFields, OctetIs
  <2>2. m \in Nat /\ k = 2 + m
    BY <2>1
  <2>3. IsLong(q, 2)
    BY DEF IsLong, IsSequence
  <2>4. ExtHeader(sent, i) = q \o f
    BY DEF ExtHeader
  <2>. HIDE DEF m, q, k
  <2>5. IsLong(f, m)
    BY <2>2, FillIs
  <2>. HIDE DEF f
  <2>6. IsLong(q \o f, k) /\ HasAt(q \o f, 0, q)
    <3>1. IsLong(q, 2) /\ IsLong(f, m) /\ k = 2 + m
      BY <2>2, <2>3, <2>5
    <3>. QED
      BY <3>1, More, Zenon
  <2>. QED
    BY <2>3, <2>4, <2>6 DEF k, q
<1>3. ExtHeaders(sent) = FlattenSeq(parts)
  BY DEF ExtHeaders, Enc!FlattenSeq, FlattenSeq
<1>. HIDE DEF parts, pair
<1>4. \A i \in 1..n : IsSequence(parts[i]) /\ Len(parts[i]) = 8 * (sent.chain[i][2] + 1)
  BY <1>1, <1>2 DEF IsLong
<1>5. PICK o : /\ \A i \in 0..n : o[i] \in Nat
               /\ o[0] = 0
               /\ \A i \in 1..n : /\ o[i] = o[i - 1] + Len(parts[i])
                                  /\ HasAt(FlattenSeq(parts), o[i - 1], parts[i])
               /\ IsLong(FlattenSeq(parts), o[n])
  BY <1>1, <1>4, FlattenEnds
<1>6. ASSUME NEW i \in 1..n
      PROVE  HasAt(FlattenSeq(parts), o[i - 1], pair(i))
  <2>. DEFINE flat == FlattenSeq(parts)
              at == o[i - 1]
  <2>1. at \in Nat
    BY <1>5
  <2>2. IsLong(flat, o[n]) /\ HasAt(flat, at, ExtHeader(sent, i))
    BY <1>1, <1>5
  <2>3. /\ IsLong(ExtHeader(sent, i), 8 * (sent.chain[i][2] + 1)) /\ HasAt(ExtHeader(sent, i), 0, pair(i))
        /\ IsSequence(pair(i))
    BY <1>2 DEF IsLong
  <2>. HIDE DEF flat, at
  <2>4. HasAt(flat, at + 0, pair(i))
    BY <2>2, <2>3, HasPart
  <2>5. at + 0 = at
    BY <2>1
  <2>. QED
    BY <2>4, <2>5 DEF flat, at
<1>7. ExtEnds(sent, o)
  BY <1>1, <1>3, <1>4, <1>5, <1>6 DEF ExtEnds, pair
<1>. QED
  BY <1>7

-----------------------------------------------------------------------------
(* IPv4: what parse_ip finds of a frame that is cut anywhere.              *)

(* Bytes that begin as w does, as far as they go. *)
Starts(d, w) == d \in Seq(Octet) /\ IsSequence(w) /\ Shows(d, 0, w)

LEMMA CutStarts ==
  ASSUME NEW d, NEW w, CutOf(d, w)
  PROVE  Starts(d, w)
<1>1. d \in Seq(Octet) /\ IsSequence(w) /\ Len(w) \in Nat
  BY SeqIsSequence, LenProperties DEF CutOf
<1>2. \A i \in 1..Len(w) : 0 + i = i
  BY <1>1
<1>3. HasAt(w, 0, w)
  BY <1>1, <1>2 DEF HasAt
<1>. QED
  BY <1>1, <1>3, CutShows DEF Starts

LEMMA StartShows ==
  ASSUME NEW d, NEW w, Starts(d, w), NEW k, NEW cells, IsSequence(cells), HasAt(w, k, cells)
  PROVE  Shows(d, k, cells) /\ k \in Nat
<1>1. Shows(d, 0 + k, cells)
  BY PartShows DEF Starts
<1>2. k \in Nat
  BY DEF HasAt
<1>3. 0 + k = k
  BY <1>2
<1>. QED
  BY <1>1, <1>2, <1>3

LEMMA StartByte ==
  ASSUME NEW d, NEW w, Starts(d, w), NEW k, NEW b, HasAt(w, k, <<b>>), k < Len(d)
  PROVE  Pcap!PD!Byte(d, k) = b
<1>1. IsSequence(<<b>>) /\ Len(<<b>>) = 1 /\ <<b>>[1] = b
  BY OneIs DEF IsLong
<1>2. Shows(d, k, <<b>>) /\ k \in Nat /\ d \in Seq(Octet) /\ Len(d) \in Nat
  BY <1>1, StartShows, LenProperties DEF Starts
<1>3. 1 \in 1..Len(<<b>>) /\ k + 1 <= Len(d)
  BY <1>1, <1>2
<1>4. d[k + 1] = <<b>>[1]
  BY <1>2, <1>3 DEF Shows
<1>. QED
  BY <1>1, <1>4 DEF Pcap!PD!Byte

LEMMA StartBytes ==
  ASSUME NEW d, NEW w, Starts(d, w), NEW k, NEW cells, NEW m, IsLong(cells, m), HasAt(w, k, cells),
         NEW j, j = k + m, j <= Len(d)
  PROVE  Pcap!PD!Bytes(d, k, j) = cells
<1>1. IsSequence(cells)
  BY DEF IsLong
<1>2. Shows(d, k, cells) /\ d \in Seq(Octet)
  BY <1>1, StartShows DEF Starts
<1>3. Pcap!PD!Bytes(d, k, k + m) = cells
  BY <1>2, BytesShown
<1>. QED
  BY <1>3

LEMMA StartFrom ==
  ASSUME NEW d, NEW w, Starts(d, w), NEW o, NEW t, IsSequence(t), HasAt(w, o, t), o <= Len(d)
  PROVE  /\ Starts(Pcap!PD!From(d, o), t)
         /\ Len(Pcap!PD!From(d, o)) = Len(d) - o
<1>1. Shows(d, o, t) /\ o \in Nat /\ d \in Seq(Octet)
  BY StartShows DEF Starts
<1>2. o + 0 = o /\ 0 \in Nat
  BY <1>1
<1>3. Shows(d, o + 0, t)
  BY <1>1, <1>2
<1>4. Shows(Pcap!PD!From(d, o), 0, t)
  BY <1>1, <1>2, <1>3, FromShows
<1>5. Pcap!PD!From(d, o) \in Seq(Octet) /\ Len(Pcap!PD!From(d, o)) = Len(d) - o
  BY <1>1, FromIs
<1>. QED
  BY <1>4, <1>5 DEF Starts

(* All that is to be found in a datagram whose segment is at a place. *)
FoundIn(info, sent, at, n) ==
  /\ info # Absent /\ info.five_tuple = FiveTupleOf(sent)
  /\ FoundPayload(info.l7_offset, sent, at, n)

LEMMA InfoFound ==
  ASSUME NEW sent, Sendable(sent), NEW at, NEW n, NEW l4,
         l4 \in [src_port : Nat, dst_port : Nat, l7_offset : Nat \cup {Absent}],
         l4.src_port = IF HasPorts(sent) THEN sent.src_port ELSE 0,
         l4.dst_port = IF HasPorts(sent) THEN sent.dst_port ELSE 0,
         FoundPayload(l4.l7_offset, sent, at, n)
  PROVE  FoundIn(Pcap!PD!IpInfo(sent.protocol, sent.src, sent.dst, l4), sent, at, n)
<1>. DEFINE info == Pcap!PD!IpInfo(sent.protocol, sent.src, sent.dst, l4)
<1>1. info # Absent
  BY SendableIs, InfoIs
<1>2. info.five_tuple = FiveTupleOf(sent) /\ info.l7_offset = l4.l7_offset
  BY DEF Pcap!PD!IpInfo, FiveTupleOf
<1>. HIDE DEF info
<1>. QED
  BY <1>1, <1>2 DEF FoundIn, info

LEMMA Ipv4Found ==
  ASSUME NEW sent, Sendable(sent), Enc!IsIpv4(sent), NEW d, Starts(d, Enc!Ipv4(sent)),
         Len(d) >= 20 + 4 * sent.words + 4
  PROVE  FoundIn(Pcap!PD!ParseIp(d), sent, 20 + 4 * sent.words, Len(d))
<1>. DEFINE dg == Enc!Ipv4(sent)
            at == 20 + 4 * sent.words
            n == Len(d)
            l4 == Pcap!PD!Transport(d, sent.protocol, 1, at)
<1>1. /\ HasAt(dg, 0, <<64 + 5 + sent.words>>) /\ HasAt(dg, 9, <<sent.protocol>>)
      /\ HasAt(dg, 12, sent.src) /\ HasAt(dg, 16, sent.dst)
      /\ HasAt(dg, at, Enc!Segment(sent))
  BY Ipv4Is
<1>2. n \in Nat /\ at \in Nat /\ at >= 20 /\ n >= at + 4 /\ d \in Seq(Octet)
  BY SendableIs, LenProperties DEF Starts
<1>3. 0 < n /\ 9 < n /\ 16 <= n /\ 20 <= n /\ 16 = 12 + 4 /\ 20 = 16 + 4
  BY <1>2
<1>. HIDE DEF dg, n
<1>4. Starts(d, dg)
  BY DEF dg
<1>5. Pcap!PD!Byte(d, 0) = 64 + 5 + sent.words /\ Pcap!PD!Byte(d, 9) = sent.protocol
  BY <1>1, <1>3, <1>4, StartByte DEF n
<1>6. IsLong(sent.src, 4) /\ IsLong(sent.dst, 4)
  BY AddressIsLong DEF Enc!IsIpv4, Sendable, SendableDatagram
<1>7. Pcap!PD!Bytes(d, 12, 16) = sent.src
  <2>1. /\ Starts(d, dg) /\ IsLong(sent.src, 4) /\ HasAt(dg, 12, sent.src)
        /\ 16 = 12 + 4 /\ 16 <= Len(d)
    BY <1>1, <1>3, <1>4, <1>6 DEF n
  <2>. QED
    BY <2>1, StartBytes
<1>8. Pcap!PD!Bytes(d, 16, 20) = sent.dst
  <2>1. /\ Starts(d, dg) /\ IsLong(sent.dst, 4) /\ HasAt(dg, 16, sent.dst)
        /\ 20 = 16 + 4 /\ 20 <= Len(d)
    BY <1>1, <1>3, <1>4, <1>6 DEF n
  <2>. QED
    BY <2>1, StartBytes
<1>9. Shows(d, at, Enc!Segment(sent))
  <2>1. IsSequence(Enc!Segment(sent))
    BY SegmentIsLong DEF IsLong
  <2>. QED
    BY <1>1, <1>4, <2>1, StartShows
<1>10. /\ (64 + 5 + sent.words) \div 16 = 4
       /\ 4 * ((64 + 5 + sent.words) % 16) = at
  <2>1. sent.words \in 0..10
    BY SendableIs
  <2>. QED
    BY <2>1
<1>11. Pcap!PD!HeaderLen(d) = at
  BY <1>5, <1>10 DEF Pcap!PD!HeaderLen
<1>12. FoundIn(Pcap!PD!IpInfo(sent.protocol, sent.src, sent.dst, l4), sent, at, n)
  <2>1. l4 \in [src_port : Nat, dst_port : Nat, l7_offset : Nat \cup {Absent}]
    BY <1>2, TransportIs
  <2>2. Len(d) >= at + 4
    BY <1>2 DEF n
  <2>3. /\ l4.src_port = IF HasPorts(sent) THEN sent.src_port ELSE 0
        /\ l4.dst_port = IF HasPorts(sent) THEN sent.dst_port ELSE 0
        /\ FoundPayload(l4.l7_offset, sent, at, n)
    BY <1>2, <1>9, <2>2, TransportFound DEF n
  <2>. HIDE DEF l4, at
  <2>. QED
    BY <2>1, <2>3, InfoFound
<1>. HIDE DEF at
<1>13. ~(n < 20) /\ ~(at < 20) /\ ~(n < at)
  BY <1>2
<1>14. Pcap!PD!ParseIpv4(d) = Pcap!PD!IpInfo(sent.protocol, sent.src, sent.dst, l4)
  BY <1>5, <1>7, <1>8, <1>11, <1>13 DEF Pcap!PD!ParseIpv4, n
<1>15. d # <<>>
  BY <1>3 DEF n
<1>16. Pcap!PD!ParseIp(d) = Pcap!PD!ParseIpv4(d)
  BY <1>5, <1>10, <1>15 DEF Pcap!PD!ParseIp
<1>. QED
  BY <1>12, <1>14, <1>16 DEF n, at

-----------------------------------------------------------------------------
(* IPv6: the walk along the chain of extension headers, one after another. *)

(* The three kinds of step along a chain of extension headers. *)
LEMMA ChainSteps ==
  ASSUME NEW d, NEW chain
  PROVE  /\ chain.is = "transport" /\ chain.protocol \in {59, 50} =>
              Pcap!PD!NextHeader(d, chain) = [chain EXCEPT !.is = "opaque"]
         /\ chain.is = "transport" /\ chain.protocol \in Pcap!PD!ExtensionHeaders /\ ~(Len(d) < chain.pos + 2) =>
              Pcap!PD!NextHeader(d, chain) =
                [is |-> "transport", protocol |-> Pcap!PD!Byte(d, chain.pos),
                 pos |-> chain.pos + 8 * (Pcap!PD!Byte(d, chain.pos + 1) + 1)]
         /\ chain.is # "transport" \/ chain.protocol \notin Pcap!PD!ExtensionHeaders \cup {59, 50} =>
              Pcap!PD!NextHeader(d, chain) = chain
<1>1. \A p \in Pcap!PD!ExtensionHeaders : p \notin {59, 50}
  BY DEF Pcap!PD!ExtensionHeaders
<1>2. ASSUME chain.is = "transport", chain.protocol \in {59, 50}
      PROVE  Pcap!PD!NextHeader(d, chain) = [chain EXCEPT !.is = "opaque"]
  BY <1>1, <1>2 DEF Pcap!PD!NextHeader, Pcap!PD!NoNextHeader, Pcap!PD!Esp
<1>3. ASSUME chain.is = "transport", chain.protocol \in Pcap!PD!ExtensionHeaders, ~(Len(d) < chain.pos + 2)
      PROVE  Pcap!PD!NextHeader(d, chain) =
               [is |-> "transport", protocol |-> Pcap!PD!Byte(d, chain.pos),
                pos |-> chain.pos + 8 * (Pcap!PD!Byte(d, chain.pos + 1) + 1)]
  BY <1>1, <1>3 DEF Pcap!PD!NextHeader, Pcap!PD!NoNextHeader, Pcap!PD!Esp
<1>4. ASSUME chain.is # "transport" \/ chain.protocol \notin Pcap!PD!ExtensionHeaders \cup {59, 50}
      PROVE  Pcap!PD!NextHeader(d, chain) = chain
  BY <1>4 DEF Pcap!PD!NextHeader, Pcap!PD!NoNextHeader, Pcap!PD!Esp
<1>. QED
  BY <1>2, <1>3, <1>4

LEMMA ExtHeaderShown ==
  ASSUME NEW sent, Sendable(sent), ~Enc!IsIpv4(sent), NEW o, ExtEnds(sent, o),
         NEW d, Starts(d, Enc!Ipv6(sent)), Len(d) >= 40 + o[Len(sent.chain)],
         NEW i \in 1..Len(sent.chain)
  PROVE  /\ ~(Len(d) < 40 + o[i - 1] + 2)
         /\ Pcap!PD!Byte(d, 40 + o[i - 1]) = Enc!NextHeader(sent, i)
         /\ Pcap!PD!Byte(d, (40 + o[i - 1]) + 1) = sent.chain[i][2]
<1>. DEFINE m == o[Len(sent.chain)]
            at == o[i - 1]
            pair == <<Enc!NextHeader(sent, i), sent.chain[i][2]>>
            ext == ExtHeaders(sent)
            dg == Enc!Ipv6(sent)
<1>1. /\ at \in Nat /\ m \in Nat /\ IsLong(ext, m) /\ HasAt(ext, at, pair)
  <2>1. Len(sent.chain) \in Nat
    BY ChainFields
  <2>2. i - 1 \in 0..Len(sent.chain) /\ Len(sent.chain) \in 0..Len(sent.chain)
    BY <2>1
  <2>. QED
    BY <2>2 DEF ExtEnds
<1>2. HasAt(dg, 40, ext) /\ IsSequence(dg)
  BY <1>1, Ipv6Is DEF IsLong, Starts
<1>3. IsLong(pair, 2) /\ pair[1] = Enc!NextHeader(sent, i) /\ pair[2] = sent.chain[i][2]
  BY DEF IsLong, IsSequence
<1>4. Starts(d, dg) /\ Len(d) >= 40 + m /\ Len(d) \in Nat
  BY LenProperties DEF Starts
<1>. HIDE DEF m, at, pair, ext, dg
<1>5. at + 2 <= m
  BY <1>1, <1>3 DEF HasAt, IsLong
<1>6. HasAt(dg, 40 + at, pair)
  BY <1>1, <1>2, <1>3, HasAtWithin DEF IsLong
<1>7. Shows(d, 40 + at, pair)
  BY <1>3, <1>4, <1>6, StartShows DEF IsLong
<1>8. /\ 1 \in 1..Len(pair) /\ 2 \in 1..Len(pair)
      /\ (40 + at) + 1 <= Len(d) /\ (40 + at) + 2 <= Len(d) /\ ((40 + at) + 1) + 1 = (40 + at) + 2
  BY <1>1, <1>3, <1>4, <1>5 DEF IsLong
<1>9. d[(40 + at) + 1] = pair[1] /\ d[(40 + at) + 2] = pair[2]
  BY <1>7, <1>8 DEF Shows
<1>10. /\ Pcap!PD!Byte(d, 40 + at) = Enc!NextHeader(sent, i)
       /\ Pcap!PD!Byte(d, (40 + at) + 1) = sent.chain[i][2]
  BY <1>3, <1>8, <1>9 DEF Pcap!PD!Byte
<1>11. ~(Len(d) < 40 + at + 2)
  BY <1>1, <1>4, <1>8
<1>. QED
  BY <1>10, <1>11 DEF at

LEMMA RestSteps ==
  ASSUME NEW n \in 0..8, NEW rest \in Nat, n + rest = 8, NEW i \in 0..rest - 1
  PROVE  i + 1 \in 0..rest /\ n + (i + 1) \in 1..8 /\ (n + (i + 1)) - 1 = n + i
OBVIOUS

LEMMA ChainFound ==
  ASSUME NEW sent, Sendable(sent), ~Enc!IsIpv4(sent), Len(sent.chain) <= 8,
         NEW o, ExtEnds(sent, o),
         NEW n, n = Len(sent.chain), NEW d, Starts(d, Enc!Ipv6(sent)), Len(d) >= 40 + o[n]
  PROVE  LET chain == Pcap!PD!ExtensionChain(d)
         IN /\ chain.protocol = sent.protocol
            /\ \/ chain.is = "transport" /\ chain.pos = 40 + o[n]
               \/ chain.is = "opaque" /\ sent.protocol \in {59, 50}
<1>. DEFINE T(i) == [is |-> "transport", protocol |-> Enc!NextHeader(sent, i), pos |-> 40 + o[i]]
<1>1. /\ n \in 0..8 /\ n \in Nat /\ o[0] = 0
      /\ \A i \in 0..n : o[i] \in Nat
      /\ \A i \in 1..n : o[i] = o[i - 1] + 8 * (sent.chain[i][2] + 1)
      /\ \A i \in 1..n : sent.chain[i][1] \in Pcap!PD!ExtensionHeaders
      /\ IsLong(ExtHeaders(sent), o[n])
  <2>1. n \in Nat /\ \A i \in 1..n : sent.chain[i][1] \in Pcap!PD!ExtensionHeaders
    BY ChainFields
  <2>2. n <= 8
    OBVIOUS
  <2>3. n \in 0..8
    <3>1. \A m \in Nat : m <= 8 => m \in 0..8
      OBVIOUS
    <3>. QED
      BY <2>1, <2>2, <3>1, Zenon
  <2>. QED
    BY <2>1, <2>3 DEF ExtEnds
<1>2. d \in Seq(Octet) /\ Len(d) \in Nat /\ Len(d) >= 40 /\ o[n] \in Nat
  <2>1. o[n] \in Nat
    BY <1>1
  <2>. QED
    BY <2>1, LenProperties DEF Starts
<1>3. PICK after : Walks(d, after) /\ Pcap!PD!ExtensionChain(d) = after[8]
  BY <1>2, ChainIsWalked
<1>4. /\ after[0] = [is |-> "transport", protocol |-> Pcap!PD!Byte(d, 6), pos |-> 40]
      /\ \A i \in 1..8 : after[i] = Pcap!PD!NextHeader(d, after[i - 1])
  BY <1>3 DEF Walks
<1>5. Enc!NextHeader(sent, n) = sent.protocol
      /\ \A i \in 0..n - 1 : Enc!NextHeader(sent, i) = sent.chain[i + 1][1]
  BY <1>1 DEF Enc!NextHeader
<1>6. after[0] = T(0)
  <2>1. HasAt(Enc!Ipv6(sent), 6, <<Enc!NextHeader(sent, 0)>>)
    BY <1>1, Ipv6Is
  <2>2. 6 < Len(d)
    BY <1>2
  <2>3. Pcap!PD!Byte(d, 6) = Enc!NextHeader(sent, 0)
    BY <2>1, <2>2, StartByte
  <2>. QED
    BY <1>1, <1>4, <2>3
<1>7. ASSUME NEW i \in 0..n - 1, after[i] = T(i)
      PROVE  after[i + 1] = T(i + 1)
  <2>1. /\ i + 1 \in 1..n /\ i + 1 \in 1..8 /\ (i + 1) - 1 = i /\ i \in 0..n /\ o[i] \in Nat
    <3>1. \A m \in 0..8 : \A j \in 0..m - 1 :
            j + 1 \in 1..m /\ j + 1 \in 1..8 /\ (j + 1) - 1 = j /\ j \in 0..m
      OBVIOUS
    <3>2. n \in 0..8 /\ i \in 0..n - 1
      BY <1>1
    <3>3. i + 1 \in 1..n /\ i + 1 \in 1..8 /\ (i + 1) - 1 = i /\ i \in 0..n
      BY <3>1, <3>2, Zenon
    <3>. QED
      BY <1>1, <3>3
  <2>2. after[i + 1] = Pcap!PD!NextHeader(d, T(i))
    BY <1>4, <1>7, <2>1
  <2>3. Enc!NextHeader(sent, i) \in Pcap!PD!ExtensionHeaders
    BY <1>1, <1>5, <2>1
  <2>4. /\ ~(Len(d) < 40 + o[i] + 2)
        /\ Pcap!PD!Byte(d, 40 + o[i]) = Enc!NextHeader(sent, i + 1)
        /\ Pcap!PD!Byte(d, (40 + o[i]) + 1) = sent.chain[i + 1][2]
    <3>. DEFINE k == i + 1
    <3>1. k \in 1..Len(sent.chain) /\ k - 1 = i
      BY <2>1
    <3>. HIDE DEF k
    <3>2. /\ ~(Len(d) < 40 + o[k - 1] + 2)
          /\ Pcap!PD!Byte(d, 40 + o[k - 1]) = Enc!NextHeader(sent, k)
          /\ Pcap!PD!Byte(d, (40 + o[k - 1]) + 1) = sent.chain[k][2]
      BY <3>1, ExtHeaderShown
    <3>. QED
      BY <3>1, <3>2 DEF k
  <2>5. /\ T(i).is = "transport" /\ T(i).protocol = Enc!NextHeader(sent, i) /\ T(i).pos = 40 + o[i]
    OBVIOUS
  <2>6. Pcap!PD!NextHeader(d, T(i)) =
          [is |-> "transport", protocol |-> Enc!NextHeader(sent, i + 1),
           pos |-> 40 + o[i] + 8 * (sent.chain[i + 1][2] + 1)]
    <3>. HIDE DEF T
    <3>. QED
      BY <2>3, <2>4, <2>5, ChainSteps
  <2>7. 40 + o[i] + 8 * (sent.chain[i + 1][2] + 1) = 40 + o[i + 1]
    <3>1. sent.chain[i + 1][2] \in Nat
      BY <2>1, ChainFields, OctetIs
    <3>2. o[i + 1] = o[i] + 8 * (sent.chain[i + 1][2] + 1)
      BY <1>1, <2>1
    <3>3. \A a, c \in Nat : 40 + a + 8 * (c + 1) = 40 + (a + 8 * (c + 1))
      OBVIOUS
    <3>4. 40 + o[i] + 8 * (sent.chain[i + 1][2] + 1) = 40 + (o[i] + 8 * (sent.chain[i + 1][2] + 1))
      BY <2>1, <3>1, <3>3, Zenon
    <3>. QED
      BY <3>2, <3>4, Zenon
  <2>. QED
    BY <2>2, <2>6, <2>7
<1>. DEFINE end == T(n)
<1>8. after[n] = end
  <2>. DEFINE S == {i \in 0..n : after[i] = T(i)}
  <2>1. 0 \in S /\ \A i \in 0..n - 1 : i \in S => i + 1 \in S
    <3>1. 0 \in 0..n /\ \A i \in 0..n - 1 : i + 1 \in 0..n
      BY <1>1
    <3>. HIDE DEF T
    <3>. QED
      BY <1>6, <1>7, <3>1
  <2>2. n \in S
    <3>1. n \in 0..n
      BY <1>1
    <3>. HIDE DEF S
    <3>. QED
      BY <1>1, <2>1, <3>1, CountInduction
  <2>. QED
    BY <2>2
<1>9. /\ end.is = "transport" /\ end.protocol = sent.protocol /\ end.pos = 40 + o[n]
      /\ [end EXCEPT !.is = "opaque"].is = "opaque"
      /\ [end EXCEPT !.is = "opaque"].protocol = sent.protocol
  BY <1>5
<1>10. sent.protocol \notin Pcap!PD!ExtensionHeaders
  BY DEF Sendable, SendableDatagram, Enc!IsIpv4
<1>. DEFINE Ended(c) == \/ c = end
                        \/ c = [end EXCEPT !.is = "opaque"] /\ sent.protocol \in {59, 50}
            rest == 8 - n
            S == {i \in 0..rest : Ended(after[n + i])}
<1>. HIDE DEF end, T
<1>11. \A c : Ended(c) => Ended(Pcap!PD!NextHeader(d, c))
  <2>. SUFFICES ASSUME NEW c, Ended(c)
                PROVE  Ended(Pcap!PD!NextHeader(d, c))
    OBVIOUS
  <2>1. CASE c = end /\ sent.protocol \in {59, 50}
    BY <1>9, <2>1, ChainSteps
  <2>2. CASE c = end /\ sent.protocol \notin {59, 50}
    BY <1>9, <1>10, <2>2, ChainSteps
  <2>3. CASE c = [end EXCEPT !.is = "opaque"] /\ sent.protocol \in {59, 50}
    BY <1>9, <2>3, ChainSteps
  <2>. QED
    BY <2>1, <2>2, <2>3
<1>12. rest \in Nat /\ rest \in 0..rest /\ n + rest = 8
  BY <1>1
<1>13. 0 \in S
  <2>1. n + 0 = n /\ 0 \in 0..rest
    BY <1>1, <1>12
  <2>. QED
    BY <1>8, <2>1
<1>14. \A i \in 0..rest - 1 : i \in S => i + 1 \in S
  <2>. SUFFICES ASSUME NEW i \in 0..rest - 1, Ended(after[n + i])
                PROVE  i + 1 \in 0..rest /\ Ended(after[n + (i + 1)])
    OBVIOUS
  <2>1. i + 1 \in 0..rest /\ n + (i + 1) \in 1..8 /\ (n + (i + 1)) - 1 = n + i
    <3>. HIDE DEF rest, S, Ended
    <3>1. n \in 0..8 /\ rest \in Nat /\ n + rest = 8
      BY <1>1, <1>12
    <3>. QED
      BY <3>1, RestSteps
  <2>2. after[n + (i + 1)] = Pcap!PD!NextHeader(d, after[n + i])
    BY <1>4, <2>1
  <2>. HIDE DEF Ended
  <2>. QED
    BY <1>11, <2>1, <2>2
<1>15. Ended(after[8])
  <2>1. rest \in S
    <3>. HIDE DEF S, rest
    <3>. QED
      BY <1>12, <1>13, <1>14, CountInduction
  <2>. QED
    BY <1>12, <2>1
<1>. QED
  BY <1>3, <1>9, <1>15

-----------------------------------------------------------------------------
(* IPv6, and so every datagram: what parse_ip finds of it.                 *)

LEMMA Ipv6Found ==
  ASSUME NEW sent, Sendable(sent), ~Enc!IsIpv4(sent), Len(sent.chain) <= 8,
         NEW e, IsLong(ExtHeaders(sent), e),
         NEW d, Starts(d, Enc!Ipv6(sent)), Len(d) >= 40 + e + 4
  PROVE  FoundIn(Pcap!PD!ParseIp(d), sent, 40 + e, Len(d))
<1>. DEFINE dg == Enc!Ipv6(sent)
            at == 40 + e
            n == Len(d)
            chain == Pcap!PD!ExtensionChain(d)
            l4 == IF chain.is = "opaque" THEN Pcap!PD!NoPorts(Absent)
                  ELSE Pcap!PD!Transport(d, chain.protocol, 58, chain.pos)
<1>1. /\ HasAt(dg, 0, <<96>>) /\ HasAt(dg, 8, sent.src) /\ HasAt(dg, 24, sent.dst)
      /\ HasAt(dg, at, Enc!Segment(sent))
  BY Ipv6Is
<1>2. n \in Nat /\ at \in Nat /\ at >= 40 /\ n >= at + 4 /\ d \in Seq(Octet)
  BY LenProperties DEF Starts, IsLong
<1>3. 0 < n /\ 24 <= n /\ 40 <= n /\ 24 = 8 + 16 /\ 40 = 24 + 16
  BY <1>2
<1>4. Starts(d, dg)
  OBVIOUS
<1>5. /\ chain.protocol = sent.protocol
      /\ \/ chain.is = "transport" /\ chain.pos = at
         \/ chain.is = "opaque" /\ sent.protocol \in {59, 50}
  <2>1. PICK o : ExtEnds(sent, o)
    BY ExtHeadersEnd
  <2>2. PICK m : m = Len(sent.chain)
    OBVIOUS
  <2>3. o[m] = e
    BY <2>1, <2>2 DEF ExtEnds, IsLong
  <2>4. Len(d) >= 40 + o[m]
    BY <1>2, <2>3
  <2>. HIDE DEF chain
  <2>5. /\ chain.protocol = sent.protocol
        /\ \/ chain.is = "transport" /\ chain.pos = 40 + o[m]
           \/ chain.is = "opaque" /\ sent.protocol \in {59, 50}
    BY <2>1, <2>2, <2>4, ChainFound DEF chain
  <2>. QED
    BY <2>3, <2>5
<1>. HIDE DEF dg, n, chain
<1>6. Pcap!PD!Byte(d, 0) = 96
  BY <1>1, <1>3, <1>4, StartByte DEF n
<1>7. IsLong(sent.src, 16) /\ IsLong(sent.dst, 16)
  BY AddressIsLong DEF Enc!IsIpv4, Sendable, SendableDatagram
<1>8. Pcap!PD!Bytes(d, 8, 24) = sent.src
  <2>1. PICK k, m, j : k = 8 /\ m = 16 /\ j = 24
    OBVIOUS
  <2>2. IsLong(sent.src, m) /\ HasAt(dg, k, sent.src)
    BY <1>1, <1>7, <2>1
  <2>3. j = k + m /\ j <= Len(d)
    BY <1>3, <2>1 DEF n
  <2>4. Pcap!PD!Bytes(d, k, j) = sent.src
    BY <1>4, <2>2, <2>3, StartBytes
  <2>. QED
    BY <2>1, <2>4
<1>9. Pcap!PD!Bytes(d, 24, 40) = sent.dst
  <2>1. PICK k, m, j : k = 24 /\ m = 16 /\ j = 40
    OBVIOUS
  <2>2. IsLong(sent.dst, m) /\ HasAt(dg, k, sent.dst)
    BY <1>1, <1>7, <2>1
  <2>3. j = k + m /\ j <= Len(d)
    BY <1>3, <2>1 DEF n
  <2>4. Pcap!PD!Bytes(d, k, j) = sent.dst
    BY <1>4, <2>2, <2>3, StartBytes
  <2>. QED
    BY <2>1, <2>4
<1>10. Shows(d, at, Enc!Segment(sent))
  <2>1. IsSequence(Enc!Segment(sent))
    BY SegmentIsLong DEF IsLong
  <2>. QED
    BY <1>1, <1>4, <2>1, StartShows
<1>. HIDE DEF at
<1>11. /\ l4 \in [src_port : Nat, dst_port : Nat, l7_offset : Nat \cup {Absent}]
       /\ l4.src_port = IF HasPorts(sent) THEN sent.src_port ELSE 0
       /\ l4.dst_port = IF HasPorts(sent) THEN sent.dst_port ELSE 0
       /\ FoundPayload(l4.l7_offset, sent, at, n)
  <2>1. CASE chain.is = "opaque" /\ sent.protocol \in {59, 50}
    <3>1. l4 = [src_port |-> 0, dst_port |-> 0, l7_offset |-> Absent]
      BY <2>1 DEF Pcap!PD!NoPorts
    <3>2. ~HasPorts(sent)
      BY <2>1 DEF HasPorts
    <3>. HIDE DEF l4
    <3>. QED
      BY <3>1, <3>2 DEF FoundPayload
  <2>2. CASE chain.is = "transport" /\ chain.pos = at
    <3>. DEFINE t == Pcap!PD!Transport(d, sent.protocol, 58, at)
    <3>1. l4 = t
      BY <1>5, <2>2
    <3>2. t \in [src_port : Nat, dst_port : Nat, l7_offset : Nat \cup {Absent}]
      BY <1>2, TransportIs
    <3>3. /\ t.src_port = IF HasPorts(sent) THEN sent.src_port ELSE 0
          /\ t.dst_port = IF HasPorts(sent) THEN sent.dst_port ELSE 0
          /\ FoundPayload(t.l7_offset, sent, at, n)
      BY <1>2, <1>10, TransportFound DEF n
    <3>. HIDE DEF l4, t
    <3>. QED
      BY <3>1, <3>2, <3>3
  <2>. QED
    BY <1>5, <2>1, <2>2
<1>12. FoundIn(Pcap!PD!IpInfo(sent.protocol, sent.src, sent.dst, l4), sent, at, n)
  <2>. HIDE DEF l4
  <2>. QED
    BY <1>11, InfoFound
<1>13. ~(n < 40) /\ d # <<>>
  BY <1>3 DEF n
<1>14. chain.is # "cut"
  BY <1>5
<1>15. Pcap!PD!ParseIpv6(d) = Pcap!PD!IpInfo(sent.protocol, sent.src, sent.dst, l4)
  BY <1>5, <1>8, <1>9, <1>13, <1>14 DEF Pcap!PD!ParseIpv6, n, chain
<1>16. Pcap!PD!ParseIp(d) = Pcap!PD!ParseIpv6(d)
  <2>1. 96 \div 16 = 6
    OBVIOUS
  <2>. QED
    BY <1>6, <1>13, <2>1 DEF Pcap!PD!ParseIp
<1>. QED
  BY <1>12, <1>15, <1>16 DEF n, at

(* Where the segment is in the datagram, and the datagram's length. *)
SegmentAt(sent) ==
  IF Enc!IsIpv4(sent) THEN 20 + 4 * sent.words ELSE 40 + Len(ExtHeaders(sent))

DatagramLen(sent) == SegmentAt(sent) + (TransportLen(sent) + sent.payload)

LEMMA DatagramIs ==
  ASSUME NEW sent, Sendable(sent)
  PROVE  /\ SegmentAt(sent) \in Nat /\ SegmentAt(sent) >= 20
         /\ TransportLen(sent) \in Nat /\ TransportLen(sent) >= 8 /\ sent.payload \in Nat
         /\ IsLong(Enc!Datagram(sent), DatagramLen(sent))
         /\ HasAt(Enc!Datagram(sent), SegmentAt(sent), Enc!Segment(sent))
<1>1. TransportLen(sent) \in Nat /\ TransportLen(sent) >= 8 /\ sent.payload \in Nat /\ sent.words \in Nat
  BY SegmentIs, SendableIs
<1>2. CASE Enc!IsIpv4(sent)
  <2>1. Enc!Datagram(sent) = Enc!Ipv4(sent)
    BY <1>2 DEF Enc!Datagram
  <2>2. SegmentAt(sent) = 20 + 4 * sent.words
    BY <1>2 DEF SegmentAt
  <2>3. 20 + 4 * sent.words \in Nat /\ 20 + 4 * sent.words >= 20
    BY <1>1
  <2>. QED
    BY <1>1, <1>2, <2>1, <2>2, <2>3, Ipv4Is DEF DatagramLen
<1>3. CASE ~Enc!IsIpv4(sent)
  <2>1. Enc!Datagram(sent) = Enc!Ipv6(sent)
    BY <1>3 DEF Enc!Datagram
  <2>2. PICK e : IsLong(ExtHeaders(sent), e)
    BY ExtHeadersEnd DEF ExtEnds
  <2>3. SegmentAt(sent) = 40 + e /\ e \in Nat
    BY <1>3, <2>2 DEF SegmentAt, IsLong
  <2>4. 40 + e \in Nat /\ 40 + e >= 20
    BY <2>3
  <2>. QED
    BY <1>1, <1>3, <2>1, <2>2, <2>3, <2>4, Ipv6Is DEF DatagramLen
<1>. QED
  BY <1>2, <1>3

LEMMA DatagramFound ==
  ASSUME NEW sent, Sendable(sent), Len(sent.chain) <= 8,
         NEW d, Starts(d, Enc!Datagram(sent)), Len(d) >= SegmentAt(sent) + 4
  PROVE  FoundIn(Pcap!PD!ParseIp(d), sent, SegmentAt(sent), Len(d))
<1>1. CASE Enc!IsIpv4(sent)
  <2>1. Enc!Datagram(sent) = Enc!Ipv4(sent) /\ SegmentAt(sent) = 20 + 4 * sent.words
    BY <1>1 DEF Enc!Datagram, SegmentAt
  <2>. QED
    BY <1>1, <2>1, Ipv4Found
<1>2. CASE ~Enc!IsIpv4(sent)
  <2>1. Enc!Datagram(sent) = Enc!Ipv6(sent)
    BY <1>2 DEF Enc!Datagram
  <2>2. PICK e : IsLong(ExtHeaders(sent), e)
    BY ExtHeadersEnd DEF ExtEnds
  <2>3. SegmentAt(sent) = 40 + e /\ e \in Nat
    BY <1>2, <2>2 DEF SegmentAt, IsLong
  <2>. QED
    BY <1>2, <2>1, <2>2, <2>3, Ipv6Found
<1>. QED
  BY <1>1, <1>2

-----------------------------------------------------------------------------
(* Link layers: what a parser of a link layer makes of the datagram it meets*)
(* behind its own header.                                                  *)

(* What the dissection makes of a frame whose datagram starts at a link    *)
(* offset is what it found in the datagram, shifted.                       *)
LEMMA ParsedFound ==
  ASSUME NEW sent, TransportLen(sent) \in Nat, NEW at \in Nat, NEW m \in Nat, NEW info,
         FoundIn(info, sent, at, m), NEW link \in Nat, NEW n, n = link + m,
         NEW a, NEW b, NEW c
  PROVE  LET f == Pcap!PD!Parsed(b, a, c, info, link)
         IN /\ f.src_mac = b /\ f.dst_mac = a /\ f.bssid = c
            /\ f.five_tuple = FiveTupleOf(sent)
            /\ FoundPayload(f.l7_offset, sent, link + at, n)
<1>. DEFINE f == Pcap!PD!Parsed(b, a, c, info, link)
            t == TransportLen(sent)
<1>1. /\ f.src_mac = b /\ f.dst_mac = a /\ f.bssid = c
      /\ f.five_tuple = IF info = Absent THEN Absent ELSE info.five_tuple
      /\ f.l7_offset = IF info = Absent THEN Absent
                       ELSE IF info.l7_offset = Absent THEN Absent ELSE link + info.l7_offset
  BY DEF Pcap!PD!Parsed
<1>. HIDE DEF f
<1>2. info # Absent /\ info.five_tuple = FiveTupleOf(sent) /\ FoundPayload(info.l7_offset, sent, at, m)
  BY DEF FoundIn
<1>3. f.five_tuple = FiveTupleOf(sent)
  BY <1>1, <1>2
<1>4. ASSUME HasPorts(sent), n < link + at + t
      PROVE  f.l7_offset \in {Absent, n}
  <2>1. m < at + t
    BY <1>4
  <2>2. info.l7_offset \in {Absent, m}
    BY <1>2, <1>4, <2>1 DEF FoundPayload
  <2>3. m # Absent
    BY AbsentAssumption
  <2>. QED
    BY <1>1, <1>2, <2>2, <2>3
<1>5. ASSUME HasPorts(sent), ~(n < link + at + t)
      PROVE  f.l7_offset = link + at + t
  <2>1. ~(m < at + t)
    BY <1>5
  <2>2. info.l7_offset = at + t /\ at + t \in Nat
    BY <1>2, <1>5, <2>1 DEF FoundPayload
  <2>3. at + t # Absent
    BY <2>2, AbsentAssumption
  <2>4. link + (at + t) = link + at + t
    OBVIOUS
  <2>. QED
    BY <1>1, <1>2, <2>2, <2>3, <2>4
<1>6. FoundPayload(f.l7_offset, sent, link + at, n)
  BY <1>4, <1>5 DEF FoundPayload
<1>. QED
  BY <1>1, <1>3, <1>6 DEF f

LEMMA PairShown ==
  ASSUME NEW d, NEW w, Starts(d, w), NEW k, NEW x, NEW y, HasAt(w, k, <<x, y>>), k + 2 <= Len(d)
  PROVE  /\ Pcap!PD!Byte(d, k) = x /\ Pcap!PD!Byte(d, k + 1) = y
         /\ Pcap!PD!Be16(d, k) = 256 * x + y
<1>1. IsSequence(<<x, y>>) /\ Len(<<x, y>>) = 2 /\ <<x, y>>[1] = x /\ <<x, y>>[2] = y
  BY DEF IsSequence
<1>2. Shows(d, k, <<x, y>>) /\ k \in Nat /\ Len(d) \in Nat
  BY <1>1, StartShows, LenProperties DEF Starts
<1>3. 1 \in 1..2 /\ 2 \in 1..2 /\ k + 1 <= Len(d) /\ (k + 1) + 1 = k + 2
  BY <1>2
<1>4. d[k + 1] = x /\ d[k + 2] = y
  BY <1>1, <1>2, <1>3 DEF Shows
<1>. QED
  BY <1>3, <1>4 DEF Pcap!PD!Byte, Pcap!PD!Be16

LEMMA EthertypeShown ==
  ASSUME NEW d, NEW w, Starts(d, w), NEW k, NEW sent, HasAt(w, k, Enc!Ethertype(sent)),
         k + 2 <= Len(d)
  PROVE  Pcap!PD!Be16(d, k) \in Pcap!PD!Ethertypes
<1>1. CASE Enc!Ethertype(sent) = <<8, 0>>
  <2>1. Pcap!PD!Be16(d, k) = 256 * 8 + 0
    BY <1>1, PairShown
  <2>. QED
    BY <2>1 DEF Pcap!PD!Ethertypes
<1>2. CASE Enc!Ethertype(sent) = <<134, 221>>
  <2>1. Pcap!PD!Be16(d, k) = 256 * 134 + 221
    BY <1>2, PairShown
  <2>. QED
    BY <2>1 DEF Pcap!PD!Ethertypes
<1>. QED
  BY <1>1, <1>2 DEF Enc!Ethertype

LEMMA EthertypeIsLong ==
  ASSUME NEW sent
  PROVE  IsLong(Enc!Ethertype(sent), 2)
<1>1. IsLong(<<8, 0>>, 2) /\ IsLong(<<134, 221>>, 2)
  BY DEF IsLong, IsSequence
<1>. QED
  BY <1>1 DEF Enc!Ethertype

LEMMA StationsAreLong ==
  IsLong(Enc!Peer, 6) /\ IsLong(Enc!Station, 6) /\ IsLong(Enc!Ap, 6)
BY DEF Enc!Peer, Enc!Station, Enc!Ap, IsLong, IsSequence

(* What follows a place of the frame starts with what the sender put there. *)
LEMMA StartTail ==
  ASSUME NEW d, NEW w, Starts(d, w), NEW o \in Nat, o <= Len(d), NEW at \in Nat, NEW k, k = o + at,
         NEW t, IsSequence(t), HasAt(w, k, t)
  PROVE  /\ Shows(Pcap!PD!From(d, o), at, t) /\ Pcap!PD!From(d, o) \in Seq(Octet)
         /\ Len(Pcap!PD!From(d, o)) = Len(d) - o
         /\ at = 0 => Starts(Pcap!PD!From(d, o), t)
<1>1. Shows(d, k, t) /\ d \in Seq(Octet)
  BY StartShows DEF Starts
<1>2. Shows(d, o + at, t)
  BY <1>1
<1>3. Shows(Pcap!PD!From(d, o), at, t)
  BY <1>1, <1>2, FromShows
<1>4. Pcap!PD!From(d, o) \in Seq(Octet) /\ Len(Pcap!PD!From(d, o)) = Len(d) - o
  BY <1>1, FromIs
<1>. QED
  BY <1>3, <1>4 DEF Starts

-----------------------------------------------------------------------------
(* Ethernet, VLAN and raw IP frames as they are sent.                      *)

(* A frame whose datagram starts at a place, with the padding behind it.   *)
Carries(w, at, sent) ==
  /\ IsLong(w, at + DatagramLen(sent) + sent.padding)
  /\ HasAt(w, at, Enc!Datagram(sent))
  /\ HasAt(w, at + DatagramLen(sent), Enc!Fill(sent.padding))

(* The fields of a frame to a, from b, in the cell c, with its segment at  *)
(* a place of the n bytes.                                                 *)
DissectedAs(f, a, b, c, sent, at, n) ==
  /\ f.src_mac = b /\ f.dst_mac = a /\ f.bssid = c
  /\ f.five_tuple = FiveTupleOf(sent)
  /\ FoundPayload(f.l7_offset, sent, at, n)

LEMMA NoPadding ==
  ASSUME NEW w, NEW n, IsLong(w, n), NEW sent, sent.padding = 0
  PROVE  HasAt(w, n, Enc!Fill(sent.padding)) /\ IsLong(w, n + sent.padding)
<1>1. IsLong(Enc!Fill(0), 0)
  BY FillIs
<1>2. n \in Nat /\ Len(w) = n /\ n + 0 = n /\ n + 0 <= n
  BY DEF IsLong
<1>. QED
  BY <1>1, <1>2 DEF HasAt, IsLong

LEMMA DatagramLenIs ==
  ASSUME NEW sent, Sendable(sent)
  PROVE  /\ DatagramLen(sent) \in Nat /\ IsLong(Enc!Datagram(sent), DatagramLen(sent))
         /\ sent.padding \in Nat /\ SegmentAt(sent) \in Nat
         /\ SegmentAt(sent) + TransportLen(sent) + sent.payload = DatagramLen(sent)
         /\ TransportLen(sent) \in Nat /\ TransportLen(sent) >= 8 /\ sent.payload \in Nat
<1>1. /\ SegmentAt(sent) \in Nat /\ TransportLen(sent) \in Nat /\ TransportLen(sent) >= 8
      /\ sent.payload \in Nat /\ IsLong(Enc!Datagram(sent), DatagramLen(sent))
  BY DatagramIs
<1>2. sent.padding \in Nat
  BY SendableIs
<1>3. SegmentAt(sent) + TransportLen(sent) + sent.payload = DatagramLen(sent)
  BY <1>1 DEF DatagramLen
<1>4. DatagramLen(sent) \in Nat
  BY <1>1 DEF IsLong
<1>. QED
  BY <1>1, <1>2, <1>3, <1>4

(* Where a frame carries a datagram, the rest of the bytes is dissected.   *)
LEMMA CarriedFound ==
  ASSUME NEW sent, Sendable(sent), Len(sent.chain) <= 8, NEW w, NEW at \in Nat, HasAt(w, at, Enc!Datagram(sent)),
         NEW d, Starts(d, w), Len(d) >= at + SegmentAt(sent) + 4, NEW a, NEW b, NEW c
  PROVE  DissectedAs(Pcap!PD!Parsed(b, a, c, Pcap!PD!ParseIp(Pcap!PD!From(d, at)), at),
                     a, b, c, sent, at + SegmentAt(sent), Len(d))
<1>. DEFINE t == Pcap!PD!From(d, at)
            m == Len(d) - at
            info == Pcap!PD!ParseIp(t)
            f == Pcap!PD!Parsed(b, a, c, info, at)
<1>1. SegmentAt(sent) \in Nat /\ TransportLen(sent) \in Nat /\ IsSequence(Enc!Datagram(sent))
  BY DatagramLenIs DEF IsLong
<1>2. Len(d) \in Nat
  BY LenProperties DEF Starts
<1>3. at <= Len(d) /\ m \in Nat /\ m >= SegmentAt(sent) + 4 /\ Len(d) = at + m
  BY <1>1, <1>2
<1>4. Starts(t, Enc!Datagram(sent)) /\ Len(t) = m
  BY <1>1, <1>3, StartFrom
<1>. HIDE DEF t, m
<1>5. FoundIn(info, sent, SegmentAt(sent), m)
  BY <1>3, <1>4, DatagramFound
<1>. HIDE DEF info
<1>6. /\ f.src_mac = b /\ f.dst_mac = a /\ f.bssid = c
      /\ f.five_tuple = FiveTupleOf(sent)
      /\ FoundPayload(f.l7_offset, sent, at + SegmentAt(sent), Len(d))
  BY <1>1, <1>3, <1>5, ParsedFound
<1>. HIDE DEF f
<1>7. DissectedAs(f, a, b, c, sent, at + SegmentAt(sent), Len(d))
  BY <1>6 DEF DissectedAs
<1>. QED
  BY <1>7 DEF f, info, t

LEMMA OverEthernet ==
  ASSUME NEW sent, Sendable(sent), sent.link \in {"ethernet", "vlan", "ip"}
  PROVE  ~(sent.radiotap > 0)
<1>1. sent.radiotap = 0
  BY DEF Sendable, SendableOver
<1>. QED
  BY <1>1

LEMMA EthernetIs ==
  ASSUME NEW sent, Sendable(sent), sent.link = "ethernet"
  PROVE  /\ Carries(Enc!OnTheWire(sent), 14, sent)
         /\ HasAt(Enc!OnTheWire(sent), 0, Enc!Peer) /\ HasAt(Enc!OnTheWire(sent), 6, Enc!Station)
         /\ HasAt(Enc!OnTheWire(sent), 12, Enc!Ethertype(sent))
<1>. DEFINE n == DatagramLen(sent)
            q == sent.padding
            c1 == Enc!Peer
            c2 == Enc!Station
            c3 == Enc!Ethertype(sent)
            c4 == Enc!Datagram(sent)
            c5 == Enc!Fill(sent.padding)
            p2 == c1 \o c2
            p3 == p2 \o c3
            p4 == p3 \o c4
            p5 == p4 \o c5
<1>0. Enc!OnTheWire(sent) = p5
  BY OverEthernet DEF Enc!OnTheWire
<1>1. /\ IsLong(c1, 6) /\ IsLong(c2, 6) /\ IsLong(c3, 2) /\ IsLong(c4, n) /\ IsLong(c5, q)
      /\ n \in Nat /\ q \in Nat
  BY StationsAreLong, EthertypeIsLong, DatagramLenIs, FillIs
<1>. HIDE DEF c1, c2, c3, c4, c5, n, q
<1>2. /\ IsLong(p2, 12) /\ Begins(c1, p2) /\ HasAt(p2, 0, c1)
      /\ HasAt(p2, 6, c2)
  <2>1. IsLong(c1, 6) /\ IsLong(c2, 6) /\ 12 = 6 + 6
    BY <1>1
  <2>. QED
    BY <2>1, More, Zenon
<1>. HIDE DEF p2
<1>3. /\ IsLong(p3, 14) /\ Begins(p2, p3) /\ HasAt(p3, 0, p2)
      /\ HasAt(p3, 12, c3)
  <2>1. IsLong(p2, 12) /\ IsLong(c3, 2) /\ 14 = 12 + 2
    BY <1>1, <1>2
  <2>. QED
    BY <2>1, More, Zenon
<1>. HIDE DEF p3
<1>4. /\ IsLong(p4, 14 + n) /\ Begins(p3, p4) /\ HasAt(p4, 0, p3)
      /\ HasAt(p4, 14, c4)
  <2>1. IsLong(p3, 14) /\ IsLong(c4, n) /\ 14 + n = 14 + n
    BY <1>1, <1>3
  <2>. QED
    BY <2>1, More, Zenon
<1>. HIDE DEF p4
<1>5. /\ IsLong(p5, 14 + n + q) /\ Begins(p4, p5) /\ HasAt(p5, 0, p4)
      /\ HasAt(p5, 14 + n, c5)
  <2>1. IsLong(p4, 14 + n) /\ IsLong(c5, q) /\ 14 + n + q = 14 + n + q
    BY <1>1, <1>4
  <2>. QED
    BY <2>1, More, Zenon
<1>. HIDE DEF p5
<1>6. IsSequence(c1) /\ IsSequence(c2) /\ IsSequence(c3) /\ IsSequence(c4)
  BY <1>1 DEF IsLong
<1>7. HasAt(p5, 0, c1) /\ HasAt(p5, 6, c2)
  BY <1>2, <1>3, <1>4, <1>5, <1>6 DEF Begins
<1>8. HasAt(p5, 12, c3) /\ HasAt(p5, 14, c4)
  BY <1>3, <1>4, <1>5, <1>6 DEF Begins
<1>9. IsLong(p5, 14 + n + q) /\ HasAt(p5, 14 + n, c5)
  BY <1>5
<1>. QED
  BY <1>0, <1>7, <1>8, <1>9 DEF Carries, c1, c2, c3, c4, c5, n, q

LEMMA VlanIs ==
  ASSUME NEW sent, Sendable(sent), sent.link = "vlan"
  PROVE  /\ Carries(Enc!OnTheWire(sent), 18, sent)
         /\ HasAt(Enc!OnTheWire(sent), 0, Enc!Peer) /\ HasAt(Enc!OnTheWire(sent), 6, Enc!Station)
         /\ HasAt(Enc!OnTheWire(sent), 12, <<129, 0>>)
         /\ HasAt(Enc!OnTheWire(sent), 16, Enc!Ethertype(sent))
<1>. DEFINE n == DatagramLen(sent)
            c1 == Enc!Peer
            c2 == Enc!Station
            c3 == <<129, 0>>
            c4 == Enc!Fill(2)
            c5 == Enc!Ethertype(sent)
            c6 == Enc!Datagram(sent)
            p2 == c1 \o c2
            p3 == p2 \o c3
            p4 == p3 \o c4
            p5 == p4 \o c5
            p6 == p5 \o c6
<1>0. Enc!OnTheWire(sent) = p6
  BY OverEthernet DEF Enc!OnTheWire
<1>1. /\ IsLong(c1, 6) /\ IsLong(c2, 6) /\ IsLong(c3, 2) /\ IsLong(c4, 2) /\ IsLong(c5, 2)
      /\ IsLong(c6, n) /\ n \in Nat
  <2>1. IsLong(c3, 2)
    BY DEF IsLong, IsSequence
  <2>2. IsLong(c4, 2)
    BY FillIs
  <2>. QED
    BY <2>1, <2>2, StationsAreLong, EthertypeIsLong, DatagramLenIs
<1>. HIDE DEF c1, c2, c3, c4, c5, c6, n
<1>2. /\ IsLong(p2, 12) /\ Begins(c1, p2) /\ HasAt(p2, 0, c1)
      /\ HasAt(p2, 6, c2)
  <2>1. IsLong(c1, 6) /\ IsLong(c2, 6) /\ 12 = 6 + 6
    BY <1>1
  <2>. QED
    BY <2>1, More, Zenon
<1>. HIDE DEF p2
<1>3. /\ IsLong(p3, 14) /\ Begins(p2, p3) /\ HasAt(p3, 0, p2)
      /\ HasAt(p3, 12, c3)
  <2>1. IsLong(p2, 12) /\ IsLong(c3, 2) /\ 14 = 12 + 2
    BY <1>1, <1>2
  <2>. QED
    BY <2>1, More, Zenon
<1>. HIDE DEF p3
<1>4. /\ IsLong(p4, 16) /\ Begins(p3, p4) /\ HasAt(p4, 0, p3)
      /\ HasAt(p4, 14, c4)
  <2>1. IsLong(p3, 14) /\ IsLong(c4, 2) /\ 16 = 14 + 2
    BY <1>1, <1>3
  <2>. QED
    BY <2>1, More, Zenon
<1>. HIDE DEF p4
<1>5. /\ IsLong(p5, 18) /\ Begins(p4, p5) /\ HasAt(p5, 0, p4)
      /\ HasAt(p5, 16, c5)
  <2>1. IsLong(p4, 16) /\ IsLong(c5, 2) /\ 18 = 16 + 2
    BY <1>1, <1>4
  <2>. QED
    BY <2>1, More, Zenon
<1>. HIDE DEF p5
<1>6. /\ IsLong(p6, 18 + n) /\ Begins(p5, p6) /\ HasAt(p6, 0, p5)
      /\ HasAt(p6, 18, c6)
  <2>1. IsLong(p5, 18) /\ IsLong(c6, n) /\ 18 + n = 18 + n
    BY <1>1, <1>5
  <2>. QED
    BY <2>1, More, Zenon
<1>. HIDE DEF p6
<1>7. IsSequence(c1) /\ IsSequence(c2) /\ IsSequence(c3) /\ IsSequence(c4) /\ IsSequence(c5)
  BY <1>1 DEF IsLong
<1>8. HasAt(p6, 0, c1) /\ HasAt(p6, 6, c2)
  BY <1>2, <1>3, <1>4, <1>5, <1>6, <1>7 DEF Begins
<1>9. HasAt(p6, 12, c3)
  BY <1>3, <1>4, <1>5, <1>6, <1>7 DEF Begins
<1>10. HasAt(p6, 16, c5) /\ HasAt(p6, 18, c6)
  BY <1>5, <1>6, <1>7 DEF Begins
<1>11. sent.padding = 0
  BY DEF Sendable, SendableOver
<1>12. IsLong(p6, 18 + n + sent.padding) /\ HasAt(p6, 18 + n, Enc!Fill(sent.padding))
  BY <1>6, <1>11, NoPadding
<1>. QED
  BY <1>0, <1>8, <1>9, <1>10, <1>12 DEF Carries, c1, c2, c3, c5, c6, n

LEMMA IpIs ==
  ASSUME NEW sent, Sendable(sent), sent.link = "ip"
  PROVE  Carries(Enc!OnTheWire(sent), 0, sent)
<1>. DEFINE n == DatagramLen(sent)
            w == Enc!Datagram(sent)
<1>1. Enc!OnTheWire(sent) = w
  BY OverEthernet DEF Enc!OnTheWire
<1>2. IsLong(w, n) /\ n \in Nat
  BY DatagramLenIs
<1>3. sent.padding = 0
  BY DEF Sendable, SendableOver
<1>. HIDE DEF n, w
<1>4. 0 + n = n
  BY <1>2
<1>5. IsLong(w, n + sent.padding) /\ HasAt(w, n, Enc!Fill(sent.padding))
  BY <1>2, <1>3, NoPadding
<1>6. HasAt(w, 0, w)
  <2>1. \A i \in 1..Len(w) : 0 + i = i
    OBVIOUS
  <2>2. 0 + Len(w) <= Len(w)
    BY <1>2 DEF IsLong
  <2>. QED
    BY <2>1, <2>2 DEF HasAt
<1>. QED
  BY <1>1, <1>4, <1>5, <1>6 DEF Carries, n, w

-----------------------------------------------------------------------------
(* Ethernet, VLAN and raw IP frames as they are dissected.                 *)

(* Every frame but the management frames is dissected into what its sender *)
(* put in, as soon as it is long enough for the ports.                     *)
FoundOver(w, at, sent, a, b, c) ==
  /\ at \in Nat /\ Carries(w, at, sent)
  /\ \A d : Starts(d, w) /\ Len(d) >= at + SegmentAt(sent) + 4 =>
       DissectedAs(Pcap!PD!FromPcapRecord(Enc!LinkType(sent), d), a, b, c, sent,
                   at + SegmentAt(sent), Len(d))

LEMMA MacsShown ==
  ASSUME NEW d, NEW w, Starts(d, w), 12 <= Len(d), NEW a, IsLong(a, 6), NEW b, IsLong(b, 6),
         HasAt(w, 0, a), HasAt(w, 6, b)
  PROVE  Pcap!PD!Bytes(d, 0, 6) = a /\ Pcap!PD!Bytes(d, 6, 12) = b
<1>1. Len(d) \in Nat
  BY LenProperties DEF Starts
<1>2. PICK k, m, j : k = 6 /\ m = 6 /\ j = 12
  OBVIOUS
<1>3. j = k + m /\ j <= Len(d) /\ m = 0 + m /\ m <= Len(d)
  BY <1>1, <1>2
<1>4. HasAt(w, k, b) /\ IsLong(a, m) /\ IsLong(b, m)
  BY <1>2
<1>5. Pcap!PD!Bytes(d, k, j) = b
  BY <1>3, <1>4, StartBytes
<1>6. Pcap!PD!Bytes(d, 0, m) = a
  BY <1>3, <1>4, StartBytes
<1>. QED
  BY <1>2, <1>5, <1>6

LEMMA FromStart ==
  ASSUME NEW d \in Seq(Octet)
  PROVE  Pcap!PD!From(d, 0) = d
<1>1. Len(d) \in Nat /\ 0 + 1 = 1
  BY LenProperties
<1>2. SubSeq(d, 1, Len(d)) = d
  BY SubSeqFull
<1>. QED
  BY <1>1, <1>2 DEF Pcap!PD!From

LEMMA EthernetFound ==
  ASSUME NEW sent, Sendable(sent), Len(sent.chain) <= 8, sent.link = "ethernet"
  PROVE  FoundOver(Enc!OnTheWire(sent), 14, sent, Enc!Peer, Enc!Station, Absent)
<1>. DEFINE w == Enc!OnTheWire(sent)
<1>1. Carries(w, 14, sent) /\ HasAt(w, 14, Enc!Datagram(sent))
  BY EthernetIs DEF Carries
<1>2. Enc!LinkType(sent) = 1
  BY OverEthernet DEF Enc!LinkType
<1>3. ASSUME NEW d, Starts(d, w), Len(d) >= 14 + SegmentAt(sent) + 4
      PROVE  DissectedAs(Pcap!PD!FromPcapRecord(1, d), Enc!Peer, Enc!Station, Absent, sent,
                         14 + SegmentAt(sent), Len(d))
  <2>1. SegmentAt(sent) \in Nat /\ Len(d) \in Nat
    BY <1>3, DatagramLenIs, LenProperties DEF Starts
  <2>2. ~(Len(d) < 14) /\ 12 + 2 <= Len(d) /\ 12 <= Len(d) /\ 6 <= Len(d)
    BY <1>3, <2>1
  <2>3. Pcap!PD!EthernetPayload(d) = 14
    <3>1. Pcap!PD!Be16(d, 12) \in Pcap!PD!Ethertypes
      BY <1>3, <2>2, EthernetIs, EthertypeShown
    <3>2. Pcap!PD!Be16(d, 12) # Pcap!PD!Dot1Q
      BY <3>1 DEF Pcap!PD!Ethertypes, Pcap!PD!Dot1Q
    <3>. QED
      BY <3>1, <3>2 DEF Pcap!PD!EthernetPayload
  <2>4. Pcap!PD!Bytes(d, 0, 6) = Enc!Peer /\ Pcap!PD!Bytes(d, 6, 12) = Enc!Station
    BY <1>3, <2>2, MacsShown, EthernetIs, StationsAreLong
  <2>5. 14 # Absent
    BY AbsentAssumption
  <2>6. Pcap!PD!FromPcapRecord(1, d) =
          Pcap!PD!Parsed(Enc!Station, Enc!Peer, Absent, Pcap!PD!ParseIp(Pcap!PD!From(d, 14)), 14)
    <3>1. Pcap!PD!FromPcapRecord(1, d) = Pcap!PD!ParseEthernet(d)
      BY DEF Pcap!PD!FromPcapRecord
    <3>. QED
      BY <2>2, <2>3, <2>4, <2>5, <3>1 DEF Pcap!PD!ParseEthernet
  <2>7. 14 \in Nat
    OBVIOUS
  <2>. HIDE DEF w
  <2>. QED
    BY <1>1, <1>3, <2>6, <2>7, CarriedFound
<1>. QED
  BY <1>1, <1>2, <1>3 DEF FoundOver

LEMMA VlanFound ==
  ASSUME NEW sent, Sendable(sent), Len(sent.chain) <= 8, sent.link = "vlan"
  PROVE  FoundOver(Enc!OnTheWire(sent), 18, sent, Enc!Peer, Enc!Station, Absent)
<1>. DEFINE w == Enc!OnTheWire(sent)
<1>1. Carries(w, 18, sent) /\ HasAt(w, 18, Enc!Datagram(sent))
  BY VlanIs DEF Carries
<1>2. Enc!LinkType(sent) = 1
  BY OverEthernet DEF Enc!LinkType
<1>3. ASSUME NEW d, Starts(d, w), Len(d) >= 18 + SegmentAt(sent) + 4
      PROVE  DissectedAs(Pcap!PD!FromPcapRecord(1, d), Enc!Peer, Enc!Station, Absent, sent,
                         18 + SegmentAt(sent), Len(d))
  <2>1. SegmentAt(sent) \in Nat /\ Len(d) \in Nat
    BY <1>3, DatagramLenIs, LenProperties DEF Starts
  <2>2. ~(Len(d) < 14) /\ 12 + 2 <= Len(d) /\ 12 <= Len(d) /\ 6 <= Len(d) /\ 16 + 2 <= Len(d)
        /\ Len(d) >= 18
    BY <1>3, <2>1
  <2>3. Pcap!PD!EthernetPayload(d) = 18
    <3>1. Pcap!PD!Be16(d, 12) = 256 * 129 + 0
      BY <1>3, <2>2, VlanIs, PairShown
    <3>2. Pcap!PD!Be16(d, 16) \in Pcap!PD!Ethertypes
      BY <1>3, <2>2, VlanIs, EthertypeShown
    <3>3. Pcap!PD!Be16(d, 12) = Pcap!PD!Dot1Q /\ Pcap!PD!Be16(d, 12) \notin Pcap!PD!Ethertypes
      BY <3>1 DEF Pcap!PD!Ethertypes, Pcap!PD!Dot1Q
    <3>. QED
      BY <2>2, <3>2, <3>3 DEF Pcap!PD!EthernetPayload
  <2>4. Pcap!PD!Bytes(d, 0, 6) = Enc!Peer /\ Pcap!PD!Bytes(d, 6, 12) = Enc!Station
    BY <1>3, <2>2, MacsShown, VlanIs, StationsAreLong
  <2>5. 18 # Absent
    BY AbsentAssumption
  <2>6. Pcap!PD!FromPcapRecord(1, d) =
          Pcap!PD!Parsed(Enc!Station, Enc!Peer, Absent, Pcap!PD!ParseIp(Pcap!PD!From(d, 18)), 18)
    <3>1. Pcap!PD!FromPcapRecord(1, d) = Pcap!PD!ParseEthernet(d)
      BY DEF Pcap!PD!FromPcapRecord
    <3>. QED
      BY <2>2, <2>3, <2>4, <2>5, <3>1 DEF Pcap!PD!ParseEthernet
  <2>7. 18 \in Nat
    OBVIOUS
  <2>. HIDE DEF w
  <2>. QED
    BY <1>1, <1>3, <2>6, <2>7, CarriedFound
<1>. QED
  BY <1>1, <1>2, <1>3 DEF FoundOver

LEMMA IpFound ==
  ASSUME NEW sent, Sendable(sent), Len(sent.chain) <= 8, sent.link = "ip"
  PROVE  FoundOver(Enc!OnTheWire(sent), 0, sent, Absent, Absent, Absent)
<1>. DEFINE w == Enc!OnTheWire(sent)
<1>1. Carries(w, 0, sent) /\ HasAt(w, 0, Enc!Datagram(sent))
  BY IpIs DEF Carries
<1>2. Enc!LinkType(sent) = 101
  BY OverEthernet DEF Enc!LinkType
<1>3. ASSUME NEW d, Starts(d, w), Len(d) >= 0 + SegmentAt(sent) + 4
      PROVE  DissectedAs(Pcap!PD!FromPcapRecord(101, d), Absent, Absent, Absent, sent,
                         0 + SegmentAt(sent), Len(d))
  <2>1. Pcap!PD!From(d, 0) = d
    BY <1>3, FromStart DEF Starts
  <2>2. Pcap!PD!FromPcapRecord(101, d) =
          Pcap!PD!Parsed(Absent, Absent, Absent, Pcap!PD!ParseIp(Pcap!PD!From(d, 0)), 0)
    BY <2>1 DEF Pcap!PD!FromPcapRecord
  <2>3. 0 \in Nat
    OBVIOUS
  <2>. HIDE DEF w
  <2>. QED
    BY <1>1, <1>3, <2>2, <2>3, CarriedFound
<1>. QED
  BY <1>1, <1>2, <1>3 DEF FoundOver

-----------------------------------------------------------------------------
(* 802.11 frames as they are sent, with and without access points.         *)

(* The header of an 802.11 frame: frame control and three addresses. *)
WifiHeader(control, a, b, c) == control \o Enc!Fill(2) \o a \o b \o c \o Enc!Fill(2)

HasHead(x, control, a, b, c) ==
  HasAt(x, 0, control) /\ HasAt(x, 4, a) /\ HasAt(x, 10, b) /\ HasAt(x, 16, c)

Snap(sent) == <<170, 170, 3, 0, 0, 0>> \o Enc!Ethertype(sent)

HasData(x, at, sent) ==
  /\ HasAt(x, at, Snap(sent)) /\ HasAt(x, at + 8, Enc!Datagram(sent))
  /\ IsLong(x, at + 8 + DatagramLen(sent))

LEMMA HeadIs ==
  ASSUME NEW control, NEW a, NEW b, NEW c,
         IsLong(control, 2), IsLong(a, 6), IsLong(b, 6), IsLong(c, 6)
  PROVE  IsLong(WifiHeader(control, a, b, c), 24) /\ HasHead(WifiHeader(control, a, b, c), control, a, b, c)
<1>. DEFINE c2 == Enc!Fill(2)
            c6 == Enc!Fill(2)
            p2 == control \o c2
            p3 == p2 \o a
            p4 == p3 \o b
            p5 == p4 \o c
            p6 == p5 \o c6
<1>0. WifiHeader(control, a, b, c) = p6
  BY DEF WifiHeader
<1>1. /\ IsLong(control, 2) /\ IsLong(c2, 2) /\ IsLong(a, 6) /\ IsLong(b, 6) /\ IsLong(c, 6)
      /\ IsLong(c6, 2)
  BY FillIs
<1>. HIDE DEF c2, c6
<1>2. /\ IsLong(p2, 4) /\ Begins(control, p2) /\ HasAt(p2, 0, control)
      /\ HasAt(p2, 2, c2)
  <2>1. IsLong(control, 2) /\ IsLong(c2, 2) /\ 4 = 2 + 2
    BY <1>1
  <2>. QED
    BY <2>1, More, Zenon
<1>. HIDE DEF p2
<1>3. /\ IsLong(p3, 10) /\ Begins(p2, p3) /\ HasAt(p3, 0, p2)
      /\ HasAt(p3, 4, a)
  <2>1. IsLong(p2, 4) /\ IsLong(a, 6) /\ 10 = 4 + 6
    BY <1>1, <1>2
  <2>. QED
    BY <2>1, More, Zenon
<1>. HIDE DEF p3
<1>4. /\ IsLong(p4, 16) /\ Begins(p3, p4) /\ HasAt(p4, 0, p3)
      /\ HasAt(p4, 10, b)
  <2>1. IsLong(p3, 10) /\ IsLong(b, 6) /\ 16 = 10 + 6
    BY <1>1, <1>3
  <2>. QED
    BY <2>1, More, Zenon
<1>. HIDE DEF p4
<1>5. /\ IsLong(p5, 22) /\ Begins(p4, p5) /\ HasAt(p5, 0, p4)
      /\ HasAt(p5, 16, c)
  <2>1. IsLong(p4, 16) /\ IsLong(c, 6) /\ 22 = 16 + 6
    BY <1>1, <1>4
  <2>. QED
    BY <2>1, More, Zenon
<1>. HIDE DEF p5
<1>6. /\ IsLong(p6, 24) /\ Begins(p5, p6) /\ HasAt(p6, 0, p5)
      /\ HasAt(p6, 22, c6)
  <2>1. IsLong(p5, 22) /\ IsLong(c6, 2) /\ 24 = 22 + 2
    BY <1>1, <1>5
  <2>. QED
    BY <2>1, More, Zenon
<1>. HIDE DEF p6
<1>7. IsSequence(control) /\ IsSequence(a) /\ IsSequence(b) /\ IsSequence(c)
  BY <1>1 DEF IsLong
<1>8. HasAt(p6, 0, control) /\ HasAt(p6, 4, a)
  BY <1>2, <1>3, <1>4, <1>5, <1>6, <1>7 DEF Begins
<1>9. HasAt(p6, 10, b) /\ HasAt(p6, 16, c)
  BY <1>4, <1>5, <1>6, <1>7 DEF Begins
<1>. QED
  BY <1>0, <1>6, <1>8, <1>9 DEF HasHead

LEMMA PairIs == \A x, y : IsLong(<<x, y>>, 2)
BY DEF IsLong, IsSequence

(* More behind a header is still behind it. *)
LEMMA HeadStays ==
  ASSUME NEW x, NEW y, Begins(x, y), NEW control, NEW a, NEW b, NEW c, HasHead(x, control, a, b, c),
         IsLong(control, 2), IsLong(a, 6), IsLong(b, 6), IsLong(c, 6)
  PROVE  HasHead(y, control, a, b, c)
<1>1. IsSequence(control) /\ IsSequence(a) /\ IsSequence(b) /\ IsSequence(c)
  BY DEF IsLong
<1>. QED
  BY <1>1 DEF HasHead, Begins

LEMMA SnapIs ==
  ASSUME NEW sent
  PROVE  /\ IsLong(Snap(sent), 8) /\ HasAt(Snap(sent), 0, <<170, 170, 3, 0, 0, 0>>)
         /\ HasAt(Snap(sent), 6, Enc!Ethertype(sent))
<1>. DEFINE s == <<170, 170, 3, 0, 0, 0>>
            t == Enc!Ethertype(sent)
<1>1. IsLong(s, 6)
  BY DEF IsLong, IsSequence
<1>2. IsLong(t, 2) /\ 8 = 6 + 2
  BY EthertypeIsLong
<1>. HIDE DEF s, t
<1>3. IsLong(s \o t, 8) /\ HasAt(s \o t, 0, s) /\ HasAt(s \o t, 6, t)
  BY <1>1, <1>2, More, Zenon
<1>. QED
  BY <1>3 DEF Snap, s, t

LEMMA DataIs ==
  ASSUME NEW sent, Sendable(sent), NEW g, NEW at, IsLong(g, at)
  PROVE  /\ Begins(g, g \o Snap(sent) \o Enc!Datagram(sent))
         /\ HasData(g \o Snap(sent) \o Enc!Datagram(sent), at, sent)
<1>. DEFINE n == DatagramLen(sent)
            c2 == Snap(sent)
            c3 == Enc!Datagram(sent)
            p2 == g \o c2
            p3 == p2 \o c3
<1>1. IsLong(g, at) /\ IsLong(c2, 8) /\ IsLong(c3, n) /\ at \in Nat /\ n \in Nat
  BY SnapIs, DatagramLenIs DEF IsLong
<1>. HIDE DEF n, c2, c3
<1>2. /\ IsLong(p2, at + 8) /\ Begins(g, p2) /\ HasAt(p2, 0, g)
      /\ HasAt(p2, at, c2)
  <2>1. IsLong(g, at) /\ IsLong(c2, 8) /\ at + 8 = at + 8
    BY <1>1
  <2>. QED
    BY <2>1, More, Zenon
<1>. HIDE DEF p2
<1>3. /\ IsLong(p3, at + 8 + n) /\ Begins(p2, p3) /\ HasAt(p3, 0, p2)
      /\ HasAt(p3, at + 8, c3)
  <2>1. IsLong(p2, at + 8) /\ IsLong(c3, n) /\ at + 8 + n = at + 8 + n
    BY <1>1, <1>2
  <2>. QED
    BY <2>1, More, Zenon
<1>. HIDE DEF p3
<1>4. IsSequence(c2)
  BY <1>1 DEF IsLong
<1>5. HasAt(p3, at, c2) /\ Begins(g, p3)
  BY <1>2, <1>3, <1>4 DEF Begins
<1>6. HasData(p3, at, sent)
  BY <1>3, <1>5 DEF HasData, c2, c3, n
<1>. QED
  BY <1>5, <1>6 DEF p3, p2, c2, c3

LEMMA AdhocIs ==
  ASSUME NEW sent, Sendable(sent), sent.link = "adhoc"
  PROVE  /\ HasHead(Enc!Wifi(sent), <<8, 0>>, Enc!Peer, Enc!Station, Enc!Ap)
         /\ HasData(Enc!Wifi(sent), 24, sent)
<1>. DEFINE head == WifiHeader(<<8, 0>>, Enc!Peer, Enc!Station, Enc!Ap)
            g == head
            x == g \o Snap(sent) \o Enc!Datagram(sent)
<1>1. Enc!Wifi(sent) = x
  BY DEF Enc!Wifi, WifiHeader, Snap
<1>2. IsLong(<<8, 0>>, 2)
  BY PairIs
<1>3. IsLong(head, 24) /\ HasHead(head, <<8, 0>>, Enc!Peer, Enc!Station, Enc!Ap)
  BY <1>2, StationsAreLong, HeadIs
<1>. HIDE DEF head
<1>4. IsLong(g, 24) /\ HasHead(g, <<8, 0>>, Enc!Peer, Enc!Station, Enc!Ap)
  BY <1>3
<1>. HIDE DEF g
<1>5. Begins(g, x) /\ HasData(x, 24, sent)
  BY <1>4, DataIs
<1>. HIDE DEF x
<1>6. HasHead(x, <<8, 0>>, Enc!Peer, Enc!Station, Enc!Ap)
  BY <1>2, <1>4, <1>5, StationsAreLong, HeadStays
<1>. QED
  BY <1>1, <1>5, <1>6

LEMMA ToApIs ==
  ASSUME NEW sent, Sendable(sent), sent.link = "to AP"
  PROVE  /\ HasHead(Enc!Wifi(sent), <<8, 1>>, Enc!Ap, Enc!Station, Enc!Peer)
         /\ HasData(Enc!Wifi(sent), 24, sent)
<1>. DEFINE head == WifiHeader(<<8, 1>>, Enc!Ap, Enc!Station, Enc!Peer)
            g == head
            x == g \o Snap(sent) \o Enc!Datagram(sent)
<1>1. Enc!Wifi(sent) = x
  BY DEF Enc!Wifi, WifiHeader, Snap
<1>2. IsLong(<<8, 1>>, 2)
  BY PairIs
<1>3. IsLong(head, 24) /\ HasHead(head, <<8, 1>>, Enc!Ap, Enc!Station, Enc!Peer)
  BY <1>2, StationsAreLong, HeadIs
<1>. HIDE DEF head
<1>4. IsLong(g, 24) /\ HasHead(g, <<8, 1>>, Enc!Ap, Enc!Station, Enc!Peer)
  BY <1>3
<1>. HIDE DEF g
<1>5. Begins(g, x) /\ HasData(x, 24, sent)
  BY <1>4, DataIs
<1>. HIDE DEF x
<1>6. HasHead(x, <<8, 1>>, Enc!Ap, Enc!Station, Enc!Peer)
  BY <1>2, <1>4, <1>5, StationsAreLong, HeadStays
<1>. QED
  BY <1>1, <1>5, <1>6

LEMMA FromApIs ==
  ASSUME NEW sent, Sendable(sent), sent.link = "from AP"
  PROVE  /\ HasHead(Enc!Wifi(sent), <<8, 2>>, Enc!Station, Enc!Ap, Enc!Peer)
         /\ HasData(Enc!Wifi(sent), 24, sent)
<1>. DEFINE head == WifiHeader(<<8, 2>>, Enc!Station, Enc!Ap, Enc!Peer)
            g == head
            x == g \o Snap(sent) \o Enc!Datagram(sent)
<1>1. Enc!Wifi(sent) = x
  BY DEF Enc!Wifi, WifiHeader, Snap
<1>2. IsLong(<<8, 2>>, 2)
  BY PairIs
<1>3. IsLong(head, 24) /\ HasHead(head, <<8, 2>>, Enc!Station, Enc!Ap, Enc!Peer)
  BY <1>2, StationsAreLong, HeadIs
<1>. HIDE DEF head
<1>4. IsLong(g, 24) /\ HasHead(g, <<8, 2>>, Enc!Station, Enc!Ap, Enc!Peer)
  BY <1>3
<1>. HIDE DEF g
<1>5. Begins(g, x) /\ HasData(x, 24, sent)
  BY <1>4, DataIs
<1>. HIDE DEF x
<1>6. HasHead(x, <<8, 2>>, Enc!Station, Enc!Ap, Enc!Peer)
  BY <1>2, <1>4, <1>5, StationsAreLong, HeadStays
<1>. QED
  BY <1>1, <1>5, <1>6

LEMMA RelayedIs ==
  ASSUME NEW sent, Sendable(sent), sent.link = "relayed"
  PROVE  /\ HasHead(Enc!Wifi(sent), <<8, 3>>, Enc!Ap, Enc!Station, Enc!Peer)
         /\ HasData(Enc!Wifi(sent), 30, sent)
<1>. DEFINE head == WifiHeader(<<8, 3>>, Enc!Ap, Enc!Station, Enc!Peer)
            g == head \o Enc!Peer
            x == g \o Snap(sent) \o Enc!Datagram(sent)
<1>1. Enc!Wifi(sent) = x
  BY DEF Enc!Wifi, WifiHeader, Snap
<1>2. IsLong(<<8, 3>>, 2)
  BY PairIs
<1>3. IsLong(head, 24) /\ HasHead(head, <<8, 3>>, Enc!Ap, Enc!Station, Enc!Peer)
  BY <1>2, StationsAreLong, HeadIs
<1>. HIDE DEF head
<1>4. IsLong(g, 30) /\ HasHead(g, <<8, 3>>, Enc!Ap, Enc!Station, Enc!Peer)
  <2>1. IsLong(head, 24) /\ IsLong(Enc!Peer, 6) /\ 30 = 24 + 6
    BY <1>3, StationsAreLong
  <2>2. IsLong(g, 30) /\ Begins(head, g)
    BY <2>1, More, Zenon
  <2>. HIDE DEF g
  <2>. QED
    BY <1>2, <1>3, <2>2, StationsAreLong, HeadStays
<1>. HIDE DEF g
<1>5. Begins(g, x) /\ HasData(x, 30, sent)
  BY <1>4, DataIs
<1>. HIDE DEF x
<1>6. HasHead(x, <<8, 3>>, Enc!Ap, Enc!Station, Enc!Peer)
  BY <1>2, <1>4, <1>5, StationsAreLong, HeadStays
<1>. QED
  BY <1>1, <1>5, <1>6

LEMMA ManagementIs ==
  ASSUME NEW sent, sent.link = "management"
  PROVE  /\ HasHead(Enc!Wifi(sent), <<0, 0>>, Enc!Peer, Enc!Station, Enc!Ap)
         /\ IsLong(Enc!Wifi(sent), 34) /\ HasAt(Enc!Wifi(sent), 24, Enc!Fill(10))
<1>. DEFINE head == WifiHeader(<<0, 0>>, Enc!Peer, Enc!Station, Enc!Ap)
            x == head \o Enc!Fill(10)
<1>1. Enc!Wifi(sent) = x
  BY DEF Enc!Wifi, WifiHeader, Snap
<1>2. IsLong(<<0, 0>>, 2)
  BY PairIs
<1>3. IsLong(head, 24) /\ HasHead(head, <<0, 0>>, Enc!Peer, Enc!Station, Enc!Ap)
  BY <1>2, StationsAreLong, HeadIs
<1>. HIDE DEF head
<1>4. IsLong(x, 34) /\ Begins(head, x) /\ HasAt(x, 24, Enc!Fill(10))
  <2>1. IsLong(head, 24) /\ IsLong(Enc!Fill(10), 10) /\ 34 = 24 + 10
    BY <1>3, FillIs
  <2>. QED
    BY <2>1, More, Zenon
<1>. HIDE DEF x
<1>5. HasHead(x, <<0, 0>>, Enc!Peer, Enc!Station, Enc!Ap)
  BY <1>2, <1>3, <1>4, StationsAreLong, HeadStays
<1>. QED
  BY <1>1, <1>4, <1>5

-----------------------------------------------------------------------------
(* 802.11 data frames as they are dissected.                               *)

LEMMA FromFrom ==
  ASSUME NEW d \in Seq(Octet), NEW i \in Nat, NEW j \in Nat, i + j <= Len(d), NEW k, k = i + j
  PROVE  Pcap!PD!From(Pcap!PD!From(d, i), j) = Pcap!PD!From(d, k)
<1>. DEFINE s == Pcap!PD!From(d, i)
            t == Pcap!PD!From(s, j)
            u == Pcap!PD!From(d, k)
<1>1. Len(d) \in Nat /\ i <= Len(d) /\ k \in Nat /\ k <= Len(d)
  BY LenProperties
<1>2. s \in Seq(Octet) /\ Len(s) = Len(d) - i /\ \A m \in 1..Len(d) - i : s[m] = d[i + m]
  BY <1>1, FromIs
<1>3. u \in Seq(Octet) /\ Len(u) = Len(d) - k /\ \A m \in 1..Len(d) - k : u[m] = d[k + m]
  BY <1>1, FromIs
<1>. HIDE DEF s, u
<1>4. j <= Len(s)
  BY <1>1, <1>2
<1>5. t \in Seq(Octet) /\ Len(t) = Len(s) - j /\ \A m \in 1..Len(s) - j : t[m] = s[j + m]
  BY <1>2, <1>4, FromIs
<1>. HIDE DEF t
<1>6. Len(t) = Len(u) /\ Len(t) = Len(d) - k
  BY <1>1, <1>2, <1>3, <1>5
<1>7. ASSUME NEW m \in 1..Len(t)
      PROVE  t[m] = u[m]
  <2>1. m \in 1..Len(s) - j /\ m \in 1..Len(d) - k /\ j + m \in 1..Len(d) - i /\ i + (j + m) = k + m
    BY <1>1, <1>2, <1>6
  <2>. QED
    BY <1>2, <1>3, <1>5, <2>1
<1>8. t = u
  BY <1>3, <1>5, <1>6, <1>7, SeqEqual
<1>. QED
  BY <1>8 DEF s, t, u

LEMMA HeadFound ==
  ASSUME NEW d, NEW w, Starts(d, w), NEW r \in Nat, NEW x, IsSequence(x), HasAt(w, r, x),
         NEW p, NEW q, NEW a, NEW b, NEW c, HasHead(x, <<p, q>>, a, b, c),
         IsLong(a, 6), IsLong(b, 6), IsLong(c, 6), Len(d) >= r + 24
  PROVE  LET hdr == Pcap!PD!From(d, r)
         IN /\ Pcap!PD!Byte(hdr, 0) = p /\ Pcap!PD!Byte(hdr, 1) = q
            /\ Pcap!PD!Bytes(hdr, 4, 10) = a /\ Pcap!PD!Bytes(hdr, 10, 16) = b
            /\ Pcap!PD!Bytes(hdr, 16, 22) = c
<1>. DEFINE hdr == Pcap!PD!From(d, r)
<1>1. Len(d) \in Nat /\ r <= Len(d)
  BY LenProperties DEF Starts
<1>2. Starts(hdr, x) /\ Len(hdr) = Len(d) - r
  BY <1>1, StartFrom
<1>. HIDE DEF hdr
<1>3. HasAt(x, 0, <<p, q>>) /\ HasAt(x, 4, a) /\ HasAt(x, 10, b) /\ HasAt(x, 16, c)
  BY DEF HasHead
<1>4. Len(hdr) >= 24
  BY <1>1, <1>2
<1>5. 0 + 2 <= Len(hdr)
  BY <1>1, <1>2, <1>4
<1>6. Pcap!PD!Byte(hdr, 0) = p /\ Pcap!PD!Byte(hdr, 0 + 1) = q
  BY <1>2, <1>3, <1>5, PairShown
<1>7. PICK m, i, j, k : m = 6 /\ i = 10 /\ j = 16 /\ k = 22
  OBVIOUS
<1>8. /\ i = 4 + m /\ j = i + m /\ k = j + m
      /\ i <= Len(hdr) /\ j <= Len(hdr) /\ k <= Len(hdr)
  BY <1>1, <1>2, <1>4, <1>7
<1>9. /\ IsLong(a, m) /\ IsLong(b, m) /\ IsLong(c, m)
      /\ HasAt(x, 4, a) /\ HasAt(x, i, b) /\ HasAt(x, j, c)
  BY <1>3, <1>7
<1>10. Pcap!PD!Bytes(hdr, 4, i) = a
  BY <1>2, <1>8, <1>9, StartBytes
<1>11. Pcap!PD!Bytes(hdr, i, j) = b
  BY <1>2, <1>8, <1>9, StartBytes
<1>12. Pcap!PD!Bytes(hdr, j, k) = c
  BY <1>2, <1>8, <1>9, StartBytes
<1>13. 0 + 1 = 1
  OBVIOUS
<1>. QED
  BY <1>6, <1>7, <1>10, <1>11, <1>12, <1>13 DEF hdr

LEMMA SnapFound ==
  ASSUME NEW sent, NEW d, NEW w, Starts(d, w), NEW at \in Nat, HasAt(w, at, Snap(sent)),
         Len(d) >= at + 8
  PROVE  Pcap!PD!CarriesIp(Pcap!PD!From(d, at))
<1>. DEFINE llc == Pcap!PD!From(d, at)
            s == <<170, 170, 3, 0, 0, 0>>
<1>1. Len(d) \in Nat /\ at <= Len(d)
  BY LenProperties DEF Starts
<1>2. IsSequence(Snap(sent)) /\ HasAt(Snap(sent), 0, s) /\ HasAt(Snap(sent), 6, Enc!Ethertype(sent))
  BY SnapIs DEF IsLong
<1>3. Starts(llc, Snap(sent)) /\ Len(llc) = Len(d) - at
  BY <1>1, <1>2, StartFrom
<1>4. IsLong(s, 6)
  BY DEF IsLong, IsSequence
<1>. HIDE DEF llc, s
<1>5. Len(llc) >= 8 /\ 6 + 2 <= Len(llc) /\ 6 <= Len(llc)
  BY <1>1, <1>3
<1>6. PICK m : m = 6
  OBVIOUS
<1>7. m = 0 + m /\ m <= Len(llc) /\ IsLong(s, m)
  BY <1>4, <1>5, <1>6
<1>8. Pcap!PD!Bytes(llc, 0, m) = s
  BY <1>2, <1>3, <1>7, StartBytes
<1>9. Pcap!PD!Be16(llc, 6) \in Pcap!PD!Ethertypes
  BY <1>2, <1>3, <1>5, EthertypeShown
<1>. QED
  BY <1>5, <1>6, <1>8, <1>9 DEF Pcap!PD!CarriesIp, llc, s

(* The cell of a data frame with these two bits. *)
Cell(q, a, b, c) == IF q = 0 THEN c ELSE IF q = 1 THEN a ELSE IF q = 2 THEN b ELSE Absent

LEMMA CellFound ==
  ASSUME NEW hdr, NEW q \in 0..3, NEW a, NEW b, NEW c,
         Pcap!PD!Bytes(hdr, 4, 10) = a, Pcap!PD!Bytes(hdr, 10, 16) = b,
         Pcap!PD!Bytes(hdr, 16, 22) = c
  PROVE  /\ Pcap!PD!Bssid(hdr, 2, q % 2, (q \div 2) % 2) = Cell(q, a, b, c)
         /\ (2 = 2 /\ q % 2 = 1 /\ (q \div 2) % 2 = 1) <=> q = 3
<1>1. CASE q = 0
  BY <1>1 DEF Pcap!PD!Bssid, Pcap!PD!Management, Pcap!PD!Data, Cell
<1>2. CASE q = 1
  BY <1>2 DEF Pcap!PD!Bssid, Pcap!PD!Management, Pcap!PD!Data, Cell
<1>3. CASE q = 2
  BY <1>3 DEF Pcap!PD!Bssid, Pcap!PD!Management, Pcap!PD!Data, Cell
<1>4. CASE q = 3
  BY <1>4 DEF Pcap!PD!Bssid, Pcap!PD!Management, Pcap!PD!Data, Cell
<1>. QED
  BY <1>1, <1>2, <1>3, <1>4

LEMMA DataFrameFound ==
  ASSUME NEW sent, Sendable(sent), Len(sent.chain) <= 8,
         NEW d, NEW w, Starts(d, w), NEW r \in Nat, NEW x, HasAt(w, r, x),
         NEW q \in 0..3, NEW a, NEW b, NEW c, HasHead(x, <<8, q>>, a, b, c),
         IsLong(a, 6), IsLong(b, 6), IsLong(c, 6),
         NEW h, h = IF q = 3 THEN 30 ELSE 24, HasData(x, h, sent),
         NEW at, at = r + h + 8, Len(d) >= at + SegmentAt(sent) + 4
  PROVE  DissectedAs(Pcap!PD!Parse80211Frame(d, r), a, b, Cell(q, a, b, c), sent,
                     at + SegmentAt(sent), Len(d))
<1>. DEFINE hdr == Pcap!PD!From(d, r)
            llc == Pcap!PD!From(d, r + h)
            info == Pcap!PD!ParseIp(Pcap!PD!From(d, at))
<1>1. /\ h \in Nat /\ h >= 24 /\ at \in Nat /\ r + h \in Nat /\ (r + h) + 8 = at
      /\ SegmentAt(sent) \in Nat /\ Len(d) \in Nat /\ d \in Seq(Octet)
  <2>1. h \in {24, 30}
    OBVIOUS
  <2>. QED
    BY <2>1, DatagramLenIs, LenProperties DEF Starts
<1>2. ~(Len(d) < r + 24) /\ Len(d) >= r + 24 /\ Len(d) >= (r + h) + 8 /\ (r + h) + 8 <= Len(d)
  BY <1>1
<1>3. /\ IsSequence(x) /\ HasAt(x, h, Snap(sent)) /\ HasAt(x, h + 8, Enc!Datagram(sent))
      /\ IsSequence(Snap(sent)) /\ IsSequence(Enc!Datagram(sent))
  BY SnapIs, DatagramLenIs DEF HasData, IsLong
<1>4. HasAt(w, r + h, Snap(sent)) /\ HasAt(w, at, Enc!Datagram(sent))
  <2>1. IsSequence(w)
    BY DEF Starts
  <2>2. HasAt(w, r + h, Snap(sent)) /\ HasAt(w, r + (h + 8), Enc!Datagram(sent))
    BY <1>3, <2>1, HasAtWithin
  <2>3. r + (h + 8) = at
    BY <1>1
  <2>. QED
    BY <2>2, <2>3
<1>5. /\ Pcap!PD!Byte(hdr, 0) = 8 /\ Pcap!PD!Byte(hdr, 1) = q
      /\ Pcap!PD!Bytes(hdr, 4, 10) = a /\ Pcap!PD!Bytes(hdr, 10, 16) = b
      /\ Pcap!PD!Bytes(hdr, 16, 22) = c
  BY <1>2, <1>3, HeadFound
<1>6. Pcap!PD!CarriesIp(llc)
  BY <1>1, <1>2, <1>4, SnapFound
<1>7. Pcap!PD!From(llc, 8) = Pcap!PD!From(d, at)
  BY <1>1, <1>2, FromFrom
<1>. HIDE DEF hdr, llc
<1>8. /\ Pcap!PD!Bssid(hdr, 2, q % 2, (q \div 2) % 2) = Cell(q, a, b, c)
      /\ (2 = 2 /\ q % 2 = 1 /\ (q \div 2) % 2 = 1) <=> q = 3
  BY <1>5, CellFound
<1>9. (8 \div 4) % 4 = 2
  OBVIOUS
<1>. HIDE DEF info
<1>10. Pcap!PD!Parse80211Frame(d, r) = Pcap!PD!Parsed(b, a, Cell(q, a, b, c), info, r + h + 8)
  BY <1>2, <1>5, <1>6, <1>7, <1>8, <1>9
     DEF Pcap!PD!Parse80211Frame, Pcap!PD!Data, hdr, llc, info
<1>. QED
  BY <1>1, <1>4, <1>10, CarriedFound DEF info

-----------------------------------------------------------------------------
(* Radiotap headers and management frames.                                 *)

WifiLinks == {"management", "adhoc", "to AP", "from AP", "relayed", "QoS"}

LEMMA OverWifi ==
  ASSUME NEW sent, Sendable(sent), sent.link \in WifiLinks
  PROVE  sent.radiotap \in Nat /\ sent.padding = 0 /\ (sent.radiotap = 0 \/ sent.radiotap \in 4..255)
<1>1. sent.radiotap \in {0} \cup 4..255 /\ sent.link # "ethernet"
  BY DEF Sendable, SendableOver, WifiLinks
<1>2. sent.padding = 0
  BY <1>1 DEF Sendable, SendableOver
<1>. QED
  BY <1>1, <1>2

LEMMA HasItself ==
  ASSUME NEW s, NEW n, IsLong(s, n)
  PROVE  HasAt(s, 0, s)
<1>1. \A i \in 1..Len(s) : 0 + i = i
  OBVIOUS
<1>2. 0 + Len(s) <= Len(s)
  BY DEF IsLong
<1>. QED
  BY <1>1, <1>2 DEF HasAt

LEMMA RadiotapIs ==
  ASSUME NEW sent, sent.radiotap \in 4..255, NEW n, IsLong(Enc!Wifi(sent), n)
  PROVE  /\ IsLong(Enc!Radiotap(sent), sent.radiotap + n)
         /\ HasAt(Enc!Radiotap(sent), 0, <<0, 0, sent.radiotap, 0>>)
         /\ HasAt(Enc!Radiotap(sent), sent.radiotap, Enc!Wifi(sent))
<1>. DEFINE r == sent.radiotap
            m == r - 4
            c1 == <<0, 0, r, 0>>
            c2 == Enc!Fill(m)
            c3 == Enc!Wifi(sent)
            p2 == c1 \o c2
            p3 == p2 \o c3
<1>0. Enc!Radiotap(sent) = p3
  BY DEF Enc!Radiotap
<1>1. r \in Nat /\ m \in Nat /\ r = 4 + m
  OBVIOUS
<1>2. IsLong(c1, 4)
  BY DEF IsLong, IsSequence
<1>3. IsLong(c2, m)
  BY <1>1, FillIs
<1>. HIDE DEF r, m, c1, c2, c3
<1>4. IsLong(p2, r) /\ HasAt(p2, 0, c1)
  <2>1. IsLong(c1, 4) /\ IsLong(c2, m) /\ r = 4 + m
    BY <1>1, <1>2, <1>3
  <2>. QED
    BY <2>1, More, Zenon
<1>. HIDE DEF p2
<1>5. IsLong(p3, r + n) /\ HasAt(p3, r, c3) /\ Begins(p2, p3)
  <2>1. IsLong(p2, r) /\ IsLong(c3, n) /\ r + n = r + n
    BY <1>4 DEF c3
  <2>. QED
    BY <2>1, More, Zenon
<1>6. HasAt(p3, 0, c1)
  BY <1>2, <1>4, <1>5 DEF Begins, IsLong
<1>. QED
  BY <1>0, <1>5, <1>6 DEF c1, c3, r

LEMMA RadiotapFound ==
  ASSUME NEW d, NEW w, Starts(d, w), NEW r \in 4..255, HasAt(w, 0, <<0, 0, r, 0>>), Len(d) >= r
  PROVE  Pcap!PD!FromPcapRecord(127, d) = Pcap!PD!Parse80211Frame(d, r)
<1>. DEFINE c == <<0, 0, r, 0>>
<1>1. Len(d) \in Nat /\ Len(d) >= 4
  BY LenProperties DEF Starts
<1>2. IsSequence(c) /\ Len(c) = 4 /\ c[1] = 0 /\ c[3] = r /\ c[4] = 0
  BY DEF IsSequence
<1>3. Shows(d, 0, c)
  BY <1>2, StartShows
<1>. HIDE DEF c
<1>4. /\ 1 \in 1..4 /\ 3 \in 1..4 /\ 4 \in 1..4 /\ 0 + 1 = 1 /\ 0 + 3 = 3 /\ 0 + 4 = 4
      /\ 1 <= Len(d) /\ 3 <= Len(d) /\ 4 <= Len(d) /\ 2 + 1 = 3 /\ 3 + 1 = 4
  BY <1>1
<1>5. d[1] = 0 /\ d[3] = r /\ d[4] = 0
  BY <1>2, <1>3, <1>4 DEF Shows
<1>6. Pcap!PD!Byte(d, 0) = 0 /\ Pcap!PD!Byte(d, 2) = r /\ Pcap!PD!Byte(d, 2 + 1) = 0
  BY <1>4, <1>5 DEF Pcap!PD!Byte
<1>7. Pcap!PD!Le16(d, 2) = r
  BY <1>6 DEF Pcap!PD!Le16
<1>8. ~(Len(d) < 4) /\ ~(r < 4) /\ ~(r > Len(d))
  BY <1>1
<1>9. Pcap!PD!ParseWifiRadiotap(d) = Pcap!PD!Parse80211Frame(d, r)
  BY <1>6, <1>7, <1>8 DEF Pcap!PD!ParseWifiRadiotap
<1>. QED
  BY <1>9 DEF Pcap!PD!FromPcapRecord

LEMMA WifiOnTheWire ==
  ASSUME NEW sent, Sendable(sent), sent.link \in WifiLinks, NEW n, IsLong(Enc!Wifi(sent), n)
  PROVE  /\ IsLong(Enc!OnTheWire(sent), sent.radiotap + n)
         /\ HasAt(Enc!OnTheWire(sent), sent.radiotap, Enc!Wifi(sent))
         /\ \A d : Starts(d, Enc!OnTheWire(sent)) /\ Len(d) >= sent.radiotap =>
              Pcap!PD!FromPcapRecord(Enc!LinkType(sent), d) =
                Pcap!PD!Parse80211Frame(d, sent.radiotap)
<1>1. sent.link \notin {"ethernet", "vlan"} /\ sent.link # "ip" /\ sent.link # "ethernet" /\ sent.link # "vlan"
  BY DEF WifiLinks
<1>2. CASE sent.radiotap = 0
  <2>1. ~(sent.radiotap > 0)
    BY <1>2
  <2>2. Enc!OnTheWire(sent) = Enc!Wifi(sent) /\ Enc!LinkType(sent) = 105
    BY <1>1, <2>1 DEF Enc!OnTheWire, Enc!LinkType
  <2>3. HasAt(Enc!Wifi(sent), 0, Enc!Wifi(sent))
    BY HasItself
  <2>4. 0 + n = n
    BY DEF IsLong
  <2>5. \A d : Pcap!PD!FromPcapRecord(105, d) = Pcap!PD!Parse80211Frame(d, 0)
    BY DEF Pcap!PD!FromPcapRecord
  <2>. QED
    BY <1>2, <2>2, <2>3, <2>4, <2>5
<1>3. CASE sent.radiotap \in 4..255
  <2>1. sent.radiotap > 0
    BY <1>3
  <2>2. Enc!OnTheWire(sent) = Enc!Radiotap(sent) /\ Enc!LinkType(sent) = 127
    BY <1>1, <2>1 DEF Enc!OnTheWire, Enc!LinkType
  <2>3. /\ IsLong(Enc!Radiotap(sent), sent.radiotap + n)
        /\ HasAt(Enc!Radiotap(sent), 0, <<0, 0, sent.radiotap, 0>>)
        /\ HasAt(Enc!Radiotap(sent), sent.radiotap, Enc!Wifi(sent))
    BY <1>3, RadiotapIs
  <2>4. ASSUME NEW d, Starts(d, Enc!Radiotap(sent)), Len(d) >= sent.radiotap
        PROVE  Pcap!PD!FromPcapRecord(127, d) = Pcap!PD!Parse80211Frame(d, sent.radiotap)
    BY <1>3, <2>3, <2>4, RadiotapFound
  <2>. QED
    BY <2>2, <2>3, <2>4
<1>. QED
  BY <1>2, <1>3, OverWifi

(* A data frame, whatever the two bits say of its addresses. *)
LEMMA WifiFound ==
  ASSUME NEW sent, Sendable(sent), Len(sent.chain) <= 8, sent.link \in WifiLinks,
         NEW q \in 0..3, NEW a, NEW b, NEW c, HasHead(Enc!Wifi(sent), <<8, q>>, a, b, c),
         IsLong(a, 6), IsLong(b, 6), IsLong(c, 6),
         NEW h, h = IF q = 3 THEN 30 ELSE 24, HasData(Enc!Wifi(sent), h, sent)
  PROVE  FoundOver(Enc!OnTheWire(sent), sent.radiotap + h + 8, sent, a, b, Cell(q, a, b, c))
<1>. DEFINE r == sent.radiotap
            at == r + h + 8
            w == Enc!OnTheWire(sent)
            x == Enc!Wifi(sent)
            n == DatagramLen(sent)
            link == Enc!LinkType(sent)
<1>1. r \in Nat /\ sent.padding = 0
  BY OverWifi
<1>2. h \in Nat /\ at \in Nat /\ n \in Nat /\ SegmentAt(sent) \in Nat /\ IsSequence(Enc!Datagram(sent))
  <2>1. h \in {24, 30}
    OBVIOUS
  <2>. QED
    BY <1>1, <2>1, DatagramLenIs DEF IsLong
<1>3. IsLong(x, h + 8 + n) /\ HasAt(x, h + 8, Enc!Datagram(sent))
  BY DEF HasData
<1>4. /\ IsLong(w, r + (h + 8 + n)) /\ HasAt(w, r, x)
      /\ \A d : Starts(d, w) /\ Len(d) >= r =>
           Pcap!PD!FromPcapRecord(link, d) = Pcap!PD!Parse80211Frame(d, r)
  BY <1>3, WifiOnTheWire
<1>5. HasHead(x, <<8, q>>, a, b, c) /\ HasData(x, h, sent)
  OBVIOUS
<1>. HIDE DEF w, x, r, n, at, link
<1>6. IsLong(w, at + n) /\ at + n \in Nat
  <2>1. r + (h + 8 + n) = at + n
    BY <1>1, <1>2 DEF at
  <2>. QED
    BY <1>2, <1>4, <2>1
<1>7. HasAt(w, at, Enc!Datagram(sent))
  <2>1. HasAt(w, r + (h + 8), Enc!Datagram(sent))
    BY <1>2, <1>3, <1>4, HasAtWithin DEF IsLong
  <2>2. r + (h + 8) = at
    BY <1>1, <1>2 DEF at
  <2>. QED
    BY <2>1, <2>2
<1>8. Carries(w, at, sent)
  <2>1. IsLong(w, at + n + sent.padding) /\ HasAt(w, at + n, Enc!Fill(sent.padding))
    BY <1>1, <1>6, NoPadding
  <2>. QED
    BY <1>7, <2>1 DEF Carries, n
<1>9. ASSUME NEW d, Starts(d, w), Len(d) >= at + SegmentAt(sent) + 4
      PROVE  DissectedAs(Pcap!PD!FromPcapRecord(link, d), a, b, Cell(q, a, b, c), sent,
                         at + SegmentAt(sent), Len(d))
  <2>1. Len(d) \in Nat
    BY <1>9, LenProperties DEF Starts
  <2>2. Len(d) >= r
    BY <1>1, <1>2, <1>9, <2>1 DEF at
  <2>3. Pcap!PD!FromPcapRecord(link, d) = Pcap!PD!Parse80211Frame(d, r)
    BY <1>4, <1>9, <2>2
  <2>4. DissectedAs(Pcap!PD!Parse80211Frame(d, r), a, b, Cell(q, a, b, c), sent,
                    at + SegmentAt(sent), Len(d))
    BY <1>1, <1>4, <1>5, <1>9, DataFrameFound DEF at
  <2>. QED
    BY <2>3, <2>4
<1>. QED
  BY <1>2, <1>8, <1>9 DEF FoundOver, w, at, r, link

LEMMA ManagementFound ==
  ASSUME NEW sent, Sendable(sent), sent.link = "management",
         NEW d, Starts(d, Enc!OnTheWire(sent)), Len(d) = Len(Enc!OnTheWire(sent))
  PROVE  LET f == Pcap!PD!FromPcapRecord(Enc!LinkType(sent), d)
         IN f.src_mac = Enc!Station /\ f.dst_mac = Enc!Peer /\ f.bssid = Enc!Ap /\ f.five_tuple = Absent
<1>. DEFINE r == sent.radiotap
            w == Enc!OnTheWire(sent)
            x == Enc!Wifi(sent)
            f == Pcap!PD!FromPcapRecord(Enc!LinkType(sent), d)
            hdr == Pcap!PD!From(d, r)
            llc == Pcap!PD!From(d, r + 24)
<1>1. r \in Nat /\ sent.link \in WifiLinks
  <2>1. sent.link \in WifiLinks
    BY DEF WifiLinks
  <2>. QED
    BY <2>1, OverWifi
<1>2. /\ HasHead(x, <<0, 0>>, Enc!Peer, Enc!Station, Enc!Ap)
      /\ IsLong(x, 34) /\ HasAt(x, 24, Enc!Fill(10)) /\ IsSequence(x)
  BY ManagementIs DEF IsLong
<1>3. IsLong(w, r + 34) /\ HasAt(w, r, x) /\ (Len(d) >= r => f = Pcap!PD!Parse80211Frame(d, r))
  BY <1>1, <1>2, WifiOnTheWire
<1>4. Len(d) = r + 34 /\ Starts(d, w) /\ Len(d) \in Nat
  BY <1>3 DEF IsLong
<1>. HIDE DEF r, w, x, f
<1>5. Len(d) >= r + 24 /\ ~(Len(d) < r + 24) /\ Len(d) >= r /\ r + 24 \in Nat /\ r + 24 <= Len(d)
  BY <1>1, <1>4
<1>6. /\ Pcap!PD!Byte(hdr, 0) = 0 /\ Pcap!PD!Byte(hdr, 1) = 0
      /\ Pcap!PD!Bytes(hdr, 4, 10) = Enc!Peer /\ Pcap!PD!Bytes(hdr, 10, 16) = Enc!Station
      /\ Pcap!PD!Bytes(hdr, 16, 22) = Enc!Ap
  BY <1>1, <1>2, <1>3, <1>4, <1>5, StationsAreLong, HeadFound
<1>7. ~Pcap!PD!CarriesIp(llc)
  <2>1. HasAt(w, r + 24, Enc!Fill(10)) /\ IsSequence(Enc!Fill(10))
    <3>1. IsSequence(w) /\ IsSequence(Enc!Fill(10))
      BY <1>3, FillIs DEF IsLong
    <3>. QED
      BY <1>2, <1>3, <3>1, HasAtWithin
  <2>2. Starts(llc, Enc!Fill(10)) /\ Len(llc) = Len(d) - (r + 24)
    BY <1>4, <1>5, <2>1, StartFrom
  <2>3. Len(llc) = 10
    BY <1>1, <1>4, <2>2
  <2>. HIDE DEF llc
  <2>4. llc[1] = 7
    <3>1. Len(Enc!Fill(10)) = 10 /\ Enc!Fill(10)[1] = 7
      <4>1. 10 \in Nat /\ 1 \in 1..10
        OBVIOUS
      <4>2. IsLong(Enc!Fill(10), 10) /\ Enc!Fill(10)[1] = 7
        BY <4>1, FillIs
      <4>. QED
        BY <4>2 DEF IsLong
    <3>2. 1 \in 1..10 /\ 0 + 1 <= 10 /\ 0 + 1 = 1
      OBVIOUS
    <3>. QED
      BY <2>2, <2>3, <3>1, <3>2 DEF Starts, Shows
  <2>5. Pcap!PD!Bytes(llc, 0, 6)[1] = 7
    <3>1. llc \in Seq(Octet) /\ 0 + 1 = 1
      BY <2>2 DEF Starts
    <3>2. SubSeq(llc, 1, 6)[1] = llc[1]
      BY <2>3, <3>1, SubSeqProperties
    <3>. QED
      BY <2>4, <3>1, <3>2 DEF Pcap!PD!Bytes
  <2>6. <<170, 170, 3, 0, 0, 0>>[1] = 170
    OBVIOUS
  <2>7. Pcap!PD!Bytes(llc, 0, 6) # <<170, 170, 3, 0, 0, 0>>
    BY <2>5, <2>6
  <2>. QED
    BY <2>7 DEF Pcap!PD!CarriesIp
<1>. HIDE DEF hdr, llc
<1>8. Pcap!PD!Bssid(hdr, 0, 0 % 2, (0 \div 2) % 2) = Enc!Ap
  BY <1>6 DEF Pcap!PD!Bssid, Pcap!PD!Management, Pcap!PD!Data
<1>9. Pcap!PD!Parse80211Frame(d, r) =
        Pcap!PD!Parsed(Enc!Station, Enc!Peer, Enc!Ap, Absent, r + 24 + 8)
  <2>1. (0 \div 4) % 4 = 0 /\ 0 # 2
    OBVIOUS
  <2>. QED
    BY <1>5, <1>6, <1>7, <1>8, <2>1 DEF Pcap!PD!Parse80211Frame, Pcap!PD!Data, hdr, llc
<1>10. f = Pcap!PD!Parsed(Enc!Station, Enc!Peer, Enc!Ap, Absent, r + 24 + 8)
  BY <1>3, <1>5, <1>9
<1>11. /\ f.src_mac = Enc!Station /\ f.dst_mac = Enc!Peer /\ f.bssid = Enc!Ap
       /\ f.five_tuple = Absent
  BY <1>10 DEF Pcap!PD!Parsed
<1>. QED
  BY <1>11 DEF f

-----------------------------------------------------------------------------
(* The reader's instance of Encapsulation builds the frames of this one.   *)

LEMMA SameSegment == \A sent : Pcap!Enc!Segment(sent) = Enc!Segment(sent)
BY DEF Pcap!Enc!Segment, Pcap!Enc!TcpHeader, Pcap!Enc!InBe16, Pcap!Enc!Fill, Pcap!Enc!Filler,
       Pcap!Enc!Payload, Pcap!Enc!PayloadByte, Enc!Segment, Enc!TcpHeader, Enc!InBe16, Enc!Fill,
       Enc!Filler, Enc!Payload, Enc!PayloadByte

LEMMA SameDatagram == \A sent : Pcap!Enc!Datagram(sent) = Enc!Datagram(sent)
<1>1. \A sent : Pcap!Enc!Ipv4(sent) = Enc!Ipv4(sent)
  BY SameSegment DEF Pcap!Enc!Ipv4, Pcap!Enc!Fill, Pcap!Enc!Filler, Enc!Ipv4, Enc!Fill, Enc!Filler
<1>2. \A sent : Pcap!Enc!Ipv6(sent) = Enc!Ipv6(sent)
  <2>. TAKE sent
  <2>. DEFINE parts == [i \in DOMAIN sent.chain |-> ExtHeader(sent, i)]
              dg(chain) == <<96>> \o Enc!Fill(5) \o <<Enc!NextHeader(sent, 0)>> \o Enc!Fill(1)
                             \o sent.src \o sent.dst \o chain \o Enc!Segment(sent)
  <2>1. Pcap!Enc!FlattenSeq(parts) = Enc!FlattenSeq(parts)
    BY DEF Pcap!Enc!FlattenSeq, Enc!FlattenSeq
  <2>2. Enc!Ipv6(sent) = dg(Enc!FlattenSeq(parts))
    BY DEF Enc!Ipv6, ExtHeader
  <2>3. Pcap!Enc!Ipv6(sent) = dg(Pcap!Enc!FlattenSeq(parts))
    BY SameSegment
       DEF Pcap!Enc!Ipv6, ExtHeader, Pcap!Enc!Fill, Pcap!Enc!Filler, Pcap!Enc!NextHeader,
           Enc!Fill, Enc!Filler, Enc!NextHeader
  <2>. QED
    BY <2>1, <2>2, <2>3
<1>. QED
  BY <1>1, <1>2 DEF Pcap!Enc!Datagram, Pcap!Enc!IsIpv4, Enc!Datagram, Enc!IsIpv4

LEMMA SameWifi == \A sent : Pcap!Enc!Wifi(sent) = Enc!Wifi(sent)
BY SameDatagram
   DEF Pcap!Enc!Wifi, Pcap!Enc!Fill, Pcap!Enc!Filler, Pcap!Enc!Station, Pcap!Enc!Peer, Pcap!Enc!Ap,
       Pcap!Enc!Ethertype, Pcap!Enc!IsIpv4,
       Enc!Wifi, Enc!Fill, Enc!Filler, Enc!Station, Enc!Peer, Enc!Ap, Enc!Ethertype, Enc!IsIpv4

LEMMA SameWire == \A sent : Pcap!Enc!OnTheWire(sent) = Enc!OnTheWire(sent)
BY SameDatagram, SameWifi
   DEF Pcap!Enc!OnTheWire, Pcap!Enc!Radiotap, Pcap!Enc!Fill, Pcap!Enc!Filler, Pcap!Enc!Station,
       Pcap!Enc!Peer, Pcap!Enc!Ethertype, Pcap!Enc!IsIpv4,
       Enc!OnTheWire, Enc!Radiotap, Enc!Fill, Enc!Filler, Enc!Station, Enc!Peer, Enc!Ethertype,
       Enc!IsIpv4

-----------------------------------------------------------------------------
(* Every frame that carries a datagram, whatever its link layer.           *)

(* The fields of a frame as its sender meant them. *)
To(sent) == IF sent.link = "ip" THEN Absent ELSE Enc!Receiver(sent)

By(sent) == IF sent.link = "ip" THEN Absent ELSE Enc!Transmitter(sent)

CellOf(sent) ==
  IF sent.link \in {"management", "adhoc", "to AP", "from AP"} THEN Enc!Ap ELSE Absent

LEMMA StationsOf ==
  ASSUME NEW sent
  PROVE  /\ sent.link \in {"ethernet", "vlan"} =>
              To(sent) = Enc!Peer /\ By(sent) = Enc!Station /\ CellOf(sent) = Absent
         /\ sent.link = "ip" => To(sent) = Absent /\ By(sent) = Absent /\ CellOf(sent) = Absent
         /\ sent.link \in {"management", "adhoc"} =>
              To(sent) = Enc!Peer /\ By(sent) = Enc!Station /\ CellOf(sent) = Enc!Ap
         /\ sent.link = "to AP" =>
              To(sent) = Enc!Ap /\ By(sent) = Enc!Station /\ CellOf(sent) = Enc!Ap
         /\ sent.link = "from AP" =>
              To(sent) = Enc!Station /\ By(sent) = Enc!Ap /\ CellOf(sent) = Enc!Ap
         /\ sent.link = "relayed" =>
              To(sent) = Enc!Ap /\ By(sent) = Enc!Station /\ CellOf(sent) = Absent
BY DEF To, By, CellOf, Enc!Receiver, Enc!Transmitter

LEMMA WireFound ==
  ASSUME NEW sent, Sendable(sent), Len(sent.chain) <= 8, sent.link \notin {"management", "QoS"}
  PROVE  \E at : FoundOver(Enc!OnTheWire(sent), at, sent, To(sent), By(sent), CellOf(sent))
<1>1. CASE sent.link = "ethernet"
  <2>1. To(sent) = Enc!Peer /\ By(sent) = Enc!Station /\ CellOf(sent) = Absent
    BY <1>1, StationsOf
  <2>. QED
    BY <1>1, <2>1, EthernetFound
<1>2. CASE sent.link = "vlan"
  <2>1. To(sent) = Enc!Peer /\ By(sent) = Enc!Station /\ CellOf(sent) = Absent
    BY <1>2, StationsOf
  <2>. QED
    BY <1>2, <2>1, VlanFound
<1>3. CASE sent.link = "ip"
  <2>1. To(sent) = Absent /\ By(sent) = Absent /\ CellOf(sent) = Absent
    BY <1>3, StationsOf
  <2>. QED
    BY <1>3, <2>1, IpFound
<1>4. CASE sent.link = "adhoc"
  <2>1. sent.link \in WifiLinks
    BY <1>4 DEF WifiLinks
  <2>2. /\ HasHead(Enc!Wifi(sent), <<8, 0>>, Enc!Peer, Enc!Station, Enc!Ap)
        /\ HasData(Enc!Wifi(sent), 24, sent)
    BY <1>4, AdhocIs
  <2>3. 0 \in 0..3 /\ 24 = IF 0 = 3 THEN 30 ELSE 24
    OBVIOUS
  <2>4. FoundOver(Enc!OnTheWire(sent), sent.radiotap + 24 + 8, sent, Enc!Peer, Enc!Station,
                  Cell(0, Enc!Peer, Enc!Station, Enc!Ap))
    BY <2>1, <2>2, <2>3, StationsAreLong, WifiFound
  <2>5. Cell(0, Enc!Peer, Enc!Station, Enc!Ap) = Enc!Ap
    BY DEF Cell
  <2>. QED
    BY <1>4, <2>4, <2>5, StationsOf
<1>5. CASE sent.link = "to AP"
  <2>1. sent.link \in WifiLinks
    BY <1>5 DEF WifiLinks
  <2>2. /\ HasHead(Enc!Wifi(sent), <<8, 1>>, Enc!Ap, Enc!Station, Enc!Peer)
        /\ HasData(Enc!Wifi(sent), 24, sent)
    BY <1>5, ToApIs
  <2>3. 1 \in 0..3 /\ 24 = IF 1 = 3 THEN 30 ELSE 24
    OBVIOUS
  <2>4. FoundOver(Enc!OnTheWire(sent), sent.radiotap + 24 + 8, sent, Enc!Ap, Enc!Station,
                  Cell(1, Enc!Ap, Enc!Station, Enc!Peer))
    BY <2>1, <2>2, <2>3, StationsAreLong, WifiFound
  <2>5. Cell(1, Enc!Ap, Enc!Station, Enc!Peer) = Enc!Ap
    BY DEF Cell
  <2>. QED
    BY <1>5, <2>4, <2>5, StationsOf
<1>6. CASE sent.link = "from AP"
  <2>1. sent.link \in WifiLinks
    BY <1>6 DEF WifiLinks
  <2>2. /\ HasHead(Enc!Wifi(sent), <<8, 2>>, Enc!Station, Enc!Ap, Enc!Peer)
        /\ HasData(Enc!Wifi(sent), 24, sent)
    BY <1>6, FromApIs
  <2>3. 2 \in 0..3 /\ 24 = IF 2 = 3 THEN 30 ELSE 24
    OBVIOUS
  <2>4. FoundOver(Enc!OnTheWire(sent), sent.radiotap + 24 + 8, sent, Enc!Station, Enc!Ap,
                  Cell(2, Enc!Station, Enc!Ap, Enc!Peer))
    BY <2>1, <2>2, <2>3, StationsAreLong, WifiFound
  <2>5. Cell(2, Enc!Station, Enc!Ap, Enc!Peer) = Enc!Ap
    BY DEF Cell
  <2>. QED
    BY <1>6, <2>4, <2>5, StationsOf
<1>7. CASE sent.link = "relayed"
  <2>1. sent.link \in WifiLinks
    BY <1>7 DEF WifiLinks
  <2>2. /\ HasHead(Enc!Wifi(sent), <<8, 3>>, Enc!Ap, Enc!Station, Enc!Peer)
        /\ HasData(Enc!Wifi(sent), 30, sent)
    BY <1>7, RelayedIs
  <2>3. 3 \in 0..3 /\ 30 = IF 3 = 3 THEN 30 ELSE 24
    OBVIOUS
  <2>4. FoundOver(Enc!OnTheWire(sent), sent.radiotap + 30 + 8, sent, Enc!Ap, Enc!Station,
                  Cell(3, Enc!Ap, Enc!Station, Enc!Peer))
    BY <2>1, <2>2, <2>3, StationsAreLong, WifiFound
  <2>5. Cell(3, Enc!Ap, Enc!Station, Enc!Peer) = Absent
    BY DEF Cell
  <2>. QED
    BY <1>7, <2>4, <2>5, StationsOf
<1>. QED
  BY <1>1, <1>2, <1>3, <1>4, <1>5, <1>6, <1>7 DEF Sendable, SendableOver

(* Where the ports end and the payload starts, of a frame that carries its *)
(* datagram at a place.                                                    *)
LEMMA PlacesInTheFrame ==
  ASSUME NEW sent, Sendable(sent), NEW at \in Nat, Carries(Enc!OnTheWire(sent), at, sent)
  PROVE  /\ PortsEnd(sent) = at + SegmentAt(sent) + 4
         /\ PayloadAt(sent) = at + SegmentAt(sent) + TransportLen(sent)
         /\ PayloadAt(sent) \in Nat
         /\ Len(Enc!OnTheWire(sent)) = PayloadAt(sent) + sent.payload + sent.padding
         /\ PortsEnd(sent) <= Len(Enc!OnTheWire(sent))
<1>. DEFINE w == Enc!OnTheWire(sent)
            s == SegmentAt(sent)
            t == TransportLen(sent)
            p == sent.payload
            q == sent.padding
<1>1. /\ s \in Nat /\ t \in Nat /\ t >= 8 /\ p \in Nat /\ q \in Nat
      /\ s + t + p = DatagramLen(sent)
  BY DatagramLenIs
<1>2. Len(w) = at + DatagramLen(sent) + q
  BY DEF Carries, IsLong
<1>3. Len(Enc!Segment(sent)) = t + p
  BY SegmentIsLong DEF IsLong
<1>4. PayloadAt(sent) = Len(w) - q - p /\ PortsEnd(sent) = Len(w) - q - Len(Enc!Segment(sent)) + 4
  BY DEF PayloadAt, PortsEnd
<1>. HIDE DEF w, s, t, p, q
<1>5. Len(w) = at + (s + t + p) + q
  BY <1>1, <1>2
<1>6. PayloadAt(sent) = at + s + t /\ PortsEnd(sent) = at + s + 4
  BY <1>1, <1>3, <1>4, <1>5
<1>7. /\ at + s + t \in Nat /\ Len(w) = (at + s + t) + p + q /\ at + s + 4 <= Len(w)
  BY <1>1, <1>5
<1>. QED
  BY <1>6, <1>7 DEF w, s, t, p, q

LEMMA TwoParts ==
  ASSUME NEW w, NEW k, NEW s, NEW n, IsLong(s, n), HasAt(w, k, s),
         NEW t, NEW m, IsLong(t, m), NEW j, j = k + n, HasAt(w, j, t)
  PROVE  HasAt(w, k, s \o t) /\ IsLong(s \o t, n + m)
<1>1. IsLong(s \o t, n + m)
  <2>1. IsLong(s, n) /\ IsLong(t, m) /\ n + m = n + m
    OBVIOUS
  <2>. QED
    BY <2>1, More, Zenon
<1>2. /\ \A i \in 1..n : (s \o t)[i] = s[i]
      /\ \A i \in 1..m : (s \o t)[n + i] = t[i]
  BY SequenceConcat DEF IsLong
<1>3. /\ n \in Nat /\ m \in Nat /\ k \in Nat /\ Len(s \o t) = n + m /\ Len(s) = n /\ Len(t) = m
      /\ j + m <= Len(w)
      /\ \A i \in 1..n : w[k + i] = s[i]
      /\ \A i \in 1..m : w[j + i] = t[i]
  BY <1>1 DEF IsLong, HasAt
<1>. DEFINE u == s \o t
<1>. HIDE DEF u
<1>4. ASSUME NEW i \in 1..n + m
      PROVE  w[k + i] = u[i]
  <2>1. CASE i \in 1..n
    BY <1>2, <1>3, <2>1 DEF u
  <2>2. CASE i \notin 1..n
    <3>1. PICK l \in 1..m : i = n + l /\ k + i = j + l
      <4>1. i - n \in 1..m /\ i = n + (i - n) /\ k + i = j + (i - n)
        BY <1>3, <2>2
      <4>. QED
        BY <4>1
    <3>. QED
      BY <1>2, <1>3, <3>1 DEF u
  <2>. QED
    BY <2>1, <2>2
<1>5. k + (n + m) <= Len(w)
  BY <1>3
<1>. QED
  BY <1>1, <1>3, <1>4, <1>5 DEF HasAt, u

-----------------------------------------------------------------------------
(* What the reader promises of the frames it was given, for every capture. *)

LEMMA PayloadPlace ==
  ASSUME NEW sent, HasPorts(sent), NEW at, NEW d, NEW l7_offset,
         FoundPayload(l7_offset, sent, at, Len(d)), Len(d) \in Nat,
         NEW p \in Nat, p = at + TransportLen(sent)
  PROVE  /\ l7_offset \in {Absent, Pcap!PD!Clipped(p, d)}
         /\ p <= Len(d) => l7_offset = p
BY DEF FoundPayload, Pcap!PD!Clipped

LEMMA WholePayload ==
  ASSUME NEW sent, Sendable(sent), NEW at \in Nat, Carries(Enc!OnTheWire(sent), at, sent),
         NEW d, Starts(d, Enc!OnTheWire(sent)), Len(d) = Len(Enc!OnTheWire(sent))
  PROVE  Pcap!PD!From(d, PayloadAt(sent)) = Enc!Payload(sent) \o Enc!Fill(sent.padding)
<1>. DEFINE w == Enc!OnTheWire(sent)
            s == SegmentAt(sent)
            t == TransportLen(sent)
            p == sent.payload
            q == sent.padding
            k == PayloadAt(sent)
            a == Enc!Payload(sent)
            b == Enc!Fill(q)
<1>1. /\ s \in Nat /\ t \in Nat /\ p \in Nat /\ q \in Nat /\ s + t + p = DatagramLen(sent)
      /\ IsLong(a, p) /\ IsLong(b, q)
  BY DatagramLenIs, PayloadIs, FillIs
<1>2. k = at + s + t /\ k \in Nat /\ Len(w) = k + p + q
  BY PlacesInTheFrame
<1>3. HasAt(w, k, a)
  <2>1. /\ HasAt(w, at, Enc!Datagram(sent)) /\ HasAt(Enc!Datagram(sent), s, Enc!Segment(sent))
        /\ HasAt(Enc!Segment(sent), t, a)
    BY DatagramIs, SegmentIs DEF Carries, HasSegment
  <2>2. /\ IsSequence(w) /\ IsSequence(Enc!Datagram(sent)) /\ IsSequence(Enc!Segment(sent))
        /\ IsSequence(a)
    BY <1>1, DatagramLenIs, SegmentIsLong DEF Carries, IsLong
  <2>. HIDE DEF w, s, t, a
  <2>3. HasAt(w, at + s, Enc!Segment(sent))
    BY <2>1, <2>2, HasAtWithin
  <2>4. HasAt(w, at + s + t, a)
    BY <2>1, <2>2, <2>3, HasAtWithin
  <2>. QED
    BY <1>2, <2>4
<1>4. HasAt(w, k + p, b)
  <2>1. HasAt(w, at + DatagramLen(sent), b)
    BY DEF Carries
  <2>. HIDE DEF w, s, t, p, k, b
  <2>2. at + DatagramLen(sent) = k + p
    BY <1>1, <1>2
  <2>. QED
    BY <2>1, <2>2
<1>. HIDE DEF w, s, t, p, q, k, a, b
<1>5. HasAt(w, k, a \o b) /\ IsLong(a \o b, p + q)
  BY <1>1, <1>3, <1>4, TwoParts
<1>6. Len(d) = k + (p + q) /\ Len(d) <= Len(d)
  BY <1>1, <1>2 DEF w
<1>7. Pcap!PD!Bytes(d, k, Len(d)) = a \o b
  <2>1. PICK j : j = Len(d)
    OBVIOUS
  <2>2. Starts(d, w)
    BY DEF w
  <2>3. j = k + (p + q) /\ j <= Len(d)
    BY <1>6, <2>1
  <2>4. Pcap!PD!Bytes(d, k, j) = a \o b
    BY <1>5, <2>2, <2>3, StartBytes
  <2>. QED
    BY <2>1, <2>4
<1>. QED
  BY <1>7 DEF Pcap!PD!From, Pcap!PD!Bytes, k, a, b, q

(* What the records of the file were captured from. *)
FramesOfTheLink ==
  \A i \in DOMAIN records :
    records[i].sent # Absent =>
      Sendable(records[i].sent) /\ link_type = Enc!LinkType(records[i].sent)

LEMMA FramesInvariant == Spec => [](format = "pcap" => FramesOfTheLink)
<1>. DEFINE IInv == format = "pcap" => FramesOfTheLink
<1>1. Init => IInv
  <2>. SUFFICES ASSUME Pcap!Init
                PROVE  FramesOfTheLink
    BY DEF Init
  <2>1. PICK file \in PcapFiles : records = file.records /\ link_type = file.link_type
    BY DEF Pcap!Init
  <2>. QED
    BY <2>1, FramesAssumption DEF FramesOfTheLink
<1>2. IInv /\ [Next]_vars => IInv'
  <2>. SUFFICES ASSUME IInv, [Next]_vars, format' = "pcap"
                PROVE  FramesOfTheLink'
    OBVIOUS
  <2>1. format = "pcap" /\ (Pcap!Next \/ UNCHANGED vars)
    BY DEF Next, ReadPcap, ReadPcapng, UnknownFormat, NothingRead, vars
  <2>2. UNCHANGED <<records, link_type>>
    BY <2>1 DEF vars, pcapVars, Pcap!Next, Pcap!OpenReader, Pcap!NextPacket, Pcap!NextPacketError,
                Pcap!NextPacketNone, Pcap!Stopped, Pcap!vars
  <2>. QED
    BY <2>1, <2>2 DEF FramesOfTheLink
<1>. QED
  BY <1>1, <1>2, PTL DEF Spec

(* A frame read, and what it was captured from. *)
LEMMA FrameRead ==
  ASSUME format = "pcap", ReadingRecords, Pcap!WholeRecords, FramesOfTheLink,
         NEW i \in FramesRead
  PROVE  LET sent == records[i].sent
         IN /\ Sendable(sent)
            /\ packets[i].frame =
                 Pcap!PD!FromPcapRecord(Enc!LinkType(sent), packets[i].data)
            /\ Starts(packets[i].data, Enc!OnTheWire(sent))
            /\ Len(packets[i].data) = records[i].incl_len /\ Len(packets[i].data) \in Nat
<1>1. i \in DOMAIN packets /\ records[i].sent # Absent
  BY DEF FramesRead
<1>2. Recorded(records) /\ i \in DOMAIN records
  <2>1. Recorded(records) /\ Len(packets) <= Len(records) /\ IsSequence(packets) /\ IsSequence(records)
    BY DEF ReadingRecords, Pcap!WholeRecords, Recorded
  <2>. QED
    BY <1>1, <2>1, SequenceOfItsElements DEF IsSequence
<1>3. Sendable(records[i].sent) /\ link_type = Enc!LinkType(records[i].sent)
  BY <1>1, <1>2 DEF FramesOfTheLink
<1>4. /\ packets[i].data = Pcap!Captured(records[i])
      /\ packets[i].frame = Pcap!PD!FromPcapRecord(link_type, Pcap!Captured(records[i]))
  BY <1>1 DEF ReadingRecords, Pcap!WholeRecords
<1>5. CutOf(Pcap!Captured(records[i]), Pcap!Wire(records[i]))
  BY <1>2, CapturedIsCut
<1>6. Pcap!Wire(records[i]) = Enc!OnTheWire(records[i].sent)
  BY <1>1, SameWire DEF Pcap!Wire
<1>7. Starts(packets[i].data, Enc!OnTheWire(records[i].sent))
  BY <1>4, <1>5, <1>6, CutStarts
<1>8. Len(Pcap!Captured(records[i])) = records[i].incl_len
  <2>1. i \in 1..Len(records)
    BY <1>2, SequenceOfItsElements DEF Recorded
  <2>2. PICK record : record = records[i]
    OBVIOUS
  <2>3. Pcap!Wire(record) \in Seq(Octet) /\ record.incl_len \in 0..Len(Pcap!Wire(record))
    BY <1>2, <2>1, <2>2 DEF Recorded
  <2>. QED
    BY <2>2, <2>3, CapturedIs
<1>9. Len(packets[i].data) \in Nat
  BY <1>7, LenProperties DEF Starts
<1>. QED
  BY <1>3, <1>4, <1>7, <1>8, <1>9

(* PayloadIsNeverHeader: no cut makes header bytes pass for payload, or    *)
(* leads beyond the frame, from the ports on: for every link, address      *)
(* family, number of options and extension headers, and every cut          *)
(* (from_pcap_record of packet.rs).                                        *)
THEOREM ThmPayloadIsNeverHeader == Spec => []PayloadIsNeverHeader
<1>1. (format = "pcap" => ReadingRecords /\ Pcap!WholeRecords) /\ (format = "pcap" => FramesOfTheLink)
        => PayloadIsNeverHeader
  <2>. SUFFICES ASSUME format = "pcap" => ReadingRecords /\ Pcap!WholeRecords,
                       format = "pcap" => FramesOfTheLink, NEW i \in FramesRead,
                       Understood(records[i].sent), HasPorts(records[i].sent),
                       records[i].sent.link # "management",
                       records[i].incl_len >= PortsEnd(records[i].sent)
                PROVE  packets[i].frame.l7_offset \in
                         {Absent, Pcap!PD!Clipped(PayloadAt(records[i].sent), packets[i].data)}
    BY DEF PayloadIsNeverHeader
  <2>1. format = "pcap"
    BY DEF FramesRead
  <2>2. PICK sent, d, f : sent = records[i].sent /\ d = packets[i].data /\ f = packets[i].frame
    OBVIOUS
  <2>3. /\ Sendable(sent) /\ f = Pcap!PD!FromPcapRecord(Enc!LinkType(sent), d)
        /\ Starts(d, Enc!OnTheWire(sent)) /\ Len(d) \in Nat /\ Len(d) >= PortsEnd(sent)
    BY <2>1, <2>2, FrameRead
  <2>4. sent.link \notin {"management", "QoS"} /\ Len(sent.chain) <= 8 /\ HasPorts(sent)
    BY <2>2 DEF Understood
  <2>5. PICK at : FoundOver(Enc!OnTheWire(sent), at, sent, To(sent), By(sent), CellOf(sent))
    BY <2>3, <2>4, WireFound
  <2>6. at \in Nat /\ Carries(Enc!OnTheWire(sent), at, sent)
    BY <2>5 DEF FoundOver
  <2>7. /\ PortsEnd(sent) = at + SegmentAt(sent) + 4 /\ PayloadAt(sent) \in Nat
        /\ PayloadAt(sent) = at + SegmentAt(sent) + TransportLen(sent)
    BY <2>3, <2>6, PlacesInTheFrame
  <2>8. FoundPayload(f.l7_offset, sent, at + SegmentAt(sent), Len(d))
    BY <2>3, <2>5, <2>7 DEF FoundOver, DissectedAs
  <2>9. f.l7_offset \in {Absent, Pcap!PD!Clipped(PayloadAt(sent), d)}
    BY <2>3, <2>4, <2>7, <2>8, PayloadPlace
  <2>. QED
    BY <2>2, <2>9
<1>. QED
  BY <1>1, RecordsInvariant, FramesInvariant, PTL

(* DissectionUndoesEncapsulation: a frame captured whole is dissected into *)
(* what its sender put in, and its payload is the sender's with the        *)
(* padding behind it, however it was wrapped (packet.rs).                  *)
THEOREM ThmDissectionUndoesEncapsulation == Spec => []DissectionUndoesEncapsulation
<1>1. (format = "pcap" => ReadingRecords /\ Pcap!WholeRecords) /\ (format = "pcap" => FramesOfTheLink)
        => DissectionUndoesEncapsulation
  <2>. DEFINE Undone(sent, frame, octets) ==
         /\ frame.src_mac = By(sent) /\ frame.dst_mac = To(sent) /\ frame.bssid = CellOf(sent)
         /\ frame.five_tuple = IF sent.link = "management" THEN Absent ELSE FiveTupleOf(sent)
         /\ HasPorts(sent) /\ sent.link # "management" =>
              Pcap!PD!L7Data(frame, octets) = Enc!Payload(sent) \o Enc!Fill(sent.padding)
  <2>. SUFFICES ASSUME format = "pcap" => ReadingRecords /\ Pcap!WholeRecords,
                       format = "pcap" => FramesOfTheLink, NEW i \in FramesRead,
                       Understood(records[i].sent),
                       records[i].incl_len = Len(Enc!OnTheWire(records[i].sent))
                PROVE  Undone(records[i].sent, packets[i].frame, packets[i].data)
    BY DEF DissectionUndoesEncapsulation, To, By, CellOf
  <2>1. format = "pcap"
    BY DEF FramesRead
  <2>2. PICK sent, d, f : sent = records[i].sent /\ d = packets[i].data /\ f = packets[i].frame
    OBVIOUS
  <2>3. /\ Sendable(sent) /\ f = Pcap!PD!FromPcapRecord(Enc!LinkType(sent), d)
        /\ Starts(d, Enc!OnTheWire(sent)) /\ Len(d) \in Nat /\ Len(d) = Len(Enc!OnTheWire(sent))
    BY <2>1, <2>2, FrameRead
  <2>4. sent.link # "QoS" /\ Len(sent.chain) <= 8
    BY <2>2 DEF Understood
  <2>5. CASE sent.link = "management"
    <3>1. f.src_mac = Enc!Station /\ f.dst_mac = Enc!Peer /\ f.bssid = Enc!Ap /\ f.five_tuple = Absent
      BY <2>3, <2>5, ManagementFound
    <3>2. To(sent) = Enc!Peer /\ By(sent) = Enc!Station /\ CellOf(sent) = Enc!Ap
      BY <2>5, StationsOf
    <3>3. Undone(sent, f, d)
      BY <2>5, <3>1, <3>2
    <3>. QED
      BY <2>2, <3>3
  <2>6. CASE sent.link # "management"
    <3>1. sent.link \notin {"management", "QoS"}
      BY <2>4, <2>6
    <3>2. PICK at : FoundOver(Enc!OnTheWire(sent), at, sent, To(sent), By(sent), CellOf(sent))
      BY <2>3, <2>4, <3>1, WireFound
    <3>3. at \in Nat /\ Carries(Enc!OnTheWire(sent), at, sent)
      BY <3>2 DEF FoundOver
    <3>4. /\ PortsEnd(sent) = at + SegmentAt(sent) + 4 /\ PayloadAt(sent) \in Nat
          /\ PayloadAt(sent) = at + SegmentAt(sent) + TransportLen(sent)
          /\ Len(Enc!OnTheWire(sent)) = PayloadAt(sent) + sent.payload + sent.padding
          /\ PortsEnd(sent) <= Len(Enc!OnTheWire(sent))
      BY <2>3, <3>3, PlacesInTheFrame
    <3>5. Len(d) >= at + SegmentAt(sent) + 4
      BY <2>3, <3>3, <3>4, DatagramLenIs
    <3>6. DissectedAs(f, To(sent), By(sent), CellOf(sent), sent, at + SegmentAt(sent), Len(d))
      BY <2>3, <3>2, <3>5 DEF FoundOver
    <3>7. /\ f.src_mac = By(sent) /\ f.dst_mac = To(sent) /\ f.bssid = CellOf(sent)
          /\ f.five_tuple = FiveTupleOf(sent)
          /\ FoundPayload(f.l7_offset, sent, at + SegmentAt(sent), Len(d))
      BY <3>6 DEF DissectedAs
    <3>8. ASSUME HasPorts(sent)
          PROVE  Pcap!PD!L7Data(f, d) = Enc!Payload(sent) \o Enc!Fill(sent.padding)
      <4>1. sent.payload \in Nat /\ sent.padding \in Nat
        BY <2>3, SendableIs
      <4>2. PayloadAt(sent) <= Len(d)
        <5>1. PICK k \in Nat, p \in Nat, q \in Nat :
                k = PayloadAt(sent) /\ p = sent.payload /\ q = sent.padding
          BY <3>4, <4>1
        <5>2. Len(d) = k + p + q
          BY <2>3, <3>4, <5>1
        <5>. QED
          BY <5>1, <5>2
      <4>3. f.l7_offset = PayloadAt(sent)
        BY <2>3, <3>4, <3>7, <3>8, <4>2, PayloadPlace
      <4>4. f.l7_offset # Absent
        BY <3>4, <4>3, AbsentAssumption
      <4>5. Pcap!PD!From(d, PayloadAt(sent)) = Enc!Payload(sent) \o Enc!Fill(sent.padding)
        BY <2>3, <3>3, WholePayload
      <4>. QED
        BY <4>3, <4>4, <4>5 DEF Pcap!PD!L7Data
    <3>9. Undone(sent, f, d)
      BY <2>6, <3>7, <3>8
    <3>. QED
      BY <2>2, <3>9
  <2>. QED
    BY <2>5, <2>6
<1>. QED
  BY <1>1, RecordsInvariant, FramesInvariant, PTL

=============================================================================

------------------------- MODULE SplitPipelineProofs -------------------------
(***************************************************************************)
(* Theorems about SplitPipeline, for every capture, every filter and       *)
(* grouping, every depth of the channel and limit, however the two threads *)
(* interleave, fail or stop.                                               *)
(***************************************************************************)
EXTENDS SplitPipeline, SequenceFacts

(* The scan for the lowest generation finds an entry whenever there is one. *)
LEMMA LeastRecentExists ==
  ASSUME NEW table, Stamped(table), Live(table) # {}
  PROVE  LeastRecent(table) # {}
<1>. DEFINE stamp == [k \in Live(table) |-> table[k].last_access]
<1>1. \A k \in Live(table) : stamp[k] \in Nat
  BY DEF Stamped
<1>2. PICK k \in Live(table) : \A j \in Live(table) : stamp[k] <= stamp[j]
  <2>. HIDE DEF stamp
  <2>. QED
    BY <1>1, LeastOf
<1>. QED
  BY <1>2 DEF LeastRecent

(* The victim is an entry of the table, or there is none and the table is  *)
(* below the limit or empty.                                               *)
LEMMA VictimIsLive ==
  ASSUME NEW table, NEW max, NEW victim \in Victims(table, max), Stamped(table)
  PROVE  \/ victim \in Live(table)
         \/ /\ victim = Absent
            /\ Cardinality(Live(table)) < max \/ Live(table) = {}
BY LeastRecentExists DEF Victims, Evictable, LeastRecent

(* Below the limit nothing is evicted. *)
LEMMA NoVictimBelowLimit ==
  ASSUME NEW table, NEW max, Cardinality(Live(table)) < max
  PROVE  Victims(table, max) = {Absent}
BY DEF Victims, Evictable

(* Two tables with the same keys and the same generations, one for each    *)
(* key, evict the same entry, in whatever order their maps are iterated.   *)
LEMMA SameVictim ==
  ASSUME NEW a, NEW b, NEW max, Live(a) = Live(b), Stamped(a),
         \A k \in Live(a) : b[k].last_access = a[k].last_access,
         \A j, k \in Live(a) : a[j].last_access = a[k].last_access => j = k,
         NEW v \in Victims(a, max), NEW w \in Victims(b, max)
  PROVE  v = w
<1>1. LeastRecent(a) = LeastRecent(b)
  BY DEF LeastRecent, Live
<1>2. Evictable(a, max) = Evictable(b, max) /\ Evictable(a, max) \subseteq LeastRecent(a)
  BY <1>1 DEF Evictable
<1>3. \A j, k \in LeastRecent(a) : j = k
  <2>. SUFFICES ASSUME NEW j \in LeastRecent(a), NEW k \in LeastRecent(a)
                PROVE  j = k
    OBVIOUS
  <2>1. /\ j \in Live(a) /\ k \in Live(a)
        /\ a[j].last_access \in Nat /\ a[k].last_access \in Nat
        /\ a[j].last_access <= a[k].last_access /\ a[k].last_access <= a[j].last_access
    BY DEF LeastRecent, Stamped
  <2>2. a[j].last_access = a[k].last_access
    BY <2>1
  <2>. QED
    BY <2>1, <2>2
<1>. QED
  BY <1>2, <1>3 DEF Victims

(* ChannelIsFaithful needs the types of the sequences, that a packet is in *)
(* hand exactly while it is being sent, and that the consumer does not     *)
(* take packets after it has dropped its end.                              *)
ChannelTypes ==
  /\ capture \in Seq(Packet)
  /\ pos \in 0..Len(capture)
  /\ chan \in Seq(Packet) /\ received \in Seq(Packet)
  /\ IF prod = "sending" THEN held \in Packet ELSE held = Absent
  /\ cons \in {"receiving", "writing"} => rx_open

ChannelInv == ChannelTypes /\ ChannelIsFaithful

(* Concatenation on sequences of packets. *)
LEMMA PacketSeqs ==
  /\ <<>> \in Seq(Packet)
  /\ \A s, t \in Seq(Packet) : s \o t \in Seq(Packet)
  /\ \A s \in Seq(Packet) : s \o <<>> = s /\ <<>> \o s = s
  /\ \A s, t, u \in Seq(Packet) : (s \o t) \o u = s \o (t \o u)
  /\ \A s \in Seq(Packet) : \A e \in Packet : Append(s, e) = s \o <<e>>
  /\ \A e \in Packet : <<e>> \in Seq(Packet)
<1>1. <<>> \in Seq(Packet) /\ \A e \in Packet : <<e>> \in Seq(Packet)
  BY EmptySeq
<1>2. \A s, t \in Seq(Packet) : s \o t \in Seq(Packet)
  BY ConcatProperties
<1>3. \A s \in Seq(Packet) : s \o <<>> = s /\ <<>> \o s = s
  BY ConcatEmptySeq
<1>4. \A s, t, u \in Seq(Packet) : (s \o t) \o u = s \o (t \o u)
  BY ConcatAssociative
<1>5. \A s \in Seq(Packet) : \A e \in Packet : Append(s, e) = s \o <<e>>
  BY AppendIsConcat
<1>. QED
  BY <1>1, <1>2, <1>3, <1>4, <1>5

(* A channel that is not empty is its head and its tail. *)
LEMMA HeadAndTail ==
  ASSUME NEW s \in Seq(Packet), s # <<>>
  PROVE  /\ Head(s) \in Packet /\ Tail(s) \in Seq(Packet)
         /\ s = <<Head(s)>> \o Tail(s)
<1>1. Head(s) \in Packet /\ Tail(s) \in Seq(Packet)
  BY HeadTailProperties
<1>2. s = <<Head(s)>> \o Tail(s)
  OBVIOUS
<1>. QED
  BY <1>1, <1>2

(* Nothing was parsed at the start. *)
LEMMA InitChannelInv == Init => ChannelInv
<1>. SUFFICES ASSUME Init
              PROVE  ChannelInv
  OBVIOUS
<1>1. capture \in Seq(Packet) /\ Len(capture) \in Nat
  BY CapturesAssumption, LenProperties DEF Init
<1>2. ChannelTypes
  BY <1>1, PacketSeqs DEF Init, ChannelTypes
<1>3. SubSeq(capture, 1, 0) = <<>>
  BY <1>1, SubSeqEmpty
<1>4. IsPrefix(<<>>, capture)
  <2>1. <<>> \o <<>> = SubSeq(capture, 1, 0) /\ 0 \in 0..Len(capture)
    BY <1>1, <1>3, PacketSeqs
  <2>. QED
    BY <1>1, <2>1, PacketSeqs, PrefixOfCut
<1>5. (<<>> \o <<>>) \o <<>> = <<>>
  BY PacketSeqs
<1>. QED
  BY <1>2, <1>3, <1>4, <1>5 DEF Init, ChannelInv, ChannelIsFaithful, InHand

(* The producer's steps. *)
LEMMA ProducerChannelInv ==
  ASSUME ChannelInv, Producer
  PROVE  ChannelInv'
<1>. USE DEF ChannelInv
<1>1. CASE Parse
  <2>1. /\ prod = "parsing" /\ held = Absent /\ pos + 1 \in 1..Len(capture)
        /\ Len(capture) \in Nat
    BY <1>1, LenProperties DEF Parse, ChannelTypes
  <2>2. capture[pos + 1] \in Packet
    BY <2>1, ElementOfSeq DEF ChannelTypes
  <2>3. ChannelTypes'
    BY <1>1, <2>1, <2>2 DEF Parse, ChannelTypes, input, consVars
  <2>4. SubSeq(capture, 1, pos + 1) = SubSeq(capture, 1, pos) \o <<capture[pos + 1]>>
    <3>1. pos \in Nat /\ 1 \in 1..Len(capture) /\ pos + 1 \in 1..Len(capture)
      BY <2>1 DEF ChannelTypes
    <3>. QED
      BY <3>1, LastOfSubSeq DEF ChannelTypes
  <2>5. InHand = <<>> /\ InHand' = <<capture[pos + 1]>>
    BY <1>1, <2>1, <2>2, CapturesAssumption DEF Parse, InHand
  <2>6. rx_open => (received \o chan) \o <<>> = SubSeq(capture, 1, pos)
    BY <2>5 DEF ChannelIsFaithful
  <2>7. (received \o chan) \o <<>> = received \o chan
    BY PacketSeqs DEF ChannelTypes
  <2>8. ChannelIsFaithful'
    BY <1>1, <2>4, <2>5, <2>6, <2>7 DEF Parse, ChannelIsFaithful, input, consVars
  <2>. QED
    BY <2>3, <2>8
<1>2. CASE ParseEnds
  <2>1. prod' # "sending" /\ prod = "parsing"
    BY <1>2 DEF ParseEnds
  <2>. QED
    BY <1>2, <2>1 DEF ParseEnds, ChannelTypes, ChannelIsFaithful, InHand, input, consVars
<1>3. CASE Send
  <2>1. held \in Packet /\ rx_open /\ held # Absent
    BY <1>3, CapturesAssumption DEF Send, ChannelTypes
  <2>2. ChannelTypes'
    BY <1>3, <2>1, PacketSeqs DEF Send, ChannelTypes, input, consVars
  <2>3. chan' = chan \o <<held>> /\ InHand = <<held>> /\ InHand' = <<>>
    BY <1>3, <2>1, PacketSeqs DEF Send, ChannelTypes, InHand
  <2>4. /\ (received \o (chan \o <<held>>)) \o <<>> = received \o (chan \o <<held>>)
        /\ received \o (chan \o <<held>>) = (received \o chan) \o <<held>>
    <3>1. received \in Seq(Packet) /\ chan \in Seq(Packet) /\ <<held>> \in Seq(Packet)
      BY <2>1, PacketSeqs DEF ChannelTypes
    <3>2. chan \o <<held>> \in Seq(Packet)
      BY <3>1, PacketSeqs, Zenon
    <3>3. received \o (chan \o <<held>>) \in Seq(Packet)
      BY <3>1, <3>2, PacketSeqs, Zenon
    <3>. QED
      BY <3>1, <3>3, PacketSeqs, ZenonT(30)
  <2>5. ChannelIsFaithful'
    BY <1>3, <2>1, <2>3, <2>4 DEF Send, ChannelIsFaithful, input, consVars
  <2>. QED
    BY <2>2, <2>5
<1>4. CASE SendFails
  BY <1>4 DEF SendFails, ChannelTypes, ChannelIsFaithful, InHand, input, consVars
<1>. QED
  BY <1>1, <1>2, <1>3, <1>4 DEF Producer

(* The consumer takes the next packet off the channel. *)
LEMMA ReceiveChannelInv ==
  ASSUME ChannelInv, Receive
  PROVE  ChannelInv'
<1>. USE DEF ChannelInv
<1>1. /\ chan # <<>> /\ chan' = Tail(chan) /\ received' = Append(received, Head(chan))
      /\ cons = "receiving" /\ cons' \in {"receiving", "writing"} /\ rx_open /\ rx_open'
      /\ UNCHANGED <<capture, pos, held, prod>>
  BY DEF Receive, ChannelTypes, input, prodVars
<1>. DEFINE h == Head(chan)
            t == Tail(chan)
<1>2. h \in Packet /\ t \in Seq(Packet) /\ chan = <<h>> \o t
  BY <1>1, HeadAndTail DEF ChannelTypes
<1>. HIDE DEF h, t
<1>3. received' = received \o <<h>> /\ received' \in Seq(Packet)
  BY <1>1, <1>2, PacketSeqs DEF ChannelTypes, h
<1>4. ChannelTypes'
  BY <1>1, <1>2, <1>3 DEF ChannelTypes, t
<1>5. received' \o chan' = received \o chan
  <2>1. received \in Seq(Packet) /\ <<h>> \in Seq(Packet)
    BY <1>2, PacketSeqs DEF ChannelTypes
  <2>2. (received \o <<h>>) \o t = received \o (<<h>> \o t)
    BY <1>2, <2>1, PacketSeqs, ZenonT(30)
  <2>3. chan' = t
    BY <1>1 DEF t
  <2>. QED
    BY <1>2, <1>3, <2>2, <2>3, Zenon
<1>6. received' \o chan' \o InHand' = SubSeq(capture, 1, pos)
  BY <1>1, <1>5 DEF ChannelIsFaithful, InHand
<1>7. IsPrefix(received', capture')
  <2>1. InHand' \in Seq(Packet) /\ chan' \in Seq(Packet)
    BY <1>4, PacketSeqs, CapturesAssumption DEF ChannelTypes, InHand
  <2>2. received' \o (chan' \o InHand') = SubSeq(capture, 1, pos) /\ chan' \o InHand' \in Seq(Packet)
    BY <1>3, <1>6, <2>1, PacketSeqs, ZenonT(30)
  <2>3. capture \in Seq(Packet) /\ pos \in 0..Len(capture)
    BY DEF ChannelTypes
  <2>. QED
    BY <1>1, <1>3, <2>2, <2>3, PrefixOfCut
<1>. QED
  BY <1>1, <1>4, <1>6, <1>7 DEF ChannelIsFaithful

(* The consumer's other steps leave the channel alone, or drop its end.    *)
LEMMA NextChannelInv == ChannelInv /\ [Next]_vars => ChannelInv'
<1>. SUFFICES ASSUME ChannelInv, [Next]_vars
              PROVE  ChannelInv'
  OBVIOUS
<1>1. ASSUME UNCHANGED <<capture, pos, held, prod, chan, received>>,
             rx_open' => rx_open,
             cons' \in {"receiving", "writing"} => rx_open'
      PROVE  ChannelInv'
  BY <1>1 DEF ChannelInv, ChannelTypes, ChannelIsFaithful, InHand
<1>2. CASE Producer
  BY <1>2, ProducerChannelInv
<1>3. CASE Receive
  BY <1>3, ReceiveChannelInv
<1>4. CASE HandleKey
  BY <1>1, <1>4 DEF HandleKey, input, prodVars, ChannelInv, ChannelTypes
<1>5. CASE HandleKeyFails \/ ConsumerPanics \/ StreamEnds
  BY <1>1, <1>5 DEF HandleKeyFails, ConsumerPanics, StreamEnds, input, prodVars
<1>6. CASE Join \/ Close \/ CloseReturns \/ DropWriter \/ Exit
  BY <1>1, <1>6 DEF Join, Close, CloseReturns, DropWriter, Exit, input, prodVars, consVars
<1>7. CASE Terminated \/ UNCHANGED vars
  BY <1>1, <1>7 DEF Terminated, vars, input, prodVars, consVars, ChannelInv, ChannelTypes
<1>. QED
  BY <1>2, <1>3, <1>4, <1>5, <1>6, <1>7 DEF Next, Consumer

(* The channel loses, repeats and reorders nothing, whatever its depth.    *)
THEOREM ChannelIsFaithfulAlways == Spec => []ChannelIsFaithful
<1>1. ChannelInv => ChannelIsFaithful
  BY DEF ChannelInv
<1>. QED
  BY <1>1, InitChannelInv, NextChannelInv, PTL DEF Spec

(* The types of the two threads and of their channel. *)
THEOREM SplitPipelineTypeOK == Spec => []TypeOK
<1>1. Init => TypeOK
  BY InitChannelInv DEF Init, TypeOK, ChannelInv, ChannelTypes
<1>2. ChannelInv /\ ChannelInv' /\ TypeOK /\ [Next]_vars => TypeOK'
  <2>. SUFFICES ASSUME ChannelInv, ChannelInv', TypeOK, [Next]_vars
                PROVE  TypeOK'
    OBVIOUS
  <2>1. /\ pos' \in 0..Len(capture)' /\ held' \in Packet \cup {Absent}
        /\ chan' \in Seq(Packet) /\ received' \in Seq(Packet)
    BY DEF ChannelInv, ChannelTypes
  <2>2. CASE Producer
    BY <2>1, <2>2 DEF Producer, Parse, ParseEnds, Send, SendFails, input, consVars, TypeOK
  <2>3. CASE Receive
    <3>1. Head(chan) \in Packet
      BY <2>3, HeadAndTail DEF Receive, TypeOK
    <3>. QED
      BY <2>1, <2>3, <3>1 DEF Receive, input, prodVars, TypeOK
  <2>4. CASE HandleKey \/ HandleKeyFails \/ ConsumerPanics \/ StreamEnds
    BY <2>1, <2>4
    DEF HandleKey, HandleKeyFails, ConsumerPanics, StreamEnds, input, prodVars, TypeOK
  <2>5. CASE Join \/ Close \/ CloseReturns
    BY <2>1, <2>5 DEF Join, Close, CloseReturns, input, prodVars, consVars, TypeOK
  <2>6. CASE DropWriter \/ Exit \/ Terminated \/ UNCHANGED vars
    BY <2>1, <2>6 DEF DropWriter, Exit, Terminated, vars, input, prodVars, consVars, TypeOK
  <2>. QED
    BY <2>2, <2>3, <2>4, <2>5, <2>6 DEF Next, Consumer
<1>. QED
  BY <1>1, <1>2, InitChannelInv, NextChannelInv, PTL DEF Spec
-----------------------------------------------------------------------------
(* Publication.  While the consumer listens, the producer can only have    *)
(* ended well at the end of a capture that holds no error; when the loop   *)
(* over the channel ends, all that was parsed has been received; and no    *)
(* packet received so far has panicked, the one in hand aside.             *)
Survived(packets) == \A i \in DOMAIN packets : Passes(packets[i]) => ~Panics(packets[i])

WholeInv ==
  /\ rx_open /\ prod = "ok" => tail = "eof" /\ pos = Len(capture)
  /\ cons \in {"joining", "closing"} =>
       /\ ProducerDone /\ chan = <<>>
       /\ prod = "ok" => tail = "eof" /\ received = capture
  /\ cons = "closing" => prod = "ok"
  /\ cons \in {"receiving", "joining", "closing"} => Survived(received)
  /\ cons = "writing" =>
       \E before \in Seq(Packet) :
         received = Append(before, current) /\ current \in Packet /\ Survived(before)

LEMMA InitWholeInv == Init => WholeInv
BY EmptySeq DEF Init, WholeInv, Survived

(* The producer's steps: it ends well at the end of the capture, or after  *)
(* the consumer dropped its end.                                           *)
LEMMA ProducerWholeInv ==
  ASSUME ChannelInv, WholeInv, Producer
  PROVE  WholeInv'
<1>1. /\ UNCHANGED <<capture, tail, rx_open, cons, current, received>>
      /\ cons \notin {"joining", "closing"}
  BY DEF Producer, Parse, ParseEnds, Send, SendFails, input, consVars, WholeInv, ProducerDone
<1>2. rx_open /\ prod' = "ok" => tail = "eof" /\ pos' = Len(capture)
  BY DEF Producer, Parse, ParseEnds, Send, SendFails, Tails
<1>. QED
  BY <1>1, <1>2 DEF WholeInv, Survived

(* A packet that survived extends the packets that did. *)
LEMMA SurvivedAppend ==
  ASSUME NEW s \in Seq(Packet), NEW e \in Packet, Survived(s), Passes(e) => ~Panics(e)
  PROVE  Survived(Append(s, e))
<1>1. /\ DOMAIN Append(s, e) = 1..Len(s) + 1 /\ DOMAIN s = 1..Len(s) /\ Len(s) \in Nat
      /\ \A i \in 1..Len(s) : Append(s, e)[i] = s[i]
      /\ Append(s, e)[Len(s) + 1] = e
  BY AppendProperties, LenProperties
<1>2. ASSUME NEW i \in DOMAIN Append(s, e), Passes(Append(s, e)[i])
      PROVE  ~Panics(Append(s, e)[i])
  <2>1. CASE i \in 1..Len(s)
    BY <1>1, <1>2, <2>1 DEF Survived
  <2>2. CASE i = Len(s) + 1
    BY <1>1, <1>2, <2>2
  <2>. QED
    BY <1>1, <2>1, <2>2
<1>. QED
  BY <1>2 DEF Survived

(* The consumer takes a packet: the filter leaves it out, or it is in hand.*)
LEMMA ReceiveWholeInv ==
  ASSUME ChannelInv, WholeInv, Receive
  PROVE  WholeInv'
<1>. DEFINE h == Head(chan)
<1>1. /\ h \in Packet /\ received \in Seq(Packet) /\ received' = Append(received, h)
      /\ Survived(received)
      /\ UNCHANGED <<capture, tail, pos, prod, rx_open>>
      /\ \/ ~Passes(h) /\ cons' = "receiving"
         \/ cons' = "writing" /\ current' = h
  BY HeadAndTail DEF Receive, ChannelInv, ChannelTypes, WholeInv, input, prodVars
<1>. HIDE DEF h
<1>2. CASE ~Passes(h) /\ cons' = "receiving"
  <2>1. Survived(received')
    BY <1>1, <1>2, SurvivedAppend
  <2>. QED
    BY <1>1, <1>2, <2>1 DEF WholeInv, Survived
<1>3. CASE cons' = "writing" /\ current' = h
  BY <1>1, <1>3 DEF WholeInv, Survived
<1>. QED
  BY <1>1, <1>2, <1>3

(* One key of the packet in hand is written: the packet has not panicked.  *)
LEMMA HandleKeyWholeInv ==
  ASSUME ChannelInv, WholeInv, HandleKey
  PROVE  WholeInv'
<1>1. /\ cons = "writing" /\ ~Panics(current)
      /\ UNCHANGED <<capture, tail, pos, prod, rx_open, received>>
      /\ (cons' = "writing" /\ current' = current) \/ cons' = "receiving"
  BY DEF HandleKey, input, prodVars
<1>2. PICK before \in Seq(Packet) :
        received = Append(before, current) /\ current \in Packet /\ Survived(before)
  BY <1>1 DEF WholeInv
<1>3. Survived(received)
  BY <1>1, <1>2, SurvivedAppend
<1>4. CASE cons' = "writing" /\ current' = current
  BY <1>1, <1>2, <1>4 DEF WholeInv, Survived
<1>5. CASE cons' = "receiving"
  BY <1>1, <1>3, <1>5 DEF WholeInv, Survived
<1>. QED
  BY <1>1, <1>4, <1>5

(* The stream ends: all that was parsed was received, and if the producer  *)
(* ended well that is the capture.                                         *)
LEMMA StreamEndsWholeInv ==
  ASSUME ChannelInv, WholeInv, StreamEnds
  PROVE  WholeInv'
<1>1. /\ cons = "receiving" /\ chan = <<>> /\ ProducerDone /\ rx_open
      /\ cons' = "joining" /\ rx_open' = FALSE
      /\ UNCHANGED <<capture, tail, prod, chan, received>>
  BY DEF StreamEnds, ChannelInv, ChannelTypes, input, prodVars
<1>2. ASSUME prod = "ok"
      PROVE  tail = "eof" /\ received = capture
  <2>1. tail = "eof" /\ pos = Len(capture)
    BY <1>1, <1>2 DEF WholeInv
  <2>2. InHand = <<>>
    BY <1>2 DEF ChannelInv, ChannelTypes, InHand
  <2>3. (received \o <<>>) \o <<>> = SubSeq(capture, 1, Len(capture))
    BY <1>1, <2>1, <2>2 DEF ChannelInv, ChannelIsFaithful
  <2>4. (received \o <<>>) \o <<>> = received
    BY PacketSeqs DEF ChannelInv, ChannelTypes
  <2>5. SubSeq(capture, 1, Len(capture)) = capture
    BY SubSeqFull DEF ChannelInv, ChannelTypes
  <2>. QED
    BY <2>1, <2>3, <2>4, <2>5
<1>. QED
  BY <1>1, <1>2 DEF WholeInv, ProducerDone, Survived

(* Every step keeps it: once the loop has ended, only close publishes.     *)
LEMMA NextWholeInv == ChannelInv /\ WholeInv /\ [Next]_vars => WholeInv'
<1>. SUFFICES ASSUME ChannelInv, WholeInv, [Next]_vars
              PROVE  WholeInv'
  OBVIOUS
<1>1. CASE Producer
  BY <1>1, ProducerWholeInv
<1>2. CASE Receive
  BY <1>2, ReceiveWholeInv
<1>3. CASE HandleKey
  BY <1>3, HandleKeyWholeInv
<1>4. CASE HandleKeyFails \/ ConsumerPanics
  BY <1>4 DEF HandleKeyFails, ConsumerPanics, WholeInv
<1>5. CASE StreamEnds
  BY <1>5, StreamEndsWholeInv
<1>6. CASE Join
  BY <1>6 DEF Join, input, prodVars, WholeInv, ProducerDone, Survived
<1>7. CASE Close
  BY <1>7 DEF Close, input, prodVars, consVars, WholeInv, ProducerDone, Survived
<1>8. CASE CloseReturns \/ DropWriter \/ Exit
  BY <1>8 DEF CloseReturns, DropWriter, Exit, input, prodVars, WholeInv
<1>9. CASE Terminated \/ UNCHANGED vars
  BY <1>9 DEF Terminated, vars, input, prodVars, consVars, WholeInv, ProducerDone, Survived
<1>. QED
  BY <1>1, <1>2, <1>3, <1>4, <1>5, <1>6, <1>7, <1>8, <1>9 DEF Next, Consumer

(* The final files change in close alone. *)
LEMMA OnlyClosePublishes ==
  ASSUME [Next]_vars, final' # final
  PROVE  Close
<1>1. CASE Producer
  BY <1>1 DEF Producer, Parse, ParseEnds, Send, SendFails, swVars
<1>2. CASE Receive \/ StreamEnds \/ Join \/ ConsumerPanics
  BY <1>2 DEF Receive, StreamEnds, Join, ConsumerPanics, swVars
<1>3. CASE HandleKey \/ HandleKeyFails
  BY <1>3 DEF HandleKey, HandleKeyFails, SW!WritePacketForKey, FailingSW!WritePacketForKey,
              FailingSW!WriteFails
<1>4. CASE CloseReturns \/ DropWriter \/ Exit
  BY <1>4 DEF CloseReturns, DropWriter, Exit, SW!Abandon, FailingSW!Abandon, swVars
<1>5. CASE Terminated \/ UNCHANGED vars
  BY <1>5 DEF Terminated, vars, swVars
<1>. QED
  BY <1>1, <1>2, <1>3, <1>4, <1>5 DEF Next, Consumer

(* A final file appears only after the whole capture was parsed to its end *)
(* without an error, and received and written without a panic.             *)
THEOREM PublishesOnlyWholeCapturesAlways == Spec => PublishesOnlyWholeCaptures
<1>. DEFINE WholePublished ==
       final' # final =>
         /\ prod = "ok" /\ tail = "eof"
         /\ chan = <<>> /\ received = capture
         /\ \A i \in DOMAIN capture : Passes(capture[i]) => ~Panics(capture[i])
<1>1. ChannelInv /\ WholeInv /\ [Next]_vars => [WholePublished]_vars
  <2>. SUFFICES ASSUME ChannelInv, WholeInv, [Next]_vars, final' # final
                PROVE  WholePublished
    OBVIOUS
  <2>1. cons = "closing"
    BY OnlyClosePublishes DEF Close
  <2>. QED
    BY <2>1 DEF WholeInv, Survived
<1>. QED
  BY <1>1, InitChannelInv, NextChannelInv, InitWholeInv, NextWholeInv, PTL
     DEF Spec, PublishesOnlyWholeCaptures
-----------------------------------------------------------------------------
(* The keys of the packet in hand: while it is written, and does not       *)
(* panic, there is one left, and what is left are keys.                    *)
KeysInv ==
  /\ idx \in Nat /\ idx <= Len(received)
  /\ cons = "writing" =>
       /\ received # <<>> /\ current = received[Len(received)]
       /\ Passes(current) /\ idx >= 1
       /\ ~Panics(current) => todo \in Seq(Key) \ {<<>>}

LEMMA InitKeysInv == Init => KeysInv
BY LenProperties, EmptySeq DEF Init, KeysInv

LEMMA ReceiveKeysInv ==
  ASSUME ChannelInv, ChannelInv', capture \in Captures, KeysInv, Receive
  PROVE  KeysInv'
<1>. DEFINE h == Head(chan)
            n == Len(received) + 1
<1>1. /\ h \in Packet /\ received \in Seq(Packet) /\ received' = Append(received, h)
      /\ capture' = capture
      /\ \/ ~Passes(h) /\ cons' = "receiving" /\ UNCHANGED idx
         \/ /\ Passes(h) /\ cons' = "writing" /\ current' = h
            /\ todo' = KeysOf(h, idx) /\ idx' = idx + 1
  BY HeadAndTail DEF Receive, ChannelInv, ChannelTypes, input
<1>. HIDE DEF h
<1>2. /\ Len(received) \in Nat /\ Len(received') = n /\ received'[n] = h
      /\ DOMAIN received' = 1..n /\ n \in 1..n /\ received' # <<>>
  BY <1>1, LenProperties, AppendProperties
<1>3. n \in DOMAIN capture /\ capture[n] = h
  <2>1. IsPrefix(received', capture) /\ received' \in Seq(Packet) /\ capture \in Seq(Packet)
    BY <1>1 DEF ChannelInv, ChannelTypes, ChannelIsFaithful
  <2>2. n \in DOMAIN received'
    BY <1>2
  <2>. HIDE DEF n
  <2>. QED
    BY <1>2, <2>1, <2>2, PrefixAgrees
<1>4. idx \in 0..(n - 1)
  BY <1>2 DEF KeysInv
<1>5. CASE ~Passes(h) /\ cons' = "receiving" /\ UNCHANGED idx
  BY <1>2, <1>4, <1>5 DEF KeysInv
<1>6. CASE /\ Passes(h) /\ cons' = "writing" /\ current' = h
           /\ todo' = KeysOf(h, idx) /\ idx' = idx + 1
  <2>1. ~Panics(h) => KeysOf(h, idx) \in Seq(Key) \ {<<>>}
    <3>. HIDE DEF n
    <3>. QED
      BY <1>3, <1>4, <1>6, KeysAssumption
  <2>. QED
    BY <1>2, <1>4, <1>6, <2>1 DEF KeysInv
<1>. QED
  BY <1>1, <1>5, <1>6

LEMMA NextKeysInv ==
  ChannelInv /\ ChannelInv' /\ TypeOK /\ KeysInv /\ [Next]_vars => KeysInv'
<1>. SUFFICES ASSUME ChannelInv, ChannelInv', TypeOK, KeysInv, [Next]_vars
              PROVE  KeysInv'
  OBVIOUS
<1>1. CASE Producer
  BY <1>1 DEF Producer, Parse, ParseEnds, Send, SendFails, consVars, KeysInv
<1>2. CASE Receive
  BY <1>2, ReceiveKeysInv DEF TypeOK
<1>3. CASE HandleKey
  <2>1. /\ cons = "writing" /\ ~Panics(current) /\ todo' = Tail(todo)
        /\ UNCHANGED <<idx, received>>
        /\ \/ Len(todo) > 1 /\ UNCHANGED <<cons, current>>
           \/ cons' = "receiving"
    BY <1>3 DEF HandleKey
  <2>2. todo \in Seq(Key) \ {<<>>}
    BY <2>1 DEF KeysInv
  <2>3. Len(todo) > 1 => todo' \in Seq(Key) \ {<<>>}
    BY <2>1, <2>2
  <2>. QED
    BY <2>1, <2>3 DEF KeysInv
<1>4. CASE HandleKeyFails \/ ConsumerPanics \/ StreamEnds \/ Join
  BY <1>4 DEF HandleKeyFails, ConsumerPanics, StreamEnds, Join, KeysInv
<1>5. CASE Close \/ CloseReturns \/ DropWriter \/ Exit
  BY <1>5 DEF Close, CloseReturns, DropWriter, Exit, consVars, KeysInv
<1>6. CASE Terminated \/ UNCHANGED vars
  BY <1>6 DEF Terminated, vars, consVars, KeysInv
<1>. QED
  BY <1>1, <1>2, <1>3, <1>4, <1>5, <1>6 DEF Next, Consumer
-----------------------------------------------------------------------------
(* The table and the writers keep the same kind of map.                    *)
LEMMA SameMaps ==
  /\ \A table, max : FM!Victims(table, max) = Victims(table, max)
  /\ \A table, max : SW!Victims(table, max) = Victims(table, max)
  /\ \A table, max : FailingSW!Victims(table, max) = Victims(table, max)
  /\ \A table, victim : FM!Without(table, victim) = Without(table, victim)
  /\ \A table, victim : SW!Without(table, victim) = Without(table, victim)
  /\ \A table, victim : FailingSW!Without(table, victim) = Without(table, victim)
  /\ \A table : FM!Live(table) = Live(table) /\ SW!Live(table) = Live(table)
<1>1. \A table : /\ FM!Live(table) = Live(table) /\ SW!Live(table) = Live(table)
                 /\ FailingSW!Live(table) = Live(table)
  BY DEF Live, FM!Live, SW!Live, FailingSW!Live
<1>2. \A table : /\ FM!LeastRecent(table) = LeastRecent(table)
                 /\ SW!LeastRecent(table) = LeastRecent(table)
                 /\ FailingSW!LeastRecent(table) = LeastRecent(table)
  BY <1>1 DEF LeastRecent, FM!LeastRecent, SW!LeastRecent, FailingSW!LeastRecent
<1>3. \A S : /\ FM!Cardinality(S) = Cardinality(S) /\ SW!Cardinality(S) = Cardinality(S)
             /\ FailingSW!Cardinality(S) = Cardinality(S)
  BY DEF Cardinality, FM!Cardinality, SW!Cardinality, FailingSW!Cardinality
<1>4. \A table, max : /\ FM!Evictable(table, max) = Evictable(table, max)
                      /\ SW!Evictable(table, max) = Evictable(table, max)
                      /\ FailingSW!Evictable(table, max) = Evictable(table, max)
  BY <1>1, <1>2, <1>3 DEF Evictable, FM!Evictable, SW!Evictable, FailingSW!Evictable
<1>5. \A table, max : /\ FM!Victims(table, max) = Victims(table, max)
                      /\ SW!Victims(table, max) = Victims(table, max)
                      /\ FailingSW!Victims(table, max) = Victims(table, max)
  BY <1>4 DEF Victims, FM!Victims, SW!Victims, FailingSW!Victims
<1>6. \A table, victim : /\ FM!Without(table, victim) = Without(table, victim)
                         /\ SW!Without(table, victim) = Without(table, victim)
                         /\ FailingSW!Without(table, victim) = Without(table, victim)
  BY DEF Without, FM!Without, SW!Without, FailingSW!Without
<1>. QED
  BY <1>1, <1>5, <1>6

(* What the writer does with a packet, on a disk that works or may fail:   *)
(* the victim's file is the only other one it changes.                     *)
Wrote(key, pkt, victim, flushed, out) ==
  /\ \A k \in Key : k # victim => flushed[k] = tmp[k]
  /\ DOMAIN flushed = Key
  /\ out \in SW!Buffered(
       IF Without(writers, victim)[key] = Absent
       THEN [disk |-> <<>>, buffer |-> <<>>]
       ELSE [disk |-> flushed[key], buffer |-> writers[key].buffer],
       SW!Frames(pkt))
  /\ tmp' = [flushed EXCEPT ![key] = out.disk]
  /\ writers' = [Without(writers, victim) EXCEPT ![key] =
                   [last_access |-> sw_gen + 1, buffer |-> out.buffer]]
  /\ sw_gen' = sw_gen + 1

LEMMA WritesAKey ==
  ASSUME DOMAIN tmp = Key, NEW key \in Key, NEW pkt, SW!WritePacketForKey(key, pkt)
  PROVE  \E victim \in Victims(writers, MaxSessions) : \E flushed, out :
           /\ Wrote(key, pkt, victim, flushed, out)
           /\ victim \in Key => flushed[victim] = tmp[victim] \o writers[victim].buffer
<1>1. PICK e \in SW!Evictions : \E out \in SW!Buffered(SW!FileAfter(e, key), SW!Frames(pkt)) :
        /\ tmp' = [e.tmp EXCEPT ![key] = out.disk]
        /\ writers' = [e.open EXCEPT ![key] = [last_access |-> sw_gen', buffer |-> out.buffer]]
  BY DEF SW!WritePacketForKey
<1>2. PICK out \in SW!Buffered(SW!FileAfter(e, key), SW!Frames(pkt)) :
        /\ tmp' = [e.tmp EXCEPT ![key] = out.disk]
        /\ writers' = [e.open EXCEPT ![key] = [last_access |-> sw_gen', buffer |-> out.buffer]]
  BY <1>1
<1>3. sw_gen' = sw_gen + 1
  BY DEF SW!WritePacketForKey
<1>4. PICK victim \in Victims(writers, MaxSessions) :
        \E flushed \in SW!TmpAfterEvict(victim) :
          e = [open |-> Without(writers, victim), tmp |-> flushed]
  BY <1>1, SameMaps DEF SW!Evictions
<1>5. PICK flushed \in SW!TmpAfterEvict(victim) :
        e = [open |-> Without(writers, victim), tmp |-> flushed]
  BY <1>4
<1>6. e.open = Without(writers, victim) /\ e.tmp = flushed
  BY <1>5
<1>7. DOMAIN flushed = Key /\ \A k \in Key : k # victim => flushed[k] = tmp[k]
  BY <1>5 DEF SW!TmpAfterEvict
<1>8. SW!FileAfter(e, key) =
        IF Without(writers, victim)[key] = Absent
        THEN [disk |-> <<>>, buffer |-> <<>>]
        ELSE [disk |-> flushed[key], buffer |-> writers[key].buffer]
  <2>1. SW!FileAfter(e, key) =
          IF e.open[key] = Absent
          THEN [disk |-> <<>>, buffer |-> <<>>]
          ELSE [disk |-> e.tmp[key], buffer |-> e.open[key].buffer]
    BY DEF SW!FileAfter
  <2>2. e.open[key] = Absent \/ e.open[key] = writers[key]
    BY <1>6 DEF Without
  <2>. QED
    BY <1>6, <2>1, <2>2
<1>9. Wrote(key, pkt, victim, flushed, out)
  BY <1>2, <1>3, <1>6, <1>7, <1>8 DEF Wrote
<1>10. victim \in Key => flushed[victim] = tmp[victim] \o writers[victim].buffer
  BY <1>5, AbsentIsNoKey DEF SW!TmpAfterEvict, SW!Dropped
<1>. QED
  BY <1>4, <1>9, <1>10

LEMMA WritesAKeyOrFails ==
  ASSUME DOMAIN tmp = Key, NEW key \in Key, NEW pkt, FailingSW!WritePacketForKey(key, pkt)
  PROVE  \E victim \in Victims(writers, MaxSessions) : \E flushed, out :
           Wrote(key, pkt, victim, flushed, out)
<1>1. PICK e \in FailingSW!Evictions : \E out \in FailingSW!Buffered(FailingSW!FileAfter(e, key), FailingSW!Frames(pkt)) :
        /\ tmp' = [e.tmp EXCEPT ![key] = out.disk]
        /\ writers' = [e.open EXCEPT ![key] = [last_access |-> sw_gen', buffer |-> out.buffer]]
  BY DEF FailingSW!WritePacketForKey
<1>2. PICK out \in FailingSW!Buffered(FailingSW!FileAfter(e, key), FailingSW!Frames(pkt)) :
        /\ tmp' = [e.tmp EXCEPT ![key] = out.disk]
        /\ writers' = [e.open EXCEPT ![key] = [last_access |-> sw_gen', buffer |-> out.buffer]]
  BY <1>1
<1>3. sw_gen' = sw_gen + 1
  BY DEF FailingSW!WritePacketForKey
<1>4. PICK victim \in Victims(writers, MaxSessions) :
        \E flushed \in FailingSW!TmpAfterEvict(victim) :
          e = [open |-> Without(writers, victim), tmp |-> flushed]
  BY <1>1, SameMaps DEF FailingSW!Evictions
<1>5. PICK flushed \in FailingSW!TmpAfterEvict(victim) :
        e = [open |-> Without(writers, victim), tmp |-> flushed]
  BY <1>4
<1>6. e.open = Without(writers, victim) /\ e.tmp = flushed
  BY <1>5
<1>7. DOMAIN flushed = Key /\ \A k \in Key : k # victim => flushed[k] = tmp[k]
  BY <1>5 DEF FailingSW!TmpAfterEvict
<1>8. FailingSW!FileAfter(e, key) =
        IF Without(writers, victim)[key] = Absent
        THEN [disk |-> <<>>, buffer |-> <<>>]
        ELSE [disk |-> flushed[key], buffer |-> writers[key].buffer]
  <2>1. FailingSW!FileAfter(e, key) =
          IF e.open[key] = Absent
          THEN [disk |-> <<>>, buffer |-> <<>>]
          ELSE [disk |-> e.tmp[key], buffer |-> e.open[key].buffer]
    BY DEF FailingSW!FileAfter
  <2>2. e.open[key] = Absent \/ e.open[key] = writers[key]
    BY <1>6 DEF Without
  <2>. QED
    BY <1>6, <2>1, <2>2
<1>9. /\ \A file, frames : FailingSW!Buffered(file, frames) = SW!Buffered(file, frames)
      /\ FailingSW!Frames(pkt) = SW!Frames(pkt)
  BY DEF SW!Buffered, FailingSW!Buffered, SW!Frames, FailingSW!Frames
<1>10. Wrote(key, pkt, victim, flushed, out)
  BY <1>2, <1>3, <1>6, <1>7, <1>8, <1>9 DEF Wrote
<1>. QED
  BY <1>4, <1>10

(* What the table does with it. *)
Added(key, pkt, victim) ==
  /\ flows' = [Without(flows, victim) EXCEPT ![key] =
       IF Without(flows, victim)[key] = Absent
       THEN [flow_id |-> next_flow_id, packets |-> <<pkt>>, last_access |-> fm_gen + 1]
       ELSE [flow_id |-> flows[key].flow_id, packets |-> Append(flows[key].packets, pkt),
             last_access |-> fm_gen + 1]]
  /\ fm_gen' = fm_gen + 1
  /\ next_flow_id' \in {next_flow_id, next_flow_id + 1}

LEMMA AddsAPacket ==
  ASSUME NEW key \in Key, NEW pkt, FM!AddPacket(key, pkt)
  PROVE  \E victim \in Victims(flows, MaxSessions) : Added(key, pkt, victim)
<1>1. PICK victim \in Victims(flows, MaxSessions) :
        LET kept == Without(flows, victim) IN
        /\ fm_gen' = fm_gen + 1
        /\ \/ /\ kept[key] # Absent
              /\ flows' = [kept EXCEPT ![key] = FM!Extended(kept[key], pkt, fm_gen')]
              /\ next_flow_id' = next_flow_id
           \/ /\ kept[key] = Absent
              /\ flows' = [kept EXCEPT ![key] = FM!NewFlow(next_flow_id, pkt, fm_gen')]
              /\ next_flow_id' = next_flow_id + 1
  BY SameMaps DEF FM!AddPacket, FM!IdAfter
<1>2. Without(flows, victim)[key] # Absent => Without(flows, victim)[key] = flows[key]
  BY DEF Without
<1>3. CASE Without(flows, victim)[key] # Absent
  BY <1>1, <1>2, <1>3 DEF Added, FM!Extended
<1>4. CASE Without(flows, victim)[key] = Absent
  BY <1>1, <1>4 DEF Added, FM!NewFlow
<1>. QED
  BY <1>3, <1>4
-----------------------------------------------------------------------------
(* The frames of a flow's packets: one packet more adds its frames.        *)
FramesOf(packets) == FlattenSeq([i \in DOMAIN packets |-> SW!Frames(packets[i])])

LEMMA FramesType == \A pkt \in Packet : SW!Frames(pkt) \in Seq(Packet)
BY PacketSeqs DEF SW!Frames

LEMMA FramesOfAppend ==
  ASSUME NEW packets \in Seq(Packet), NEW pkt \in Packet
  PROVE  /\ FramesOf(packets) \in Seq(Packet)
         /\ FramesOf(Append(packets, pkt)) = FramesOf(packets) \o SW!Frames(pkt)
<1>. DEFINE n == Len(packets)
            more == Append(packets, pkt)
            a == [i \in 1..n |-> SW!Frames(packets[i])]
            b == [i \in 1..(n + 1) |-> SW!Frames(more[i])]
<1>1. /\ n \in Nat /\ DOMAIN packets = 1..n /\ DOMAIN more = 1..(n + 1)
      /\ \A i \in 1..n : more[i] = packets[i] /\ packets[i] \in Packet
      /\ more[n + 1] = pkt
  BY LenProperties, AppendProperties, ElementOfSeq
<1>2. FramesOf(packets) = FlattenSeq(a) /\ FramesOf(more) = FlattenSeq(b)
  BY <1>1 DEF FramesOf
<1>. HIDE DEF n, more
<1>3. \A i \in 1..n : SW!Frames(packets[i]) \in Seq(Packet)
  BY <1>1, FramesType
<1>4. a \in Seq(Seq(Packet)) /\ Len(a) = n
  BY <1>1, <1>3
<1>5. /\ \A i \in 1..n : b[i] = a[i]
      /\ b[n + 1] = SW!Frames(pkt) /\ n + 1 \in 1..(n + 1)
      /\ b = [i \in 1..(n + 1) |-> b[i]]
  BY <1>1
<1>. HIDE DEF a, b
<1>6. /\ FlattenSeq(a) \in Seq(Packet)
      /\ FlattenSeq(b) = FlattenSeq(a) \o b[n + 1]
  <2>1. /\ b = [i \in 1..(Len(a) + 1) |-> b[i]]
        /\ \A i \in 1..Len(a) : b[i] = a[i]
        /\ b[Len(a) + 1] \in Seq(Packet)
    BY <1>4, <1>5, FramesType, Zenon
  <2>2. FlattenSeq(a) \in Seq(Packet) /\ FlattenSeq(b) = FlattenSeq(a) \o b[Len(a) + 1]
    BY <1>4, <2>1, FlattenLonger, Zenon
  <2>. QED
    BY <1>4, <2>2, Zenon
<1>. QED
  BY <1>2, <1>5, <1>6 DEF more

LEMMA FramesOfOne ==
  ASSUME NEW pkt \in Packet
  PROVE  FramesOf(<<pkt>>) = SW!Frames(pkt)
<1>. DEFINE a == [i \in DOMAIN <<pkt>> |-> SW!Frames(<<pkt>>[i])]
<1>1. Len(a) = 1 /\ a[1] = SW!Frames(pkt)
  BY LenProperties
<1>. HIDE DEF a
<1>2. FlattenSeq(a) = SW!Frames(pkt)
  BY <1>1, FlattenOne, Zenon
<1>. QED
  BY <1>2 DEF FramesOf, a

(* However the buffer is spilled, the file is what it was and the frames.  *)
LEMMA BufferedKeepsFrames ==
  ASSUME NEW file, NEW frames \in Seq(Packet), NEW out \in SW!Buffered(file, frames),
         file.disk \in Seq(Packet), file.buffer \in Seq(Packet)
  PROVE  /\ out.disk \in Seq(Packet) /\ out.buffer \in Seq(Packet)
         /\ out.disk \o out.buffer = (file.disk \o file.buffer) \o frames
<1>. DEFINE disk == file.disk
            buffer == file.buffer
<1>1. \/ out = [disk |-> disk, buffer |-> buffer \o frames]
      \/ out = [disk |-> disk \o buffer, buffer |-> frames]
      \/ out = [disk |-> disk \o buffer \o frames, buffer |-> <<>>]
  BY DEF SW!Buffered
<1>2. \/ out.disk = disk /\ out.buffer = buffer \o frames
      \/ out.disk = disk \o buffer /\ out.buffer = frames
      \/ out.disk = (disk \o buffer) \o frames /\ out.buffer = <<>>
  <2>1. CASE out = [disk |-> disk, buffer |-> buffer \o frames]
    BY <2>1
  <2>2. CASE out = [disk |-> disk \o buffer, buffer |-> frames]
    BY <2>2
  <2>3. CASE out = [disk |-> (disk \o buffer) \o frames, buffer |-> <<>>]
    BY <2>3
  <2>. QED
    BY <1>1, <2>1, <2>2, <2>3
<1>3. /\ disk \o buffer \in Seq(Packet) /\ buffer \o frames \in Seq(Packet)
      /\ (disk \o buffer) \o frames \in Seq(Packet)
      /\ ((disk \o buffer) \o frames) \o <<>> = (disk \o buffer) \o frames
      /\ disk \o (buffer \o frames) = (disk \o buffer) \o frames
      /\ <<>> \in Seq(Packet)
  <2>1. disk \o buffer \in Seq(Packet) /\ buffer \o frames \in Seq(Packet)
    BY PacketSeqs, Zenon
  <2>2. (disk \o buffer) \o frames \in Seq(Packet)
    BY <2>1, PacketSeqs, Zenon
  <2>3. ((disk \o buffer) \o frames) \o <<>> = (disk \o buffer) \o frames
    BY <2>2, PacketSeqs, Zenon
  <2>4. disk \o (buffer \o frames) = (disk \o buffer) \o frames
    BY PacketSeqs, ZenonT(30)
  <2>. QED
    BY <2>1, <2>2, <2>3, <2>4, PacketSeqs, Zenon
<1>. QED
  BY <1>2, <1>3, Zenon

(* A flow and the writer of the same key: they were last used together,    *)
(* and the file, once flushed, holds the frames of the flow's packets.     *)
InStepAt(flow, writer, file, gen) ==
  /\ flow \in FM!FlowState /\ writer \in SW!WriterState
  /\ flow.last_access = writer.last_access /\ flow.last_access <= gen
  /\ file \in Seq(Packet) /\ file \o writer.buffer = FramesOf(flow.packets)

(* While the writer takes packets, the two tables hold the same keys, with *)
(* generations that are the same and of one key only: this is what makes   *)
(* the two evictions, each over a hash map in its own order, choose alike. *)
InStep ==
  /\ flows \in [Key -> FM!FlowState \cup {Absent}]
  /\ writers \in [Key -> SW!WriterState \cup {Absent}]
  /\ next_flow_id \in Nat \ {0} /\ fm_gen \in Nat /\ sw_gen = fm_gen
  /\ DOMAIN tmp = Key
  /\ Live(flows) = Live(writers)
  /\ \A k \in Live(flows) : InStepAt(flows[k], writers[k], tmp[k], fm_gen)
  /\ \A j, k \in Live(flows) : flows[j].last_access = flows[k].last_access => j = k

InStepInv == phase = "open" => InStep

LEMMA InStepPair ==
  ASSUME NEW id \in Nat \ {0}, NEW packets \in Seq(Packet), NEW gen \in Nat,
         NEW file \in Seq(Packet), NEW buffer \in Seq(Packet),
         file \o buffer = FramesOf(packets)
  PROVE  InStepAt([flow_id |-> id, packets |-> packets, last_access |-> gen],
                  [last_access |-> gen, buffer |-> buffer], file, gen)
<1>. DEFINE flow == [flow_id |-> id, packets |-> packets, last_access |-> gen]
            writer == [last_access |-> gen, buffer |-> buffer]
<1>1. flow \in FM!FlowState /\ writer \in SW!WriterState
  BY DEF FM!FlowState, SW!WriterState
<1>2. /\ flow.last_access = gen /\ writer.last_access = gen
      /\ flow.packets = packets /\ writer.buffer = buffer /\ gen <= gen
  OBVIOUS
<1>. HIDE DEF flow, writer
<1>3. InStepAt(flow, writer, file, gen)
  BY <1>1, <1>2, Zenon DEF InStepAt
<1>. QED
  BY <1>3 DEF flow, writer

LEMMA InStepLater ==
  ASSUME NEW flow, NEW writer, NEW file, NEW gen \in Nat, InStepAt(flow, writer, file, gen)
  PROVE  InStepAt(flow, writer, file, gen + 1)
<1>1. flow.last_access <= gen + 1
  BY DEF InStepAt, FM!FlowState
<1>. QED
  BY <1>1, Zenon DEF InStepAt

(* A packet added to a flow and written to the file of its key. *)
LEMMA InStepAfter ==
  ASSUME NEW flow, NEW writer, NEW file, NEW gen \in Nat, NEW pkt \in Packet,
         InStepAt(flow, writer, file, gen),
         NEW out \in SW!Buffered([disk |-> file, buffer |-> writer.buffer], SW!Frames(pkt))
  PROVE  InStepAt([flow_id |-> flow.flow_id, packets |-> Append(flow.packets, pkt),
                   last_access |-> gen + 1],
                  [last_access |-> gen + 1, buffer |-> out.buffer], out.disk, gen + 1)
<1>1. /\ flow.flow_id \in Nat \ {0} /\ flow.packets \in Seq(Packet)
      /\ writer.buffer \in Seq(Packet) /\ file \in Seq(Packet)
      /\ file \o writer.buffer = FramesOf(flow.packets)
  BY DEF InStepAt, FM!FlowState, SW!WriterState
<1>2. /\ out.disk \in Seq(Packet) /\ out.buffer \in Seq(Packet)
      /\ out.disk \o out.buffer = FramesOf(flow.packets) \o SW!Frames(pkt)
  <2>. DEFINE before == [disk |-> file, buffer |-> writer.buffer]
  <2>1. before.disk = file /\ before.buffer = writer.buffer
    OBVIOUS
  <2>. HIDE DEF before
  <2>2. SW!Frames(pkt) \in Seq(Packet) /\ out \in SW!Buffered(before, SW!Frames(pkt))
    BY FramesType, Zenon DEF before
  <2>3. before.disk \in Seq(Packet) /\ before.buffer \in Seq(Packet)
    BY <1>1, <2>1, Zenon
  <2>4. /\ out.disk \in Seq(Packet) /\ out.buffer \in Seq(Packet)
        /\ out.disk \o out.buffer = (before.disk \o before.buffer) \o SW!Frames(pkt)
    BY <2>2, <2>3, BufferedKeepsFrames, Zenon
  <2>. QED
    BY <1>1, <2>1, <2>4, Zenon
<1>3. out.disk \o out.buffer = FramesOf(Append(flow.packets, pkt))
  BY <1>1, <1>2, FramesOfAppend, Zenon
<1>4. Append(flow.packets, pkt) \in Seq(Packet) /\ gen + 1 \in Nat
  BY <1>1, AppendProperties
<1>. QED
  BY <1>1, <1>2, <1>3, <1>4, InStepPair, Zenon

(* The first packet of a flow, and of a file. *)
LEMMA InStepFirst ==
  ASSUME NEW id \in Nat \ {0}, NEW gen \in Nat, NEW pkt \in Packet,
         NEW out \in SW!Buffered([disk |-> <<>>, buffer |-> <<>>], SW!Frames(pkt))
  PROVE  InStepAt([flow_id |-> id, packets |-> <<pkt>>, last_access |-> gen + 1],
                  [last_access |-> gen + 1, buffer |-> out.buffer], out.disk, gen + 1)
<1>1. /\ out.disk \in Seq(Packet) /\ out.buffer \in Seq(Packet)
      /\ out.disk \o out.buffer = (<<>> \o <<>>) \o SW!Frames(pkt)
  <2>. DEFINE before == [disk |-> <<>>, buffer |-> <<>>]
  <2>1. before.disk = <<>> /\ before.buffer = <<>>
    OBVIOUS
  <2>. HIDE DEF before
  <2>2. SW!Frames(pkt) \in Seq(Packet) /\ out \in SW!Buffered(before, SW!Frames(pkt))
    BY FramesType, Zenon DEF before
  <2>3. before.disk \in Seq(Packet) /\ before.buffer \in Seq(Packet)
    BY <2>1, PacketSeqs, Zenon
  <2>4. /\ out.disk \in Seq(Packet) /\ out.buffer \in Seq(Packet)
        /\ out.disk \o out.buffer = (before.disk \o before.buffer) \o SW!Frames(pkt)
    BY <2>2, <2>3, BufferedKeepsFrames, Zenon
  <2>. QED
    BY <2>1, <2>4, Zenon
<1>2. out.disk \o out.buffer = FramesOf(<<pkt>>)
  BY <1>1, PacketSeqs, FramesType, FramesOfOne, Zenon
<1>3. <<pkt>> \in Seq(Packet) /\ gen + 1 \in Nat
  BY PacketSeqs
<1>. QED
  BY <1>1, <1>2, <1>3, InStepPair, Zenon

(* The packet in hand is written under a key. *)
LEMMA KeyInHand ==
  ASSUME ChannelTypes, KeysInv, HandleKey
  PROVE  Head(todo) \in Key /\ current \in Packet
<1>1. cons = "writing" /\ ~Panics(current)
  BY DEF HandleKey
<1>2. todo \in Seq(Key) /\ todo # <<>>
  BY <1>1 DEF KeysInv
<1>3. Head(todo) \in Key
  BY <1>2
<1>4. received \in Seq(Packet) /\ received # <<>> /\ current = received[Len(received)]
  BY <1>1 DEF KeysInv, ChannelTypes
<1>5. Len(received) \in 1..Len(received)
  BY <1>4, LenProperties, EmptySeq
<1>. QED
  BY <1>3, <1>4, <1>5, ElementOfSeq

(* One key of a packet, written to a disk that works or that may fail. *)
LEMMA HandleKeyInStep ==
  ASSUME ChannelTypes, KeysInv, TypeOK, InStep, HandleKey
  PROVE  InStep'
<1>. DEFINE key == Head(todo)
<1>1. key \in Key /\ current \in Packet /\ Absent \notin Key
  BY KeyInHand, AbsentIsNoKey
<1>. HIDE DEF key
<1>2. PICK victim \in Victims(flows, MaxSessions) : Added(key, current, victim)
  <2>1. FM!AddPacket(key, current)
    BY DEF HandleKey, key
  <2>. QED
    BY <1>1, <2>1, AddsAPacket
<1>3. PICK w \in Victims(writers, MaxSessions) : \E flushed, out :
        Wrote(key, current, w, flushed, out)
  <2>1. SW!WritePacketForKey(key, current) \/ FailingSW!WritePacketForKey(key, current)
    BY DEF HandleKey, key
  <2>2. DOMAIN tmp = Key
    BY DEF InStep
  <2>. QED
    BY <1>1, <2>1, <2>2, WritesAKey, WritesAKeyOrFails
<1>4. PICK flushed, out : Wrote(key, current, w, flushed, out)
  BY <1>3
<1>5. /\ Stamped(flows)
      /\ \A k \in Live(flows) : InStepAt(flows[k], writers[k], tmp[k], fm_gen)
      /\ \A k \in Live(flows) : /\ writers[k].last_access = flows[k].last_access
                                /\ flows[k].last_access \in Nat
                                /\ flows[k].last_access <= fm_gen
  BY DEF InStep, InStepAt, Stamped, FM!FlowState
<1>6. w = victim
  <2>1. /\ Live(flows) = Live(writers)
        /\ \A j, k \in Live(flows) : flows[j].last_access = flows[k].last_access => j = k
    BY DEF InStep
  <2>. QED
    BY <1>2, <1>3, <1>5, <2>1, SameVictim
<1>7. DEFINE kept == Live(flows) \ {victim}
<1>8. \A k \in Key : /\ (Without(flows, victim)[k] = Absent) = (k \notin kept)
                     /\ (Without(writers, victim)[k] = Absent) = (k \notin kept)
  BY DEF Without, Live, InStep
<1>9. /\ \A k \in Key \ {key} : flows'[k] = Without(flows, victim)[k]
      /\ \A k \in Key \ {key} : writers'[k] = Without(writers, victim)[k]
      /\ \A k \in Key \ {key} : k # victim => tmp'[k] = tmp[k]
      /\ DOMAIN tmp' = Key /\ DOMAIN flows' = Key /\ DOMAIN writers' = Key
      /\ tmp'[key] = out.disk
  BY <1>1, <1>2, <1>4, <1>6 DEF Added, Wrote, Without
<1>10. InStepAt(flows'[key], writers'[key], tmp'[key], fm_gen + 1)
  <2>1. CASE key \in kept
    <3>1. flows'[key] = [flow_id |-> flows[key].flow_id,
                         packets |-> Append(flows[key].packets, current),
                         last_access |-> fm_gen + 1]
      BY <1>1, <1>2, <1>8, <2>1 DEF Added, Without
    <3>2. /\ writers'[key] = [last_access |-> fm_gen + 1, buffer |-> out.buffer]
          /\ out \in SW!Buffered([disk |-> tmp[key], buffer |-> writers[key].buffer],
                                 SW!Frames(current))
      BY <1>1, <1>4, <1>6, <1>8, <2>1 DEF Wrote, Without, InStep
    <3>3. InStepAt(flows[key], writers[key], tmp[key], fm_gen) /\ fm_gen \in Nat
      BY <1>5, <2>1 DEF InStep
    <3>. QED
      BY <1>1, <1>9, <3>1, <3>2, <3>3, InStepAfter, ZenonT(30)
  <2>2. CASE key \notin kept
    <3>1. flows'[key] = [flow_id |-> next_flow_id, packets |-> <<current>>,
                         last_access |-> fm_gen + 1]
      BY <1>1, <1>2, <1>8, <2>2 DEF Added, Without
    <3>2. /\ writers'[key] = [last_access |-> fm_gen + 1, buffer |-> out.buffer]
          /\ out \in SW!Buffered([disk |-> <<>>, buffer |-> <<>>], SW!Frames(current))
      BY <1>1, <1>4, <1>6, <1>8, <2>2 DEF Wrote, Without, InStep
    <3>3. next_flow_id \in Nat \ {0} /\ fm_gen \in Nat
      BY DEF InStep
    <3>. QED
      BY <1>1, <1>9, <3>1, <3>2, <3>3, InStepFirst
  <2>. QED
    BY <2>1, <2>2
<1>11. \A k \in kept \ {key} :
         /\ flows'[k] = flows[k] /\ writers'[k] = writers[k] /\ tmp'[k] = tmp[k]
         /\ InStepAt(flows[k], writers[k], tmp[k], fm_gen)
  BY <1>5, <1>9 DEF Without, Live
<1>12. /\ Live(flows') = kept \cup {key} /\ Live(writers') = kept \cup {key}
  <2>1. \A k \in Key \ {key} : flows'[k] # Absent <=> k \in kept
    BY <1>8, <1>9
  <2>2. \A k \in Key \ {key} : writers'[k] # Absent <=> k \in kept
    BY <1>8, <1>9
  <2>3. flows'[key] # Absent /\ writers'[key] # Absent
    BY <1>10, StatesAssumption DEF InStepAt
  <2>. QED
    BY <1>1, <2>1, <2>2, <2>3 DEF Live
<1>13. /\ fm_gen \in Nat /\ fm_gen' = fm_gen + 1 /\ sw_gen' = fm_gen + 1
       /\ next_flow_id' \in Nat \ {0}
  BY <1>2, <1>4 DEF Added, Wrote, InStep
<1>14. \A k \in kept \cup {key} : InStepAt(flows'[k], writers'[k], tmp'[k], fm_gen + 1)
  <2>1. \A k \in kept \ {key} : InStepAt(flows'[k], writers'[k], tmp'[k], fm_gen + 1)
    BY <1>5, <1>11, <1>13, InStepLater, Zenon
  <2>. QED
    BY <1>10, <2>1
<1>15. \A j, k \in kept \cup {key} : flows'[j].last_access = flows'[k].last_access => j = k
  <2>1. flows'[key].last_access = fm_gen + 1
    BY <1>1, <1>2 DEF Added, Without
  <2>2. \A k \in kept \ {key} : flows'[k].last_access <= fm_gen /\ flows'[k].last_access \in Nat
    BY <1>5, <1>11
  <2>3. \A j, k \in kept \ {key} : flows'[j].last_access = flows'[k].last_access => j = k
    BY <1>11 DEF InStep
  <2>. QED
    BY <1>13, <2>1, <2>2, <2>3
<1>16. /\ \A k \in Key : flows'[k] \in FM!FlowState \cup {Absent}
       /\ \A k \in Key : writers'[k] \in SW!WriterState \cup {Absent}
  BY <1>12, <1>14 DEF InStepAt, Live
<1>17. flows' \in [Key -> FM!FlowState \cup {Absent}] /\ writers' \in [Key -> SW!WriterState \cup {Absent}]
  <2>1. flows' = [k \in Key |-> flows'[k]] /\ writers' = [k \in Key |-> writers'[k]]
    BY <1>2, <1>4 DEF Added, Wrote, Without
  <2>. QED
    BY <1>16, <2>1
<1>. QED
  BY <1>9, <1>12, <1>13, <1>14, <1>15, <1>17 DEF InStep

LEMMA InitInStepInv == Init => InStepInv
<1>. SUFFICES ASSUME Init
              PROVE  InStep
  BY DEF InStepInv
<1>1. Live(flows) = {} /\ Live(writers) = {}
  BY DEF Init, FM!Init, SW!Init, SW!NoFile, Live
<1>. QED
  BY <1>1 DEF Init, FM!Init, SW!Init, SW!NoFile, InStep

LEMMA NextInStepInv ==
  ChannelInv /\ KeysInv /\ TypeOK /\ InStepInv /\ [Next]_vars => InStepInv'
<1>. SUFFICES ASSUME ChannelInv, KeysInv, TypeOK, InStepInv, [Next]_vars
              PROVE  InStepInv'
  OBVIOUS
<1>1. CASE UNCHANGED <<fmVars, swVars>>
  <2>1. InStep => InStep'
    BY <1>1 DEF InStep, fmVars, swVars
  <2>. QED
    BY <1>1, <2>1 DEF InStepInv, swVars
<1>2. CASE HandleKey
  <2>1. phase = "open"
    BY <1>2 DEF HandleKey, SW!WritePacketForKey, FailingSW!WritePacketForKey
  <2>. QED
    BY <1>2, <2>1, HandleKeyInStep DEF InStepInv, ChannelInv
<1>3. CASE HandleKeyFails
  BY <1>3 DEF HandleKeyFails, FailingSW!WriteFails, InStepInv
<1>4. CASE Close
  BY <1>4 DEF Close, SW!CloseFlush, FailingSW!CloseFlushFails, InStepInv,
     SW!CloseStep, SW!DiscardNext, SW!SkipNext, SW!RenameNext, SW!RenameFails, SW!CloseDone,
     FailingSW!CloseStep, FailingSW!DiscardNext, FailingSW!SkipNext, FailingSW!RenameNext,
     FailingSW!RenameFails, FailingSW!CloseDone
<1>5. CASE DropWriter
  BY <1>5 DEF DropWriter, SW!Abandon, FailingSW!Abandon, InStepInv
<1>6. CASE Producer \/ Receive \/ StreamEnds \/ Join \/ ConsumerPanics
  BY <1>1, <1>6 DEF Producer, Parse, ParseEnds, Send, SendFails, Receive, StreamEnds, Join,
     ConsumerPanics
<1>7. CASE CloseReturns \/ Exit \/ Terminated \/ UNCHANGED vars
  BY <1>1, <1>7 DEF CloseReturns, Exit, Terminated, vars
<1>. QED
  BY <1>2, <1>3, <1>4, <1>5, <1>6, <1>7 DEF Next, Consumer

(* While packets are written, the flow table and the writers hold the same *)
(* groups with the same generations, and each file what its flow has.      *)
THEOREM TableAndWritersInStepAlways == Spec => []TableAndWritersInStep
<1>1. InStepInv => TableAndWritersInStep
  <2>. SUFFICES ASSUME InStep
                PROVE  /\ FM!Live(flows) = SW!Live(writers)
                       /\ \A key \in SW!Live(writers) :
                            /\ flows[key].last_access = writers[key].last_access
                            /\ SW!Content(key) = FramesOf(flows[key].packets)
    BY DEF InStepInv, TableAndWritersInStep, FramesOf
  <2>1. FM!Live(flows) = Live(flows) /\ SW!Live(writers) = Live(writers) /\ Live(flows) = Live(writers)
    BY SameMaps DEF InStep
  <2>2. ASSUME NEW key \in Live(writers)
        PROVE  /\ flows[key].last_access = writers[key].last_access
               /\ SW!Content(key) = FramesOf(flows[key].packets)
    <3>1. InStepAt(flows[key], writers[key], tmp[key], fm_gen)
      BY <2>1, <2>2 DEF InStep
    <3>2. SW!Content(key) = tmp[key] \o writers[key].buffer
      BY <2>2 DEF SW!Content, Live
    <3>. QED
      BY <3>1, <3>2 DEF InStepAt
  <2>. QED
    BY <2>1, <2>2
<1>. QED
  BY <1>1, InitChannelInv, NextChannelInv, InitKeysInv, NextKeysInv, InitInStepInv,
     NextInStepInv, SplitPipelineTypeOK, PTL DEF Spec
-----------------------------------------------------------------------------
(* One packet more: if it passes, it is the next to be classified.         *)
LEMMA PassingAppend ==
  ASSUME NEW packets \in Seq(Packet), NEW pkt \in Packet
  PROVE  /\ Passing(packets) \in Seq(Packet)
         /\ Passing(Append(packets, pkt)) =
              IF Passes(pkt) THEN Append(Passing(packets), pkt) ELSE Passing(packets)
<1>. DEFINE n == Len(packets)
            more == Append(packets, pkt)
            passed(p) == IF Passes(p) THEN <<p>> ELSE <<>>
            a == [i \in 1..n |-> passed(packets[i])]
            b == [i \in 1..(n + 1) |-> passed(more[i])]
<1>1. /\ n \in Nat /\ DOMAIN packets = 1..n /\ DOMAIN more = 1..(n + 1)
      /\ \A i \in 1..n : more[i] = packets[i] /\ packets[i] \in Packet
      /\ more[n + 1] = pkt
  BY LenProperties, AppendProperties, ElementOfSeq
<1>2. Passing(packets) = FlattenSeq(a) /\ Passing(more) = FlattenSeq(b)
  BY <1>1 DEF Passing
<1>3. \A p \in Packet : passed(p) \in Seq(Packet)
  BY PacketSeqs
<1>. HIDE DEF n, more, passed
<1>4. a \in Seq(Seq(Packet)) /\ Len(a) = n
  BY <1>1, <1>3
<1>5. /\ \A i \in 1..n : b[i] = a[i]
      /\ b[n + 1] = passed(pkt) /\ n + 1 \in 1..(n + 1)
      /\ b = [i \in 1..(n + 1) |-> b[i]]
  BY <1>1
<1>. HIDE DEF a, b
<1>6. /\ FlattenSeq(a) \in Seq(Packet)
      /\ FlattenSeq(b) = FlattenSeq(a) \o passed(pkt)
  <2>1. /\ b = [i \in 1..(Len(a) + 1) |-> b[i]]
        /\ \A i \in 1..Len(a) : b[i] = a[i]
        /\ b[Len(a) + 1] \in Seq(Packet)
    BY <1>3, <1>4, <1>5, Zenon
  <2>2. FlattenSeq(a) \in Seq(Packet) /\ FlattenSeq(b) = FlattenSeq(a) \o b[Len(a) + 1]
    BY <1>4, <2>1, FlattenLonger, Zenon
  <2>. QED
    BY <1>4, <1>5, <2>2, Zenon
<1>7. Passing(packets) \o passed(pkt) =
        IF Passes(pkt) THEN Append(Passing(packets), pkt) ELSE Passing(packets)
  <2>1. Passing(packets) \in Seq(Packet)
    BY <1>2, <1>6, Zenon
  <2>2. CASE Passes(pkt)
    BY <2>1, <2>2, PacketSeqs, Zenon DEF passed
  <2>3. CASE ~Passes(pkt)
    BY <2>1, <2>3, PacketSeqs, Zenon DEF passed
  <2>. QED
    BY <2>2, <2>3
<1>. QED
  BY <1>2, <1>6, <1>7, Zenon DEF more

(* The calls of write_packet_for_key. *)
Call == Key \X Packet

(* One call more. *)
LEMMA CallsAppend ==
  ASSUME NEW calls \in Seq(Call), NEW k \in Key, NEW pkt \in Packet
  PROVE  /\ GroupsOf(Append(calls, <<k, pkt>>)) = GroupsOf(calls) \cup {k}
         /\ \A key \in Key :
              /\ FramesUnder(key, calls) \in Seq(Packet)
              /\ FramesUnder(key, Append(calls, <<k, pkt>>)) =
                   IF k = key THEN FramesUnder(key, calls) \o SW!Frames(pkt)
                   ELSE FramesUnder(key, calls)
<1>. DEFINE n == Len(calls)
            call == <<k, pkt>>
            more == Append(calls, call)
<1>1. /\ n \in Nat /\ DOMAIN calls = 1..n /\ DOMAIN more = 1..(n + 1)
      /\ \A i \in 1..n : more[i] = calls[i] /\ calls[i] \in Call
      /\ more[n + 1] = call
  BY LenProperties, AppendProperties, ElementOfSeq DEF Call
<1>2. call[1] = k /\ call[2] = pkt
  OBVIOUS
<1>. HIDE DEF n, more, call
<1>3. GroupsOf(more) = GroupsOf(calls) \cup {k}
  <2>1. 1..(n + 1) = (1..n) \cup {n + 1}
    BY <1>1
  <2>. QED
    BY <1>1, <1>2, <2>1 DEF GroupsOf
<1>4. ASSUME NEW key \in Key
      PROVE  /\ FramesUnder(key, calls) \in Seq(Packet)
             /\ FramesUnder(key, more) =
                  IF k = key THEN FramesUnder(key, calls) \o SW!Frames(pkt)
                  ELSE FramesUnder(key, calls)
  <2>. DEFINE frames(c) == IF c[1] = key THEN SW!Frames(c[2]) ELSE <<>>
              a == [i \in 1..n |-> frames(calls[i])]
              b == [i \in 1..(n + 1) |-> frames(more[i])]
  <2>1. FramesUnder(key, calls) = FlattenSeq(a) /\ FramesUnder(key, more) = FlattenSeq(b)
    BY <1>1 DEF FramesUnder
  <2>2. \A c \in Call : frames(c) \in Seq(Packet)
    BY PacketSeqs, FramesType DEF Call
  <2>3. frames(call) = IF k = key THEN SW!Frames(pkt) ELSE <<>>
    BY <1>2
  <2>. HIDE DEF frames
  <2>4. frames(call) \in Seq(Packet)
    BY <2>3, PacketSeqs, FramesType
  <2>5. a \in Seq(Seq(Packet)) /\ Len(a) = n
    BY <1>1, <2>2
  <2>6. /\ \A i \in 1..n : b[i] = a[i]
        /\ b[n + 1] = frames(call) /\ n + 1 \in 1..(n + 1)
        /\ b = [i \in 1..(n + 1) |-> b[i]]
    BY <1>1
  <2>. HIDE DEF a, b
  <2>7. /\ FlattenSeq(a) \in Seq(Packet)
        /\ FlattenSeq(b) = FlattenSeq(a) \o frames(call)
    <3>1. /\ b = [i \in 1..(Len(a) + 1) |-> b[i]]
          /\ \A i \in 1..Len(a) : b[i] = a[i]
          /\ b[Len(a) + 1] \in Seq(Packet)
      BY <2>4, <2>5, <2>6, Zenon
    <3>2. FlattenSeq(a) \in Seq(Packet) /\ FlattenSeq(b) = FlattenSeq(a) \o b[Len(a) + 1]
      BY <2>5, <3>1, FlattenLonger, Zenon
    <3>. QED
      BY <2>5, <2>6, <3>2, Zenon
  <2>8. FlattenSeq(a) \o <<>> = FlattenSeq(a)
    BY <2>7, PacketSeqs, Zenon
  <2>. QED
    BY <2>1, <2>3, <2>7, <2>8, Zenon
<1>. QED
  BY <1>3, <1>4 DEF more, call

(* What is left of the keys after the first. *)
LEMMA KeysWithTail ==
  ASSUME NEW keys \in Seq(Key), NEW pkt \in Packet
  PROVE  /\ KeysWith(keys, pkt) \in Seq(Call)
         /\ keys = <<>> => KeysWith(keys, pkt) = <<>>
         /\ keys # <<>> => KeysWith(keys, pkt) = <<<<Head(keys), pkt>>>> \o KeysWith(Tail(keys), pkt)
<1>. DEFINE n == Len(keys)
            s == KeysWith(keys, pkt)
<1>1. n \in Nat /\ DOMAIN keys = 1..n /\ \A i \in 1..n : keys[i] \in Key
  BY LenProperties, ElementOfSeq
<1>2. s \in Seq(Call) /\ Len(s) = n /\ \A i \in 1..n : s[i] = <<keys[i], pkt>>
  BY <1>1 DEF KeysWith, Call
<1>3. keys = <<>> => s = <<>>
  BY <1>2
<1>4. ASSUME keys # <<>>
      PROVE  s = <<<<Head(keys), pkt>>>> \o KeysWith(Tail(keys), pkt)
  <2>1. n # 0
    BY <1>4, EmptySeq
  <2>2. /\ Head(keys) = keys[1] /\ Len(Tail(keys)) = n - 1 /\ DOMAIN Tail(keys) = 1..(n - 1)
        /\ \A i \in 1..(n - 1) : Tail(keys)[i] = keys[i + 1]
    BY <1>1, <1>4, HeadTailProperties, LenProperties
  <2>3. /\ s # <<>> /\ Head(s) = s[1] /\ Tail(s) \in Seq(Call) /\ Len(Tail(s)) = n - 1
        /\ \A i \in 1..(n - 1) : Tail(s)[i] = s[i + 1]
        /\ s = <<Head(s)>> \o Tail(s)
    BY <1>2, <2>1, HeadTailProperties, EmptySeq
  <2>4. Head(s) = <<Head(keys), pkt>>
    BY <1>1, <1>2, <2>1, <2>2, <2>3
  <2>5. Tail(s) = KeysWith(Tail(keys), pkt)
    <3>1. Tail(s) = [i \in 1..(n - 1) |-> Tail(s)[i]]
      <4>1. Tail(s) \in [1..(n - 1) -> Call]
        BY <2>3, LenProperties
      <4>. HIDE DEF s
      <4>. QED
        BY <4>1
    <3>2. \A i \in 1..(n - 1) : Tail(s)[i] = <<Tail(keys)[i], pkt>>
      BY <1>1, <1>2, <2>2, <2>3
    <3>. HIDE DEF n, s
    <3>3. KeysWith(Tail(keys), pkt) = [i \in 1..(n - 1) |-> <<Tail(keys)[i], pkt>>]
      BY <2>2 DEF KeysWith
    <3>. QED
      BY <3>1, <3>2, <3>3
  <2>. QED
    BY <2>3, <2>4, <2>5
<1>. QED
  BY <1>2, <1>3, <1>4

(* The packets that passed the filter have keys, each with its index. *)
Classified(packets) ==
  \A i \in DOMAIN Passing(packets) : KeysOf(Passing(packets)[i], i - 1) \in Seq(Key)

(* One packet more, and the calls it leads to. *)
LEMMA WritesAppend ==
  ASSUME NEW packets \in Seq(Packet), NEW pkt \in Packet, Passes(pkt), Classified(packets),
         NEW index, index = Len(Passing(packets)), KeysOf(pkt, index) \in Seq(Key)
  PROVE  /\ Writes(packets) \in Seq(Call)
         /\ Writes(Append(packets, pkt)) = Writes(packets) \o KeysWith(KeysOf(pkt, index), pkt)
         /\ Classified(Append(packets, pkt))
         /\ Len(Passing(Append(packets, pkt))) = index + 1
<1>. DEFINE p == Passing(packets)
            q == Passing(Append(packets, pkt))
            n == Len(p)
            a == [i \in 1..n |-> KeysWith(KeysOf(p[i], i - 1), p[i])]
            b == [i \in 1..(n + 1) |-> KeysWith(KeysOf(q[i], i - 1), q[i])]
<1>1. p \in Seq(Packet) /\ q = Append(p, pkt)
  BY PassingAppend
<1>. HIDE DEF p, q
<1>2. /\ n \in Nat /\ DOMAIN p = 1..n /\ DOMAIN q = 1..(n + 1) /\ Len(q) = n + 1
      /\ \A i \in 1..n : q[i] = p[i] /\ p[i] \in Packet
      /\ q[n + 1] = pkt /\ (n + 1) - 1 = n /\ index = n
  BY <1>1, LenProperties, AppendProperties, ElementOfSeq DEF p
<1>3. Writes(packets) = FlattenSeq(a) /\ Writes(Append(packets, pkt)) = FlattenSeq(b)
  BY <1>2 DEF Writes, p, q
<1>. HIDE DEF n
<1>4. \A i \in 1..n : KeysOf(p[i], i - 1) \in Seq(Key)
  BY <1>2 DEF Classified, p
<1>5. /\ \A i \in 1..n : KeysWith(KeysOf(p[i], i - 1), p[i]) \in Seq(Call)
      /\ KeysWith(KeysOf(pkt, n), pkt) \in Seq(Call)
  BY <1>2, <1>4, KeysWithTail
<1>6. a \in Seq(Seq(Call)) /\ Len(a) = n
  BY <1>2, <1>5
<1>7. /\ \A i \in 1..n : b[i] = a[i]
      /\ b[n + 1] = KeysWith(KeysOf(pkt, n), pkt) /\ n + 1 \in 1..(n + 1)
      /\ b = [i \in 1..(n + 1) |-> b[i]]
  BY <1>2
<1>. HIDE DEF a, b
<1>8. /\ FlattenSeq(a) \in Seq(Call)
      /\ FlattenSeq(b) = FlattenSeq(a) \o KeysWith(KeysOf(pkt, n), pkt)
  <2>1. /\ b = [i \in 1..(Len(a) + 1) |-> b[i]]
        /\ \A i \in 1..Len(a) : b[i] = a[i]
        /\ b[Len(a) + 1] \in Seq(Call)
    BY <1>5, <1>6, <1>7, Zenon
  <2>2. FlattenSeq(a) \in Seq(Call) /\ FlattenSeq(b) = FlattenSeq(a) \o b[Len(a) + 1]
    BY <1>6, <2>1, FlattenLonger, Zenon
  <2>. QED
    BY <1>6, <1>7, <2>2, Zenon
<1>9. \A i \in 1..(n + 1) : KeysOf(q[i], i - 1) \in Seq(Key)
  <2>1. 1..(n + 1) = (1..n) \cup {n + 1}
    BY <1>2
  <2>2. KeysOf(q[n + 1], (n + 1) - 1) \in Seq(Key)
    BY <1>2
  <2>. QED
    BY <1>2, <1>4, <2>1, <2>2
<1>10. Classified(Append(packets, pkt))
  BY <1>2, <1>9 DEF Classified, q
<1>. QED
  BY <1>2, <1>3, <1>8, <1>10 DEF q

(* A packet that does not pass leads to none.                              *)
LEMMA WritesSkip ==
  ASSUME NEW packets \in Seq(Packet), NEW pkt \in Packet, ~Passes(pkt)
  PROVE  /\ Writes(Append(packets, pkt)) = Writes(packets)
         /\ Classified(packets) => Classified(Append(packets, pkt))
         /\ Passing(Append(packets, pkt)) = Passing(packets)
<1>1. Passing(Append(packets, pkt)) = Passing(packets)
  BY PassingAppend
<1>. QED
  BY <1>1 DEF Writes, Classified
-----------------------------------------------------------------------------
(* No packet has made the consumer panic, and no error has ended it.       *)
Sound ==
  \/ cons \in {"receiving", "joining", "closing"}
  \/ cons = "writing" /\ ~Panics(current)
  \/ cons \in {"returned", "exited"} /\ result = "ok"

(* The calls so far are those the packets taken off the channel lead to,   *)
(* without those for the keys left of the one in hand.                     *)
CallsSoFar(calls) ==
  /\ calls \in Seq(Call)
  /\ Writes(received) = IF cons = "writing" THEN calls \o KeysWith(todo, current) ELSE calls
  /\ touched = GroupsOf(calls)
  /\ \A k \in Key : due[k] = FramesUnder(k, calls)

CallsInv ==
  /\ result = "ok" => cons \in {"returned", "exited"}
  /\ Sound => /\ DOMAIN due = Key
              /\ Classified(received) /\ idx = Len(Passing(received))
              /\ \E calls : CallsSoFar(calls)

LEMMA InitCallsInv == Init => CallsInv
<1>. SUFFICES ASSUME Init
              PROVE  CallsInv
  OBVIOUS
<1>1. Passing(<<>>) = <<>>
  <2>1. [i \in DOMAIN <<>> |-> IF Passes(<<>>[i]) THEN <<<<>>[i]>> ELSE <<>>] = <<>>
    BY EmptySeq
  <2>. QED
    BY <2>1, FlattenEmpty DEF Passing
<1>2. Writes(<<>>) = <<>>
  <2>1. [i \in DOMAIN <<>> |-> KeysWith(KeysOf(<<>>[i], i - 1), <<>>[i])] = <<>>
    BY EmptySeq
  <2>. QED
    BY <1>1, <2>1, FlattenEmpty DEF Writes
<1>3. \A k \in Key : FramesUnder(k, <<>>) = <<>>
  <2>. SUFFICES ASSUME NEW k \in Key
                PROVE  FramesUnder(k, <<>>) = <<>>
    OBVIOUS
  <2>1. [i \in DOMAIN <<>> |-> IF <<>>[i][1] = k THEN SW!Frames(<<>>[i][2]) ELSE <<>>] = <<>>
    BY EmptySeq
  <2>. QED
    BY <2>1, FlattenEmpty DEF FramesUnder
<1>4. GroupsOf(<<>>) = {} /\ <<>> \in Seq(Call)
  BY EmptySeq DEF GroupsOf
<1>5. /\ received = <<>> /\ cons = "receiving" /\ result = "none" /\ idx = 0
      /\ touched = {} /\ due = [k \in Key |-> <<>>]
  BY DEF Init, SW!Init
<1>6. CallsSoFar(<<>>)
  BY <1>2, <1>3, <1>4, <1>5 DEF CallsSoFar
<1>7. Classified(<<>>) /\ Len(Passing(<<>>)) = 0
  BY <1>1, EmptySeq DEF Classified
<1>. QED
  BY <1>5, <1>6, <1>7 DEF CallsInv

LEMMA ReceiveCallsInv ==
  ASSUME ChannelTypes, KeysInv', CallsInv, Receive
  PROVE  CallsInv'
<1>. DEFINE h == Head(chan)
<1>1. /\ h \in Packet /\ received \in Seq(Packet) /\ received' = Append(received, h)
      /\ \/ ~Passes(h) /\ cons' = cons /\ UNCHANGED <<current, todo, idx>>
         \/ /\ Passes(h) /\ cons' = "writing" /\ current' = h
            /\ todo' = KeysOf(h, idx) /\ idx' = idx + 1
      /\ cons = "receiving" /\ result' = result /\ result # "ok"
      /\ due' = due /\ touched' = touched
  BY HeadAndTail DEF Receive, ChannelTypes, CallsInv, swVars
<1>. HIDE DEF h
<1>2. /\ DOMAIN due = Key
      /\ Classified(received) /\ idx = Len(Passing(received))
  BY <1>1 DEF CallsInv, Sound
<1>3. PICK calls : CallsSoFar(calls)
  BY <1>1 DEF CallsInv, Sound
<1>4. CASE ~Passes(h) /\ cons' = cons /\ UNCHANGED <<current, todo, idx>>
  <2>1. CallsSoFar(calls)'
    BY <1>1, <1>3, <1>4, WritesSkip DEF CallsSoFar
  <2>. QED
    BY <1>1, <1>2, <1>4, <2>1, WritesSkip DEF CallsInv
<1>5. CASE /\ Passes(h) /\ cons' = "writing" /\ current' = h
           /\ todo' = KeysOf(h, idx) /\ idx' = idx + 1
  <2>. SUFFICES ASSUME ~Panics(h)
                PROVE  CallsInv'
    BY <1>1, <1>5 DEF CallsInv, Sound
  <2>1. KeysOf(h, idx) \in Seq(Key)
    BY <1>5 DEF KeysInv
  <2>2. /\ Writes(received') = Writes(received) \o KeysWith(KeysOf(h, idx), h)
        /\ Classified(received') /\ Len(Passing(received')) = idx + 1
    BY <1>1, <1>2, <1>5, <2>1, WritesAppend
  <2>3. CallsSoFar(calls)'
    BY <1>1, <1>3, <1>5, <2>2 DEF CallsSoFar
  <2>. QED
    BY <1>1, <1>2, <1>5, <2>2, <2>3 DEF CallsInv
<1>. QED
  BY <1>1, <1>4, <1>5

(* The call for the next key of the packet in hand. *)
LEMMA HandleKeyCallsInv ==
  ASSUME ChannelTypes, KeysInv, CallsInv, HandleKey
  PROVE  CallsInv'
<1>. DEFINE key == Head(todo)
            call == <<key, current>>
<1>1. /\ cons = "writing" /\ ~Panics(current) /\ todo' = Tail(todo)
      /\ \/ Len(todo) > 1 /\ UNCHANGED <<cons, current>>
         \/ Len(todo) = 1 /\ cons' = "receiving"
      /\ UNCHANGED <<idx, result, received>>
      /\ due' = [due EXCEPT ![key] = @ \o SW!Frames(current)]
      /\ touched' = touched \cup {key}
  BY DEF HandleKey, SW!WritePacketForKey, FailingSW!WritePacketForKey, SW!Frames, FailingSW!Frames
<1>2. /\ DOMAIN due = Key /\ result # "ok"
      /\ Classified(received) /\ idx = Len(Passing(received))
  BY <1>1 DEF CallsInv, Sound
<1>3. PICK calls : CallsSoFar(calls)
  BY <1>1 DEF CallsInv, Sound
<1>4. todo \in Seq(Key) /\ todo # <<>>
  BY <1>1 DEF KeysInv
<1>5. current \in Packet
  BY KeyInHand
<1>6. key \in Key /\ Tail(todo) \in Seq(Key) /\ (Len(todo) = 1 => Tail(todo) = <<>>)
  <2>1. /\ Head(todo) \in Key /\ Tail(todo) \in Seq(Key)
        /\ Len(Tail(todo)) = Len(todo) - 1
    BY <1>4, HeadTailProperties
  <2>2. Len(todo) = 1 => Tail(todo) = <<>>
    <3>1. Len(todo) = 1 => Len(Tail(todo)) = 0
      BY <2>1
    <3>2. \A t \in Seq(Key) : Len(t) = 0 => t = <<>>
      BY EmptySeq
    <3>. QED
      BY <2>1, <3>1, <3>2, Zenon
  <2>. QED
    BY <2>1, <2>2
<1>. HIDE DEF key
<1>. DEFINE more == Append(calls, call)
            rest == KeysWith(Tail(todo), current)
<1>7. calls \in Seq(Call) /\ call \in Call /\ more \in Seq(Call)
  BY <1>3, <1>5, <1>6, AppendProperties DEF CallsSoFar, Call
<1>8. rest \in Seq(Call) /\ KeysWith(todo, current) = <<call>> \o rest
  BY <1>4, <1>5, <1>6, KeysWithTail, Zenon DEF key
<1>9. Writes(received) = more \o rest
  <2>1. more = calls \o <<call>> /\ <<call>> \in Seq(Call)
    <3>1. /\ \A s \in Seq(Call) : \A e \in Call : Append(s, e) = s \o <<e>>
          /\ \A e \in Call : <<e>> \in Seq(Call)
      BY AppendIsConcat
    <3>. QED
      BY <1>7, <3>1, Zenon
  <2>2. (calls \o <<call>>) \o rest = calls \o (<<call>> \o rest)
    BY <1>7, <1>8, <2>1, ConcatAssociative
  <2>3. Writes(received) = calls \o KeysWith(todo, current)
    BY <1>1, <1>3 DEF CallsSoFar
  <2>. QED
    BY <1>8, <2>1, <2>2, <2>3
<1>10. Len(todo) = 1 => more \o rest = more
  <2>1. Len(todo) = 1 => rest = <<>>
    BY <1>5, <1>6, KeysWithTail, Zenon
  <2>. QED
    BY <1>7, <2>1, ConcatEmptySeq
<1>. HIDE DEF rest
<1>11. Writes(received') = IF cons' = "writing" THEN more \o KeysWith(todo', current') ELSE more
  BY <1>1, <1>9, <1>10 DEF rest
<1>12. /\ GroupsOf(more) = touched' /\ \A k \in Key : due'[k] = FramesUnder(k, more)
  <2>1. /\ GroupsOf(more) = GroupsOf(calls) \cup {key}
        /\ \A k \in Key : FramesUnder(k, more) =
             IF key = k THEN FramesUnder(k, calls) \o SW!Frames(current)
             ELSE FramesUnder(k, calls)
    BY <1>5, <1>6, <1>7, CallsAppend, ZenonT(30)
  <2>2. touched = GroupsOf(calls) /\ \A k \in Key : due[k] = FramesUnder(k, calls)
    BY <1>3 DEF CallsSoFar
  <2>. QED
    BY <1>1, <1>2, <1>6, <2>1, <2>2
<1>. HIDE DEF more
<1>13. PICK c : c = more
  OBVIOUS
<1>14. CallsSoFar(c)'
  BY <1>7, <1>11, <1>12, <1>13, Zenon DEF CallsSoFar
<1>. QED
  BY <1>1, <1>2, <1>14 DEF CallsInv

LEMMA NextCallsInv ==
  ChannelInv /\ KeysInv /\ KeysInv' /\ CallsInv /\ [Next]_vars => CallsInv'
<1>. SUFFICES ASSUME ChannelInv, KeysInv, KeysInv', CallsInv, [Next]_vars
              PROVE  CallsInv'
  OBVIOUS
<1>1. ASSUME /\ UNCHANGED <<idx, received, due, touched>>
             /\ result' = "ok" => cons' \in {"returned", "exited"}
             /\ Sound' => Sound /\ (cons = "writing") = (cons' = "writing")
                          /\ (cons = "writing" => UNCHANGED <<todo, current>>)
      PROVE  CallsInv'
  <2>1. \A calls : Sound' /\ CallsSoFar(calls) => CallsSoFar(calls)'
    BY <1>1 DEF CallsSoFar
  <2>. QED
    BY <1>1, <2>1 DEF CallsInv
<1>2. CASE Producer
  BY <1>1, <1>2 DEF Producer, Parse, ParseEnds, Send, SendFails, consVars, swVars, Sound, CallsInv
<1>3. CASE Receive
  BY <1>3, ReceiveCallsInv DEF ChannelInv
<1>4. CASE HandleKey
  BY <1>4, HandleKeyCallsInv DEF ChannelInv
<1>5. CASE HandleKeyFails \/ ConsumerPanics
  BY <1>5 DEF HandleKeyFails, ConsumerPanics, Sound, CallsInv
<1>6. CASE StreamEnds \/ Join
  BY <1>1, <1>6 DEF StreamEnds, Join, swVars, Sound, CallsInv
<1>7. CASE Close
  <2>1. UNCHANGED <<due, touched>>
    BY <1>7 DEF Close, SW!CloseFlush, FailingSW!CloseFlushFails,
     SW!CloseStep, SW!DiscardNext, SW!SkipNext, SW!RenameNext, SW!RenameFails, SW!CloseDone,
     FailingSW!CloseStep, FailingSW!DiscardNext, FailingSW!SkipNext, FailingSW!RenameNext,
     FailingSW!RenameFails, FailingSW!CloseDone
  <2>. QED
    BY <1>1, <1>7, <2>1 DEF Close, consVars, Sound, CallsInv
<1>8. CASE CloseReturns \/ Exit
  BY <1>1, <1>8 DEF CloseReturns, Exit, swVars, Sound, CallsInv
<1>9. CASE DropWriter
  <2>1. UNCHANGED <<due, touched>>
    BY <1>9 DEF DropWriter, SW!Abandon, FailingSW!Abandon
  <2>. QED
    BY <1>1, <1>9, <2>1 DEF DropWriter, Sound, CallsInv
<1>10. CASE Terminated \/ UNCHANGED vars
  BY <1>1, <1>10 DEF Terminated, vars, consVars, swVars, Sound, CallsInv
<1>. QED
  BY <1>2, <1>3, <1>4, <1>5, <1>6, <1>7, <1>8, <1>9, <1>10 DEF Next, Consumer
-----------------------------------------------------------------------------
(* What a file holds of what was asked for, and when the groups are below  *)
(* the limit.                                                              *)
Holds(file, asked, below) ==
  /\ asked \in Seq(Packet) /\ file \in Seq(Packet) /\ file \in Suffixes(asked)
  /\ ~L7Mode => file # <<>>
  /\ below => file = asked

LEMMA HoldsLater ==
  ASSUME NEW file, NEW asked, NEW below, NEW after, Holds(file, asked, below), after => below
  PROVE  Holds(file, asked, after)
BY Zenon DEF Holds

LEMMA FramesOfAPacket ==
  ASSUME NEW pkt \in Packet
  PROVE  /\ SW!Frames(pkt) = <<>> \/ \E p \in Packet : SW!Frames(pkt) = <<p>>
         /\ ~L7Mode => SW!Frames(pkt) = <<pkt>>
BY DEF SW!Frames

LEMMA PacketSuffixes ==
  \A s, t, more \in Seq(Packet) :
    t \in Suffixes(s) /\ (more = <<>> \/ \E p \in Packet : more = <<p>>) =>
      t \o more \in Suffixes(s \o more)
BY SuffixExtended

LEMMA HoldsMore ==
  ASSUME NEW file, NEW asked, NEW below, NEW after, Holds(file, asked, below), after => below,
         NEW pkt \in Packet
  PROVE  Holds(file \o SW!Frames(pkt), asked \o SW!Frames(pkt), after)
<1>. DEFINE more == SW!Frames(pkt)
<1>1. /\ more \in Seq(Packet) /\ (more = <<>> \/ \E p \in Packet : more = <<p>>)
      /\ ~L7Mode => more = <<pkt>>
  BY FramesType, FramesOfAPacket
<1>. HIDE DEF more
<1>2. /\ asked \in Seq(Packet) /\ file \in Seq(Packet) /\ file \in Suffixes(asked)
      /\ after => file = asked
  BY DEF Holds
<1>3. file \o more \in Seq(Packet) /\ asked \o more \in Seq(Packet)
  BY <1>1, <1>2, PacketSeqs, Zenon
<1>4. file \o more \in Suffixes(asked \o more)
  BY <1>1, <1>2, PacketSuffixes, Zenon
<1>5. ~L7Mode => file \o more # <<>>
  <2>1. file \o <<pkt>> = Append(file, pkt) /\ Append(file, pkt) # <<>>
    BY <1>2, PacketSeqs, AppendProperties
  <2>. QED
    BY <1>1, <2>1
<1>6. after => file \o more = asked \o more
  BY <1>2
<1>. QED
  BY <1>3, <1>4, <1>5, <1>6, Zenon DEF Holds, more

LEMMA HoldsFirst ==
  ASSUME NEW asked \in Seq(Packet), NEW after, after => asked = <<>>, NEW pkt \in Packet
  PROVE  Holds(SW!Frames(pkt), asked \o SW!Frames(pkt), after)
<1>. DEFINE more == SW!Frames(pkt)
<1>1. /\ more \in Seq(Packet) /\ (more = <<>> \/ \E p \in Packet : more = <<p>>)
      /\ ~L7Mode => more = <<pkt>>
  BY FramesType, FramesOfAPacket
<1>. HIDE DEF more
<1>2. <<>> \in Suffixes(asked) /\ <<>> \in Seq(Packet)
  BY PacketSeqs DEF Suffixes
<1>3. <<>> \o more = more /\ asked \o more \in Seq(Packet)
  BY <1>1, PacketSeqs, Zenon
<1>4. <<>> \o more \in Suffixes(asked \o more)
  BY <1>1, <1>2, PacketSuffixes, Zenon
<1>5. ~L7Mode => more # <<>>
  <2>1. <<pkt>> # <<>>
    OBVIOUS
  <2>. QED
    BY <1>1, <2>1, Zenon
<1>6. after => more = asked \o more
  BY <1>3
<1>7. more \in Suffixes(asked \o more)
  BY <1>3, <1>4
<1>8. Holds(more, asked \o more, after)
  BY <1>1, <1>3, <1>5, <1>6, <1>7, Zenon DEF Holds
<1>. QED
  BY <1>8 DEF more

(* A temporary file once its buffer is flushed. *)
Flushed(file, writer) == IF writer = Absent THEN file ELSE file \o writer.buffer

BelowMax == Cardinality(touched) < MaxSessions

(* While packets are written, on a disk that works: below the limit no     *)
(* writer has been evicted, and no file was emptied by being opened again. *)
Written ==
  /\ touched \subseteq Key /\ IsFiniteSet(touched) /\ temp_paths = touched
  /\ final = SW!NoFile /\ DOMAIN due = Key
  /\ Live(writers) \subseteq touched /\ (BelowMax => Live(writers) = touched)
  /\ \A k \in touched : Holds(Flushed(tmp[k], writers[k]), due[k], BelowMax)
  /\ \A k \in Key \ touched : due[k] = <<>>

(* A key less than before, or as many, is below the limit.                 *)
LEMMA BelowBefore ==
  ASSUME IsFiniteSet(touched), NEW key, touched' = touched \cup {key}
  PROVE  IsFiniteSet(touched') /\ (BelowMax' => BelowMax)
<1>1. /\ Cardinality(touched) \in Nat /\ Cardinality(touched') \in Nat /\ IsFiniteSet(touched')
      /\ Cardinality(touched) <= Cardinality(touched')
  <2>1. /\ IsFiniteSet(touched')
        /\ Cardinality(touched') = IF key \in touched THEN Cardinality(touched)
                                   ELSE Cardinality(touched) + 1
    BY FS_AddElement
  <2>2. Cardinality(touched) \in Nat
    BY FS_CardinalityType
  <2>. QED
    BY <2>1, <2>2
<1>. QED
  BY <1>1, LimitAssumption DEF BelowMax

LEMMA WriterIsNotAbsent ==
  ASSUME NEW gen \in Nat, NEW buffer \in Seq(Packet)
  PROVE  [last_access |-> gen + 1, buffer |-> buffer] # Absent
<1>1. [last_access |-> gen + 1, buffer |-> buffer] \in SW!WriterState
  BY DEF SW!WriterState
<1>. QED
  BY <1>1, StatesAssumption

LEMMA HandleKeyWritten ==
  ASSUME ChannelTypes, KeysInv, InStep, ~disk_fails, Written, HandleKey
  PROVE  Written'
<1>. DEFINE key == Head(todo)
<1>1. key \in Key /\ current \in Packet /\ Absent \notin Key
  BY KeyInHand, AbsentIsNoKey
<1>2. SW!WritePacketForKey(key, current)
  BY DEF HandleKey
<1>. HIDE DEF key
<1>3. /\ due' = [due EXCEPT ![key] = @ \o SW!Frames(current)]
      /\ touched' = touched \cup {key} /\ temp_paths' = temp_paths \cup {key}
      /\ final' = final
  BY <1>2 DEF SW!WritePacketForKey
<1>4. PICK victim \in Victims(writers, MaxSessions) : \E flushed, out :
        /\ Wrote(key, current, victim, flushed, out)
        /\ victim \in Key => flushed[victim] = tmp[victim] \o writers[victim].buffer
  BY <1>1, <1>2, WritesAKey DEF InStep
<1>5. PICK flushed, out :
        /\ Wrote(key, current, victim, flushed, out)
        /\ victim \in Key => flushed[victim] = tmp[victim] \o writers[victim].buffer
  BY <1>4
<1>6. /\ \A k \in Live(writers) : /\ writers[k] \in SW!WriterState
                                  /\ tmp[k] \in Seq(Packet)
                                  /\ writers[k].buffer \in Seq(Packet)
      /\ Stamped(writers)
  BY DEF InStep, InStepAt, Stamped, SW!WriterState
<1>7. victim \in Live(writers) \/ victim = Absent
  BY <1>6, VictimIsLive
<1>8. IsFiniteSet(touched') /\ (BelowMax' => BelowMax)
  BY <1>3, BelowBefore DEF Written
<1>9. BelowMax => victim = Absent
  BY NoVictimBelowLimit DEF Written, BelowMax
<1>10. /\ \A k \in Key \ {key} : /\ writers'[k] = IF k = victim THEN Absent ELSE writers[k]
                                 /\ tmp'[k] = flushed[k]
       /\ writers'[key] = [last_access |-> sw_gen + 1, buffer |-> out.buffer]
       /\ tmp'[key] = out.disk
  BY <1>1, <1>5 DEF Wrote, Without
<1>11. ASSUME NEW k \in touched \ {key}
       PROVE  Holds(Flushed(tmp'[k], writers'[k]), due'[k], BelowMax')
  <2>1. k \in Key /\ due'[k] = due[k] /\ Holds(Flushed(tmp[k], writers[k]), due[k], BelowMax)
    BY <1>3, <1>11 DEF Written
  <2>2. Flushed(tmp'[k], writers'[k]) = Flushed(tmp[k], writers[k])
    <3>1. CASE k = victim
      BY <1>5, <1>7, <1>10, <2>1, <3>1, AbsentIsNoKey DEF Flushed, Live
    <3>2. CASE k # victim
      BY <1>5, <1>10, <2>1, <3>2 DEF Flushed, Wrote
    <3>. QED
      BY <3>1, <3>2
  <2>. QED
    BY <1>8, <2>1, <2>2, HoldsLater
<1>12. ASSUME Without(writers, victim)[key] # Absent
       PROVE  Holds(Flushed(tmp'[key], writers'[key]), due'[key], BelowMax')
  <2>1. key \in Live(writers) /\ key \in touched
    BY <1>1, <1>12 DEF Without, Live, Written
  <2>. DEFINE before == [disk |-> tmp[key], buffer |-> writers[key].buffer]
  <2>2. out \in SW!Buffered(before, SW!Frames(current))
    BY <1>1, <1>5, <1>7, <1>12, <2>1 DEF Wrote, Without
  <2>3. before.disk = tmp[key] /\ before.buffer = writers[key].buffer
    OBVIOUS
  <2>. HIDE DEF before
  <2>4. before.disk \in Seq(Packet) /\ before.buffer \in Seq(Packet) /\ SW!Frames(current) \in Seq(Packet)
    BY <1>1, <1>6, <2>1, <2>3, FramesType
  <2>5. /\ out.disk \o out.buffer = (before.disk \o before.buffer) \o SW!Frames(current)
        /\ out.buffer \in Seq(Packet)
    BY <2>2, <2>4, BufferedKeepsFrames, Zenon
  <2>6. Flushed(tmp'[key], writers'[key]) = Flushed(tmp[key], writers[key]) \o SW!Frames(current)
    <3>1. Flushed(tmp[key], writers[key]) = tmp[key] \o writers[key].buffer
      BY <2>1 DEF Flushed, Live
    <3>2. Flushed(tmp'[key], writers'[key]) = out.disk \o out.buffer
      <4>1. sw_gen \in Nat
        BY DEF InStep
      <4>2. writers'[key] # Absent /\ writers'[key].buffer = out.buffer
        BY <1>10, <2>5, <4>1, WriterIsNotAbsent
      <4>. QED
        BY <1>10, <4>2 DEF Flushed
    <3>. QED
      BY <2>3, <2>5, <3>1, <3>2
  <2>7. Holds(Flushed(tmp[key], writers[key]), due[key], BelowMax)
    BY <2>1 DEF Written
  <2>8. due'[key] = due[key] \o SW!Frames(current)
    BY <1>1, <1>3 DEF Written
  <2>9. Holds(Flushed(tmp[key], writers[key]) \o SW!Frames(current),
              due[key] \o SW!Frames(current), BelowMax')
    BY <1>1, <1>8, <2>7, HoldsMore, Zenon
  <2>. QED
    BY <2>6, <2>8, <2>9, Zenon
<1>13. ASSUME Without(writers, victim)[key] = Absent
       PROVE  Holds(Flushed(tmp'[key], writers'[key]), due'[key], BelowMax')
  <2>. DEFINE before == [disk |-> <<>>, buffer |-> <<>>]
  <2>1. out \in SW!Buffered(before, SW!Frames(current))
    BY <1>1, <1>5, <1>13 DEF Wrote
  <2>2. before.disk = <<>> /\ before.buffer = <<>>
    OBVIOUS
  <2>. HIDE DEF before
  <2>3. before.disk \in Seq(Packet) /\ before.buffer \in Seq(Packet) /\ SW!Frames(current) \in Seq(Packet)
    BY <1>1, <2>2, PacketSeqs, FramesType
  <2>4. /\ out.disk \o out.buffer = (before.disk \o before.buffer) \o SW!Frames(current)
        /\ out.buffer \in Seq(Packet)
    BY <2>1, <2>3, BufferedKeepsFrames, Zenon
  <2>5. Flushed(tmp'[key], writers'[key]) = SW!Frames(current)
    <3>1. sw_gen \in Nat
      BY DEF InStep
    <3>2. writers'[key] # Absent /\ writers'[key].buffer = out.buffer
      BY <1>10, <2>4, <3>1, WriterIsNotAbsent
    <3>3. (<<>> \o <<>>) \o SW!Frames(current) = SW!Frames(current)
      BY <2>3, PacketSeqs, Zenon
    <3>. QED
      BY <1>10, <2>2, <2>4, <3>2, <3>3 DEF Flushed
  <2>6. BelowMax' => due[key] = <<>>
    <3>1. BelowMax => key \notin Live(writers)
      BY <1>1, <1>9, <1>13 DEF Without, Live
    <3>. QED
      BY <1>1, <1>8, <3>1 DEF Written
  <2>7. due[key] \in Seq(Packet)
    <3>1. key \in touched => Holds(Flushed(tmp[key], writers[key]), due[key], BelowMax)
      BY DEF Written
    <3>2. key \notin touched => due[key] = <<>>
      BY <1>1 DEF Written
    <3>. QED
      BY <3>1, <3>2, PacketSeqs, Zenon DEF Holds
  <2>8. due'[key] = due[key] \o SW!Frames(current)
    BY <1>1, <1>3 DEF Written
  <2>9. Holds(SW!Frames(current), due[key] \o SW!Frames(current), BelowMax')
    BY <1>1, <2>6, <2>7, HoldsFirst, Zenon
  <2>. QED
    BY <2>5, <2>8, <2>9, Zenon
<1>14. \A k \in touched' : Holds(Flushed(tmp'[k], writers'[k]), due'[k], BelowMax')
  BY <1>3, <1>11, <1>12, <1>13
<1>15. \A k \in Key \ touched' : due'[k] = <<>>
  BY <1>1, <1>3 DEF Written
<1>16. /\ Live(writers') \subseteq touched'
       /\ BelowMax' => Live(writers') = touched'
  <2>1. \A k \in Live(writers') : k \in Live(writers) \cup {key}
    BY <1>1, <1>10 DEF Live
  <2>2. BelowMax => \A k \in Live(writers) \ {key} : k \in Live(writers')
    BY <1>1, <1>9, <1>10 DEF Live
  <2>3. key \in Live(writers')
    <3>1. sw_gen \in Nat
      BY DEF InStep
    <3>2. out.buffer \in Seq(Packet)
      <4>1. \E file : /\ file.disk \in Seq(Packet) /\ file.buffer \in Seq(Packet)
                      /\ out \in SW!Buffered(file, SW!Frames(current))
        <5>1. CASE Without(writers, victim)[key] # Absent
          <6>1. key \in Live(writers)
            BY <1>1, <5>1 DEF Without, Live
          <6>. QED
            BY <1>1, <1>5, <1>6, <5>1, <6>1 DEF Wrote, Without
        <5>. QED
          BY <1>5, <5>1, PacketSeqs DEF Wrote
      <4>. QED
        BY <1>1, <4>1, FramesType, BufferedKeepsFrames
    <3>. QED
      BY <1>1, <1>10, <3>1, <3>2, WriterIsNotAbsent DEF Live
  <2>. QED
    BY <1>3, <1>8, <2>1, <2>2, <2>3 DEF Written
<1>17. /\ touched' \subseteq Key /\ temp_paths' = touched' /\ final' = SW!NoFile /\ DOMAIN due' = Key
  BY <1>1, <1>3 DEF Written
<1>18. (SW!NoFile)' = SW!NoFile
  BY DEF SW!NoFile
<1>. QED
  BY <1>8, <1>14, <1>15, <1>16, <1>17, <1>18 DEF Written

(* What close has made of a file. *)
Published(file, asked, below) ==
  IF file = Absent THEN L7Mode /\ (below => asked = <<>>)
  ELSE Holds(file, asked, below) /\ file # <<>>

(* While close renames, and after it: the files left, those it has seen to *)
(* and the keys that were never written under.                             *)
Renamed ==
  /\ touched \subseteq Key /\ IsFiniteSet(touched) /\ temp_paths \subseteq touched
  /\ DOMAIN tmp = Key /\ DOMAIN final = Key
  /\ \A k \in temp_paths : final[k] = Absent /\ Holds(tmp[k], due[k], BelowMax)
  /\ \A k \in touched \ temp_paths : Published(final[k], due[k], BelowMax)
  /\ \A k \in Key \ touched : final[k] = Absent /\ due[k] = <<>>

(* The files of a run whose disk works. *)
FilesInv ==
  /\ result = "ok" => phase = "closed" /\ received = capture
  /\ ~disk_fails => /\ phase = "open" => Written
                    /\ phase \in {"renaming", "closed"} => Renamed
                    /\ phase = "closed" => temp_paths = {}

LEMMA FlushRenames ==
  ASSUME Written, DOMAIN tmp = Key, SW!CloseFlush
  PROVE  Renamed'
<1>1. /\ tmp' = [k \in Key |-> Flushed(tmp[k], writers[k])]
      /\ UNCHANGED <<temp_paths, final, due, touched>>
  BY DEF SW!CloseFlush, Flushed
<1>2. \A k \in touched : Holds(tmp'[k], due[k], BelowMax) /\ k \in Key
  BY <1>1 DEF Written
<1>3. BelowMax' = BelowMax /\ DOMAIN final = Key /\ \A k \in Key : final[k] = Absent
  BY <1>1 DEF BelowMax, Written, SW!NoFile
<1>. QED
  BY <1>1, <1>2, <1>3 DEF Renamed, Written

LEMMA CloseStepRenames ==
  ASSUME Renamed, SW!CloseStep, phase = "renaming"
  PROVE  Renamed' /\ (phase' = "closed" => temp_paths' = {}) /\ phase' \in {"renaming", "closed"}
<1>1. CASE SW!CloseDone
  BY <1>1 DEF SW!CloseDone, Renamed, BelowMax
<1>2. ASSUME NEW key \in Key, SW!DiscardNext(key)
      PROVE  Renamed' /\ phase' = "renaming"
  <2>1. /\ key \in temp_paths /\ L7Mode /\ tmp[key] = <<>>
        /\ tmp' = [tmp EXCEPT ![key] = Absent]
        /\ temp_paths' = temp_paths \ {key}
        /\ UNCHANGED <<final, phase, due, touched>>
    BY <1>2 DEF SW!DiscardNext
  <2>2. BelowMax' = BelowMax
    BY <2>1 DEF BelowMax
  <2>3. final[key] = Absent /\ Holds(tmp[key], due[key], BelowMax)
    BY <2>1 DEF Renamed
  <2>4. Published(final[key], due[key], BelowMax)
    BY <2>1, <2>3, Zenon DEF Published, Holds
  <2>. QED
    BY <2>1, <2>2, <2>4 DEF Renamed
<1>3. ASSUME NEW key \in Key, SW!RenameNext(key)
      PROVE  Renamed' /\ phase' = "renaming"
  <2>1. /\ key \in temp_paths /\ ~(L7Mode /\ tmp[key] = <<>>)
        /\ final' = [final EXCEPT ![key] = tmp[key]]
        /\ tmp' = [tmp EXCEPT ![key] = Absent]
        /\ temp_paths' = temp_paths \ {key}
        /\ UNCHANGED <<phase, due, touched>>
    BY <1>3 DEF SW!RenameNext
  <2>2. BelowMax' = BelowMax
    BY <2>1 DEF BelowMax
  <2>3. Holds(tmp[key], due[key], BelowMax)
    BY <2>1 DEF Renamed
  <2>4. tmp[key] # Absent /\ tmp[key] # <<>>
    BY <2>1, <2>3, AbsentIsNoKey, Zenon DEF Holds
  <2>5. Published(tmp[key], due[key], BelowMax)
    BY <2>3, <2>4, Zenon DEF Published
  <2>. QED
    BY <1>3, <2>1, <2>2, <2>5 DEF Renamed
<1>. QED
  BY <1>1, <1>2, <1>3 DEF SW!CloseStep, SW!SkipNext, SW!RenameFails

LEMMA NextFilesInv ==
  ChannelInv /\ WholeInv /\ KeysInv /\ InStepInv /\ CallsInv /\ FilesInv /\ [Next]_vars => FilesInv'
<1>. SUFFICES ASSUME ChannelInv, WholeInv, KeysInv, InStepInv, CallsInv, FilesInv, [Next]_vars
              PROVE  FilesInv'
  OBVIOUS
<1>1. ASSUME UNCHANGED swVars, UNCHANGED disk_fails,
             result' = "ok" => phase = "closed" /\ received' = capture'
      PROVE  FilesInv'
  <2>1. (Written => Written') /\ (Renamed => Renamed')
    BY <1>1 DEF swVars, Written, Renamed, BelowMax
  <2>. QED
    BY <1>1, <2>1 DEF swVars, FilesInv
<1>2. CASE Producer
  BY <1>1, <1>2 DEF Producer, Parse, ParseEnds, Send, SendFails, input, consVars, FilesInv
<1>3. CASE Receive
  BY <1>1, <1>3 DEF Receive, input, FilesInv, CallsInv
<1>4. CASE HandleKey
  <2>1. /\ phase = "open" /\ phase' = "open" /\ result' # "ok" /\ disk_fails' = disk_fails
    BY <1>4 DEF HandleKey, SW!WritePacketForKey, FailingSW!WritePacketForKey, input, CallsInv
  <2>2. ~disk_fails => Written'
    BY <1>4, <2>1, HandleKeyWritten DEF ChannelInv, InStepInv, FilesInv
  <2>. QED
    BY <2>1, <2>2 DEF FilesInv
<1>5. CASE HandleKeyFails
  BY <1>5 DEF HandleKeyFails, FailingSW!WriteFails, input, FilesInv
<1>6. CASE ConsumerPanics \/ StreamEnds \/ Join \/ Exit
  BY <1>1, <1>6 DEF ConsumerPanics, StreamEnds, Join, Exit, input, FilesInv, CallsInv
<1>7. CASE Close
  <2>1. cons = "closing" /\ UNCHANGED <<disk_fails, result>> /\ result # "ok"
    BY <1>7 DEF Close, input, consVars, CallsInv
  <2>2. CASE disk_fails
    BY <2>1, <2>2 DEF FilesInv
  <2>3. CASE SW!CloseFlush /\ ~disk_fails
    <3>1. phase = "open" /\ phase' = "renaming"
      BY <2>3 DEF SW!CloseFlush
    <3>2. Written /\ DOMAIN tmp = Key
      BY <2>3, <3>1 DEF FilesInv, InStepInv, InStep
    <3>. QED
      BY <2>1, <2>3, <3>1, <3>2, FlushRenames DEF FilesInv
  <2>4. CASE SW!CloseStep /\ ~disk_fails
    <3>1. phase = "renaming"
      BY <2>4 DEF SW!CloseStep, SW!DiscardNext, SW!SkipNext, SW!RenameNext, SW!RenameFails, SW!CloseDone
    <3>2. Renamed
      BY <2>4, <3>1 DEF FilesInv
    <3>3. Renamed' /\ (phase' = "closed" => temp_paths' = {}) /\ phase' \in {"renaming", "closed"}
      BY <2>4, <3>1, <3>2, CloseStepRenames
    <3>. QED
      BY <2>1, <3>3 DEF FilesInv
  <2>. QED
    BY <1>7, <2>2, <2>3, <2>4 DEF Close
<1>8. CASE CloseReturns
  BY <1>1, <1>8 DEF CloseReturns, input, WholeInv
<1>9. CASE DropWriter
  <2>1. phase' = "abandoned" /\ result' = result /\ cons = "dropping"
    BY <1>9 DEF DropWriter, SW!Abandon, FailingSW!Abandon
  <2>. QED
    BY <2>1 DEF FilesInv, CallsInv
<1>10. CASE Terminated \/ UNCHANGED vars
  BY <1>1, <1>10 DEF Terminated, vars, input, consVars, FilesInv
<1>. QED
  BY <1>2, <1>3, <1>4, <1>5, <1>6, <1>7, <1>8, <1>9, <1>10 DEF Next, Consumer

(* The files of a run that reported success. *)
LEMMA FilesOfASuccess ==
  ASSUME CallsInv, FilesInv
  PROVE  SuccessMeansFiles
<1>. SUFFICES ASSUME result = "ok", ~disk_fails, NEW key \in Key
              PROVE  IF final[key] = Absent
                     THEN Expected(key) = <<>> \/ (L7Mode /\ Cardinality(GroupsInCapture) >= MaxSessions)
                     ELSE /\ final[key] \in Suffixes(Expected(key)) \ {<<>>}
                          /\ Cardinality(GroupsInCapture) < MaxSessions => final[key] = Expected(key)
  BY DEF SuccessMeansFiles
<1>1. received = capture /\ Renamed /\ temp_paths = {} /\ cons # "writing" /\ Sound
  BY DEF FilesInv, CallsInv, Sound
<1>2. PICK calls : CallsSoFar(calls)
  BY <1>1 DEF CallsInv
<1>3. Writes(capture) = calls /\ touched = GroupsOf(calls) /\ due[key] = FramesUnder(key, calls)
  BY <1>1, <1>2 DEF CallsSoFar
<1>4. due[key] = Expected(key) /\ touched = GroupsInCapture
  BY <1>3 DEF Expected, GroupsInCapture
<1>5. CASE key \in touched
  <2>1. Published(final[key], due[key], BelowMax)
    BY <1>1, <1>5 DEF Renamed
  <2>2. Cardinality(touched) \in Nat
    BY <1>1, FS_CardinalityType DEF Renamed
  <2>3. ~(Cardinality(touched) < MaxSessions) => Cardinality(touched) >= MaxSessions
    BY <2>2, LimitAssumption
  <2>4. CASE final[key] = Absent
    BY <1>4, <2>1, <2>3, <2>4 DEF Published, BelowMax
  <2>5. CASE final[key] # Absent
    BY <1>4, <2>1, <2>5, Zenon DEF Published, Holds, BelowMax
  <2>. QED
    BY <2>4, <2>5
<1>6. CASE key \notin touched
  BY <1>1, <1>4, <1>6 DEF Renamed
<1>. QED
  BY <1>5, <1>6

(* A run that reports success on a disk that works has a file for each     *)
(* group with something to write, that holds an unbroken tail of the       *)
(* group's packets, or all of them if the groups are below the limit.      *)
THEOREM SuccessMeansFilesAlways == Spec => []SuccessMeansFiles
<1>1. Init => FilesInv
  <2>. SUFFICES ASSUME Init
                PROVE  FilesInv
    OBVIOUS
  <2>1. /\ result = "none" /\ phase = "open" /\ touched = {} /\ temp_paths = {}
        /\ final = SW!NoFile /\ due = [k \in Key |-> <<>>] /\ writers = SW!NoFile
    BY DEF Init, SW!Init
  <2>2. Live(writers) = {} /\ IsFiniteSet({})
    BY <2>1, FS_EmptySet DEF SW!NoFile, Live
  <2>. QED
    BY <2>1, <2>2 DEF FilesInv, Written
<1>. QED
  BY <1>1, InitChannelInv, NextChannelInv, InitWholeInv, NextWholeInv, InitKeysInv, NextKeysInv, InitInStepInv,
     NextInStepInv, InitCallsInv, NextCallsInv, NextFilesInv, FilesOfASuccess,
     SplitPipelineTypeOK, PTL DEF Spec
=============================================================================

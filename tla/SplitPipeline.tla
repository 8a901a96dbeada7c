---------------------------- MODULE SplitPipeline ----------------------------
(***************************************************************************)
(* run_split_pipelined of main.rs for one input: a producer thread parses  *)
(* the capture into a bounded channel; the main thread filters and         *)
(* classifies the packets, keeps them in a FlowManager, writes them with a *)
(* SplitWriter, joins the producer and closes the writer.                  *)
(*                                                                         *)
(* A packet is a number that stands for its contents; what the reader      *)
(* yields is a sequence of them, then an end (see Tails).  The cleaning of *)
(* the output directory (-d) before the run is left to its caller.         *)
(***************************************************************************)
EXTENDS LruTable, Sequences, SequencesExt

CONSTANTS
  Packet,         \* the packets
  Captures,       \* the sequences of packets a capture may hold
  KeysOf(_, _),   \* group_keys of a packet at an index of passing packets
  Passes(_),      \* Filter::matches
  HasL7(_),       \* the packet has at least one byte of L7 payload
  Panics(_),      \* classifying or writing the packet panics
  L7Mode,         \* -y L7
  MaxSessions,    \* -p, for the flow table and for the writers
  ChannelCap,     \* depth of the channel (4096)
  Disks           \* whether the disk may fail: the possibilities, of which a
                  \* run has one

ASSUME CapturesAssumption == Captures \subseteq Seq(Packet) /\ Absent \notin Packet
ASSUME LimitAssumption == MaxSessions \in Nat
ASSUME AbsentIsNoKey == Absent \notin Key \cup Seq(Packet)

(* A packet that is classified without a panic has at least one group: the *)
(* packets before it, of which it may be any number that passes, decide    *)
(* its index.                                                              *)
ASSUME KeysAssumption ==
  \A packets \in Captures : \A i \in DOMAIN packets : \A index \in 0..(i - 1) :
    Passes(packets[i]) /\ ~Panics(packets[i]) =>
      KeysOf(packets[i], index) \in Seq(Key) \ {<<>>}

(* What ends the packets: the end of the file, a ParseError, a panic.      *)
Tails == {"eof", "error", "panic"}

VARIABLES
  capture, tail,              \* the input
  disk_fails,                 \* the disk of this run: whether its calls may fail
  pos, held, prod,            \* producer: packets read, packet in hand, state
  chan, rx_open,              \* the channel, and whether rx is still held
  cons, current, todo, idx,   \* consumer: state, packet, its keys left, global_pkt_idx
  result,                     \* what run_split_pipelined returned
  received,                   \* history: the packets taken off the channel
  flows, next_flow_id, fm_gen, given, last_use,                  \* FlowManager
  writers, temp_paths, sw_gen, tmp, final, phase, due, touched   \* SplitWriter

FM == INSTANCE FlowManager WITH lru_gen <- fm_gen

(* The writer on a disk that works, and on one that may fail. *)
SW == INSTANCE SplitWriter WITH lru_gen <- sw_gen, clock <- sw_gen, runs <- 1,
        MaxWriters <- MaxSessions, MaxRuns <- 1, DiskMayFail <- FALSE

FailingSW == INSTANCE SplitWriter WITH lru_gen <- sw_gen, clock <- sw_gen, runs <- 1,
        MaxWriters <- MaxSessions, MaxRuns <- 1, DiskMayFail <- TRUE

ASSUME StatesAssumption == Absent \notin FM!FlowState \cup SW!WriterState

input    == <<capture, tail, disk_fails>>
prodVars == <<pos, held, prod>>
consVars == <<cons, current, todo, idx, result, received>>
fmVars   == <<flows, next_flow_id, fm_gen, given, last_use>>
swVars   == <<writers, temp_paths, sw_gen, tmp, final, phase, due, touched>>
vars     == <<input, prodVars, chan, rx_open, consVars, fmVars, swVars>>

Init ==
  /\ capture \in Captures /\ tail \in Tails /\ disk_fails \in Disks
  /\ pos = 0 /\ held = Absent /\ prod = "parsing"
  /\ chan = <<>> /\ rx_open = TRUE
  /\ cons = "receiving" /\ current = Absent /\ todo = <<>> /\ idx = 0
  /\ result = "none" /\ received = <<>>
  /\ FM!Init
  /\ SW!Init

ProducerDone == prod \in {"ok", "err", "panicked"}
-----------------------------------------------------------------------------
(* The producer thread: reader.next_packet gives a packet. *)
Parse ==
  /\ prod = "parsing" /\ pos < Len(capture)
  /\ pos' = pos + 1
  /\ held' = capture[pos + 1]
  /\ prod' = "sending"
  /\ UNCHANGED <<input, chan, rx_open, consVars, fmVars, swVars>>

(* next_packet returns None, returns an error (the `?'), or panics.  The   *)
(* closure ends and tx is dropped.                                         *)
ParseEnds ==
  /\ prod = "parsing" /\ pos = Len(capture)
  /\ prod' = CASE tail = "eof" -> "ok" [] tail = "error" -> "err" [] OTHER -> "panicked"
  /\ UNCHANGED <<input, pos, held, chan, rx_open, consVars, fmVars, swVars>>

(* Mutant: a channel of one slot, overwritten. *)
SendOverwriting ==
  /\ prod = "sending" /\ rx_open /\ Len(chan) < ChannelCap
  /\ chan' = <<held>>
  /\ held' = Absent
  /\ prod' = "parsing"
  /\ UNCHANGED <<input, pos, rx_open, consVars, fmVars, swVars>>

(* send waits while the channel is full. *)
Send ==
  /\ prod = "sending" /\ rx_open /\ Len(chan) < ChannelCap
  /\ chan' = Append(chan, held)
  /\ held' = Absent
  /\ prod' = "parsing"
  /\ UNCHANGED <<input, pos, rx_open, consVars, fmVars, swVars>>

(* send fails once the receiver is gone: the loop breaks and returns Ok.   *)
SendFails ==
  /\ prod = "sending" /\ ~rx_open
  /\ held' = Absent
  /\ prod' = "ok"
  /\ UNCHANGED <<input, pos, chan, rx_open, consVars, fmVars, swVars>>

Producer == cons # "exited" /\ (Parse \/ ParseEnds \/ Send \/ SendFails)
-----------------------------------------------------------------------------
(* The main thread: one packet off the channel, filtered, then classified. *)
(* Only a packet that passes the filter advances global_pkt_idx.           *)
Receive ==
  /\ cons = "receiving" /\ chan # <<>>
  /\ chan' = Tail(chan)
  /\ received' = Append(received, Head(chan))
  /\ \/ ~Passes(Head(chan)) /\ UNCHANGED <<cons, current, todo, idx>>
     \/ /\ Passes(Head(chan))
        /\ cons' = "writing"
        /\ current' = Head(chan)
        /\ todo' = KeysOf(Head(chan), idx)
        /\ idx' = idx + 1
  /\ UNCHANGED <<input, prodVars, rx_open, result, fmVars, swVars>>

(* One key of the packet in hand: add_packet, then write_packet_for_key.   *)
HandleKey ==
  /\ cons = "writing" /\ ~Panics(current)
  /\ FM!AddPacket(Head(todo), current)
  /\ \/ ~disk_fails /\ SW!WritePacketForKey(Head(todo), current)
     \/ disk_fails /\ FailingSW!WritePacketForKey(Head(todo), current)
  /\ todo' = Tail(todo)
  /\ \/ Len(todo) > 1 /\ UNCHANGED <<cons, current>>
     \/ Len(todo) = 1 /\ cons' = "receiving" /\ current' = Absent
  /\ UNCHANGED <<input, prodVars, chan, rx_open, idx, result, received>>

(* The write fails and `?' leaves the function: rx is dropped first, then  *)
(* the writer (DropWriter).                                                *)
HandleKeyFails ==
  /\ cons = "writing" /\ ~Panics(current) /\ disk_fails
  /\ FM!AddPacket(Head(todo), current)
  /\ FailingSW!WriteFails(Head(todo))
  /\ rx_open' = FALSE
  /\ cons' = "dropping"
  /\ result' = "error"
  /\ UNCHANGED <<input, prodVars, chan, current, todo, idx, received>>

(* classify, or write_packet_for_key, panics on the packet and unwinds.    *)
(* The flow it was added to and the temporary file opened for it are left  *)
(* out: nothing reads either of them again.                                *)
ConsumerPanics ==
  /\ cons = "writing" /\ Panics(current)
  /\ rx_open' = FALSE
  /\ cons' = "dropping"
  /\ result' = "error"
  /\ UNCHANGED <<input, prodVars, chan, current, todo, idx, received, fmVars, swVars>>

(* The channel is empty and tx is gone: the loop over rx ends.             *)
StreamEnds ==
  /\ cons = "receiving" /\ chan = <<>> /\ ProducerDone
  /\ rx_open' = FALSE
  /\ cons' = "joining"
  /\ UNCHANGED <<input, prodVars, chan, current, todo, idx, result, received, fmVars, swVars>>

(* Mutants: the thread's result is ignored, or listened for again. *)
JoinIgnoringResult ==
  /\ cons = "joining"
  /\ cons' = "closing"
  /\ UNCHANGED <<input, prodVars, chan, rx_open, current, todo, idx, result, received, fmVars, swVars>>

JoinListeningAgain ==
  /\ cons = "joining"
  /\ cons' = IF prod = "ok" THEN "closing" ELSE "receiving"
  /\ UNCHANGED <<input, prodVars, chan, rx_open, current, todo, idx, result, received, fmVars, swVars>>

(* join: an error or a panic of the producer is returned before close.     *)
Join ==
  /\ cons = "joining"
  /\ \/ prod = "ok" /\ cons' = "closing" /\ UNCHANGED result
     \/ prod # "ok" /\ cons' = "dropping" /\ result' = "error"
  /\ UNCHANGED <<input, prodVars, chan, rx_open, current, todo, idx, received, fmVars, swVars>>

Close ==
  /\ cons = "closing"
  /\ \/ SW!CloseFlush
     \/ ~disk_fails /\ SW!CloseStep
     \/ disk_fails /\ (FailingSW!CloseFlushFails \/ FailingSW!CloseStep)
  /\ UNCHANGED <<input, prodVars, chan, rx_open, consVars, fmVars>>

CloseReturns ==
  /\ cons = "closing"
  /\ \/ phase = "closed" /\ cons' = "returned" /\ result' = "ok"
     \/ phase = "failed" /\ cons' = "dropping" /\ result' = "error"
  /\ UNCHANGED <<input, prodVars, chan, rx_open, current, todo, idx, received, fmVars, swVars>>

DropWriter ==
  /\ cons = "dropping"
  /\ \/ ~disk_fails /\ SW!Abandon
     \/ disk_fails /\ FailingSW!Abandon
  /\ cons' = "returned"
  /\ UNCHANGED <<input, prodVars, chan, rx_open, current, todo, idx, result, received, fmVars>>

(* main returns and the process ends, whatever the producer is doing.      *)
Exit ==
  /\ cons = "returned"
  /\ cons' = "exited"
  /\ UNCHANGED <<input, prodVars, chan, rx_open, current, todo, idx, result, received, fmVars, swVars>>

Consumer ==
  \/ Receive \/ HandleKey \/ HandleKeyFails \/ ConsumerPanics \/ StreamEnds
  \/ Join \/ Close \/ CloseReturns \/ DropWriter \/ Exit

Terminated == cons = "exited" /\ UNCHANGED vars

Next == Producer \/ Consumer \/ Terminated

Spec == Init /\ [][Next]_vars

(* The operating system runs both threads.                                 *)
FairSpec == Spec /\ WF_vars(Producer) /\ WF_vars(Consumer)
-----------------------------------------------------------------------------
(* What the capture says the files must hold.  The packets that pass the   *)
(* filter, in order, are classified, and written under each of their keys. *)
Passing(packets) ==
  FlattenSeq([i \in DOMAIN packets |->
    IF Passes(packets[i]) THEN <<packets[i]>> ELSE <<>>])

KeysWith(keys, pkt) == [j \in DOMAIN keys |-> <<keys[j], pkt>>]

Writes(packets) ==
  FlattenSeq([i \in DOMAIN Passing(packets) |->
    KeysWith(KeysOf(Passing(packets)[i], i - 1), Passing(packets)[i])])

FramesUnder(key, writes) ==
  FlattenSeq([i \in DOMAIN writes |->
    IF writes[i][1] = key THEN SW!Frames(writes[i][2]) ELSE <<>>])

Expected(key) == FramesUnder(key, Writes(capture))

GroupsOf(writes) == {writes[i][1] : i \in DOMAIN writes}

GroupsInCapture == GroupsOf(Writes(capture))

(* The types of the variables of the two threads and of their channel;     *)
(* those of the table and the writers are in their own modules, and todo   *)
(* has the keys that KeysOf gives.                                         *)
TypeOK ==
  /\ capture \in Captures /\ tail \in Tails /\ disk_fails \in Disks
  /\ pos \in 0..Len(capture)
  /\ held \in Packet \cup {Absent}
  /\ prod \in {"parsing", "sending", "ok", "err", "panicked"}
  /\ chan \in Seq(Packet) /\ received \in Seq(Packet)
  /\ rx_open \in BOOLEAN
  /\ cons \in {"receiving", "writing", "joining", "closing", "dropping", "returned", "exited"}
  /\ current \in Packet \cup {Absent}
  /\ idx \in Nat
  /\ result \in {"none", "ok", "error"}

InHand == IF held = Absent THEN <<>> ELSE <<held>>

(* The channel loses, repeats and reorders nothing: while the consumer     *)
(* listens, what it took, what is queued and what the producer has in hand *)
(* make up what was parsed; and it never takes anything else.              *)
ChannelIsFaithful ==
  /\ IsPrefix(received, capture)
  /\ rx_open => received \o chan \o InHand = SubSeq(capture, 1, pos)

(* Nothing is published before the whole capture was parsed without error  *)
(* and every packet of it was received and written without a panic: an     *)
(* error that comes late is not overtaken by the rename, and a capture     *)
(* that fails anywhere leaves no final file.                               *)
PublishesOnlyWholeCaptures ==
  [][final' # final =>
       /\ prod = "ok" /\ tail = "eof"
       /\ chan = <<>> /\ received = capture
       /\ \A i \in DOMAIN capture : Passes(capture[i]) => ~Panics(capture[i])]_vars

(* End to end: a run that reports success on a disk that works has a file  *)
(* for each group with something to write and no other, and the file holds *)
(* an unbroken tail of the group's packets, in capture order; all of them  *)
(* if the capture has fewer groups than max_sessions.                      *)
SuccessMeansFiles ==
  result = "ok" /\ ~disk_fails =>
    \A key \in Key :
      IF final[key] = Absent
      THEN Expected(key) = <<>> \/ (L7Mode /\ Cardinality(GroupsInCapture) >= MaxSessions)
      ELSE /\ final[key] \in Suffixes(Expected(key)) \ {<<>>}
           /\ Cardinality(GroupsInCapture) < MaxSessions => final[key] = Expected(key)

(* The flow table and the writers run the same LRU over the same keys: a   *)
(* group has a flow in memory exactly when it has an open writer, and the  *)
(* flow's packets are what the file holds.                                 *)
TableAndWritersInStep ==
  phase = "open" =>
    /\ FM!Live(flows) = SW!Live(writers)
    /\ \A key \in SW!Live(writers) :
         /\ flows[key].last_access = writers[key].last_access
         /\ SW!Content(key) =
              FlattenSeq([i \in DOMAIN flows[key].packets |-> SW!Frames(flows[key].packets[i])])

(* However parser and consumer interleave, fail or stop, the run ends.     *)
Terminates == <>(cons = "exited")

(* README.md:109, the host strategy: "packets go to both src & dst files". *)
(* So after a successful run every passing packet is in the file of each   *)
(* of its groups.                                                          *)
PacketsGoToTheirFiles ==
  result = "ok" /\ ~disk_fails =>
    \A key \in Key : Expected(key) # <<>> => final[key] = Expected(key)
=============================================================================

---------------------------- MODULE PcapngReader ----------------------------
(***************************************************************************)
(* Reading a PCAP-NG file (parser/pcapng.rs): `new' reads the blocks up to *)
(* the first packet and gathers the interfaces they describe, next_packet  *)
(* reads one packet block at a time and skips every other block.           *)
(*                                                                         *)
(* A file is a sequence of little-endian blocks of aligned lengths; the    *)
(* last one may be cut off.  A block that is too short for its type, or    *)
(* holds an unknown byte order, is `bad'.                                  *)
(* Left out: files with sections of the other byte order, whose lengths    *)
(* are misread, and, when the file is cut before its first packet block,   *)
(* the packets that parse_blocks may make of the rest of the cut block,    *)
(* into which it leaves pos.                                               *)
(***************************************************************************)
EXTENDS Integers, Sequences, FiniteSets, SequencesExt

CONSTANTS
  Absent,      \* Rust's None
  Blocks,      \* the blocks a file may have after its first
  MaxBlocks,   \* bound: blocks in a file
  Million      \* microseconds in a second; a smaller power of ten in runs

VARIABLES
  blocks,      \* the file
  cut,         \* whether its last block is cut off
  next,        \* the block at pos
  interfaces,  \* the interface table
  reader,      \* "opening", "reading"; then "eof", "error" or "panicked"
  packets      \* history: the packets returned, each with its block

vars == <<blocks, cut, next, interfaces, reader, packets>>

PD == INSTANCE PacketDissect

SHB == [is |-> "SHB", bad |-> FALSE]

Ethernet == 1

IsPacket(block) == block.is \in {"EPB", "SPB"}

Init ==
  /\ blocks \in UNION {{<<SHB>> \o bs : bs \in [1..n -> Blocks]} : n \in 0..MaxBlocks - 1}
  /\ cut \in BOOLEAN
  /\ next = 1
  /\ interfaces = <<>>
  /\ reader = "opening"
  /\ packets = <<>>

(* No complete block is left: the file ends, or the length of the block at *)
(* pos leads beyond its end.                                               *)
AtEnd == next > Len(blocks) \/ (cut /\ next = Len(blocks))

Block == blocks[next]

(* parse_idb: ticks per second.  The default also stands for the powers of *)
(* two (the high bit); 10^n wraps to 0 (mod 2^64) from n = 64 on, and to   *)
(* other numbers for n in 20..63, which are not among the runs' blocks.    *)
Resolution(tsresol) ==
  CASE tsresol = Absent \/ tsresol >= 128 -> Million
    [] tsresol \in 64..127 -> 0
    [] OTHER -> 10 ^ tsresol

(* parse_blocks, called by `new': one block before the first packet.       *)
ParseBlock ==
  /\ reader = "opening" /\ ~AtEnd /\ ~IsPacket(Block)
  /\ \/ /\ Block.is = "IDB" /\ ~Block.bad
        /\ interfaces' = Append(interfaces,
             [link_type |-> Block.link_type, ts_resolution |-> Resolution(Block.tsresol)])
        /\ next' = next + 1
        /\ UNCHANGED reader
     \/ /\ Block.is \in {"SHB", "IDB"} /\ Block.bad
        /\ reader' = "error"
        /\ UNCHANGED <<next, interfaces>>
     \/ /\ Block.is # "IDB" /\ ~Block.bad
        /\ next' = next + 1
        /\ UNCHANGED <<interfaces, reader>>
  /\ UNCHANGED <<blocks, cut, packets>>

(* The first packet block, or the end: the reader is ready.                *)
Opened ==
  /\ reader = "opening"
  /\ ~AtEnd => IsPacket(Block)
  /\ reader' = "reading"
  /\ UNCHANGED <<blocks, cut, next, interfaces, packets>>

(* Mutant: interface ids count from 1. *)
InterfaceFromOne(id) ==
  IF id \in DOMAIN interfaces THEN interfaces[id]
  ELSE [link_type |-> Ethernet, ts_resolution |-> Million]

(* interfaces.get(iface_id), ids counting from 0; Ethernet and             *)
(* microseconds for an interface that is not in the table.                 *)
Interface(id) ==
  IF id + 1 \in DOMAIN interfaces THEN interfaces[id + 1]
  ELSE [link_type |-> Ethernet, ts_resolution |-> Million]

(* The time of a packet, in seconds and microseconds. *)
Time(ts, resolution) ==
  <<ts \div resolution,
    IF resolution >= Million THEN (ts % resolution) \div (resolution \div Million)
    ELSE ((ts % resolution) * Million) \div resolution>>

PacketOf(time, link_type, data) ==
  [block |-> next, time |-> time, frame |-> PD!FromPcapRecord(link_type, data)]

(* read_next_epb: an enhanced packet block. *)
ReadEpb ==
  /\ reader = "reading" /\ ~AtEnd /\ Block.is = "EPB" /\ ~Block.bad
  /\ \/ /\ Interface(Block.iface).ts_resolution # 0
        /\ next' = next + 1
        /\ packets' = Append(packets,
             PacketOf(Time(Block.ts, Interface(Block.iface).ts_resolution),
                      Interface(Block.iface).link_type, Block.data))
        /\ UNCHANGED reader
     \/ /\ Interface(Block.iface).ts_resolution = 0
        /\ reader' = "panicked"
        /\ UNCHANGED <<next, packets>>
  /\ UNCHANGED <<blocks, cut, interfaces>>

(* A simple packet block, data and padding, of no time and Ethernet; one   *)
(* without data is taken for the end.                                      *)
ReadSpb ==
  /\ reader = "reading" /\ ~AtEnd /\ Block.is = "SPB" /\ ~Block.bad
  /\ next' = next + 1
  /\ \/ /\ Block.data # <<>>
        /\ packets' = Append(packets, PacketOf(<<0, 0>>, Ethernet, Block.data))
        /\ UNCHANGED reader
     \/ Block.data = <<>> /\ reader' = "eof" /\ UNCHANGED packets
  /\ UNCHANGED <<blocks, cut, interfaces>>

ReadBad ==
  /\ reader = "reading" /\ ~AtEnd /\ IsPacket(Block) /\ Block.bad
  /\ reader' = "error"
  /\ UNCHANGED <<blocks, cut, next, interfaces, packets>>

(* Mutant: the block after a skipped one is skipped too. *)
SkipTwoBlocks ==
  /\ reader = "reading" /\ ~AtEnd /\ ~IsPacket(Block)
  /\ next' = IF next < Len(blocks) THEN next + 2 ELSE next + 1
  /\ UNCHANGED <<blocks, cut, interfaces, reader, packets>>

(* Every other block is skipped, interface descriptions and section        *)
(* headers too, and the next one is read in the same call.                 *)
SkipBlock ==
  /\ reader = "reading" /\ ~AtEnd /\ ~IsPacket(Block)
  /\ next' = next + 1
  /\ UNCHANGED <<blocks, cut, interfaces, reader, packets>>

ReadNone ==
  /\ reader = "reading" /\ AtEnd
  /\ reader' = "eof"
  /\ UNCHANGED <<blocks, cut, next, interfaces, packets>>

Stopped == reader \in {"eof", "error", "panicked"} /\ UNCHANGED vars

Next ==
  \/ ParseBlock \/ Opened
  \/ ReadEpb \/ ReadSpb \/ ReadBad \/ SkipBlock \/ ReadNone
  \/ Stopped

Spec == Init /\ [][Next]_vars
-----------------------------------------------------------------------------
IsData(block) == block.is = "EPB" \/ (block.is = "SPB" /\ block.data # <<>>)

(* No packet is lost, repeated or reordered, whatever lies between the     *)
(* packet blocks: those returned are the packet blocks passed so far, and  *)
(* the reading ends without an error only at the end of the file or after  *)
(* a simple packet block without data.                                     *)
FollowTheBlocks ==
  /\ \A i, j \in DOMAIN packets : i < j => packets[i].block < packets[j].block
  /\ {packets[i].block : i \in DOMAIN packets} = {b \in 1..next - 1 : IsData(blocks[b])}
  /\ reader = "eof" => AtEnd \/ (blocks[next - 1].is = "SPB" /\ blocks[next - 1].data = <<>>)

IdbsBefore(b) == {d \in 1..b - 1 : blocks[d].is = "IDB"}

Described(id, b) == {d \in IdbsBefore(b) : Cardinality(IdbsBefore(d)) = id}

FirstPacketBlock ==
  CHOOSE b \in DOMAIN blocks :
    IsPacket(blocks[b]) /\ \A c \in 1..b - 1 : ~IsPacket(blocks[c])

(* The time and the fields of the packet in block b according to the       *)
(* description in block d; powers of two and wrapped ones are not counted. *)
AsDescribed(packet, b, d) ==
  /\ packet.frame = PD!FromPcapRecord(blocks[d].link_type, blocks[b].data)
  /\ blocks[d].tsresol \in 0..19 =>
       packet.time[1] * Million + packet.time[2] =
         (blocks[b].ts * Million) \div (10 ^ blocks[d].tsresol)

(* A packet is read with the link type and resolution of its own interface *)
(* when that is described before the first packet: the interface_id-th     *)
(* description of the file.                                                *)
LeadingInterfaces ==
  \A i \in DOMAIN packets :
    LET b == packets[i].block
    IN blocks[b].is = "EPB" =>
         \A d \in Described(blocks[b].iface, FirstPacketBlock) : AsDescribed(packets[i], b, d)
=============================================================================

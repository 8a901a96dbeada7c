-------------------------- MODULE SplitWriterProofs --------------------------
(***************************************************************************)
(* Theorems about SplitWriter, for every set of keys, limit, sequence of   *)
(* packets, output mode and pattern of disk failures: the open writers,    *)
(* the refinement of SplitPromise, what a temporary file holds, what a     *)
(* final file becomes, and what a run that closed has published.           *)
(***************************************************************************)
EXTENDS SplitWriter, SequenceFacts

(* The scan for the lowest generation finds an entry whenever there is one. *)
LEMMA LeastRecentExists ==
  ASSUME NEW table, Stamped(table), Live(table) # {}
  PROVE  LeastRecent(table) # {}
<1>. DEFINE stamp == [k \in Live(table) |-> table[k].last_access]
<1>1. \A k \in Live(table) : stamp[k] \in Nat
  BY DEF Stamped
<1>2. PICK k \in Live(table) : \A j \in Live(table) : stamp[k] <= stamp[j]
  <2>. HIDE DEF stamp
  <2>. QED
    BY <1>1, LeastOf
<1>. QED
  BY <1>2 DEF LeastRecent

(* The victim is an entry of the table, or there is none and the table is  *)
(* below the limit or empty.                                               *)
LEMMA VictimIsLive ==
  ASSUME NEW table, NEW max, NEW victim \in Victims(table, max), Stamped(table)
  PROVE  \/ victim \in Live(table)
         \/ /\ victim = Absent
            /\ Cardinality(Live(table)) < max \/ Live(table) = {}
BY LeastRecentExists DEF Victims, Evictable, LeastRecent

(* Below the limit nothing is evicted. *)
LEMMA NoVictimBelowLimit ==
  ASSUME NEW table, NEW max, Cardinality(Live(table)) < max
  PROVE  Victims(table, max) = {Absent}
BY DEF Victims, Evictable

(* After an eviction and the insertion of one key the table respects the   *)
(* limit, or holds one entry if the limit is 0.                            *)
LEMMA InsertionRespectsLimit ==
  ASSUME NEW table, NEW max \in Nat, NEW key, Stamped(table),
         NEW victim \in Victims(table, max), IsFiniteSet(Live(table)),
         Cardinality(Live(table)) <= IF max = 0 THEN 1 ELSE max
  PROVE  LET after == Live(Without(table, victim)) \cup {key}
         IN IsFiniteSet(after) /\ Cardinality(after) <= IF max = 0 THEN 1 ELSE max
<1>. DEFINE S == Live(table)
<1>1. victim \in S \/ Cardinality(S) < max \/ S = {}
  BY VictimIsLive
<1>2. Live(Without(table, victim)) = S \ {victim}
  BY DEF Live, Without
<1>. HIDE DEF S
<1>3. IsFiniteSet(S) /\ Cardinality(S) <= IF max = 0 THEN 1 ELSE max
  BY DEF S
<1>. QED
  BY <1>1, <1>2, <1>3, RoomForOne

(* The library's facts about concatenation, for sequences of packets. *)
LEMMA PacketSeqs ==
  /\ <<>> \in Seq(Packet)
  /\ \A s, t \in Seq(Packet) : s \o t \in Seq(Packet)
  /\ \A s \in Seq(Packet) : s \o <<>> = s /\ <<>> \o s = s
  /\ \A s, t, u \in Seq(Packet) : (s \o t) \o u = s \o (t \o u)
<1>1. <<>> \in Seq(Packet)
  BY EmptySeq
<1>2. \A s, t \in Seq(Packet) : s \o t \in Seq(Packet)
  BY ConcatProperties
<1>3. \A s \in Seq(Packet) : s \o <<>> = s /\ <<>> \o s = s
  BY ConcatEmptySeq
<1>4. \A s, t, u \in Seq(Packet) : (s \o t) \o u = s \o (t \o u)
  BY ConcatAssociative
<1>. QED
  BY <1>1, <1>2, <1>3, <1>4

OpenFile == [disk : Seq(Packet), buffer : Seq(Packet)]

(* A write of a packet leaves the frames of a file in order: whatever      *)
(* BufWriter passes on, the file followed by the buffer is the old file,   *)
(* the old buffer and the new frames.                                      *)
LEMMA BufferedKeepsFrames ==
  ASSUME NEW file \in OpenFile, NEW frames \in Seq(Packet),
         NEW out \in Buffered(file, frames)
  PROVE  /\ out.disk \in Seq(Packet)
         /\ out.buffer \in Seq(Packet)
         /\ out.disk \o out.buffer = (file.disk \o file.buffer) \o frames
<1>. DEFINE disk == file.disk
            buffer == file.buffer
<1>0. disk \in Seq(Packet) /\ buffer \in Seq(Packet)
  BY DEF OpenFile
<1>1. CASE out = [disk |-> disk, buffer |-> buffer \o frames]
  <2>1. out.disk = disk /\ out.buffer = buffer \o frames
    BY <1>1
  <2>2. /\ buffer \o frames \in Seq(Packet)
        /\ disk \o (buffer \o frames) = (disk \o buffer) \o frames
    BY <1>0, PacketSeqs, ZenonT(30)
  <2>. QED
    BY <1>0, <2>1, <2>2, Zenon
<1>2. CASE out = [disk |-> disk \o buffer, buffer |-> frames]
  <2>1. out.disk = disk \o buffer /\ out.buffer = frames
    BY <1>2
  <2>2. disk \o buffer \in Seq(Packet)
    BY <1>0, PacketSeqs, Zenon
  <2>. QED
    BY <2>1, <2>2, Zenon
<1>3. CASE out = [disk |-> disk \o buffer \o frames, buffer |-> <<>>]
  <2>1. out.disk = (disk \o buffer) \o frames /\ out.buffer = <<>>
    BY <1>3
  <2>2. (disk \o buffer) \o frames \in Seq(Packet)
    BY <1>0, PacketSeqs, Zenon
  <2>. QED
    BY <2>1, <2>2, PacketSeqs, Zenon
<1>. QED
  BY <1>1, <1>2, <1>3 DEF Buffered

(* What a packet adds to a file is a sequence of packets. *)
LEMMA FramesType ==
  ASSUME NEW pkt \in Packet
  PROVE  Frames(pkt) \in Seq(Packet)
BY DEF Frames

(* A prefix and what is left of a buffer are sequences of packets. *)
LEMMA CutType ==
  ASSUME NEW s \in Seq(Packet), NEW n \in 0..Len(s)
  PROVE  /\ Reached(s, n) \in Seq(Packet)
         /\ Left(s, n) \in Seq(Packet)
<1>1. /\ Len(s) \in Nat
      /\ \A i \in 1..Len(s) : s[i] \in Packet
  BY LenProperties, ElementOfSeq
<1>2. \A i \in 1..n : s[i] \in Packet
  BY <1>1
<1>3. \A i \in (n + 1)..Len(s) : s[i] \in Packet
  BY <1>1
<1>. QED
  BY <1>1, <1>2, <1>3, SubSeqProperties DEF Reached, Left

(* What dropping a writer passes on to the file is a sequence of packets.  *)
LEMMA DroppedType ==
  ASSUME NEW s \in Seq(Packet), NEW rest \in Dropped(s)
  PROVE  rest \in Seq(Packet)
BY CutType DEF Dropped
-----------------------------------------------------------------------------
(* TypeOK is not inductive: a buffer is appended to its file, so the file  *)
(* of every open writer must exist.  That of every remembered path does,   *)
(* and the loop that takes the files away runs when no writer is open.     *)
FilesExist ==
  \A key \in temp_paths \cup Live(writers) : tmp[key] \in Seq(Packet)

ClosedBeforeRename == phase \notin {"open", "failed"} => Live(writers) = {}

TypeInv == TypeOK /\ FilesExist /\ ClosedBeforeRename

(* Every open writer carries a generation, so that the scan for the least  *)
(* recent one compares numbers.                                            *)
LEMMA WritersStamped ==
  ASSUME TypeInv
  PROVE  Stamped(writers)
BY DEF TypeInv, TypeOK, WriterState, Stamped, Live

(* Evicting a writer leaves files where there were files. *)
LEMMA EvictionType ==
  ASSUME TypeInv,
         NEW victim \in Victims(writers, MaxWriters),
         NEW evicted \in TmpAfterEvict(victim)
  PROVE  /\ evicted \in [Key -> Seq(Packet) \cup {Absent}]
         /\ \A k \in Key : tmp[k] \in Seq(Packet) => evicted[k] \in Seq(Packet)
<1>1. CASE victim = Absent
  BY <1>1 DEF TmpAfterEvict, TypeInv, TypeOK
<1>2. CASE victim # Absent
  <2>1. victim \in Live(writers) /\ victim \in Key
    <3>1. victim \in Live(writers)
      BY <1>2, WritersStamped, VictimIsLive
    <3>. QED
      BY <3>1 DEF Live
  <2>2. writers[victim].buffer \in Seq(Packet)
    BY <2>1 DEF TypeInv, TypeOK, WriterState, Live
  <2>3. tmp[victim] \in Seq(Packet)
    BY <2>1 DEF TypeInv, FilesExist
  <2>4. PICK b \in Dropped(writers[victim].buffer) :
          evicted = [tmp EXCEPT ![victim] = @ \o b]
    BY <1>2 DEF TmpAfterEvict
  <2>5. tmp[victim] \o b \in Seq(Packet)
    BY <2>2, <2>3, <2>4, DroppedType, ConcatProperties
  <2>. QED
    BY <2>1, <2>4, <2>5 DEF TypeInv, TypeOK
<1>. QED
  BY <1>1, <1>2

(* Whichever writer maybe_evict takes, or none, types and the existence of *)
(* the files of open writers are kept.                                     *)
LEMMA EvictionsType ==
  ASSUME TypeInv, NEW e \in Evictions
  PROVE  /\ e.tmp \in [Key -> Seq(Packet) \cup {Absent}]
         /\ \A k \in Key : tmp[k] \in Seq(Packet) => e.tmp[k] \in Seq(Packet)
         /\ e.open \in [Key -> WriterState \cup {Absent}]
         /\ \A k \in Key : e.open[k] # Absent =>
              k \in Live(writers) /\ e.open[k] = writers[k]
<1>1. PICK victim \in Victims(writers, MaxWriters) :
        e \in {[open |-> Without(writers, victim), tmp |-> t] : t \in TmpAfterEvict(victim)}
  BY DEF Evictions
<1>2. PICK t \in TmpAfterEvict(victim) : e = [open |-> Without(writers, victim), tmp |-> t]
  BY <1>1
<1>3. e.tmp = t /\ e.open = Without(writers, victim)
  BY <1>2
<1>4. /\ e.open \in [Key -> WriterState \cup {Absent}]
      /\ \A k \in Key : e.open[k] # Absent => k \in Live(writers) /\ e.open[k] = writers[k]
  BY <1>3 DEF Without, Live, TypeInv, TypeOK
<1>. QED
  BY <1>3, <1>4, EvictionType

(* The file a packet is written to after the eviction is made of packets.  *)
LEMMA FileAfterType ==
  ASSUME TypeInv, NEW e \in Evictions, NEW key \in Key
  PROVE  FileAfter(e, key) \in OpenFile
<1>1. CASE e.open[key] = Absent
  BY <1>1, PacketSeqs DEF FileAfter, OpenFile
<1>2. CASE e.open[key] # Absent
  <2>1. e.tmp[key] \in Seq(Packet) /\ e.open[key].buffer \in Seq(Packet)
    BY <1>2, EvictionsType DEF TypeInv, TypeOK, FilesExist, WriterState, Live
  <2>. QED
    BY <1>2, <2>1 DEF FileAfter, OpenFile
<1>. QED
  BY <1>1, <1>2
-----------------------------------------------------------------------------
(* A new writer satisfies the invariant.                                   *)
LEMMA InitTypeInv == Init => TypeInv
BY PacketSeqs DEF Init, TypeInv, TypeOK, FilesExist, ClosedBeforeRename, NoFile, Live

(* write_packet_for_key keeps the invariant: the file of the key exists    *)
(* afterwards, and eviction removes no file.                               *)
LEMMA WriteTypeInv ==
  ASSUME TypeInv, NEW key \in Key, NEW pkt \in Packet, WritePacketForKey(key, pkt)
  PROVE  TypeInv'
<1>0. PICK e \in Evictions : \E out \in Buffered(FileAfter(e, key), Frames(pkt)) :
        /\ tmp' = [e.tmp EXCEPT ![key] = out.disk]
        /\ writers' = [e.open EXCEPT ![key] =
                         [last_access |-> lru_gen', buffer |-> out.buffer]]
  BY DEF WritePacketForKey
<1>1. PICK out \in Buffered(FileAfter(e, key), Frames(pkt)) :
        /\ tmp' = [e.tmp EXCEPT ![key] = out.disk]
        /\ writers' = [e.open EXCEPT ![key] =
                         [last_access |-> lru_gen', buffer |-> out.buffer]]
  BY <1>0
<1>2. /\ e.tmp \in [Key -> Seq(Packet) \cup {Absent}]
      /\ \A k \in Key : tmp[k] \in Seq(Packet) => e.tmp[k] \in Seq(Packet)
      /\ e.open \in [Key -> WriterState \cup {Absent}]
      /\ \A k \in Key : e.open[k] # Absent => k \in Live(writers)
  BY EvictionsType
<1>3. out.disk \in Seq(Packet) /\ out.buffer \in Seq(Packet)
  BY FileAfterType, FramesType, BufferedKeepsFrames
<1>4. lru_gen' \in Nat /\ clock' \in Nat
  BY DEF WritePacketForKey, TypeInv, TypeOK
<1>5. tmp' \in [Key -> Seq(Packet) \cup {Absent}]
  BY <1>1, <1>2, <1>3
<1>6. writers' \in [Key -> WriterState \cup {Absent}]
  <2>1. [last_access |-> lru_gen', buffer |-> out.buffer] \in WriterState
    BY <1>3, <1>4 DEF WriterState
  <2>. QED
    BY <1>1, <1>2, <2>1
<1>7. due' \in [Key -> Seq(Packet)]
  <2>1. due[key] \o Frames(pkt) \in Seq(Packet)
    BY FramesType, PacketSeqs DEF TypeInv, TypeOK
  <2>. QED
    BY <2>1 DEF WritePacketForKey, TypeInv, TypeOK
<1>8. FilesExist'
  <2>. SUFFICES ASSUME NEW k \in temp_paths' \cup Live(writers')
                PROVE  tmp'[k] \in Seq(Packet)
    BY DEF FilesExist, Live
  <2>1. CASE k = key
    BY <1>1, <1>2, <1>3, <2>1
  <2>2. CASE k # key
    <3>1. k \in Key /\ tmp'[k] = e.tmp[k] /\ writers'[k] = e.open[k]
      BY <1>1, <1>2, <2>2 DEF WritePacketForKey, Live, TypeInv, TypeOK
    <3>2. k \in temp_paths \cup Live(writers)
      BY <1>2, <2>2, <3>1 DEF WritePacketForKey, Live
    <3>. QED
      BY <1>2, <3>1, <3>2 DEF TypeInv, FilesExist
  <2>. QED
    BY <2>1, <2>2
<1>. QED
  BY <1>4, <1>5, <1>6, <1>7, <1>8 DEF WritePacketForKey, TypeInv, TypeOK, ClosedBeforeRename

(* So does a write that fails, before or after it created the file.        *)
LEMMA WriteFailsTypeInv ==
  ASSUME TypeInv, NEW key \in Key, WriteFails(key)
  PROVE  TypeInv'
<1>1. PICK e \in Evictions :
        \/ /\ e.open[key] = Absent
           /\ tmp' \in {e.tmp, [e.tmp EXCEPT ![key] = <<>>]}
           /\ writers' = e.open
        \/ /\ e.open[key] # Absent
           /\ \E n \in 0..Len(e.open[key].buffer) :
                /\ tmp' = [e.tmp EXCEPT ![key] = @ \o Reached(e.open[key].buffer, n)]
                /\ writers' = [e.open EXCEPT ![key].buffer = Left(e.open[key].buffer, n)]
  BY DEF WriteFails
<1>2. /\ e.tmp \in [Key -> Seq(Packet) \cup {Absent}]
      /\ \A k \in Key : tmp[k] \in Seq(Packet) => e.tmp[k] \in Seq(Packet)
      /\ e.open \in [Key -> WriterState \cup {Absent}]
      /\ \A k \in Key : e.open[k] # Absent => k \in Live(writers)
  BY EvictionsType
<1>3. /\ tmp' \in [Key -> Seq(Packet) \cup {Absent}]
      /\ writers' \in [Key -> WriterState \cup {Absent}]
      /\ \A k \in Key : writers'[k] # Absent => e.open[k] # Absent
      /\ \A k \in Key : e.tmp[k] \in Seq(Packet) => tmp'[k] \in Seq(Packet)
  <2>1. CASE e.open[key] = Absent
    BY <1>1, <1>2, <2>1, PacketSeqs, ZenonT(30)
  <2>2. CASE e.open[key] # Absent
    <3>. DEFINE buffer == e.open[key].buffer
    <3>1. PICK n \in 0..Len(buffer) :
            /\ tmp' = [e.tmp EXCEPT ![key] = @ \o Reached(buffer, n)]
            /\ writers' = [e.open EXCEPT ![key].buffer = Left(e.open[key].buffer, n)]
      BY <1>1, <2>2
    <3>2. buffer \in Seq(Packet) /\ e.open[key] \in WriterState
      BY <1>2, <2>2 DEF WriterState
    <3>3. e.tmp[key] \in Seq(Packet)
      BY <1>2, <2>2 DEF TypeInv, FilesExist
    <3>4. e.tmp[key] \o Reached(buffer, n) \in Seq(Packet)
      BY <3>2, <3>3, CutType, PacketSeqs
    <3>5. [e.open[key] EXCEPT !.buffer = Left(buffer, n)] \in WriterState
      BY <3>2, CutType DEF WriterState
    <3>6. writers' = [e.open EXCEPT ![key] = [e.open[key] EXCEPT !.buffer = Left(buffer, n)]]
      BY <3>1
    <3>7. tmp' \in [Key -> Seq(Packet) \cup {Absent}]
      BY <1>2, <3>1, <3>4
    <3>8. writers' \in [Key -> WriterState \cup {Absent}]
      BY <1>2, <3>5, <3>6
    <3>9. \A k \in Key : writers'[k] # Absent => e.open[k] # Absent
      BY <1>2, <2>2, <3>6
    <3>10. \A k \in Key : e.tmp[k] \in Seq(Packet) => tmp'[k] \in Seq(Packet)
      BY <1>2, <3>1, <3>4
    <3>. QED
      BY <3>7, <3>8, <3>9, <3>10
  <2>. QED
    BY <2>1, <2>2
<1>4. FilesExist'
  BY <1>2, <1>3 DEF WriteFails, TypeInv, TypeOK, FilesExist, ClosedBeforeRename, Live
<1>. QED
  BY <1>3, <1>4 DEF WriteFails, TypeInv, TypeOK, ClosedBeforeRename

(* flush_all, whole or broken off, and the drop of the writers append a    *)
(* part of each buffer to its file.                                        *)
LEMMA AppendTypeInv ==
  ASSUME TypeInv,
         tmp' \in [Key -> Seq(Packet) \cup {Absent}],
         writers' \in [Key -> WriterState \cup {Absent}],
         \A k \in Key : writers'[k] # Absent => writers[k] # Absent,
         \A k \in Key : tmp[k] \in Seq(Packet) => tmp'[k] \in Seq(Packet),
         temp_paths' \subseteq temp_paths,
         phase' \in {"open", "renaming", "closed", "failed", "abandoned", "crashed"},
         phase' \notin {"open", "failed"} => writers' = NoFile,
         UNCHANGED <<lru_gen, final, due, touched, runs, clock>>
  PROVE  TypeInv'
<1>1. TypeOK'
  BY DEF TypeInv, TypeOK
<1>2. FilesExist'
  BY DEF TypeInv, TypeOK, FilesExist, Live
<1>3. ClosedBeforeRename'
  BY DEF ClosedBeforeRename, NoFile, Live
<1>. QED
  BY <1>1, <1>2, <1>3 DEF TypeInv

(* The file and the buffer of an open writer are sequences of packets.     *)
LEMMA OpenFileTypes ==
  ASSUME TypeInv, NEW k \in Key, writers[k] # Absent
  PROVE  /\ writers[k] \in WriterState
         /\ writers[k].buffer \in Seq(Packet)
         /\ tmp[k] \in Seq(Packet)
BY DEF TypeInv, TypeOK, FilesExist, WriterState, Live

(* flush_all keeps the invariant, and leaves no writer open.               *)
LEMMA CloseFlushTypeInv ==
  ASSUME TypeInv, CloseFlush
  PROVE  TypeInv'
<1>1. \A k \in Key : writers[k] # Absent => tmp[k] \o writers[k].buffer \in Seq(Packet)
  BY OpenFileTypes, PacketSeqs
<1>2. tmp' \in [Key -> Seq(Packet) \cup {Absent}]
  BY <1>1 DEF CloseFlush, TypeInv, TypeOK
<1>3. \A k \in Key : tmp[k] \in Seq(Packet) => tmp'[k] \in Seq(Packet)
  BY <1>1 DEF CloseFlush
<1>. QED
  BY <1>2, <1>3, AppendTypeInv DEF CloseFlush, NoFile, TypeInv, TypeOK


(* So does a flush_all that stops at a writer, whichever writers it        *)
(* flushed before.                                                         *)
LEMMA CloseFlushFailsTypeInv ==
  ASSUME TypeInv, CloseFlushFails
  PROVE  TypeInv'
<1>1. PICK bad \in Live(writers) : \E n \in 0..Len(writers[bad].buffer) :
        \E flushed \in SUBSET (Live(writers) \ {bad}) :
          LET reached(k) == CASE k \in flushed -> Len(writers[k].buffer)
                              [] k = bad       -> n
                              [] OTHER         -> 0
          IN /\ tmp' = [k \in Key |-> IF writers[k] = Absent THEN tmp[k]
                           ELSE tmp[k] \o Reached(writers[k].buffer, reached(k))]
             /\ writers' = [k \in Key |-> IF writers[k] = Absent THEN Absent
                  ELSE [writers[k] EXCEPT !.buffer = Left(writers[k].buffer, reached(k))]]
  BY DEF CloseFlushFails
<1>2. PICK n \in 0..Len(writers[bad].buffer), flushed \in SUBSET (Live(writers) \ {bad}) :
          LET reached(k) == CASE k \in flushed -> Len(writers[k].buffer)
                              [] k = bad       -> n
                              [] OTHER         -> 0
          IN /\ tmp' = [k \in Key |-> IF writers[k] = Absent THEN tmp[k]
                           ELSE tmp[k] \o Reached(writers[k].buffer, reached(k))]
             /\ writers' = [k \in Key |-> IF writers[k] = Absent THEN Absent
                  ELSE [writers[k] EXCEPT !.buffer = Left(writers[k].buffer, reached(k))]]
  BY <1>1
<1>. DEFINE reached(k) == CASE k \in flushed -> Len(writers[k].buffer)
                            [] k = bad       -> n
                            [] OTHER         -> 0
<1>3. \A k \in Key : writers[k] # Absent => reached(k) \in 0..Len(writers[k].buffer)
  <2>1. \A k \in Key : writers[k] # Absent => Len(writers[k].buffer) \in Nat
    BY OpenFileTypes, LenProperties
  <2>. QED
    BY <2>1
<1>4. /\ tmp' = [k \in Key |-> IF writers[k] = Absent THEN tmp[k]
                   ELSE tmp[k] \o Reached(writers[k].buffer, reached(k))]
      /\ writers' = [k \in Key |-> IF writers[k] = Absent THEN Absent
                       ELSE [writers[k] EXCEPT !.buffer = Left(writers[k].buffer, reached(k))]]
  BY <1>2
<1>. HIDE DEF reached
<1>5. \A k \in Key : writers[k] # Absent =>
        /\ tmp[k] \o Reached(writers[k].buffer, reached(k)) \in Seq(Packet)
        /\ [writers[k] EXCEPT !.buffer = Left(writers[k].buffer, reached(k))] \in WriterState
  <2>. SUFFICES ASSUME NEW k \in Key, writers[k] # Absent
                PROVE  /\ tmp[k] \o Reached(writers[k].buffer, reached(k)) \in Seq(Packet)
                       /\ [writers[k] EXCEPT !.buffer = Left(writers[k].buffer, reached(k))]
                            \in WriterState
    OBVIOUS
  <2>1. /\ Reached(writers[k].buffer, reached(k)) \in Seq(Packet)
        /\ Left(writers[k].buffer, reached(k)) \in Seq(Packet)
    BY <1>3, OpenFileTypes, CutType
  <2>2. tmp[k] \in Seq(Packet) /\ writers[k] \in WriterState
    BY OpenFileTypes
  <2>3. tmp[k] \o Reached(writers[k].buffer, reached(k)) \in Seq(Packet)
    BY <2>1, <2>2, PacketSeqs
  <2>. QED
    BY <2>1, <2>2, <2>3 DEF WriterState
<1>6. tmp' \in [Key -> Seq(Packet) \cup {Absent}]
  BY <1>4, <1>5 DEF TypeInv, TypeOK
<1>7. writers' \in [Key -> WriterState \cup {Absent}]
  BY <1>4, <1>5
<1>8. \A k \in Key : tmp[k] \in Seq(Packet) => tmp'[k] \in Seq(Packet)
  BY <1>4, <1>5
<1>9. \A k \in Key : writers'[k] # Absent => writers[k] # Absent
  BY <1>4
<1>. QED
  BY <1>6, <1>7, <1>8, <1>9, AppendTypeInv DEF CloseFlushFails

(* So does dropping the writer without close.                              *)
LEMMA AbandonTypeInv ==
  ASSUME TypeInv, Abandon
  PROVE  TypeInv'
<1>1. PICK rest \in [Live(writers) -> UNION {Dropped(writers[k].buffer) : k \in Live(writers)}] :
        /\ \A k \in Live(writers) : rest[k] \in Dropped(writers[k].buffer)
        /\ tmp' = [k \in Key |-> IF writers[k] = Absent THEN tmp[k] ELSE tmp[k] \o rest[k]]
  BY DEF Abandon
<1>2. \A k \in Key : writers[k] # Absent => tmp[k] \o rest[k] \in Seq(Packet)
  BY <1>1, OpenFileTypes, DroppedType, PacketSeqs DEF Live
<1>3. tmp' \in [Key -> Seq(Packet) \cup {Absent}]
  BY <1>1, <1>2 DEF TypeInv, TypeOK
<1>4. \A k \in Key : tmp[k] \in Seq(Packet) => tmp'[k] \in Seq(Packet)
  BY <1>1, <1>2
<1>. QED
  BY <1>3, <1>4, AppendTypeInv DEF Abandon, NoFile, TypeInv, TypeOK

(* The rename loop, and the end of a run. *)
LEMMA CloseStepTypeInv ==
  ASSUME TypeInv, CloseStep
  PROVE  TypeInv'
<1>1. ASSUME NEW key \in Key, DiscardNext(key)
      PROVE  TypeInv'
  BY <1>1 DEF DiscardNext, TypeInv, TypeOK, FilesExist, ClosedBeforeRename, Live
<1>2. ASSUME NEW key \in Key, SkipNext(key)
      PROVE  TypeInv'
  BY <1>2 DEF SkipNext, TypeInv, TypeOK, FilesExist, ClosedBeforeRename, Live
<1>3. ASSUME NEW key \in Key, RenameNext(key)
      PROVE  TypeInv'
  BY <1>3 DEF RenameNext, TypeInv, TypeOK, FilesExist, ClosedBeforeRename, Live
<1>4. CASE RenameFails
  BY <1>4 DEF RenameFails, TypeInv, TypeOK, FilesExist, ClosedBeforeRename, Live
<1>5. CASE CloseDone
  BY <1>5 DEF CloseDone, TypeInv, TypeOK, FilesExist, ClosedBeforeRename, Live
<1>. QED
  BY <1>1, <1>2, <1>3, <1>4, <1>5 DEF CloseStep

(* So do a crash and the next run, which start from no writer and no path. *)
LEMMA RunEndsTypeInv ==
  ASSUME TypeInv, Crash \/ Restart \/ Finished
  PROVE  TypeInv'
<1>1. CASE Crash
  BY <1>1 DEF Crash, TypeInv, TypeOK, FilesExist, ClosedBeforeRename, NoFile, Live
<1>2. CASE Restart
  BY <1>2, PacketSeqs
     DEF Restart, NoFile, TypeInv, TypeOK, FilesExist, ClosedBeforeRename, Live
<1>3. CASE Finished
  BY <1>3 DEF Finished, vars, TypeInv, TypeOK, FilesExist, ClosedBeforeRename, Live
<1>. QED
  BY <1>1, <1>2, <1>3

(* Every step keeps the invariant.                                         *)
LEMMA NextTypeInv == TypeInv /\ [Next]_vars => TypeInv'
<1>. SUFFICES ASSUME TypeInv, [Next]_vars
              PROVE  TypeInv'
  OBVIOUS
<1>1. ASSUME clock + 1 \in Packet, NEW key \in Key, WritePacketForKey(key, clock + 1)
      PROVE  TypeInv'
  BY <1>1, WriteTypeInv
<1>2. ASSUME NEW key \in Key, WriteFails(key)
      PROVE  TypeInv'
  BY <1>2, WriteFailsTypeInv
<1>3. CASE CloseFlush
  BY <1>3, CloseFlushTypeInv
<1>4. CASE CloseFlushFails
  BY <1>4, CloseFlushFailsTypeInv
<1>5. CASE CloseStep
  BY <1>5, CloseStepTypeInv
<1>6. CASE Abandon
  BY <1>6, AbandonTypeInv
<1>7. CASE Crash \/ Restart \/ Finished
  BY <1>7, RunEndsTypeInv
<1>8. CASE UNCHANGED vars
  BY <1>8 DEF vars, TypeInv, TypeOK, FilesExist, ClosedBeforeRename, Live
<1>. QED
  BY <1>1, <1>2, <1>3, <1>4, <1>5, <1>6, <1>7, <1>8 DEF Next

(* Type correctness, and with it that no operation of the writer reads or  *)
(* renames a temporary file that is not there.                             *)
THEOREM TypeCorrect == Spec => []TypeInv
BY InitTypeInv, NextTypeInv, PTL DEF Spec

(* The type invariant of the runs, for any keys, packets and limits.       *)
THEOREM SplitWriterTypeOK == Spec => []TypeOK
<1>1. TypeInv => TypeOK
  BY DEF TypeInv
<1>. QED
  BY <1>1, TypeCorrect, PTL
-----------------------------------------------------------------------------
(* The limit on open writers.  That a cardinality bound is kept needs the  *)
(* set of open writers to be finite, whatever the set of keys is.          *)
BoundInv == IsFiniteSet(Live(writers)) /\ WritersBounded

(* A step that opens no writer keeps the bound.                            *)
LEMMA FewerWritersBoundInv ==
  ASSUME BoundInv, \A k \in Key : writers'[k] # Absent => writers[k] # Absent
  PROVE  BoundInv'
<1>1. Live(writers') \subseteq Live(writers)
  BY DEF Live
<1>2. /\ IsFiniteSet(Live(writers'))
      /\ Cardinality(Live(writers')) <= Cardinality(Live(writers))
  BY <1>1, FS_Subset DEF BoundInv
<1>3. Cardinality(Live(writers')) \in Nat /\ Cardinality(Live(writers)) \in Nat
  BY <1>2, FS_CardinalityType DEF BoundInv
<1>4. Live(writers)' = Live(writers')
  BY DEF Live
<1>. HIDE DEF Live
<1>. QED
  BY <1>2, <1>3, <1>4, MaxWritersAssumption DEF BoundInv, WritersBounded

(* A write keeps the bound: it opens one writer, after an eviction that    *)
(* made room for it.                                                       *)
LEMMA WriteBoundInv ==
  ASSUME TypeInv, BoundInv, NEW key \in Key, NEW pkt \in Packet,
         WritePacketForKey(key, pkt)
  PROVE  BoundInv'
<1>1. PICK e \in Evictions : \E out \in Buffered(FileAfter(e, key), Frames(pkt)) :
        writers' = [e.open EXCEPT ![key] = [last_access |-> lru_gen', buffer |-> out.buffer]]
  BY DEF WritePacketForKey
<1>2. PICK victim \in Victims(writers, MaxWriters) : e.open = Without(writers, victim)
  BY DEF Evictions
<1>3. Live(writers') \subseteq Live(Without(writers, victim)) \cup {key}
  BY <1>1, <1>2 DEF Live, Without
<1>4. LET after == Live(Without(writers, victim)) \cup {key}
      IN IsFiniteSet(after) /\ Cardinality(after) <= IF MaxWriters = 0 THEN 1 ELSE MaxWriters
  <2>1. Cardinality(Live(writers)) <= IF MaxWriters = 0 THEN 1 ELSE MaxWriters
    BY DEF BoundInv, WritersBounded
  <2>2. Absent \notin Key
    BY AbsentAssumption
  <2>. QED
    BY <2>1, <2>2, WritersStamped, InsertionRespectsLimit, MaxWritersAssumption DEF BoundInv
<1>. DEFINE after == Live(Without(writers, victim)) \cup {key}
<1>5. IsFiniteSet(Live(writers')) /\ Cardinality(Live(writers')) <= Cardinality(after)
  BY <1>3, <1>4, FS_Subset
<1>6. Cardinality(Live(writers')) \in Nat /\ Cardinality(after) \in Nat
  BY <1>4, <1>5, FS_CardinalityType
<1>7. Live(writers)' = Live(writers')
  BY DEF Live
<1>8. (IF MaxWriters = 0 THEN 1 ELSE MaxWriters) \in Nat
  BY MaxWritersAssumption
<1>. HIDE DEF after
<1>9. Cardinality(after) <= IF MaxWriters = 0 THEN 1 ELSE MaxWriters
  BY <1>4 DEF after
<1>. QED
  BY <1>5, <1>6, <1>7, <1>8, <1>9 DEF BoundInv, WritersBounded

(* Every step keeps the bound.                                             *)
LEMMA NextBoundInv == TypeInv /\ BoundInv /\ [Next]_vars => BoundInv'
<1>. SUFFICES ASSUME TypeInv, BoundInv, [Next]_vars
              PROVE  BoundInv'
  OBVIOUS
<1>1. ASSUME clock + 1 \in Packet, NEW key \in Key, WritePacketForKey(key, clock + 1)
      PROVE  BoundInv'
  BY <1>1, WriteBoundInv
<1>2. ASSUME NEW key \in Key, WriteFails(key)
      PROVE  BoundInv'
  <2>1. PICK e \in Evictions :
          \/ writers' = e.open
          \/ /\ e.open[key] # Absent
             /\ \E n : writers' = [e.open EXCEPT ![key].buffer = Left(e.open[key].buffer, n)]
    BY <1>2 DEF WriteFails
  <2>2. /\ e.open \in [Key -> WriterState \cup {Absent}]
        /\ \A k \in Key : e.open[k] # Absent => writers[k] # Absent
    BY EvictionsType DEF Live
  <2>. QED
    BY <2>1, <2>2, FewerWritersBoundInv
<1>3. CASE CloseFlush \/ Abandon \/ Crash
  BY <1>3, FewerWritersBoundInv DEF CloseFlush, Abandon, Crash, NoFile
<1>4. CASE CloseFlushFails
  BY <1>4, FewerWritersBoundInv DEF CloseFlushFails
<1>5. CASE CloseStep \/ Restart \/ Finished \/ UNCHANGED vars
  BY <1>5, FewerWritersBoundInv
     DEF CloseStep, DiscardNext, SkipNext, RenameNext, RenameFails, CloseDone,
         Restart, NoFile, Finished, vars
<1>. QED
  BY <1>1, <1>2, <1>3, <1>4, <1>5 DEF Next

(* No sequence of writes, evictions, failures and restarts ever has more   *)
(* than max_writers files open (one, if max_writers is 0).                 *)
THEOREM OpenWritersBounded == Spec => []WritersBounded
<1>1. Init => BoundInv
  <2>1. Init => Live(writers) = {}
    BY DEF Init, NoFile, Live
  <2>2. IsFiniteSet({}) /\ Cardinality({}) = 0
    BY FS_EmptySet
  <2>. QED
    BY <2>1, <2>2, MaxWritersAssumption DEF BoundInv, WritersBounded
<1>2. BoundInv => WritersBounded
  BY DEF BoundInv
<1>. QED
  BY <1>1, <1>2, InitTypeInv, NextTypeInv, NextBoundInv, PTL DEF Spec
-----------------------------------------------------------------------------
(* Completeness below the limit.  Content(key) = due[key] is not inductive *)
(* by itself: that no writer is evicted below the limit needs every open   *)
(* writer to belong to a key the run was called with, and that a new file  *)
(* starts a group, not a second part of it, needs the converse.            *)
KeysInv ==
  /\ IsFiniteSet(touched)
  /\ temp_paths \subseteq touched
  /\ Live(writers) \subseteq touched
  /\ \A k \in Key \ touched : due[k] = <<>>

OpenComplete ==
  phase = "open" /\ BelowLimit =>
    \A k \in touched : k \in Live(writers) /\ tmp[k] \o writers[k].buffer = due[k]

RenamedComplete ==
  phase = "renaming" /\ BelowLimit => \A k \in temp_paths : tmp[k] = due[k]

CompleteInv == KeysInv /\ OpenComplete /\ RenamedComplete

(* Below the limit a write evicts nothing. *)
LEMMA NoEvictionBelowLimit ==
  ASSUME TypeInv, KeysInv, BelowLimit, NEW e \in Evictions
  PROVE  e.open = writers /\ e.tmp = tmp
<1>1. Cardinality(Live(writers)) < MaxWriters
  <2>1. Cardinality(Live(writers)) <= Cardinality(touched) /\ IsFiniteSet(Live(writers))
    BY FS_Subset DEF KeysInv
  <2>2. Cardinality(Live(writers)) \in Nat /\ Cardinality(touched) \in Nat
    BY <2>1, FS_CardinalityType DEF KeysInv
  <2>. QED
    BY <2>1, <2>2, MaxWritersAssumption DEF BelowLimit
<1>2. Victims(writers, MaxWriters) = {Absent}
  BY <1>1, NoVictimBelowLimit
<1>3. TmpAfterEvict(Absent) = {tmp}
  BY DEF TmpAfterEvict
<1>4. Without(writers, Absent) = writers
  BY AbsentAssumption DEF Without, TypeInv, TypeOK
<1>5. e \in {[open |-> Without(writers, Absent), tmp |-> t] : t \in {tmp}}
  BY <1>2, <1>3 DEF Evictions
<1>. QED
  BY <1>4, <1>5

(* A write adds its key to those the run was called with, and to no other  *)
(* set a key that is not among them.                                       *)
LEMMA WriteKeysInv ==
  ASSUME TypeInv, KeysInv, NEW key \in Key, NEW pkt \in Packet, WritePacketForKey(key, pkt)
  PROVE  KeysInv'
<1>1. PICK e \in Evictions : \E out \in Buffered(FileAfter(e, key), Frames(pkt)) :
        writers' = [e.open EXCEPT ![key] = [last_access |-> lru_gen', buffer |-> out.buffer]]
  BY DEF WritePacketForKey
<1>2. /\ e.open \in [Key -> WriterState \cup {Absent}]
      /\ \A k \in Key : e.open[k] # Absent => k \in Live(writers)
  BY EvictionsType
<1>3. Live(writers)' \subseteq Live(writers) \cup {key}
  BY <1>1, <1>2 DEF Live
<1>4. touched' = touched \cup {key} /\ temp_paths' = temp_paths \cup {key}
  BY DEF WritePacketForKey
<1>5. IsFiniteSet(touched')
  BY <1>4, FS_AddElement DEF KeysInv
<1>6. \A k \in Key \ touched' : due'[k] = <<>>
  BY <1>4 DEF WritePacketForKey, KeysInv, TypeInv, TypeOK
<1>. QED
  BY <1>3, <1>4, <1>5, <1>6 DEF KeysInv

(* Below the limit a write extends the file of its key by its frames and   *)
(* leaves every other file alone: a group already seen has its writer      *)
(* still, so its file is never created twice.                              *)
LEMMA WriteOpenComplete ==
  ASSUME TypeInv, CompleteInv, NEW key \in Key, NEW pkt \in Packet,
         WritePacketForKey(key, pkt), BelowLimit'
  PROVE  \A k \in touched' :
           k \in Live(writers)' /\ tmp'[k] \o writers'[k].buffer = due'[k]
<1>1. touched' = touched \cup {key}
  BY DEF WritePacketForKey
<1>2. BelowLimit
  <2>1. IsFiniteSet(touched') /\ Cardinality(touched) <= Cardinality(touched')
    BY <1>1, FS_AddElement, FS_Subset DEF CompleteInv, KeysInv
  <2>2. Cardinality(touched) \in Nat /\ Cardinality(touched') \in Nat
    BY <2>1, FS_CardinalityType DEF CompleteInv, KeysInv
  <2>. QED
    BY <2>1, <2>2, MaxWritersAssumption DEF BelowLimit
<1>3. PICK e \in Evictions : \E out \in Buffered(FileAfter(e, key), Frames(pkt)) :
        /\ tmp' = [e.tmp EXCEPT ![key] = out.disk]
        /\ writers' = [e.open EXCEPT ![key] = [last_access |-> lru_gen', buffer |-> out.buffer]]
  BY DEF WritePacketForKey
<1>4. e.open = writers /\ e.tmp = tmp
  BY <1>2, NoEvictionBelowLimit DEF CompleteInv
<1>5. PICK out \in Buffered(FileAfter(e, key), Frames(pkt)) :
        /\ tmp' = [tmp EXCEPT ![key] = out.disk]
        /\ writers' = [writers EXCEPT ![key] = [last_access |-> lru_gen', buffer |-> out.buffer]]
  BY <1>3, <1>4
<1>6. /\ out.buffer \in Seq(Packet)
      /\ out.disk \o out.buffer
           = (FileAfter(e, key).disk \o FileAfter(e, key).buffer) \o Frames(pkt)
  BY FileAfterType, FramesType, BufferedKeepsFrames
<1>7. FileAfter(e, key).disk \o FileAfter(e, key).buffer = due[key]
  <2>1. CASE key \in touched
    <3>1. key \in Live(writers) /\ tmp[key] \o writers[key].buffer = due[key]
      BY <1>2, <2>1 DEF CompleteInv, OpenComplete, WritePacketForKey
    <3>2. FileAfter(e, key) = [disk |-> tmp[key], buffer |-> writers[key].buffer]
      BY <1>4, <3>1 DEF FileAfter, Live
    <3>3. FileAfter(e, key).disk = tmp[key] /\ FileAfter(e, key).buffer = writers[key].buffer
      BY <3>2
    <3>. QED
      BY <3>1, <3>3, Zenon
  <2>2. CASE key \notin touched
    <3>1. key \notin Live(writers) /\ due[key] = <<>>
      BY <2>2 DEF CompleteInv, KeysInv
    <3>2. FileAfter(e, key) = [disk |-> <<>>, buffer |-> <<>>]
      BY <1>4, <3>1 DEF FileAfter, Live
    <3>3. <<>> \o <<>> = <<>>
      BY PacketSeqs
    <3>. QED
      BY <3>1, <3>2, <3>3
  <2>. QED
    BY <2>1, <2>2
<1>8. due' = [due EXCEPT ![key] = @ \o Frames(pkt)]
  BY DEF WritePacketForKey
<1>9. [last_access |-> lru_gen', buffer |-> out.buffer] # Absent
  <2>1. lru_gen' \in Nat
    BY DEF WritePacketForKey, TypeInv, TypeOK
  <2>2. [last_access |-> lru_gen', buffer |-> out.buffer] \in WriterState
    BY <1>6, <2>1 DEF WriterState
  <2>. QED
    BY <2>2, AbsentAssumption
<1>10. ASSUME NEW k \in touched'
       PROVE  k \in Live(writers)' /\ tmp'[k] \o writers'[k].buffer = due'[k]
  <2>1. k \in Key
    BY <1>1 DEF TypeInv, TypeOK
  <2>2. CASE k = key
    <3>1. tmp'[k] = out.disk /\ writers'[k].buffer = out.buffer /\ writers'[k] # Absent
      BY <1>5, <1>9, <2>2 DEF TypeInv, TypeOK
    <3>2. due'[k] = due[key] \o Frames(pkt)
      BY <1>8, <2>2 DEF TypeInv, TypeOK
    <3>. QED
      BY <1>6, <1>7, <2>1, <3>1, <3>2 DEF Live
  <2>3. CASE k # key
    <3>1. k \in Live(writers) /\ tmp[k] \o writers[k].buffer = due[k]
      BY <1>1, <1>2, <2>3 DEF CompleteInv, OpenComplete, WritePacketForKey
    <3>2. tmp'[k] = tmp[k] /\ writers'[k] = writers[k] /\ due'[k] = due[k]
      BY <1>5, <1>8, <2>1, <2>3 DEF TypeInv, TypeOK
    <3>. QED
      BY <3>1, <3>2 DEF Live
  <2>. QED
    BY <2>2, <2>3
<1>. QED
  BY <1>10

(* A new writer was asked for nothing.                                     *)
LEMMA InitCompleteInv == Init => CompleteInv
BY FS_EmptySet
   DEF Init, NoFile, CompleteInv, KeysInv, OpenComplete, RenamedComplete, Live

(* Every step but a write leaves the key sets alone or shrinks them. *)
LEMMA OtherKeysInv ==
  ASSUME KeysInv, temp_paths' \subseteq temp_paths,
         \A k \in Key : writers'[k] # Absent => writers[k] # Absent,
         UNCHANGED <<due, touched>>
  PROVE  KeysInv'
BY DEF KeysInv, Live

(* flush_all brings every buffer to its file, so that the files themselves *)
(* are complete when the renaming starts.                                  *)
LEMMA CloseFlushCompleteInv ==
  ASSUME TypeInv, CompleteInv, CloseFlush
  PROVE  CompleteInv'
<1>1. KeysInv'
  BY OtherKeysInv DEF CloseFlush, NoFile, CompleteInv
<1>2. BelowLimit => \A k \in temp_paths : tmp'[k] = due[k]
  BY DEF CloseFlush, CompleteInv, KeysInv, OpenComplete, TypeInv, TypeOK, Live
<1>3. RenamedComplete'
  BY <1>2 DEF CloseFlush, RenamedComplete, BelowLimit
<1>4. OpenComplete'
  BY DEF CloseFlush, OpenComplete
<1>. QED
  BY <1>1, <1>3, <1>4 DEF CompleteInv

(* The rename loop leaves the files it has not come to alone.              *)
LEMMA CloseStepCompleteInv ==
  ASSUME TypeInv, CompleteInv, CloseStep
  PROVE  CompleteInv'
<1>1. KeysInv'
  BY OtherKeysInv DEF CloseStep, DiscardNext, SkipNext, RenameNext, RenameFails, CloseDone,
                      CompleteInv
<1>2. OpenComplete'
  BY DEF CloseStep, DiscardNext, SkipNext, RenameNext, RenameFails, CloseDone, OpenComplete
<1>3. RenamedComplete'
  <2>1. CASE RenameFails \/ CloseDone
    BY <2>1 DEF RenameFails, CloseDone, RenamedComplete
  <2>2. ASSUME NEW key \in Key, DiscardNext(key) \/ SkipNext(key) \/ RenameNext(key)
        PROVE  RenamedComplete'
    <3>1. /\ temp_paths' = temp_paths \ {key}
          /\ \A k \in Key \ {key} : tmp'[k] = tmp[k]
          /\ UNCHANGED <<phase, due, touched>>
      BY <2>2 DEF DiscardNext, SkipNext, RenameNext, TypeInv, TypeOK
    <3>. QED
      BY <3>1 DEF CompleteInv, RenamedComplete, BelowLimit, TypeInv, TypeOK
  <2>. QED
    BY <2>1, <2>2 DEF CloseStep
<1>. QED
  BY <1>1, <1>2, <1>3 DEF CompleteInv

(* Every step keeps completeness below the limit.                          *)
LEMMA NextCompleteInv == TypeInv /\ CompleteInv /\ [Next]_vars => CompleteInv'
<1>. SUFFICES ASSUME TypeInv, CompleteInv, [Next]_vars
              PROVE  CompleteInv'
  OBVIOUS
<1>1. ASSUME clock + 1 \in Packet, NEW key \in Key, WritePacketForKey(key, clock + 1)
      PROVE  CompleteInv'
  <2>1. KeysInv'
    BY <1>1, WriteKeysInv DEF CompleteInv
  <2>2. OpenComplete'
    BY <1>1, WriteOpenComplete DEF OpenComplete, Live
  <2>3. RenamedComplete'
    BY <1>1 DEF WritePacketForKey, RenamedComplete
  <2>. QED
    BY <2>1, <2>2, <2>3 DEF CompleteInv
<1>2. ASSUME NEW key \in Key, WriteFails(key)
      PROVE  CompleteInv'
  <2>1. PICK e \in Evictions :
          \/ writers' = e.open
          \/ /\ e.open[key] # Absent
             /\ \E n : writers' = [e.open EXCEPT ![key].buffer = Left(e.open[key].buffer, n)]
    BY <1>2 DEF WriteFails
  <2>2. /\ e.open \in [Key -> WriterState \cup {Absent}]
        /\ \A k \in Key : e.open[k] # Absent => writers[k] # Absent
    BY EvictionsType DEF Live
  <2>3. KeysInv'
    BY <1>2, <2>1, <2>2, OtherKeysInv DEF WriteFails, CompleteInv
  <2>. QED
    BY <1>2, <2>3 DEF WriteFails, CompleteInv, OpenComplete, RenamedComplete
<1>3. CASE CloseFlush
  BY <1>3, CloseFlushCompleteInv
<1>4. CASE CloseFlushFails
  <2>1. KeysInv'
    BY <1>4, OtherKeysInv DEF CloseFlushFails, CompleteInv
  <2>. QED
    BY <1>4, <2>1 DEF CloseFlushFails, CompleteInv, OpenComplete, RenamedComplete
<1>5. CASE CloseStep
  BY <1>5, CloseStepCompleteInv
<1>6. CASE Abandon \/ Crash
  <2>1. KeysInv'
    BY <1>6, OtherKeysInv DEF Abandon, Crash, NoFile, CompleteInv
  <2>. QED
    BY <1>6, <2>1 DEF Abandon, Crash, CompleteInv, OpenComplete, RenamedComplete
<1>7. CASE Restart
  <2>1. Live(writers)' = {}
    BY <1>7 DEF Restart, NoFile, Live
  <2>2. /\ touched' = {} /\ temp_paths' = {}
        /\ phase' = "open" /\ due' = [k \in Key |-> <<>>]
    BY <1>7 DEF Restart
  <2>. QED
    BY <2>1, <2>2, FS_EmptySet DEF CompleteInv, KeysInv, OpenComplete, RenamedComplete
<1>8. CASE Finished \/ UNCHANGED vars
  BY <1>8 DEF Finished, vars, CompleteInv, KeysInv, OpenComplete, RenamedComplete, BelowLimit, Live
<1>. QED
  BY <1>1, <1>2, <1>3, <1>4, <1>5, <1>6, <1>7, <1>8 DEF Next

(* The streaming output is complete below the limit: as long as a run has  *)
(* seen fewer groups than max_writers, every file it will publish holds    *)
(* every frame it was asked to write, whatever the disk does.              *)
THEOREM CompleteBelowLimitAlways == Spec => []CompleteBelowLimit
<1>1. TypeInv /\ CompleteInv => CompleteBelowLimit
  BY DEF TypeInv, ClosedBeforeRename, CompleteInv, KeysInv, OpenComplete, RenamedComplete,
         CompleteBelowLimit, Content, Live, TypeOK
<1>. QED
  BY <1>1, InitTypeInv, NextTypeInv, InitCompleteInv, NextCompleteInv, PTL DEF Spec
-----------------------------------------------------------------------------
(* Refinement.  With fewer groups than max_writers there is no run that    *)
(* reaches the limit.                                                      *)
LEMMA AlwaysBelowLimit ==
  ASSUME TypeInv, IsFiniteSet(Key), Cardinality(Key) < MaxWriters
  PROVE  BelowLimit
<1>1. IsFiniteSet(touched) /\ Cardinality(touched) <= Cardinality(Key)
  BY FS_Subset DEF TypeInv, TypeOK
<1>2. Cardinality(touched) \in Nat /\ Cardinality(Key) \in Nat
  BY <1>1, FS_CardinalityType
<1>. QED
  BY <1>1, <1>2, MaxWritersAssumption DEF BelowLimit

(* A write takes a frame, or nothing if only L7 payload is written and the *)
(* packet has none.                                                        *)
LEMMA WriteTakes ==
  ASSUME TypeInv, NEW key \in Key, NEW pkt \in Packet, WritePacketForKey(key, pkt)
  PROVE  Promise!Take(key, pkt) \/ UNCHANGED <<due, final, Stage>>
<1>1. UNCHANGED <<final, phase>> /\ phase = "open"
  BY DEF WritePacketForKey
<1>2. Stage = "taking" /\ Stage' = "taking"
  BY <1>1 DEF Stage
<1>3. due' = [due EXCEPT ![key] = due[key] \o Frames(pkt)]
  BY DEF WritePacketForKey
<1>4. due[key] \in Seq(Packet)
  BY DEF TypeInv, TypeOK
<1>5. CASE Frames(pkt) = <<pkt>>
  <2>1. due[key] \o <<pkt>> = Append(due[key], pkt)
    BY <1>4, AppendIsConcat
  <2>. QED
    BY <1>1, <1>2, <1>3, <1>5, <2>1 DEF Promise!Take
<1>6. CASE Frames(pkt) = <<>>
  <2>1. due[key] \o <<>> = due[key]
    BY <1>4, PacketSeqs
  <2>2. due' = due
    BY <1>3, <1>6, <2>1 DEF TypeInv, TypeOK
  <2>. QED
    BY <1>1, <1>2, <2>2
<1>. QED
  BY <1>5, <1>6 DEF Frames

(* Below the limit every step of the writer is a step of the promise, or   *)
(* changes nothing it speaks of.                                           *)
LEMMA StepKeepsPromise ==
  ASSUME TypeInv, CompleteInv, BelowLimit, [Next]_vars
  PROVE  [Promise!Next]_<<due, final, Stage>>
<1>1. ASSUME clock + 1 \in Packet, NEW key \in Key, WritePacketForKey(key, clock + 1)
      PROVE  [Promise!Next]_<<due, final, Stage>>
  BY <1>1, WriteTakes DEF Promise!Next
<1>2. ASSUME NEW key \in Key, WriteFails(key)
      PROVE  Promise!Stop
  BY <1>2 DEF WriteFails, Stage, Promise!Stop
<1>3. CASE CloseFlush
  BY <1>3 DEF CloseFlush, Stage, Promise!Next, Promise!Seal
<1>4. CASE CloseFlushFails
  BY <1>4 DEF CloseFlushFails, Stage, Promise!Next, Promise!Stop
<1>5. ASSUME NEW key \in Key, DiscardNext(key) \/ SkipNext(key)
      PROVE  UNCHANGED <<due, final, Stage>>
  BY <1>5 DEF DiscardNext, SkipNext, Stage
<1>6. ASSUME NEW key \in Key, RenameNext(key)
      PROVE  Promise!Publish(key)
  <2>1. tmp[key] = due[key]
    BY <1>6 DEF RenameNext, CompleteInv, RenamedComplete
  <2>. QED
    BY <1>6, <2>1 DEF RenameNext, Stage, Promise!Publish
<1>7. CASE RenameFails
  BY <1>7 DEF RenameFails, Stage, Promise!Next, Promise!Stop
<1>8. CASE CloseDone
  BY <1>8 DEF CloseDone, Stage, Promise!Next, Promise!Stop
<1>9. CASE Abandon
  BY <1>9 DEF Abandon, Stage, Promise!Next, Promise!Stop
<1>10. CASE Crash
  BY <1>10 DEF Crash, Stage, Promise!Next, Promise!Stop
<1>11. CASE Restart
  BY <1>11 DEF Restart, Stage, Promise!Next, Promise!NextRun
<1>12. CASE Finished \/ UNCHANGED vars
  BY <1>12 DEF Finished, vars, Stage
<1>. QED
  BY <1>1, <1>2, <1>3, <1>4, <1>5, <1>6, <1>7, <1>8, <1>9, <1>10, <1>11, <1>12
     DEF Next, CloseStep, Promise!Next

(* With fewer groups than max_writers the writer implements SplitPromise:  *)
(* however evictions, buffers, failures, crashes and reruns interleave,    *)
(* each file goes from its old contents to all the frames of its group in  *)
(* one step, after the last frame was taken.                               *)
THEOREM SplitWriterKeepsPromise ==
  ASSUME IsFiniteSet(Key), Cardinality(Key) < MaxWriters
  PROVE  Spec => PromiseKept
<1>1. Init => Promise!Init
  BY DEF Init, NoFile, Stage, Promise!Init
<1>2. TypeInv /\ CompleteInv /\ [Next]_vars => [Promise!Next]_<<due, final, Stage>>
  BY AlwaysBelowLimit, StepKeepsPromise
<1>3. TypeInv /\ CompleteInv /\ [Next]_vars => [Promise!Next]_(Promise!vars)
  BY <1>2 DEF Promise!vars
<1>. QED
  BY <1>1, <1>3, InitTypeInv, NextTypeInv, InitCompleteInv, NextCompleteInv, PTL
     DEF Spec, PromiseKept, Promise!Spec
-----------------------------------------------------------------------------
(* The files.  An eviction touches the file of its victim alone, and       *)
(* appends to it what dropping the writer flushes.                         *)
LEMMA EvictionOfOne ==
  ASSUME TypeInv, NEW e \in Evictions, NEW k \in Key
  PROVE  \/ e.open[k] = writers[k] /\ e.tmp[k] = tmp[k]
         \/ /\ k \in Live(writers) /\ e.open[k] = Absent
            /\ \E b \in Dropped(writers[k].buffer) : e.tmp[k] = tmp[k] \o b
<1>1. PICK victim \in Victims(writers, MaxWriters) :
        e \in {[open |-> Without(writers, victim), tmp |-> t] : t \in TmpAfterEvict(victim)}
  BY DEF Evictions
<1>2. PICK t \in TmpAfterEvict(victim) : e = [open |-> Without(writers, victim), tmp |-> t]
  BY <1>1
<1>3. e.tmp = t /\ e.open = Without(writers, victim)
  BY <1>2
<1>4. CASE victim = Absent
  <2>1. Absent \notin Key
    BY AbsentAssumption
  <2>. QED
    BY <1>3, <1>4, <2>1 DEF TmpAfterEvict, Without, TypeInv, TypeOK
<1>5. CASE victim # Absent
  <2>1. victim \in Live(writers)
    BY <1>5, WritersStamped, VictimIsLive
  <2>2. PICK b \in Dropped(writers[victim].buffer) : t = [tmp EXCEPT ![victim] = @ \o b]
    BY <1>2, <1>5 DEF TmpAfterEvict
  <2>. QED
    BY <1>3, <2>1, <2>2, ZenonT(30) DEF Without, Live, TypeInv, TypeOK
<1>. QED
  BY <1>4, <1>5

(* What dropping a writer flushes: the buffer, or part of it on a disk     *)
(* that fails.                                                             *)
LEMMA DroppedIsCut ==
  ASSUME NEW s \in Seq(Packet), NEW b \in Dropped(s)
  PROVE  IF DiskMayFail THEN \E n \in 0..Len(s) : b = SubSeq(s, 1, n) ELSE b = s
BY FlagsAssumption DEF Dropped, Reached

(* A sequence is a prefix of itself. *)
LEMMA PrefixOfItself ==
  ASSUME NEW s \in Seq(Packet)
  PROVE  IsPrefix(s, s)
<1>1. <<>> \in Seq(Packet) /\ s \o <<>> = s
  BY PacketSeqs
<1>. QED
  BY <1>1, ConcatIsPrefix

(* An exact tail is one that may be cut short. *)
LEMMA ExactTail ==
  ASSUME NEW k \in Key, NEW s \in Seq(Packet), s \in Suffixes(due[k])
  PROVE  TailOfDue(s, k)
BY PrefixOfItself DEF TailOfDue
-----------------------------------------------------------------------------
(* What the temporary files hold.  TempFilesHoldTheirTail is not inductive *)
(* on a disk that fails: a write extends the file of an open writer, which *)
(* must therefore hold an exact tail, with nothing cut off at its end.     *)
(* Only the file of an evicted writer may be cut, and a write that comes   *)
(* to it later starts it again.                                            *)
ExactWhileOpen ==
  phase = "open" =>
    \A k \in Live(writers) :
      k \in temp_paths /\ tmp[k] \o writers[k].buffer \in Suffixes(due[k])

TailInv == ExactWhileOpen /\ TempFilesHoldTheirTail

(* The contents of a remembered path are a sequence of packets. *)
LEMMA ContentType ==
  ASSUME TypeInv, NEW k \in temp_paths \cup Live(writers)
  PROVE  Content(k) \in Seq(Packet)
<1>1. k \in Key /\ tmp[k] \in Seq(Packet)
  BY DEF TypeInv, TypeOK, FilesExist, Live
<1>2. CASE writers[k] = Absent
  BY <1>1, <1>2 DEF Content
<1>3. CASE writers[k] # Absent
  BY <1>1, <1>3, OpenFileTypes, PacketSeqs DEF Content
<1>. QED
  BY <1>2, <1>3

(* The key of a write: its file, old or new, holds an exact tail of what   *)
(* the run was asked to write, the new packet included.                    *)
LEMMA WrittenKeyTail ==
  ASSUME TypeInv, ExactWhileOpen, NEW key \in Key, NEW pkt \in Packet, phase = "open",
         NEW e \in Evictions, NEW out \in Buffered(FileAfter(e, key), Frames(pkt))
  PROVE  out.disk \o out.buffer \in Suffixes(due[key] \o Frames(pkt))
<1>. DEFINE file == FileAfter(e, key).disk \o FileAfter(e, key).buffer
<1>1. /\ Frames(pkt) \in Seq(Packet) /\ due[key] \in Seq(Packet)
      /\ Frames(pkt) = <<>> \/ \E p \in Packet : Frames(pkt) = <<p>>
  BY FramesType DEF Frames, TypeInv, TypeOK
<1>2. file \in Seq(Packet)
  BY FileAfterType, PacketSeqs DEF OpenFile
<1>3. file \in Suffixes(due[key])
  <2>1. CASE e.open[key] = Absent
    <3>1. FileAfter(e, key).disk = <<>> /\ FileAfter(e, key).buffer = <<>>
      BY <2>1 DEF FileAfter
    <3>2. file = <<>>
      BY <3>1, PacketSeqs
    <3>. QED
      BY <3>2 DEF Suffixes
  <2>2. CASE e.open[key] # Absent
    <3>1. e.open[key] = writers[key] /\ e.tmp[key] = tmp[key] /\ key \in Live(writers)
      BY <2>2, EvictionOfOne DEF Live
    <3>2. FileAfter(e, key).disk = tmp[key] /\ FileAfter(e, key).buffer = writers[key].buffer
      BY <2>2, <3>1 DEF FileAfter
    <3>. QED
      BY <3>1, <3>2 DEF ExactWhileOpen
  <2>. QED
    BY <2>1, <2>2
<1>4. out.disk \o out.buffer = file \o Frames(pkt)
  BY FileAfterType, FramesType, BufferedKeepsFrames
<1>. HIDE DEF file
<1>5. file \o Frames(pkt) \in Suffixes(due[key] \o Frames(pkt))
  BY <1>1, <1>2, <1>3, SuffixExtended
<1>. QED
  BY <1>4, <1>5

(* A key the write did not come to keeps its tail; if its writer was       *)
(* evicted the end of it may be missing from now on.                       *)
LEMMA OtherKeyTail ==
  ASSUME TypeInv, TailInv, phase = "open", NEW e \in Evictions, NEW k \in temp_paths
  PROVE  TailOfDue(IF e.open[k] = Absent THEN e.tmp[k] ELSE e.tmp[k] \o e.open[k].buffer, k)
<1>1. k \in Key /\ Content(k) \in Seq(Packet) /\ TailOfDue(Content(k), k)
  BY ContentType DEF TailInv, TempFilesHoldTheirTail, TypeInv, TypeOK
<1>2. CASE e.open[k] = writers[k] /\ e.tmp[k] = tmp[k]
  BY <1>1, <1>2 DEF Content
<1>3. ASSUME k \in Live(writers), e.open[k] = Absent,
             NEW b \in Dropped(writers[k].buffer), e.tmp[k] = tmp[k] \o b
      PROVE  TailOfDue(e.tmp[k], k)
  <2>1. /\ tmp[k] \in Seq(Packet) /\ writers[k].buffer \in Seq(Packet)
        /\ tmp[k] \o writers[k].buffer \in Suffixes(due[k])
    BY <1>1, <1>3, OpenFileTypes DEF TailInv, ExactWhileOpen, Live
  <2>2. CASE DiskMayFail
    <3>1. PICK n \in 0..Len(writers[k].buffer) : b = SubSeq(writers[k].buffer, 1, n)
      BY <1>3, <2>1, <2>2, DroppedIsCut
    <3>2. IsPrefix(e.tmp[k], tmp[k] \o writers[k].buffer)
      BY <1>3, <2>1, <3>1, CutIsPrefix
    <3>. QED
      BY <2>1, <2>2, <3>2 DEF TailOfDue
  <2>3. CASE ~DiskMayFail
    <3>1. b = writers[k].buffer
      BY <1>3, <2>1, <2>3, DroppedIsCut
    <3>. QED
      BY <1>3, <2>1, <2>3, <3>1 DEF TailOfDue
  <2>. QED
    BY <2>2, <2>3
<1>. QED
  BY <1>1, <1>2, <1>3, EvictionOfOne

(* write_packet_for_key keeps the tails.                                   *)
LEMMA WriteTailInv ==
  ASSUME TypeInv, TailInv, NEW key \in Key, NEW pkt \in Packet, WritePacketForKey(key, pkt)
  PROVE  TailInv'
<1>1. PICK e \in Evictions : \E out \in Buffered(FileAfter(e, key), Frames(pkt)) :
        /\ tmp' = [e.tmp EXCEPT ![key] = out.disk]
        /\ writers' = [e.open EXCEPT ![key] =
                         [last_access |-> lru_gen', buffer |-> out.buffer]]
  BY DEF WritePacketForKey
<1>2. PICK out \in Buffered(FileAfter(e, key), Frames(pkt)) :
        /\ tmp' = [e.tmp EXCEPT ![key] = out.disk]
        /\ writers' = [e.open EXCEPT ![key] =
                         [last_access |-> lru_gen', buffer |-> out.buffer]]
  BY <1>1
<1>3. /\ phase = "open" /\ temp_paths' = temp_paths \cup {key}
      /\ due' = [due EXCEPT ![key] = due[key] \o Frames(pkt)]
  BY DEF WritePacketForKey
<1>4. /\ e.tmp \in [Key -> Seq(Packet) \cup {Absent}]
      /\ e.open \in [Key -> WriterState \cup {Absent}]
      /\ \A k \in Key : e.open[k] # Absent => k \in Live(writers) /\ e.open[k] = writers[k]
  BY EvictionsType
<1>5. out.disk \in Seq(Packet) /\ out.buffer \in Seq(Packet)
  BY FileAfterType, FramesType, BufferedKeepsFrames
<1>6. /\ tmp'[key] = out.disk /\ writers'[key] = [last_access |-> lru_gen', buffer |-> out.buffer]
      /\ due'[key] = due[key] \o Frames(pkt)
  BY <1>2, <1>3, <1>4 DEF TypeInv, TypeOK
<1>7. writers'[key] # Absent /\ writers'[key].buffer = out.buffer
  <2>1. lru_gen' \in Nat
    BY DEF WritePacketForKey, TypeInv, TypeOK
  <2>2. writers'[key] \in WriterState
    BY <1>5, <1>6, <2>1 DEF WriterState
  <2>. QED
    BY <1>6, <2>2, AbsentAssumption
<1>8. ASSUME NEW k \in Key, k # key
      PROVE  tmp'[k] = e.tmp[k] /\ writers'[k] = e.open[k] /\ due'[k] = due[k]
  BY <1>2, <1>3, <1>4, <1>8 DEF TypeInv, TypeOK
<1>9. tmp'[key] \o writers'[key].buffer \in Suffixes(due'[key])
  BY <1>3, <1>6, <1>7, WrittenKeyTail DEF TailInv
<1>10. ExactWhileOpen'
  <2>. SUFFICES ASSUME NEW k \in Live(writers)'
                PROVE  /\ k \in temp_paths'
                       /\ tmp'[k] \o writers'[k].buffer \in Suffixes(due'[k])
    BY DEF ExactWhileOpen
  <2>1. CASE k = key
    BY <1>3, <1>9, <2>1
  <2>2. CASE k # key
    <3>1. k \in Key /\ k \in Live(writers) /\ e.open[k] = writers[k]
      BY <1>4, <1>8, <2>2 DEF Live
    <3>2. e.tmp[k] = tmp[k]
      BY <3>1, EvictionOfOne DEF Live
    <3>. QED
      BY <1>3, <1>8, <2>2, <3>1, <3>2 DEF TailInv, ExactWhileOpen
  <2>. QED
    BY <2>1, <2>2
<1>11. TempFilesHoldTheirTail'
  <2>0. TypeInv'
    BY WriteTypeInv
  <2>. SUFFICES ASSUME NEW k \in temp_paths'
                PROVE  tmp'[k] # Absent /\ TailOfDue(Content(k), k)'
    BY DEF TempFilesHoldTheirTail
  <2>1. k \in Key /\ k \in temp_paths \cup {key}
    BY <1>3, <2>0 DEF TypeInv, TypeOK
  <2>2. CASE k = key
    <3>1. tmp'[k] \o writers'[k].buffer \in Seq(Packet)
      BY <1>5, <1>6, <1>7, <2>2, PacketSeqs
    <3>2. TailOfDue(Content(k), k)'
      BY <1>7, <1>9, <2>2, <3>1, PrefixOfItself DEF Content, TailOfDue
    <3>3. tmp'[k] # Absent
      <4>1. out.disk # Absent
        BY <1>5, AbsentAssumption
      <4>. QED
        BY <4>1, <1>6, <2>2
    <3>. QED
      BY <3>2, <3>3
  <2>3. CASE k # key
    <3>1. k \in temp_paths
      BY <2>1, <2>3
    <3>2. TailOfDue(Content(k), k)'
      BY <1>3, <1>8, <2>1, <2>3, <3>1, OtherKeyTail DEF Content, TailOfDue
    <3>3. e.tmp[k] \in Seq(Packet)
      BY <2>1, <3>1, EvictionsType DEF TypeInv, FilesExist
    <3>4. tmp'[k] # Absent
      BY <1>8, <2>1, <2>3, <3>3, AbsentAssumption
    <3>. QED
      BY <3>2, <3>4
  <2>. QED
    BY <2>2, <2>3
<1>. QED
  BY <1>10, <1>11 DEF TailInv

(* flush_all brings each buffer to its file, which holds the tail then.    *)
LEMMA CloseFlushTailInv ==
  ASSUME TypeInv, TailInv, CloseFlush
  PROVE  TailInv'
<1>1. /\ phase = "open" /\ phase' = "renaming" /\ writers' = NoFile
      /\ UNCHANGED <<temp_paths, due>>
  BY DEF CloseFlush
<1>2. ASSUME NEW k \in temp_paths
      PROVE  tmp'[k] # Absent /\ TailOfDue(Content(k), k)'
  <2>1. k \in Key /\ Content(k) \in Seq(Packet) /\ TailOfDue(Content(k), k)
    BY <1>1, ContentType DEF TailInv, TempFilesHoldTheirTail, TypeInv, TypeOK
  <2>2. tmp'[k] = Content(k)
    BY <2>1 DEF CloseFlush, Content
  <2>3. writers'[k] = Absent
    BY <1>1, <2>1 DEF NoFile
  <2>. QED
    BY <1>1, <2>1, <2>2, <2>3, AbsentAssumption DEF Content, TailOfDue
<1>. QED
  BY <1>1, <1>2 DEF TailInv, ExactWhileOpen, TempFilesHoldTheirTail

(* The rename loop leaves the files it has not come to alone.              *)
LEMMA CloseStepTailInv ==
  ASSUME TypeInv, TailInv, CloseStep
  PROVE  TailInv'
<1>1. CASE RenameFails \/ CloseDone
  BY <1>1 DEF RenameFails, CloseDone, TailInv, ExactWhileOpen, TempFilesHoldTheirTail
<1>2. ASSUME NEW key \in Key, DiscardNext(key) \/ SkipNext(key) \/ RenameNext(key)
      PROVE  TailInv'
  <2>1. /\ phase = "renaming" /\ temp_paths' = temp_paths \ {key}
        /\ \A k \in Key \ {key} : tmp'[k] = tmp[k]
        /\ UNCHANGED <<writers, phase, due>>
    BY <1>2 DEF DiscardNext, SkipNext, RenameNext, TypeInv, TypeOK
  <2>2. ASSUME NEW k \in temp_paths'
        PROVE  tmp'[k] # Absent /\ TailOfDue(Content(k), k)'
    <3>1. k \in Key \ {key} /\ k \in temp_paths
      BY <2>1 DEF TypeInv, TypeOK
    <3>. QED
      BY <2>1, <3>1 DEF TailInv, TempFilesHoldTheirTail, Content, TailOfDue
  <2>. QED
    BY <2>1, <2>2 DEF TailInv, ExactWhileOpen, TempFilesHoldTheirTail
<1>. QED
  BY <1>1, <1>2 DEF CloseStep

(* Every step keeps the tails.                                             *)
LEMMA NextTailInv == TypeInv /\ TailInv /\ [Next]_vars => TailInv'
<1>. SUFFICES ASSUME TypeInv, TailInv, [Next]_vars
              PROVE  TailInv'
  OBVIOUS
<1>1. ASSUME clock + 1 \in Packet, NEW key \in Key, WritePacketForKey(key, clock + 1)
      PROVE  TailInv'
  BY <1>1, WriteTailInv
<1>2. ASSUME phase' \notin {"open", "renaming"}
      PROVE  TailInv'
  BY <1>2 DEF TailInv, ExactWhileOpen, TempFilesHoldTheirTail
<1>3. ASSUME NEW key \in Key, WriteFails(key)
      PROVE  TailInv'
  BY <1>2, <1>3 DEF WriteFails
<1>4. CASE CloseFlush
  BY <1>4, CloseFlushTailInv
<1>5. CASE CloseFlushFails \/ Abandon \/ Crash
  BY <1>2, <1>5 DEF CloseFlushFails, Abandon, Crash
<1>6. CASE CloseStep
  BY <1>6, CloseStepTailInv
<1>7. CASE Restart
  <2>1. temp_paths' = {} /\ Live(writers)' = {}
    BY <1>7 DEF Restart, NoFile, Live
  <2>. QED
    BY <2>1 DEF TailInv, ExactWhileOpen, TempFilesHoldTheirTail
<1>8. CASE Finished \/ UNCHANGED vars
  BY <1>8 DEF Finished, vars, TailInv, ExactWhileOpen, TempFilesHoldTheirTail,
              Live, Content, TailOfDue
<1>. QED
  BY <1>1, <1>3, <1>4, <1>5, <1>6, <1>7, <1>8 DEF Next

(* A new writer has no file. *)
LEMMA InitTailInv == Init => TailInv
BY DEF Init, NoFile, TailInv, ExactWhileOpen, TempFilesHoldTheirTail, Live

(* Through evictions, reopenings, buffer spills, crashes and reruns, every *)
(* file close will rename exists and holds an unbroken tail of what this   *)
(* run was asked to write under its key, cut at its end only where the     *)
(* disk may fail.                                                          *)
THEOREM TempFilesHoldTheirTailAlways == Spec => []TempFilesHoldTheirTail
<1>1. TailInv => TempFilesHoldTheirTail
  BY DEF TailInv
<1>. QED
  BY <1>1, InitTypeInv, NextTypeInv, InitTailInv, NextTailInv, PTL DEF Spec

(* A final file changes in the rename loop alone, when no writer is open,  *)
(* and becomes a whole tail of its group, the whole group below the limit. *)
THEOREM FinalFilesChangeWholeAlways == Spec => FinalFilesChangeWhole
<1>. DEFINE Whole == \A key \in Key :
              final'[key] # final[key] =>
                /\ phase = "renaming" /\ Live(writers) = {}
                /\ TailOfDue(final'[key], key)
                /\ BelowLimit => final'[key] = due[key]
<1>1. ASSUME TypeInv, TailInv, CompleteInv, NEW k \in Key, RenameNext(k)
      PROVE  Whole
  <2>1. /\ phase = "renaming" /\ k \in temp_paths
        /\ final' = [final EXCEPT ![k] = tmp[k]]
    BY <1>1 DEF RenameNext
  <2>2. Live(writers) = {} /\ writers[k] = Absent
    BY <1>1, <2>1 DEF TypeInv, ClosedBeforeRename, Live
  <2>3. TailOfDue(tmp[k], k)
    BY <1>1, <2>1, <2>2 DEF TailInv, TempFilesHoldTheirTail, Content
  <2>4. BelowLimit => tmp[k] = due[k]
    BY <1>1, <2>1 DEF CompleteInv, RenamedComplete
  <2>. QED
    BY <1>1, <2>1, <2>2, <2>3, <2>4 DEF TypeInv, TypeOK
<1>2. ASSUME UNCHANGED final
      PROVE  Whole
  BY <1>2
<1>3. TypeInv /\ TailInv /\ CompleteInv /\ [Next]_vars => [Whole]_vars
  <2>. SUFFICES ASSUME TypeInv, TailInv, CompleteInv, [Next]_vars
                PROVE  Whole
    OBVIOUS
  <2>1. (\E k \in Key : RenameNext(k)) \/ UNCHANGED final
    BY DEF Next, CloseStep, WritePacketForKey, WriteFails, CloseFlush, CloseFlushFails,
           DiscardNext, SkipNext, RenameFails, CloseDone, Abandon, Crash, Restart,
           Finished, vars
  <2>. QED
    BY <1>1, <1>2, <2>1
<1>. QED
  BY <1>3, InitTypeInv, NextTypeInv, InitTailInv, NextTailInv, InitCompleteInv,
     NextCompleteInv, PTL DEF Spec, FinalFilesChangeWhole
-----------------------------------------------------------------------------
(* What a run that closed has published.  On a disk that does not fail     *)
(* every key the run was called with has its path, until the rename loop   *)
(* has come to it; then its temporary file is gone.                        *)
Published(key) ==
  /\ tmp[key] = Absent
  /\ BelowLimit /\ due[key] # <<>> => final[key] = due[key]

PublishInv ==
  ~DiskMayFail =>
    /\ phase = "open" => touched \subseteq temp_paths
    /\ phase \in {"renaming", "closed"} => \A k \in touched \ temp_paths : Published(k)
    /\ phase = "closed" => temp_paths = {}

(* The rename loop publishes the file it comes to: it removes an L7 file   *)
(* only if no frame was due.                                               *)
LEMMA CloseStepPublishInv ==
  ASSUME TypeInv, CompleteInv, PublishInv, CloseStep
  PROVE  PublishInv'
<1>. SUFFICES ASSUME ~DiskMayFail
              PROVE  PublishInv'
  BY DEF PublishInv
<1>1. CASE CloseDone
  BY <1>1 DEF CloseDone, PublishInv, Published, BelowLimit
<1>2. CASE RenameFails
  BY <1>2 DEF RenameFails
<1>3. ASSUME NEW key \in Key, SkipNext(key)
      PROVE  PublishInv'
  BY <1>3 DEF SkipNext
<1>4. ASSUME NEW key \in Key, DiscardNext(key) \/ RenameNext(key)
      PROVE  PublishInv'
  <2>1. /\ phase = "renaming" /\ key \in temp_paths /\ temp_paths' = temp_paths \ {key}
        /\ UNCHANGED <<phase, due, touched>>
    BY <1>4 DEF DiscardNext, RenameNext
  <2>2. BelowLimit' <=> BelowLimit
    BY <2>1 DEF BelowLimit
  <2>3. BelowLimit => tmp[key] = due[key]
    BY <2>1 DEF CompleteInv, RenamedComplete
  <2>4. Published(key)'
    <3>1. CASE DiscardNext(key)
      <4>1. tmp[key] = <<>> /\ tmp' = [tmp EXCEPT ![key] = Absent]
        BY <3>1 DEF DiscardNext
      <4>. QED
        BY <2>1, <2>2, <2>3, <4>1 DEF Published, TypeInv, TypeOK
    <3>2. CASE RenameNext(key)
      BY <2>1, <2>2, <2>3, <3>2 DEF RenameNext, Published, TypeInv, TypeOK
    <3>. QED
      BY <1>4, <3>1, <3>2
  <2>5. ASSUME NEW k \in touched \ temp_paths
        PROVE  Published(k)'
    <3>1. Published(k) /\ k \in Key \ {key}
      BY <2>1 DEF PublishInv, TypeInv, TypeOK
    <3>2. tmp'[k] = tmp[k] /\ final'[k] = final[k]
      BY <1>4, <3>1 DEF DiscardNext, RenameNext, TypeInv, TypeOK
    <3>. QED
      BY <2>1, <2>2, <3>1, <3>2 DEF Published
  <2>. QED
    BY <2>1, <2>4, <2>5 DEF PublishInv
<1>. QED
  BY <1>1, <1>2, <1>3, <1>4 DEF CloseStep

(* Every step keeps what has been published. *)
LEMMA NextPublishInv == TypeInv /\ CompleteInv /\ PublishInv /\ [Next]_vars => PublishInv'
<1>. SUFFICES ASSUME TypeInv, CompleteInv, PublishInv, [Next]_vars
              PROVE  PublishInv'
  OBVIOUS
<1>1. ASSUME clock + 1 \in Packet, NEW key \in Key, WritePacketForKey(key, clock + 1)
      PROVE  PublishInv'
  BY <1>1 DEF WritePacketForKey, PublishInv
<1>2. ASSUME NEW key \in Key, WriteFails(key)
      PROVE  PublishInv'
  BY <1>2 DEF WriteFails, PublishInv
<1>3. CASE CloseFlush
  BY <1>3 DEF CloseFlush, PublishInv
<1>4. CASE CloseFlushFails \/ Abandon \/ Crash
  BY <1>4 DEF CloseFlushFails, Abandon, Crash, PublishInv
<1>5. CASE CloseStep
  BY <1>5, CloseStepPublishInv
<1>6. CASE Restart
  BY <1>6 DEF Restart, PublishInv
<1>7. CASE Finished \/ UNCHANGED vars
  BY <1>7 DEF Finished, vars, PublishInv, Published, BelowLimit
<1>. QED
  BY <1>1, <1>2, <1>3, <1>4, <1>5, <1>6, <1>7 DEF Next

(* On a disk that does not fail, a run that closes leaves no temporary     *)
(* file of its own, and below the limit every group that has frames has    *)
(* all of them in its final file.                                          *)
THEOREM ClosedPublishesAllAlways == Spec => []ClosedPublishesAll
<1>1. Init => PublishInv
  BY DEF Init, PublishInv
<1>2. PublishInv => ClosedPublishesAll
  BY DEF PublishInv, Published, ClosedPublishesAll
<1>. QED
  BY <1>1, <1>2, InitTypeInv, NextTypeInv, InitCompleteInv, NextCompleteInv,
     NextPublishInv, PTL DEF Spec
-----------------------------------------------------------------------------
(* Empty files.  An L7 file is tested when it is renamed; a PCAP file has  *)
(* the frame it was created for, unless the disk failed.                   *)
NonEmptyContents ==
  ~L7Mode /\ ~DiskMayFail /\ phase \in {"open", "renaming"} =>
    \A k \in temp_paths : Content(k) # <<>>

NonEmptyInv == NonEmptyContents /\ NoEmptyFinalFile

(* A write of PCAP frames leaves no file without a frame. *)
LEMMA WriteNonEmpty ==
  ASSUME TypeInv, NonEmptyContents, ~L7Mode, ~DiskMayFail,
         NEW key \in Key, NEW pkt \in Packet, WritePacketForKey(key, pkt)
  PROVE  \A k \in temp_paths' : Content(k)' # <<>>
<1>1. PICK e \in Evictions : \E out \in Buffered(FileAfter(e, key), Frames(pkt)) :
        /\ tmp' = [e.tmp EXCEPT ![key] = out.disk]
        /\ writers' = [e.open EXCEPT ![key] =
                         [last_access |-> lru_gen', buffer |-> out.buffer]]
  BY DEF WritePacketForKey
<1>2. PICK out \in Buffered(FileAfter(e, key), Frames(pkt)) :
        /\ tmp' = [e.tmp EXCEPT ![key] = out.disk]
        /\ writers' = [e.open EXCEPT ![key] =
                         [last_access |-> lru_gen', buffer |-> out.buffer]]
  BY <1>1
<1>3. phase = "open" /\ temp_paths' = temp_paths \cup {key}
  BY DEF WritePacketForKey
<1>4. /\ e.tmp \in [Key -> Seq(Packet) \cup {Absent}]
      /\ e.open \in [Key -> WriterState \cup {Absent}]
  BY EvictionsType
<1>5. out.disk \in Seq(Packet) /\ out.buffer \in Seq(Packet)
      /\ out.disk \o out.buffer # <<>>
  <2>1. Frames(pkt) = <<pkt>>
    BY DEF Frames
  <2>. DEFINE file == FileAfter(e, key).disk \o FileAfter(e, key).buffer
  <2>2. out.disk \o out.buffer = file \o <<pkt>> /\ file \in Seq(Packet)
    <3>1. out.disk \o out.buffer = file \o Frames(pkt)
      BY FileAfterType, FramesType, BufferedKeepsFrames
    <3>2. file \in Seq(Packet)
      BY FileAfterType, PacketSeqs DEF OpenFile
    <3>. QED
      BY <2>1, <3>1, <3>2
  <2>3. Len(file \o <<pkt>>) = Len(file) + 1
    BY <2>2, ConcatProperties
  <2>4. Len(file) \in Nat
    BY <2>2, LenProperties
  <2>5. out.disk \o out.buffer # <<>>
    BY <2>2, <2>3, <2>4, EmptySeq
  <2>. QED
    BY <2>5, FileAfterType, FramesType, BufferedKeepsFrames
<1>6. Content(key)' # <<>>
  <2>1. tmp'[key] = out.disk /\ writers'[key] = [last_access |-> lru_gen', buffer |-> out.buffer]
    BY <1>2, <1>4
  <2>2. writers'[key] # Absent
    <3>1. lru_gen' \in Nat
      BY DEF WritePacketForKey, TypeInv, TypeOK
    <3>2. writers'[key] \in WriterState
      BY <1>5, <2>1, <3>1 DEF WriterState
    <3>. QED
      BY <3>2, AbsentAssumption
  <2>. QED
    BY <1>5, <2>1, <2>2 DEF Content
<1>7. ASSUME NEW k \in temp_paths, k # key
      PROVE  Content(k)' # <<>>
  <2>1. k \in Key /\ Content(k) # <<>>
    BY <1>3, <1>7 DEF NonEmptyContents, TypeInv, TypeOK
  <2>2. tmp'[k] = e.tmp[k] /\ writers'[k] = e.open[k]
    BY <1>2, <1>4, <1>7, <2>1
  <2>3. CASE e.open[k] = writers[k] /\ e.tmp[k] = tmp[k]
    BY <2>1, <2>2, <2>3 DEF Content
  <2>4. ASSUME k \in Live(writers), e.open[k] = Absent,
               NEW b \in Dropped(writers[k].buffer), e.tmp[k] = tmp[k] \o b
        PROVE  Content(k)' # <<>>
    <3>1. b = writers[k].buffer
      BY <2>1, <2>4, OpenFileTypes, DroppedIsCut DEF Live
    <3>. QED
      BY <2>1, <2>2, <2>4, <3>1 DEF Content, Live
  <2>. QED
    BY <2>1, <2>3, <2>4, EvictionOfOne
<1>. QED
  BY <1>3, <1>6, <1>7

(* Every step keeps the files that are to be renamed from being empty.     *)
LEMMA NextNonEmptyInv == TypeInv /\ NonEmptyInv /\ [Next]_vars => NonEmptyInv'
<1>. SUFFICES ASSUME TypeInv, NonEmptyInv, [Next]_vars
              PROVE  NonEmptyInv'
  OBVIOUS
<1>1. ASSUME clock + 1 \in Packet, NEW key \in Key, WritePacketForKey(key, clock + 1)
      PROVE  NonEmptyInv'
  BY <1>1, WriteNonEmpty
     DEF WritePacketForKey, NonEmptyInv, NonEmptyContents, NoEmptyFinalFile
<1>2. ASSUME UNCHANGED final, phase' \notin {"open", "renaming"} \/ temp_paths' = {}
      PROVE  NonEmptyInv'
  BY <1>2 DEF NonEmptyInv, NonEmptyContents, NoEmptyFinalFile
<1>3. ASSUME NEW key \in Key, WriteFails(key)
      PROVE  NonEmptyInv'
  BY <1>2, <1>3 DEF WriteFails
<1>4. CASE CloseFlush
  <2>1. ASSUME NEW k \in temp_paths
        PROVE  Content(k)' = Content(k)
    <3>1. k \in Key
      BY DEF TypeInv, TypeOK
    <3>. QED
      BY <1>4, <3>1 DEF CloseFlush, NoFile, Content
  <2>. QED
    BY <1>4, <2>1 DEF CloseFlush, NonEmptyInv, NonEmptyContents, NoEmptyFinalFile
<1>5. CASE CloseFlushFails \/ Abandon \/ Crash \/ Restart \/ RenameFails \/ CloseDone
  BY <1>2, <1>5 DEF CloseFlushFails, Abandon, Crash, Restart, RenameFails, CloseDone
<1>6. ASSUME NEW key \in Key, DiscardNext(key) \/ SkipNext(key) \/ RenameNext(key)
      PROVE  NonEmptyInv'
  <2>1. /\ phase = "renaming" /\ key \in temp_paths /\ temp_paths' = temp_paths \ {key}
        /\ \A k \in Key \ {key} : tmp'[k] = tmp[k]
        /\ UNCHANGED <<writers, phase>>
    BY <1>6 DEF DiscardNext, SkipNext, RenameNext, TypeInv, TypeOK
  <2>2. NonEmptyContents'
    BY <2>1 DEF NonEmptyInv, NonEmptyContents, Content, TypeInv, TypeOK
  <2>3. CASE RenameNext(key)
    <3>1. L7Mode \/ ~DiskMayFail => tmp[key] # <<>>
      <4>1. writers[key] = Absent
        BY <2>1 DEF TypeInv, ClosedBeforeRename, Live
      <4>. QED
        BY <2>1, <2>3, <4>1 DEF RenameNext, NonEmptyInv, NonEmptyContents, Content
    <3>2. NoEmptyFinalFile'
      BY <2>3, <3>1 DEF RenameNext, NonEmptyInv, NoEmptyFinalFile, TypeInv, TypeOK
    <3>. QED
      BY <2>2, <3>2 DEF NonEmptyInv
  <2>4. CASE DiscardNext(key) \/ SkipNext(key)
    BY <2>2, <2>4 DEF DiscardNext, SkipNext, NonEmptyInv, NoEmptyFinalFile
  <2>. QED
    BY <1>6, <2>3, <2>4
<1>7. CASE Finished \/ UNCHANGED vars
  BY <1>7 DEF Finished, vars, NonEmptyInv, NonEmptyContents, NoEmptyFinalFile, Content
<1>. QED
  BY <1>1, <1>3, <1>4, <1>5, <1>6, <1>7 DEF Next, CloseStep

(* No run ever publishes an empty L7 file, nor an empty PCAP file unless   *)
(* the disk failed.                                                        *)
THEOREM NoEmptyFinalFileAlways == Spec => []NoEmptyFinalFile
<1>1. Init => NonEmptyInv
  <2>1. Absent # <<>>
    BY AbsentAssumption, EmptySeq
  <2>. QED
    BY <2>1 DEF Init, NoFile, NonEmptyInv, NonEmptyContents, NoEmptyFinalFile
<1>2. NonEmptyInv => NoEmptyFinalFile
  BY DEF NonEmptyInv
<1>. QED
  BY <1>1, <1>2, InitTypeInv, NextTypeInv, NextNonEmptyInv, PTL DEF Spec
=============================================================================

----------------------------- MODULE SplitWriter -----------------------------
(***************************************************************************)
(* The streaming output of output/split.rs: one buffered writer per group, *)
(* at most max_writers of them open, each writing a temporary file that    *)
(* close() renames to its final name.                                      *)
(*                                                                         *)
(* Files are sequences of frames.  A PCAP frame, or the L7 payload of a    *)
(* packet, is the packet's number.  A frame that reached the disk in part  *)
(* counts as not there, and so does the PCAP file header.  The file of a   *)
(* group is indexed by its key: module FileNames says which keys share a   *)
(* file name.  has_content is left out: no code reads it.                  *)
(***************************************************************************)
EXTENDS LruTable, Sequences, SequencesExt

CONSTANTS
  MaxWriters,   \* max_writers, given max_sessions (-p) by main.rs
  L7Mode,       \* output_mode = OutputMode::L7
  HasL7(_),     \* the packet has at least one byte of L7 payload
  DiskMayFail,  \* whether creating, writing and renaming may return an error
  Packet,       \* the packets; alone, this module writes 1, 2, ... while
                \* they are in Packet, which bounds the behaviours
  MaxRuns       \* bound: runs of the program in one behaviour

WriterState == [last_access : Nat, buffer : Seq(Packet)]

ASSUME AbsentAssumption == Absent \notin Key \cup WriterState \cup Seq(Packet)
ASSUME MaxWritersAssumption == MaxWriters \in Nat
ASSUME FlagsAssumption == L7Mode \in BOOLEAN /\ DiskMayFail \in BOOLEAN

VARIABLES
  writers,     \* group key -> WriterState or Absent
  temp_paths,  \* the keys whose (tmp, final) paths are remembered
  lru_gen,
  tmp,         \* on disk: group key -> contents of its temporary file or Absent
  final,       \* on disk: group key -> contents of its final file or Absent
  phase,       \* how far the writer, or the run that owns it, has come
  due,         \* history: what this run was asked to write under each key
  touched,     \* history: the keys this run was called with
  runs,        \* history: the runs started so far
  clock        \* history: the calls of write_packet_for_key in all runs

vars == <<writers, temp_paths, lru_gen, tmp, final, phase, due, touched, runs, clock>>

NoFile == [k \in Key |-> Absent]

(* SplitWriter::new, on an empty output directory. *)
Init ==
  /\ writers = NoFile
  /\ temp_paths = {}
  /\ lru_gen = 0
  /\ tmp = NoFile
  /\ final = NoFile
  /\ phase = "open"
  /\ due = [k \in Key |-> <<>>]
  /\ touched = {}
  /\ runs = 1
  /\ clock = 0
-----------------------------------------------------------------------------
(* What a packet adds to a file: a frame, or nothing when only L7 payload  *)
(* is written and the packet has none.                                     *)
Frames(pkt) == IF L7Mode /\ ~HasL7(pkt) THEN <<>> ELSE <<pkt>>

(* BufWriter: frames gather in the buffer, which goes to the file when the *)
(* next one does not fit; a frame as long as the buffer bypasses it.       *)
Buffered(file, frames) ==
  {[disk |-> file.disk, buffer |-> file.buffer \o frames],
   [disk |-> file.disk \o file.buffer, buffer |-> frames],
   [disk |-> file.disk \o file.buffer \o frames, buffer |-> <<>>]}

(* A flush that stops half way: the n frames that reached the file, and    *)
(* those that did not.                                                     *)
Reached(s, n) == SubSeq(s, 1, n)
Left(s, n) == SubSeq(s, n + 1, Len(s))

(* Dropping a BufWriter flushes it, and swallows the error: what reaches   *)
(* the file is then any part of the buffer, from its start.                *)
Dropped(buffer) ==
  IF DiskMayFail THEN {Reached(buffer, n) : n \in 0..Len(buffer)} ELSE {buffer}

(* maybe_evict: the open writers and the files that dropping the writer of *)
(* a victim leaves.                                                        *)
TmpAfterEvict(victim) ==
  IF victim = Absent
  THEN {tmp}
  ELSE {[tmp EXCEPT ![victim] = @ \o b] : b \in Dropped(writers[victim].buffer)}

Evictions ==
  UNION {{[open |-> Without(writers, victim), tmp |-> t] : t \in TmpAfterEvict(victim)} :
           victim \in Victims(writers, MaxWriters)}

(* Mutant: the file is opened to append, and kept if it exists. *)
FileAfterAppending(eviction, key) ==
  [disk   |-> IF eviction.tmp[key] = Absent THEN <<>> ELSE eviction.tmp[key],
   buffer |-> IF eviction.open[key] = Absent THEN <<>> ELSE eviction.open[key].buffer]

(* The file a key is written to: that of its writer, or one that           *)
(* File::create empties, whether or not this run wrote to it before.       *)
FileAfter(eviction, key) ==
  IF eviction.open[key] = Absent
  THEN [disk |-> <<>>, buffer |-> <<>>]
  ELSE [disk |-> eviction.tmp[key], buffer |-> eviction.open[key].buffer]

(* write_packet_for_key, when nothing fails. *)
WritePacketForKey(key, pkt) ==
  /\ phase = "open"
  /\ lru_gen' = lru_gen + 1
  /\ \E e \in Evictions : \E out \in Buffered(FileAfter(e, key), Frames(pkt)) :
       /\ tmp' = [e.tmp EXCEPT ![key] = out.disk]
       /\ writers' = [e.open EXCEPT ![key] =
                        [last_access |-> lru_gen', buffer |-> out.buffer]]
  /\ temp_paths' = temp_paths \cup {key}
  /\ due' = [due EXCEPT ![key] = @ \o Frames(pkt)]
  /\ touched' = touched \cup {key}
  /\ clock' = clock + 1
  /\ UNCHANGED <<final, phase, runs>>

(* write_packet_for_key returning an error, which ends the run: creating   *)
(* the file failed (before or after it was emptied), or passing the buffer *)
(* on to it stopped half way.                                              *)
WriteFails(key) ==
  /\ phase = "open" /\ DiskMayFail
  /\ lru_gen' = lru_gen + 1
  /\ \E e \in Evictions :
       \/ /\ e.open[key] = Absent
          /\ tmp' \in {e.tmp, [e.tmp EXCEPT ![key] = <<>>]}
          /\ writers' = e.open
       \/ /\ e.open[key] # Absent
          /\ \E n \in 0..Len(e.open[key].buffer) :
               /\ tmp' = [e.tmp EXCEPT ![key] = @ \o Reached(e.open[key].buffer, n)]
               /\ writers' = [e.open EXCEPT ![key].buffer = Left(e.open[key].buffer, n)]
  /\ phase' = "failed"
  /\ clock' = clock + 1
  /\ UNCHANGED <<temp_paths, final, due, touched, runs>>

(* Mutant: the writers are closed without a flush. *)
CloseWithoutFlush ==
  /\ phase = "open"
  /\ writers' = NoFile
  /\ phase' = "renaming"
  /\ UNCHANGED <<temp_paths, lru_gen, tmp, final, due, touched, runs, clock>>

(* The first half of close: flush_all, then every writer is closed.        *)
CloseFlush ==
  /\ phase = "open"
  /\ tmp' = [k \in Key |-> IF writers[k] = Absent THEN tmp[k]
                           ELSE tmp[k] \o writers[k].buffer]
  /\ writers' = NoFile
  /\ phase' = "renaming"
  /\ UNCHANGED <<temp_paths, lru_gen, final, due, touched, runs, clock>>

(* flush_all returning an error: the writers before the failing one, in    *)
(* the map's order, are flushed, and close renames nothing.                *)
CloseFlushFails ==
  /\ phase = "open" /\ DiskMayFail
  /\ \E bad \in Live(writers) : \E n \in 0..Len(writers[bad].buffer) :
       \E flushed \in SUBSET (Live(writers) \ {bad}) :
         LET reached(k) == CASE k \in flushed -> Len(writers[k].buffer)
                             [] k = bad       -> n
                             [] OTHER         -> 0
         IN /\ tmp' = [k \in Key |-> IF writers[k] = Absent THEN tmp[k]
                          ELSE tmp[k] \o Reached(writers[k].buffer, reached(k))]
            /\ writers' = [k \in Key |-> IF writers[k] = Absent THEN Absent
                 ELSE [writers[k] EXCEPT !.buffer = Left(writers[k].buffer, reached(k))]]
  /\ phase' = "failed"
  /\ UNCHANGED <<temp_paths, lru_gen, final, due, touched, runs, clock>>
-----------------------------------------------------------------------------
(* The second half of close, one file at a time in the map's order: an L7  *)
(* file of size 0 is removed, any other file takes its final name.  A      *)
(* failing metadata call reads as size 0, a failing remove is ignored, and *)
(* a failing exists() reads as false, which leaves the file where it is.   *)
DiscardNext(key) ==
  /\ phase = "renaming" /\ key \in temp_paths
  /\ L7Mode /\ (tmp[key] = <<>> \/ DiskMayFail)
  /\ tmp' = [tmp EXCEPT ![key] = Absent] \/ (DiskMayFail /\ tmp' = tmp)
  /\ temp_paths' = temp_paths \ {key}
  /\ UNCHANGED <<writers, lru_gen, final, phase, due, touched, runs, clock>>

SkipNext(key) ==
  /\ phase = "renaming" /\ key \in temp_paths /\ DiskMayFail
  /\ temp_paths' = temp_paths \ {key}
  /\ UNCHANGED <<writers, lru_gen, tmp, final, phase, due, touched, runs, clock>>

(* Mutants: renaming while writers are open, and empty L7 files too. *)
RenameNextEarly(key) ==
  /\ phase \in {"open", "renaming"} /\ key \in temp_paths
  /\ ~(L7Mode /\ tmp[key] = <<>>)
  /\ final' = [final EXCEPT ![key] = tmp[key]]
  /\ tmp' = [tmp EXCEPT ![key] = Absent]
  /\ temp_paths' = temp_paths \ {key}
  /\ UNCHANGED <<writers, lru_gen, phase, due, touched, runs, clock>>

RenameNextEvenEmpty(key) ==
  /\ phase = "renaming" /\ key \in temp_paths
  /\ final' = [final EXCEPT ![key] = tmp[key]]
  /\ tmp' = [tmp EXCEPT ![key] = Absent]
  /\ temp_paths' = temp_paths \ {key}
  /\ UNCHANGED <<writers, lru_gen, phase, due, touched, runs, clock>>

RenameNext(key) ==
  /\ phase = "renaming" /\ key \in temp_paths
  /\ ~(L7Mode /\ tmp[key] = <<>>)
  /\ final' = [final EXCEPT ![key] = tmp[key]]
  /\ tmp' = [tmp EXCEPT ![key] = Absent]
  /\ temp_paths' = temp_paths \ {key}
  /\ UNCHANGED <<writers, lru_gen, phase, due, touched, runs, clock>>

(* rename's error ends close: the files left keep their temporary names.   *)
RenameFails ==
  /\ phase = "renaming" /\ temp_paths # {} /\ DiskMayFail
  /\ temp_paths' = {}
  /\ phase' = "failed"
  /\ UNCHANGED <<writers, lru_gen, tmp, final, due, touched, runs, clock>>

CloseDone ==
  /\ phase = "renaming" /\ temp_paths = {}
  /\ phase' = "closed"
  /\ UNCHANGED <<writers, temp_paths, lru_gen, tmp, final, due, touched, runs, clock>>

(* The owner returns early and drops the writer, or an error above did:    *)
(* every BufWriter is flushed as it is dropped, nothing is renamed.        *)
Abandon ==
  /\ phase \in {"open", "failed"}
  /\ \E rest \in [Live(writers) -> UNION {Dropped(writers[k].buffer) : k \in Live(writers)}] :
       /\ \A k \in Live(writers) : rest[k] \in Dropped(writers[k].buffer)
       /\ tmp' = [k \in Key |-> IF writers[k] = Absent THEN tmp[k] ELSE tmp[k] \o rest[k]]
  /\ writers' = NoFile
  /\ temp_paths' = {}
  /\ phase' = "abandoned"
  /\ UNCHANGED <<lru_gen, final, due, touched, runs, clock>>

(* The process is killed: what is in memory is gone, the files stay.       *)
Crash ==
  /\ phase \in {"open", "renaming", "failed"}
  /\ writers' = NoFile
  /\ temp_paths' = {}
  /\ phase' = "crashed"
  /\ UNCHANGED <<lru_gen, tmp, final, due, touched, runs, clock>>

(* The program is run again on the same output directory (without -d).     *)
Restart ==
  /\ phase \in {"closed", "abandoned", "crashed"}
  /\ runs < MaxRuns
  /\ runs' = runs + 1
  /\ writers' = NoFile
  /\ temp_paths' = {}
  /\ lru_gen' = 0
  /\ phase' = "open"
  /\ due' = [k \in Key |-> <<>>]
  /\ touched' = {}
  /\ UNCHANGED <<tmp, final, clock>>

(* Every run is over. *)
Finished ==
  /\ phase \in {"closed", "abandoned", "crashed"} /\ runs = MaxRuns
  /\ UNCHANGED vars

CloseStep ==
  \/ \E key \in Key : DiscardNext(key) \/ SkipNext(key) \/ RenameNext(key)
  \/ RenameFails
  \/ CloseDone

Next ==
  \/ clock + 1 \in Packet /\ \E key \in Key : WritePacketForKey(key, clock + 1)
  \/ clock + 1 \in Packet /\ \E key \in Key : WriteFails(key)
  \/ CloseFlush
  \/ CloseFlushFails
  \/ CloseStep
  \/ Abandon
  \/ Crash
  \/ Restart
  \/ Finished

Spec == Init /\ [][Next]_vars

-----------------------------------------------------------------------------
(* Files and buffers hold packets, and each open file has a generation.    *)
TypeOK ==
  /\ writers \in [Key -> WriterState \cup {Absent}]
  /\ temp_paths \subseteq Key
  /\ lru_gen \in Nat
  /\ tmp \in [Key -> Seq(Packet) \cup {Absent}]
  /\ final \in [Key -> Seq(Packet) \cup {Absent}]
  /\ phase \in {"open", "renaming", "closed", "failed", "abandoned", "crashed"}
  /\ due \in [Key -> Seq(Packet)]
  /\ touched \subseteq Key
  /\ runs \in Nat
  /\ clock \in Nat

(* At most max_writers files are open at a time (one when max_writers is   *)
(* 0): the limit the eviction is there to keep.                            *)
WritersBounded ==
  Cardinality(Live(writers)) <= IF MaxWriters = 0 THEN 1 ELSE MaxWriters

(* What a group's temporary file will hold once its buffer is flushed.     *)
Content(key) ==
  IF writers[key] = Absent THEN tmp[key] ELSE tmp[key] \o writers[key].buffer

(* An unbroken tail of what the run was asked to write under the key; cut  *)
(* short at its end where the disk may fail and the error was swallowed.   *)
TailOfDue(file, key) ==
  IF DiskMayFail
  THEN \E tail \in Suffixes(due[key]) : IsPrefix(file, tail)
  ELSE file \in Suffixes(due[key])

BelowLimit == Cardinality(touched) < MaxWriters

(* Through evictions, reopenings and buffer spills, every file close will  *)
(* rename exists, holds frames of its own group only, in order, without a  *)
(* gap, a repetition or a frame left over from an earlier run.             *)
TempFilesHoldTheirTail ==
  phase \in {"open", "renaming"} =>
    \A key \in temp_paths :
      /\ tmp[key] # Absent
      /\ TailOfDue(Content(key), key)

(* While the run has seen fewer groups than max_writers, every file holds  *)
(* every frame of its group, even on a disk that fails: no error can have  *)
(* been swallowed, since nothing was evicted.                              *)
CompleteBelowLimit ==
  phase \in {"open", "renaming"} /\ BelowLimit =>
    \A key \in temp_paths : Content(key) = due[key]

(* A final file changes only in the rename loop of close, when no writer   *)
(* is open, and then from its old contents to a whole tail of its group,   *)
(* the whole group below the limit.                                        *)
FinalFilesChangeWhole ==
  [][\A key \in Key :
       final'[key] # final[key] =>
         /\ phase = "renaming" /\ Live(writers) = {}
         /\ TailOfDue(final'[key], key)
         /\ BelowLimit => final'[key] = due[key]]_vars

(* A run that closes leaves no temporary file of its own behind, and below *)
(* the limit a file with all its frames for each group that has any.       *)
ClosedPublishesAll ==
  phase = "closed" /\ ~DiskMayFail =>
    \A key \in touched :
      /\ tmp[key] = Absent
      /\ BelowLimit /\ due[key] # <<>> => final[key] = due[key]

(* close never publishes an empty L7 file, and no empty PCAP file either   *)
(* unless the disk failed.                                                 *)
NoEmptyFinalFile ==
  L7Mode \/ ~DiskMayFail => \A key \in Key : final[key] # <<>>

-----------------------------------------------------------------------------
(* Below the limit the writer implements SplitPromise.  The state of the   *)
(* promise is what was asked, the final files and the phase.               *)
Stage ==
  CASE phase = "open"     -> "taking"
    [] phase = "renaming" -> "publishing"
    [] OTHER              -> "over"

Promise == INSTANCE SplitPromise
             WITH Frame <- Packet, asked <- due, file <- final, stage <- Stage

PromiseKept == Promise!Spec
=============================================================================

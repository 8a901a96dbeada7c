# RSplitCap in TLA+

RSplitCap splits a packet capture into one file per session, flow, host, time
slice and so on, or stores it, grouped, in an indexed archive from which flows
are extracted later. This directory models the program in TLA+, model-checks
the models with TLC, and proves theorems about the flow table, the split writer,
the pipeline, the grouping, archives and their extraction, the Python objects, the
readers and the dissection of packets with TLAPS.
Paths such as `main.rs:242` are below `src/src/`; `README.md:109` is the
repository's README.

Contents: [the system](#1-the-system), [modules](#2-modules-and-the-code-they-model),
[runs](#3-runs), [fairness](#4-fairness), [proofs](#5-proofs),
[divergences](#6-divergences-from-what-the-repository-says),
[what is not modelled](#7-what-is-not-modelled), [plan](#8-plan).

## 1. The system

### Components, their state and their operations

| component | code | state | operations | correct when |
|---|---|---|---|---|
| Readers | `parser/` | data, position; interface table (PCAP-NG) | `open_reader`, `next_packet` | packets are the records of the file, in order; a cut file is an error or ends, nothing is invented |
| Dissection | `packet.rs` | none | `Packet::from_pcap_record`, `l7_data` | five-tuple, MACs and payload are those the sender put into the frame; a cut frame invents none |
| Filter | `filter.rs` | two lists | `add_ip`, `add_port`, `matches` | keeps or drops both directions of a conversation |
| Strategies | `flow/strategy.rs`, `FiveTuple::session_key` | none | `group_keys` | every packet gets its groups; strategies refine each other |
| Flow manager | `flow/mod.rs` | key -> flow, `next_flow_id`, `lru_gen`, `global_pkt_idx` | `classify`, `add_packet`, `maybe_evict`, `into_flows` | bounded; nothing lost below the limit; ids unique |
| Split writer | `output/split.rs` | key -> open BufWriter, remembered paths, `lru_gen`; temporary and final files on disk | `write_packet_for_key`, `maybe_evict`, `flush_all`, `close` | final files appear only whole, and only after a run that succeeded |
| Pipelined split | `main.rs:242` | a producer thread, a channel of 4096, the consumer | parse, send, receive, classify, write, join, close | no packet lost between threads; no publication after an error; always ends |
| Legacy split | `main.rs:154`, `output/mod.rs` | a flow manager, one file at a time | read all, then write each flow | whole files, one per session |
| Archive writer | `archive/writer.rs`, `main.rs:393` | flows with packet offsets, `file_pos` | `create`, `write_packet`, `finalize` | an archive under its final name can be read back completely |
| Archive format | `archive/mod.rs` | none | offset lists, flow table, indexes, header and footer | decoding undoes encoding |
| Archive reader | `archive/reader.rs`, `run_extract`, `run_pipe`, `python/rsplit_pipe_reader.py` | mapped file, entries, indexes | `open`, `find_by_*`, `get_flow`, `extract_*`, listing, piping | the flows found are those that match, with all their packets |
| Command line | `cli.rs`, `main.rs:31-137` | arguments | `normalize_args`, input collection | |
| Python bindings | `python/mod.rs` | a temporary archive per process, the maps of its `Archive` and `Flow` objects | `create_archive`, `split`, `pipe_archive`, `read_flows`, `Drop` | objects keep reading what they were made from; temporary archives go |

### How they interact

`main` takes the inputs one after the other. In split mode the producer thread
owns the reader and sends each packet through a bounded channel; the main thread
filters it, asks the strategy for its keys, and for each key calls
`FlowManager::add_packet` and then `SplitWriter::write_packet_for_key`. Both keep
a hash map with the same least-recently-used eviction and the same limit (`-p`).
When the channel is drained the main thread joins the producer, and only if that
returned without an error calls `SplitWriter::close`, which flushes all writers
and renames the temporary files. With `--no-pipeline` the whole capture goes into
a FlowManager first, and each flow left in it is then written. In archive mode
packets are appended to one temporary file, the offsets of each flow stay in
memory, and `finalize` appends the offset lists, flow table, indexes and footer
before the rename. Extraction maps the archive, combines filters through the
indexes, and writes each flow's frames, or sends all flows through a pipe. The
Python module does the same inside another program, in any number of processes,
and its objects outlive the files they came from.

### What is hard to test

* Two threads: the producer may be waiting in `send`, may fail, panic or finish
  at any point of the consumer's work, and the consumer may leave early.
* Evictions: a group that comes back after its writer was closed is written to a
  file that `File::create` empties; the victim may be the very group of the
  packet in hand.
* Errors that are swallowed: the flush of a dropped `BufWriter`, a failing
  `metadata` or `exists` in `close`.
* Kills and reruns in an output directory with leftovers.
* Counted positions: `file_pos`, LEB128 lengths and index counts are never read
  back from the file.
* Names: groups, stems and sanitised keys may map to one file, and the calls of
  one Python process share one temporary archive.
* Offsets in frames: header lengths and extension chains are added up before the
  end of the captured bytes is looked at, and a frame may be cut anywhere.

`PROJECT.json` lists the hazards with their lines and the properties that would
notice them going wrong. Some that a correct property cannot speak of, because
the wrong outcome is simply what the code does, are in
[section 6](#6-divergences-from-what-the-repository-says), and those outside the
models in [section 7](#7-what-is-not-modelled).

## 2. Modules and the code they model

```
LruTable ------ FlowManager ------+--- LegacySplit
      \-------- SplitWriter ---+  |
                   |           +--+--- SplitPipeline
              SplitPromise (abstract)
GroupStrategy -+- Grouping
FileNames -----+
        \-------- LegacySplit (above)
OffsetCodec, SecondaryIndex - ArchiveFormat -+- ArchiveWriter -+
                                             +- ExtractQuery --+- ArchiveRoundTrip
                                                               |
                                               ArchivePromise (abstract)
PacketDissect -+- PcapReader ----+- CaptureReader
               \- PcapngReader --+
                  Encapsulation -/
PythonArchives
SequenceFacts -+- FlowProofs (FlowManager and LegacySplit)
               +- SplitWriterProofs
               +- SplitPipelineProofs
               +- GroupingProofs
               +- ArchiveProofs
               +- PythonArchivesProofs
               \- CaptureReaderProofs
```

Every module `MCx` gives the constants of `x` small values for TLC; the
configurations `MCx*.cfg` name the properties. Operators marked "Mutant" are
plausible bugs; none is used by a specification. They exist so that each
property can be seen to fail when the code it talks about is wrong.

**LruTable** (`flow/mod.rs:98`, `output/split.rs:169`). The two `maybe_evict`
functions have one body. A map is a function on all keys with `Absent` where the
map has no entry. `Evictable` keeps the code's test `len() < max`, made *before*
the insertion and also for a key that is present; entries that tie are all
candidates because a hash map is iterated in any order.

**FlowManager** (`flow/mod.rs`). `flows`, `next_flow_id`, `lru_gen` are the
fields of the struct; one action, `AddPacket`. `given` and `last_use` are history
variables. `packet_count` is `Len(packets)`; byte totals and time stamps are
left out. Instantiated in SplitPipeline, extended by LegacySplit.

**SplitWriter** (`output/split.rs`). Files are sequences of frames; `tmp` and
`final` are the disk. `WritePacketForKey` is the whole method: eviction (the
victim's buffer is flushed by its drop), opening or emptying the file, the write
through `BufWriter` (`Buffered` gives the three things a `BufWriter` may do with
its buffer). `close` is `CloseFlush` followed by one step per remembered path
(`DiscardNext`, `SkipNext`, `RenameNext`, `RenameFails`, `CloseDone`), because
the process may be killed, and the disk may fail, between two of them. `Abandon`
is an early return of the owner, `Crash` a kill, `Restart` another run in the
same directory.

**SplitPromise** is the abstract specification: a run takes frames, then replaces
each group's file by all its frames, or stops. Below the limit SplitWriter
implements it (`PromiseKept`, with `due` for the frames asked for).

**GroupStrategy** (`flow/strategy.rs`, `packet.rs:19`, `filter.rs:37`) and
**FileNames** (`sanitize_key`, `sanitize_filename`, the `format!` calls, and the text
`std` writes for an IPv4, IPv6 or IPv4-mapped address) are operators. A name is a
sequence of separators and numerals, and a numeral is what its digits say in
hexadecimal: the octet 16 and the group `16` are one text, as in the code. **Grouping** is the loop that all modes run: filter,
classify, hand on under each key, without a limit on the groups. What it
gathers is what the modes have to deliver.

**SplitPipeline** (`run_split_pipelined`, `main.rs:242`) composes FlowManager and
SplitWriter with the producer, the channel and the consumer. One action per
statement that another thread, an error or a kill can come between.

**LegacySplit** (`run_split_legacy`, `output/mod.rs`, the loop of `main`) takes
several inputs, options `-s`, `-y`, `-d`, and names files as the legacy writers
do: by the sanitised session of the *first packet* of the flow (`NameOf`), which
different IPv6 sessions may share. It extends FlowManager, whose
theorems are of use here; its own specification is `LegacySpec`.

**OffsetCodec**, **SecondaryIndex**, **ArchiveFormat** (`archive/mod.rs`,
`archive/reader.rs`) are operators: a file is a sequence of cells, an offset
counts cells. A LEB128 digit has `Base` values (128 in the code, 3 in the
checks) so that numbers of one, two and three digits occur in small files.
`leb128_bytes_len`, by which the decoder advances, is modelled apart from the
decoder, as in the code.

**ArchiveWriter** (`archive/writer.rs`, `run_archive`): `WritePacket`, then one
action per region of `finalize`, the rename, failures, kills and reruns. That no file
is there yet (`NoArchive`) is an empty one, which opens no better.

**ExtractQuery** (`run_extract`, `run_pipe`, `rsplit_pipe_reader.py`): the four
modes of extraction. One action per filter, per extracted and per piped flow, and
one each for `--extract` and `--list-flows`; a disk or a pipe that fails in the
middle of any of them.

**ArchiveRoundTrip** extends both, so that extraction is judged by the
packets the archiver was given and not by the bytes in between.
**ArchivePromise** is what both together promise: groups become an archive in
one step or not at all, and only whole groups of one archive come out.
`ArchivePromiseKept` is the refinement; what is in an archive is, by the mapping,
what the reader would get out of its bytes.

**PacketDissect** (`packet.rs`) has an operator on sequences of byte values for
each function: Ethernet with a VLAN tag, 802.11 with and without radiotap, raw
IP, IPv4 with options, the chain of IPv6 extension headers, TCP and UDP.
**Encapsulation** is the other direction, taken from the standards and not from
the code: the frames that stations send. Dissection is compared with it.

**PcapReader**, **PcapngReader** (`parser/`) read a file that was chosen in the
initial state: for PCAP every sequence of records cut at every place, for
PCAP-NG every sequence of blocks; each packet is dissected. **CaptureReader** is
`open_reader` over both.

**PythonArchives** (`python/mod.rs`) is a set of processes with `Archive` and
`Flow` objects over one file system. File names lead to inodes, objects map
inodes, and a file that is removed or replaced lives on as long as one is mapped
(`Freed` gives the others back). A call is two or three actions, because another
process may come between them, and an exception or a kill may end it there.

Mutation of data that no property looks at (time stamps, link types of outputs,
byte totals, log lines, progress messages) is left out everywhere.

## 3. Runs

| run | what it shows | bounds |
|---|---|---|
| MCFlowManager | the table stays within `-p`; live flows are the most recently used; each holds an unbroken tail; nothing is lost below the limit; no two flows share an id | 4 keys over a limit of 3, 7 packets in any order |
| MCSplitWriter_pcap | PCAP output on a working disk with kills: open files bounded, no gaps or leftovers in temporary files, final files change only as a whole, a closed run leaves no temporary file | 3 keys on 2 writers, 6 packets, 2 runs |
| MCSplitWriter_l7 | L7 output where each call may fail: complete below the limit, no empty final file, refinement of SplitPromise | 3 keys on 4 writers, 4 packets, 2 runs |
| MCGrouping | groups cover the capture; sessions are conversations; strategies nest; the filter keeps conversations whole; `packets n` buckets are full; IPv4 groups have file names of their own, and so have hosts, but for an IPv4-mapped one and its twin | 12 packets with IPv4, IPv6, IPv4-mapped addresses, no IP, captures of 3; all 9 strategies; 6 filters |
| MCSplitPipeline | end to end, with parse errors, panics, and a disk that works or fails: the channel is faithful, success means the right files, table and writers evict in step, publication only after the whole capture, the run ends | captures of up to 4 of 5 packets by session, 3 by filtered host and by `packets 2`, 2 by `packets 0`; channel of 2; `-p 2` |
| MCSplitPipeline_host_limit | **violation**: packets are lost in a run that reports success (finding 1) | up to 3 packets by host, channel of 1, `-p 2`, working disk |
| MCArchiveRoundTrip | cut lists decode to a prefix; an archive under its final name is whole through failures, kills and a rerun; the indexes answer as a scan would; filters intersect while none is empty; the files, the pipe and the list are the flows meant; refinement of ArchivePromise | 5 packets, 3 frames in the first run and 1 in the second; with and without indexes; 20 command lines of up to 4 filters; a disk that works or fails |
| MCArchiveRoundTrip_combination | **violation**: flows outside the combination are extracted (finding 2) | one run of 2 frames |
| MCCaptureReader | PCAP: whole records only, cut data is an error. PCAP-NG: packet blocks in order, none lost before the end, each with the time and link type of its own interface. Frames: dissection undoes encapsulation; a cut invents no field and never makes header bytes payload | 3 records cut anywhere; frames of 102 shapes, each captured to every length; 4 blocks of 14 kinds |
| MCCaptureReader_l7 | **violation**: the payload of a cut frame starts beyond its end (finding 3) | one conversation over IPv6, cut anywhere |
| MCLegacySplit | files are whole; each session whose name is its own has its file with all frames, and there are no other files | captures of up to 4 and 1 of 5 packets, IPv6 sessions of one name among them, `-p 3`, session or host, `-y`, `-d`, one stem or two, failing disk |
| MCPythonArchives | objects keep the capture they were made from; temporary archives go with their `Archive`; an output path leads to the archive of the last call that returned | 2 processes, 1 output path, 2 captures, 2 objects alive at a time, 4 inodes |

Why the bounds are enough. The eviction depends on the comparison of the number
of live keys with the limit and on the order of last uses: one key more than the
limit, and enough packets for a key to be evicted, return and be evicted again,
reach each combination. A reopened file needs three writes to one key and two to
others. The channel behaves differently only when empty, when full and between;
a capacity of two has all three. A rerun adds leftovers of one earlier
run, of which each further one is another instance. Codec numbers cross every
digit boundary up to three digits. Frames are built from headers whose lengths
are counted, not listed: the shapes have each length field at its least and
beyond it (options, extension headers of one and two units, eight and nine of
them in a chain), and every cut. Python objects of two processes that share
nothing but file names meet in pairs: one call, one object, and a call or drop in
between. For all safety properties of `FlowManager`, `SplitWriter`,
`PythonArchives`, `SplitPipeline`, `ArchiveWriter`, `ArchiveRoundTrip`, `Grouping` and
`CaptureReader`, the theorems below lift the bounds altogether.

Deadlock is checked in all runs: each specification has an explicit step for the
state in which the program has ended. `SYMMETRY` is used in three runs without
liveness: keys are interchangeable in `MCFlowManager` and `MCSplitWriter_pcap`,
processes in `MCPythonArchives`.

What the runs do not say: on a disk that fails an eviction may swallow an error,
so `SuccessMeansFiles` speaks of runs whose disk works, as the last part of
`FilesAreTheFlows` does.
`NoEmptyFinalFile` excludes PCAP files on a failing disk: there a header that
was not flushed may indeed leave a final file without frames.

## 4. Fairness

Safety runs assume none. `Terminates` assumes weak fairness of `Producer` and of `Consumer`: the
operating system schedules both threads; each step is enabled until it is taken
(a `send` on a full channel is not enabled, and nothing is assumed of it). That
a blocked `send` returns when the receiver is dropped is part of the model
(`SendFails`), as it is of the channel.

## 5. Proofs

`FlowProofs`, `SplitWriterProofs` and `SplitPipelineProofs` each begin with what they
need of the eviction, `LruTable`: a nonempty table whose entries
carry generations has a least recent one (every set of naturals has a least
element, so the set of keys need not be finite), a victim is live, below the limit
there is none, an insertion after an eviction stays within the limit, and two
tables with the same keys and generations, all different, have the same victim
(`SameVictim`). `SequenceFacts` has lemmas about sequences: a tail, extended by
what comes next, is a tail again; what a cut leaves is a prefix, and falls within
one part or the other of a concatenation (`CutFalls`); what `FlattenSeq` and the
folds of the community modules return, and that they take in one element more at
a time; that a file which has cells at a place (`HasAt`) still has them there when
more is appended, and gives them back when it is read.

**Induction over data.** The library's induction theorems take an operator, which
no installed prover can instantiate. Where a proof needs one, it goes through
*least counterexamples*: a set of naturals that is not empty has a least element
(`LeastNatural`), and the set is that of the lengths at which a definite statement
fails. A recursive function is opened the same way: its definition is a `CHOOSE`,
and `DescentExists` and `CountExists` show, for the two shapes of recursion the
codec has, that there is something to choose. So `FlattenSeq`, the fields of
`to_le_bytes`, LEB128, the decoder's loop and the scan of an index are proved about
for every input. `SelectSeq` remains closed to the prover; what is defined by it
stays with TLC.

`FlowProofs` proves the type invariant and the five invariants that the
flow table's run checks, for **every** set of keys, set of packets and limit, zero
included:

| theorem | statement | argument |
|---|---|---|
| FlowManagerTypeOK | `Spec => []TypeOK` | inductive |
| FlowTableBounded | `Spec => []TableBounded` | `BoundInv`: the live flows are a finite set and within the limit |
| EvictionIsLRU | `Spec => []LiveAreMostRecent` | `RecentInv`: no generation is ahead of the counter and no two keys share one, so the victim, of the lowest, is strictly older than every flow that stays |
| FlowIdsAreUnique | `Spec => []FlowIdsUnique` | inductive with `TypeOK`: the next id is above all live ones |
| FlowsKeepTheirTail | `Spec => []FlowsHoldTheirTail` | inductive; a suffix, extended by the packet, is a suffix of the extended sequence (`SuffixAppend`) |
| NothingLostBelowLimit | `Spec => []CompleteBelowLimit` | `CompleteInv`: the touched keys are finitely many, live keys are touched, and an untouched key was given nothing; so below the limit there is no victim (`FewTouchedNoVictim`) |

All rest on `AddPacketAdds`, which says what an add does to each flow once the
victim is known. Assumptions: `Absent` is no key and no flow, `MaxSessions` is a
natural number.

The same module goes on with LegacySplit, for **every** sequence of inputs, strategy,
filter, limit and pattern of failures:

| theorem | statement | argument |
|---|---|---|
| FilesAreWholeAlways | `LegacySpec => []FilesAreWhole` | `LegacyInv`, below: at the end of an input each flow's frames are an unbroken tail of its group's, and whole they are renamed |
| EverySessionHasItsFileAlways | `LegacySpec => []EverySessionHasItsFile` | `Written`, part of `LegacyInv`: the groups without a flow have their files if their names are their own, each file is that of a group, and no flow to come replaces the file of a group with a name of its own (`NamesApart`) |

`LegacyInv` follows an input from end to end. While it is read, the adds made so far
are those its packets lead to, less the keys left of the packet in hand (`CallsSoFar`),
the flow table's invariants hold, each flow's frames are a tail of those added under its key
(`HoldsTail`), and each flow begins with a packet that was read under its key (`UnderInv`:
of this its file is named). While it is written, what is left of the table still is
what the files must hold (`WriteInv`), and the files of the inputs before stay
(`DirInv`): other stems, other names. An L7 file may be empty and is then removed,
which is why `HoldsTail` says that a PCAP file never is.
Assumptions: a command line is a sequence of inputs, at least one; the keys of a
packet are keys; by session, packets of one session have one key, and so have those of none
(`SessionsAssumption`, what `SessionKeyIsConversation` shows of `group_keys`); and the
text of a session is not that of a flow id. That different sessions have different names is
*not* assumed: the theorem says which sessions have their file, those whose name no other
session of the input has (`Own`). No two IPv4 sessions share one (`GroupsHaveTheirFileAlways`
shows it of the same texts). All are `ASSUME`s that TLC evaluates.

`SplitWriterProofs` proves, for **every** set of keys, set of packets, limit,
output mode and pattern of disk failures:

| theorem | statement | argument |
|---|---|---|
| TypeCorrect | `Spec => []TypeInv` | `TypeInv` = `TypeOK` and: every remembered or open file exists (`FilesExist`), and no writer is open once `close` renames (`ClosedBeforeRename`). `TypeOK` alone is not inductive: a flush appends to the file of an open writer, which must exist. |
| SplitWriterTypeOK | `Spec => []TypeOK` | from TypeCorrect |
| OpenWritersBounded | `Spec => []WritersBounded` | `BoundInv`: the live writers are a finite set and within the limit; `Key` may be infinite |
| CompleteBelowLimitAlways | `Spec => []CompleteBelowLimit` | `CompleteInv`: live and remembered keys were touched (`KeysInv`), so below the limit there is no victim; each open or remembered file, with its buffer, is what was asked (`OpenComplete`); and so it stays while `close` renames (`RenamedComplete`) |
| SplitWriterKeepsPromise | if `Key` is finite and smaller than `MaxWriters`, `Spec => PromiseKept` | each action is a step of SplitPromise or a stutter, using `CompleteInv` at the rename |

The rest of the module has the same generality; every property of the two
MCSplitWriter runs is a theorem:

| theorem | statement | argument |
|---|---|---|
| TempFilesHoldTheirTailAlways | `Spec => []TempFilesHoldTheirTail` | `TailInv`: the file of an *open* writer, with its buffer, is an exact tail of what was asked (`ExactWhileOpen`); only the file of an evicted one may be cut at its end, and a write that comes to it later starts it again |
| FinalFilesChangeWholeAlways | `Spec => FinalFilesChangeWhole` | only the rename changes a final file, and by `ClosedBeforeRename`, `TailInv` and `CompleteInv` the file it renames is whole |
| ClosedPublishesAllAlways | `Spec => []ClosedPublishesAll` | `PublishInv`: each key the run was called with has its path until the rename loop has come to it, and then its temporary file is gone and its final file is what was due |
| NoEmptyFinalFileAlways | `Spec => []NoEmptyFinalFile` | `NonEmptyInv`: a PCAP file on a working disk has the frame it was created for; an L7 file is tested when it is renamed |

Each lemma about preservation has a step per action of `Next`; what a
`BufWriter` does to the order of frames is the lemma `BufferedKeepsFrames`.
Assumptions: `Absent` is no key, no writer state and no sequence of packets,
`MaxWriters` is a natural number, the two flags are Boolean (`ASSUME`s of
SplitWriter, which TLC evaluates in its runs).

`SplitPipelineProofs`, for **every** capture, filter, grouping, pattern of panics,
channel depth and limit, and every interleaving:

| theorem | statement | argument |
|---|---|---|
| ChannelIsFaithfulAlways | `Spec => []ChannelIsFaithful` | `ChannelInv`: with the types of the sequences; a packet is in hand exactly while it is being sent, and nothing is received once the receiver is dropped |
| PublishesOnlyWholeCapturesAlways | `Spec => PublishesOnlyWholeCaptures` | `WholeInv`: while the consumer listens the producer can end well only at the end of the capture; when its loop ends all that was parsed has been received; no packet received so far panicked, the one in hand aside. Of the actions, only `Close` changes a final file (`OnlyClosePublishes`), and `Join` lets it come only after `ok` |
| TableAndWritersInStepAlways | `Spec => []TableAndWritersInStep` | `InStepInv`: while the writer is open both maps have the same live keys with the same generations, no two keys share one, each flow's packets are its file and buffer. So both evictions have one candidate, the same (`SameVictim`), and whatever a hash map's order, both take it |
| SuccessMeansFilesAlways | `Spec => []SuccessMeansFiles` | `CallsInv`: the calls made of the writer so far are those the received packets lead to, less the keys left of the packet in hand; `due` and `touched` are read off these calls. `FilesInv`: on a disk that works each remembered temporary file, with its buffer, holds a tail of what is due, all of it below the limit (`Written`); from the flush on, each touched key has either such a temporary file or its final file (`Renamed`, `Published`). Success means that the loop of renames is over and the capture was received |
| SplitPipelineTypeOK | `Spec => []TypeOK` | from `ChannelInv` |

Assumptions: captures are sequences of packets; `MaxSessions` is a natural number
(a `usize`); `Absent`, which stands for `None`, is no packet, key or state; a packet
that passes and does not panic has at least one key, and its keys are keys
(`KeysAssumption`: each arm of `group_keys` returns a vector of one or two). The
writer's theorems are about a specification of its own and cannot be cited here,
where its actions are part of others': what the pipeline needs of them is proved
again as lemmas on states and steps.

`GroupingProofs`, for **every** set of packets and filters and captures of any
length:

| theorem | statement | argument |
|---|---|---|
| SessionsAreConversationsAlways | `Spec => []SessionsAreConversations` | `SessionKeyIsConversation`: five-tuples have one session key exactly when they are equal or each other's reverse, with equal addresses and ports too; `GroupsByKey`: each passing packet is in the group of its key and in no other |
| GroupsCoverTheCaptureAlways | `Spec => []GroupsCoverTheCapture` | `CoverInv`: every packet that passes is in a group, each group is in capture order, and repeats only packets of a host with itself. A packet's new entries are the last of their groups (`HandedInOrder`) |
| PacketBucketsAreFullAlways | `Spec => []PacketBucketsAreFull` | `BucketInv`: there are k buckets, the last holds r of n packets, the index is k·n - n + r, and buckets follow each other; a packet makes r one more or, at n, opens a bucket (`BucketsFill`) |
| StrategiesNestAlways | `Spec => []StrategiesNest` | `KeysNest`, on the keys of two packets |
| FilterKeepsConversationsWholeAlways | `Spec => []FilterKeepsConversationsWhole` | `FilterIgnoresDirection` |
| GroupsHaveTheirFileAlways | `Spec => []GroupsHaveTheirFile` | `AddressKeys`: the groups with addresses have the keys their strategy makes. In a name without `::` the numbers stand at the odd places, whatever separates them (`PlainName`); with it, the place of the two underscores and the length give the segments on either side of the run of zeros (`ShortName`); no name is of both kinds (`NameTells`). An octet is read back from its digits (`DecimalTells`). Of an IPv4-mapped address the name is that of its twin, `0:0:0:ffff` and the octets read as groups, and of no other (`MappedNamed`, `MappedApart`, `MappedTwin`). So a host is read back from its name but for that choice (`HostsApart`), and two IPv4 addresses from the places a pair or a tuple has them at (`PairsApart`, `TuplesApart`) |

Assumptions: packets have a five-tuple of natural numbers, or `Absent`, which is
none; an address has four or eight numbers as segments, and no other address has the
same; a separator is no number; the strategies are the nine of `GroupStrategyEnum`, and the argument of
`seconds` and `packets` is not zero, with which the program divides by zero on the
first packet ([section 6](#6-divergences-from-what-the-repository-says)).

`ArchiveProofs`, for **every** set of keys and packets, every base and width of the
codec, every command line and any number of runs:

| theorem | statement | argument |
|---|---|---|
| ArchiveWriterTypeOK | `Spec => []TypeOK` | from `AscendInv` |
| OffsetsAscendAlways | `Spec => []OffsetsAscend` | on this the unchecked subtraction in `encode_offsets` relies. While packets are taken all offsets are below `file_pos` (`BeforePosition`), and each frame moves `file_pos` on |
| TruncationKeepsPrefixAlways | `Spec /\ []PositionFits => []TruncationKeepsPrefix` | the first offset fits its field (`FirstFits`), and the offsets ascend. Then, on the codec alone: a number is read back whatever follows its code (`LittleEndianRoundTrip`, `ReadsWhatWasWritten`), and the decoder moves on by the length the encoder wrote (`Leb128LenIsLength`); a code that is cut is malformed, never another number (`CutCodeIsMalformed`); so the decoder's loop stands after k offsets of the list, for each k (`DecodeLoop`), until the cut stops it (`DecodesPrefix`) |
| ArchiveIsWholeAlways | `Spec /\ []PositionFits => []ArchiveIsWhole` | `ContentInv`, below, and that only the rename changes what is under the final name |
| IndexAnswersAsScanAlways | `Spec /\ []PositionFits => []IndexAnswersAsScan` | `IndexThere`, part of `ContentInv`: the footer's index offset is 0 until the indexes are written, and from then on they lie where it says. The rest is about the index, below (`AnswersForEveryKey`) |
| FiltersIntersectAlways | `RoundTripSpec /\ []PositionFits => []FiltersIntersect` | `QueryInv`: what the reader has open is an archive whose indexes answer as its table does (`ReaderInv`, from IndexAnswersAsScan). Of an ascending list, what is retained ascends (`RetainedAscend`), so what was combined and what was wanted are both the one ascending list of the same set (`ListedOnce`) |
| ArchiveKeepsPromise | `RoundTripSpec /\ []PositionFits => ArchivePromiseKept` | each step of archiver or reader is one of ArchivePromise or a stutter (`NextKeepsPromise`): the rename is its `Publish`, because what is renamed is whole (`RenamesWhole`), and a file on a disk that works holds a group of the archive that is open (`FilesInv`) |
| FilesAreTheFlowsAlways | `BySession` implies `RoundTripSpec /\ []PositionFits => []FilesAreTheFlows` | end to end. `FinalGroups`: the entries of the published archive and the groups it was written from are one for one, each entry with the packets, their number and the first five-tuple of its group (`RenamesGroups`, by `TuplesInv`). `OutputInv`: each file holds first packets of its flow, the flows dealt with so far are those with a file (`FilteredSoFar`) or in the pipe (`PipedSoFar`). So the flows that `FiltersIntersect` leaves are those of the groups the filters are meant for, the first packet of a group standing for all (`PassedIsMeant`, `WantedAreMeant`), and as many (`EachGroupHasAnEntry`) |

`ContentInv` follows what the temporary file will hold once it is flushed
(`content`), stage by stage: `file_pos` is its length up to the last region
(`FileInv`); flows are numbered from 1 without gaps, so that they lie in the flow
table in the order of their ids (`IdsInv`, `FlowsInOrder`); the frame of each packet
given lies at the offset its flow has for it (`FramesThere`); from the stage on that
writes them, each offset list lies where its position says, the flow table where the
footer says, and the footer at the end (`RegionsThere`). Writing only appends, so what
is there stays there (`WritesAppend`, `StillHas`). At the rename the reader therefore
finds the flow table (`TableReads`), in each entry the offsets that were encoded
(`ListReads`, by `TruncationKeepsPrefix`), and at each offset the packet
(`FrameReads`). None of this is inductive alone: that flows are read back needs the
lists, these the positions noted in `lists` and `regions`, these `file_pos`, and that
the lists decode needs `AscendInv` and `FirstFits`.

`IndexAnswersAsScan` compares two ways of reading the file so written. A set of
naturals is listed in ascending order in one way only (`ListedOnce`), so the keys a
region is built of, and the ids behind each, are determined; the parts lie one behind
the other (`IndexLaid`). The scan goes from part to part, comes by every key until it
has passed the one it looks for, and does not stop early although the count it runs
by is that of the pairs of key and id, not of the keys (`ScanComesBy`, `ScanFinds`,
`PairsAreFinite`). So an answer is the set of ids the region lists for the key. As ids are
positions in the flow table (`IsTable`), these are the ids that the scan of the table
finds (`IndexedAreHits`, `ScannedIds`).

Assumptions: the groups of a packet are keys, its length is a natural number, its
five-tuple is `Absent` or made of five natural numbers,
`Absent` is neither key nor flow nor packet nor entry; each command line has one of the four
modes, and with filters a sequence of them (`CommandsAssumption`); a digit has at least two values, and the first
field at least one cell. `PositionFits` says that `file_pos` is smaller than the
first field's range while packets are taken. In the code both are a `u64`, and a
file does not grow to 2^64 bytes; in the run the range is 36 and no position
reaches it. Without it the theorem would be false, as the code would be.
`BySession` says of the groups what `-s session` makes of them, and TLC finds it true
of the packets of the run: packets of one group have no five-tuple, or one of the same
addresses, ports and protocol in either direction (`SessionsAreConversationsAlways`
proves it of the session key). Without it the statement would be false: an archive
flow has the five-tuple of its first packet, by which alone filters find it.

`PythonArchivesProofs`, for **every** set of processes, output paths, captures,
filters and inodes:

| theorem | statement | argument |
|---|---|---|
| PythonTypeOK | `Spec => []TypeOK` | part of `MappingInv` (the run does not list `TypeOK`) |
| ObjectsKeepTheirCaptureAlways | `Spec => []ObjectsKeepTheirCapture` | `MappingInv`: what a call is writing has an inode of its own (`CallsHoldTheirInode`), to which no final name leads and no object maps; names lead to different inodes (`NamesAreDistinct`). So writing and removing change nothing that is mapped, and what is freed is not mapped (`ObjectsAreSafe`) |
| TempFileIsCleanedUpAlways | `Spec => []TempFileIsCleanedUp` | `TempHasOwner`: a temporary archive is that of an `Archive` that will remove it, or about to be opened by the call that made it, or was left by a failure |
| OpensTheLastArchiveAlways | `Spec => []OpensTheLastArchive` | `LastIsWhole`, part of `MappingInv`: only a rename changes what an output path leads to, and what it renames is whole |

Assumptions: an output path is no process's temporary name, and no name is another
one's with `.tmp` behind it; inodes are numbers.

`CaptureReaderProofs`, for **every** set of files: any number of records of any
frames, cut anywhere, and any sequence of blocks:

| theorem | statement | argument |
|---|---|---|
| ThmPacketsAreWholeRecords | `Spec => []PacketsAreWholeRecords` | `ReadingRecords`: the file has the first places of the records, each record where the ones before it end (`RecordsAreInPlace`), and between calls the reader stands where the packets returned end. So what it takes for a header is one (`RecordComesNext`) |
| ThmPacketsFollowTheBlocks | `Spec => []PacketsFollowTheBlocks` | the packets returned are those of the blocks passed, one block at a time (`PacketPassed`, `OtherPassed`) |
| ThmPacketsAreOfTheirInterface | `Spec => []PacketsAreOfTheirInterface` | `Tables`: before the first packet the interfaces are those described so far, afterwards those described before it. Then the arithmetic: seconds and microseconds of a time stamp are its quotient and remainder, scaled, whether the resolution is finer or coarser than a microsecond (`SecondsAndMicroseconds`) |
| ThmCutsOnlyForget | `Spec => []CutsOnlyForget` | function by function, what a cut frame is read as is what the whole one is, or nothing, or lacks the ports (`TransportOfCut` to `RecordOfCut`). The chain of extension headers is followed in both at once: step by step they stand at the same header, or the cut one has ended (`ChainOfCut`) |
| ThmDissectionUndoesEncapsulation | `Spec => []DissectionUndoesEncapsulation` | see below |
| ThmPayloadIsNeverHeader | `Spec => []PayloadIsNeverHeader` | see below |

The last two follow each field of a frame from `Encapsulation`, which builds frames
from the inside out, to `PacketDissect`, which reads them from the outside in. The
lemmas meet in between, in what a frame has at a place (`HasAt`) and a cut one still
shows of it (`Shows`). From the sender's side: segment, datagram and frame are their
parts one behind the other (`SegmentIs`, `Ipv4Is`, `Ipv6Is`, `EthernetIs` to
`ManagementIs`). From the reader's: a function that is given bytes with a part at a
place finds what was put there, when the bytes reach that far. This is shown for the
transport header (`TransportFound`); for IPv4 (`Ipv4Found`); for IPv6, where the walk
of at most eight steps stands after *k* of them at the *k*-th extension header
(`ChainFound`, by `CountInduction`); for each link layer, which shifts offsets by
its own header (`ParsedFound`, `EthernetFound` to `DataFrameFound`); and for radiotap
(`RadiotapFound`). `WireFound` joins them for every frame. How much is found depends on the length of the cut only:
the theorem about whole frames and the one about cut frames are two readings of it.
`FramesOfTheLink`, with `ReadingRecords`, is the invariant: the link type by which
a frame is dissected is that of its sender.

Assumptions: a byte is a number below 256; `Absent` is neither a number nor what the dissection finds;
capture tools write no more of a frame than there is of it; a file that ends within its global
header has no records; time stamps are natural numbers; and a power of ten that is no
less than a million is a multiple of it (`MillionAssumption`, `BlocksAssumption`: of the
`Million` of the model, 10^6 in the code and 100 in the run). `FramesAssumption`, of the frames
whose sender is known, says that their lengths fit the fields that hold them: up to
ten words of IPv4 and TCP options, ports of 16 bits, addresses of 4 or 16 bytes, a
radiotap header of 4 to 255; that Ethernet alone pads; that a chain of extension headers
ends with a protocol that is none; and that a capture file declares the link type of
its frames. Records of other bytes (`sent` is `Absent`) are not restricted by it.

**Only model-checked.** Liveness (`Terminates`) is beyond the prover.

## 6. Divergences from what the repository says

Three are reproduced by a run that is expected to fail:

1. `output/split.rs:97`: with as many groups as `-p`, a reopened temporary file is
   emptied, so packets are missing although the run succeeds; README.md:109 says
   of the host strategy that packets go to both files
   (`MCSplitPipeline_host_limit`, `PacketsGoToTheirFiles`).
2. `main.rs:536`: an empty intersection is taken for "no filter so far", so the
   next filter's flows are extracted instead of none; README.md:61
   (`MCArchiveRoundTrip_combination`, `OnlyTheCombination`).
3. `packet.rs:406`: for an IPv6 frame cut within its extension headers, the L7
   offset lies beyond the captured bytes, and `l7_data` (123) panics there;
   `packet.rs:56` says it is an offset within them (`MCCaptureReader_l7`,
   `L7StartsWithinData`).

The others were met while writing the models, which behave as the code does; the
properties are stated so that they hold with them.

Splitting:

* `flow/mod.rs:99`, `output/split.rs:170`: the comments say "when over threshold";
  eviction happens *at* it, even for a key already present. With `-p n`, the
  results are complete only for fewer than `n` groups (`CompleteBelowLimit`).
* `flow/mod.rs:47`: the header of `output/split.rs` says packets are not
  accumulated in memory; the pipeline adds each to the flow table as well
  (`main.rs:312`), where it stays until eviction.
* `flow/strategy.rs:115`: `-s seconds 0` and `-s packets 0` are accepted and divide
  by zero on the first packet (`DividesByZero`).

Archives:

* `archive/writer.rs:29`: an archive flow is indexed by its first packet, so
  `--filter-port` misses flows of coarse groupings (README.md:58);
  `FilesAreTheFlows` is checked by session.
* `python/rsplit_pipe_reader.py:27`: a pipe that breaks within a flow yields the cut
  flow as a whole one (`PipeFails`).
* `python/mod.rs:347`: dropping an `Archive` of `read_flows` removes the file of that
  name, which a later call of the process has replaced; the later `Archive` keeps
  its map, and `TempFileIsCleanedUp` speaks of what is left behind.
* `python/mod.rs:69`: an address that does not parse is dropped from the filter, and
  a list of only such addresses lets every packet pass, where the command line
  refuses it (`BuildFilter`).

Reading:

* `parser/pcap.rs:78`: version 2.4, that of nearly all files, is taken for
  nanoseconds, and microseconds are divided by 1000 (`TsNano`).
* `parser/pcap.rs:68`: the two nanosecond magic numbers, which `open_reader`
  passes on, run into `unreachable!()` (`OpenReader`).
* `parser/pcapng.rs:240`: interfaces described after the first packet are
  skipped, although a comment (47) says all are parsed first;
  `PacketsAreOfTheirInterface` speaks of the others.
* `parser/pcapng.rs:319`: a simple packet block without data returns `None`, which
  callers take for the end of the file; `PacketsFollowTheBlocks` names this exit.
* `packet.rs:237`: the two more header bytes of 802.11 QoS data frames are not
  counted, so these frames have no five-tuple; `packet.rs:363`
  takes the length of an authentication header for one in units of 8 bytes; a
  ninth extension header is taken for the transport header (`Understood` leaves
  the three out).
* `packet.rs:293`: fragment offsets are not looked at, and the first bytes of a later
  fragment are read as ports.
* `packet.rs:312`: TCP or UDP cut within the ports has the header itself for payload
  (`PayloadIsNeverHeader` starts at the end of the ports), and payload includes
  the padding of short Ethernet frames (`DissectionUndoesEncapsulation` says so).
* `packet.rs:232`: in frames from an access point the source MAC is that of the access
  point, which transmits them, not that of the station they come from.

Names, again splitting:

* `output/mod.rs:44`: `sanitize_filename` (133) gives the legacy files of IPv6 sessions such as
  (1::1, 1:2::1) and (1::1:1, 2::1), with the same ports and protocol, one name, and
  the file written last replaces the other; `EverySessionHasItsFile` speaks of the sessions
  whose name is their own (`Own`).
* `output/mod.rs:32`: legacy files are named after the flow's first packet, so by
  host two files may get one name and the second replaces the first;
  `EverySessionHasItsFile` speaks of the session strategy.
* `main.rs:162`: `-d` cleans before *each* input and removes the outputs of those
  before; `EverySessionHasItsFile` then speaks of the last input.
* `main.rs:356`: inputs of one stem (from different directories, or with
  different extensions) write the same names.
* `output/split.rs:220`: `sanitize_key` does the same to IPv6 pairs, flows and sessions; the
  name properties speak of IPv4 groups and hosts.
* `flow/strategy.rs:62`: an IPv4-mapped host is written with dotted octets, so
  `::ffff:1.2.3.4` and `::ffff:1:2:3:4` both become `__ffff_1_2_3_4`;
  `GroupsHaveTheirFile` names these pairs (`Twins`).

## 7. What is not modelled

* `cli.rs`, directory walks, reading standard input: text and I/O without state a
  later step depends on. (`-recursive` becomes `--recursive true`, `cli.rs:151`,
  which the Boolean flag at 49 does not take.)
* The Python `split`: the loop of SplitPipeline without the second thread. Getters
  and printed forms copy fields. Two writers of one output path at the same time
  would share a `.tmp` file (`archive/writer.rs:66`); nothing says they may, and
  `Create` excludes it.
* PCAP-NG sections of the other byte order (`parser/pcapng.rs:62`), and the packets
  that may be read out of the body of a cut block (65); the header of PcapngReader
  says where. The stack that `read_next_epb` (249) uses up on a long run of other
  blocks. The link type of output files, that of the first interface (342).
* Widths: the sizes cast to `u32` (`archive/writer.rs:142`) and all other numbers stay
  far below their limits in the checks; memory (`flow/mod.rs:47`) has no limit.
* The overflow of `ts_usec * 1000` in a `u32` (`packet.rs:78`), for a record whose
  microseconds exceed four seconds: PacketDissect leaves the time stamp out.
* Legacy inputs of which one stem is the other, an underscore and more, so that stem
  and session text could be told apart in two ways (`output/mod.rs:44`).
* Keys of SplitWriter and SplitPipeline whose sanitised names are one: files are
  indexed by the key there, as the header of SplitWriter says.
* Benchmarks, packaging, CI.

## 8. Plan

All components with state are modelled, and each safety property a passing run
checks is a theorem. What is left are the parts of section 7, of which PCAP-NG
sections of the other byte order would be the next.

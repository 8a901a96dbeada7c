----------------------------- MODULE LegacySplit -----------------------------
(***************************************************************************)
(* Split mode with --no-pipeline over the inputs of one command line (main *)
(* and run_split_legacy of main.rs, the writers of output/mod.rs): each    *)
(* input in turn is read into a FlowManager, then each flow left in it is  *)
(* written to a file of its own, the flows in any order.                   *)
(*                                                                         *)
(* A packet is a number that stands for its contents.  A file is named by  *)
(* the stem of the input and by the flow: the sanitised text of the        *)
(* session of its FIRST packet, whatever the grouping, or the flow id when *)
(* that packet has no five-tuple.  Different sessions of IPv6 addresses    *)
(* may have one name, and then the file written last stays.  A stem and    *)
(* the rest of a name stay apart: stems of which one is the other, an      *)
(* underscore and more are left out.  Contents are sequences of frames, as *)
(* in SplitWriter.                                                         *)
(***************************************************************************)
EXTENDS FlowManager, FileNames

CONSTANTS
  Stems,          \* the stems of the inputs' names
  CommandLines,   \* the sequences of inputs a run may be given
  Options,        \* records of the options -s (strategy), -y L7 (l7) and -d (clean)
  KeysOf(_, _, _),  \* group_keys: strategy, packet, index of passing packets
  Passes(_),      \* Filter::matches
  SessionOf(_),   \* TupleKey of a packet's session, Absent without a five-tuple
  HasL7(_),       \* the packet has at least one byte of L7 payload
  DiskMayFail

InputFile == [stem : Stems, packets : Seq(Packet), tail : {"eof", "error"}]

ASSUME LinesAssumption == CommandLines \subseteq Seq(InputFile) \ {<<>>}

(* The keys the i-th packet of an input may be given: the packets before   *)
(* it, of which it may be any number that passes, decide its index.        *)
KeysAt(strategy, input, i) ==
  UNION {ToSet(KeysOf(strategy, input.packets[i], index)) : index \in 0..(i - 1)}

ASSUME KeysAssumption ==
  \A opts \in Options, line \in CommandLines : \A n \in DOMAIN line :
    \A i \in DOMAIN line[n].packets : \A index \in 0..(i - 1) :
      KeysOf(opts.strategy, line[n].packets[i], index) \in Seq(Key)

(* By session, packets of one session have one key, and so have those of   *)
(* none.                                                                   *)
ASSUME SessionsAssumption ==
  \A opts \in Options, line \in CommandLines : \A n \in DOMAIN line :
    opts.strategy.by = "session" =>
      \A i, j \in DOMAIN line[n].packets :
        SessionOf(line[n].packets[i]) = SessionOf(line[n].packets[j]) =>
          \A k \in KeysAt(opts.strategy, line[n], i), l \in KeysAt(opts.strategy, line[n], j) :
            k = l

(* What flow files are called behind the stem (write_flow_pcap_prefixed).  *)
NameOf(pkt, flow_id) ==
  IF SessionOf(pkt) = Absent THEN <<"flow", flow_id>>
  ELSE SanitizeKey(TupleText(SessionOf(pkt)))

(* No session is written like a flow id.                                   *)
ASSUME NamesAssumption == \A pkt \in Packet :
  SessionOf(pkt) # Absent => NameOf(pkt, 0) \notin {"flow"} \X Nat

VARIABLES
  options,                \* the command line's options
  inputs,                 \* the command line's inputs: stem, packets, tail
  current,                \* the input in hand, from 1
  stage,                  \* "start", "reading", "writing", or how main ended
  pos, todo, idx,         \* packets read, keys left of the last one, passing packets
  files,                  \* the output directory: file name -> contents
  temps                   \* names whose temporary file exists

fmVars == vars
lineVars == <<options, inputs>>
readVars == <<pos, todo, idx>>
dirVars == <<files, temps>>
legacyVars == <<lineVars, current, stage, readVars, dirVars, fmVars>>

Input == inputs[current]

LegacyInit ==
  /\ options \in Options /\ inputs \in CommandLines
  /\ current = 1
  /\ stage = "start"
  /\ pos = 0 /\ todo = <<>> /\ idx = 0
  /\ files = <<>> /\ temps = {}
  /\ Init

(* run_split_legacy begins: -d removes the output directory.               *)
Start ==
  /\ stage = "start"
  /\ stage' = "reading"
  /\ IF options.clean THEN files' = <<>> /\ temps' = {} ELSE UNCHANGED dirVars
  /\ UNCHANGED <<lineVars, current, readVars, fmVars>>

Frames(l7, pkt) == IF l7 /\ ~HasL7(pkt) THEN <<>> ELSE <<pkt>>

(* next_packet, matches and classify. *)
ReadPacket ==
  /\ stage = "reading" /\ todo = <<>> /\ pos < Len(Input.packets)
  /\ pos' = pos + 1
  /\ LET pkt == Input.packets[pos + 1]
     IN IF Passes(pkt) THEN todo' = KeysOf(options.strategy, pkt, idx) /\ idx' = idx + 1
        ELSE UNCHANGED <<todo, idx>>
  /\ UNCHANGED <<lineVars, current, stage, dirVars, fmVars>>

(* add_packet for one key of the packet. *)
Classify ==
  /\ stage = "reading" /\ todo # <<>>
  /\ AddPacket(Head(todo), Input.packets[pos])
  /\ todo' = Tail(todo)
  /\ UNCHANGED <<lineVars, current, stage, pos, idx, dirVars>>

(* The capture ends, or the reader fails and main with it.                 *)
ReadingEnds ==
  /\ stage = "reading" /\ todo = <<>> /\ pos = Len(Input.packets)
  /\ stage' = IF Input.tail = "eof" THEN "writing" ELSE "failed"
  /\ UNCHANGED <<lineVars, current, readVars, dirVars, fmVars>>
-----------------------------------------------------------------------------
FileName(stem, flow) == <<stem, NameOf(flow.packets[1], flow.flow_id)>>

(* Mutant: only the first packet is written. *)
ContentsOfFirst(flow) == Frames(options.l7, flow.packets[1])

FramesOf(l7, packets) == FlattenSeq([i \in DOMAIN packets |-> Frames(l7, packets[i])])

Contents(flow) == FramesOf(options.l7, flow.packets)

(* Mutant: the file is written in place. *)
WithFileInPlace(name, contents) ==
  {[n \in DOMAIN files \cup {name} |-> IF n = name THEN c ELSE files[n]] :
     c \in {SubSeq(contents, 1, len) : len \in 0..Len(contents)}}

(* The directory once a file is renamed to its final name. *)
WithFile(name, contents) ==
  {[n \in DOMAIN files \cup {name} |-> IF n = name THEN contents ELSE files[n]]}

(* write_flow_pcap_prefixed and write_flow_l7_prefixed: a temporary file   *)
(* takes the final name, or is removed if it is an empty L7 file.          *)
WriteFlow(key) ==
  /\ stage = "writing" /\ key \in Live(flows)
  /\ LET name == FileName(Input.stem, flows[key])
         contents == Contents(flows[key])
     IN /\ temps' = temps \ {name}
        /\ IF options.l7 /\ contents = <<>> THEN UNCHANGED files
           ELSE files' \in WithFile(name, contents)
  /\ flows' = Without(flows, key)
  /\ UNCHANGED <<lineVars, current, stage, readVars, next_flow_id, lru_gen, given, last_use>>

(* It fails, or the process is killed, before the rename.                  *)
WriteFlowFails(key) ==
  /\ stage = "writing" /\ key \in Live(flows)
  /\ temps' = temps \cup {FileName(Input.stem, flows[key])}
  /\ stage' = "failed"
  /\ UNCHANGED <<lineVars, current, readVars, files, fmVars>>

(* All flows are written: main goes on to the next input, with a new       *)
(* FlowManager, or ends.                                                   *)
InputDone ==
  /\ stage = "writing" /\ Live(flows) = {}
  /\ \/ /\ current < Len(inputs)
        /\ current' = current + 1 /\ stage' = "start"
        /\ pos' = 0 /\ todo' = <<>> /\ idx' = 0
        /\ flows' = [k \in Key |-> Absent] /\ next_flow_id' = 1 /\ lru_gen' = 0
        /\ given' = [k \in Key |-> <<>>] /\ last_use' = [k \in Key |-> 0]
     \/ current = Len(inputs) /\ stage' = "ok" /\ UNCHANGED <<current, readVars, fmVars>>
  /\ UNCHANGED <<lineVars, dirVars>>

Finished == stage \in {"ok", "failed"} /\ UNCHANGED legacyVars

LegacyNext ==
  \/ Start \/ ReadPacket \/ Classify \/ ReadingEnds
  \/ \E key \in Key : WriteFlow(key) \/ (DiskMayFail /\ WriteFlowFails(key))
  \/ InputDone \/ Finished

LegacySpec == LegacyInit /\ [][LegacyNext]_legacyVars
-----------------------------------------------------------------------------
(* What an input says its groups' files must hold: the packets that pass   *)
(* the filter, in order, are classified and added under each of their keys.*)
Passing(packets) ==
  FlattenSeq([i \in DOMAIN packets |->
    IF Passes(packets[i]) THEN <<packets[i]>> ELSE <<>>])

KeysWith(keys, pkt) == [j \in DOMAIN keys |-> <<keys[j], pkt>>]

Calls(strategy, packets) ==
  FlattenSeq([i \in DOMAIN Passing(packets) |->
    KeysWith(KeysOf(strategy, Passing(packets)[i], i - 1), Passing(packets)[i])])

PacketsUnder(key, calls) ==
  FlattenSeq([i \in DOMAIN calls |-> IF calls[i][1] = key THEN <<calls[i][2]>> ELSE <<>>])

GroupsOf(calls) == {calls[i][1] : i \in DOMAIN calls}

CallsOf(input) == Calls(options.strategy, input.packets)

Expected(input, key) == FramesOf(options.l7, PacketsUnder(key, CallsOf(input)))

Groups(input) == GroupsOf(CallsOf(input))

(* The inputs main is through with. *)
Done == IF stage = "ok" THEN DOMAIN inputs ELSE 1..current - 1

ContentsOf(stem) == {files[n] : n \in {m \in DOMAIN files : m[1] = stem}}

(* A final file is never seen half written, in whatever order the flows    *)
(* are written and wherever the run fails, also when files of two groups   *)
(* or of two inputs have one name: it holds an unbroken tail of one group  *)
(* of an input that was read to its end without error.                     *)
FilesAreWhole ==
  \A name \in DOMAIN files :
    \E i \in 1..current :
      /\ inputs[i].tail = "eof" /\ inputs[i].stem = name[1]
      /\ \E key \in Key : files[name] \in Suffixes(Expected(inputs[i], key)) \ {<<>>}

(* Another group of the input has a packet with the name of one of its own.*)
SharesItsName(input, key) ==
  \E other \in Groups(input) \ {key} : \E i, j \in DOMAIN input.packets :
    /\ key \in KeysAt(options.strategy, input, i)
    /\ other \in KeysAt(options.strategy, input, j)
    /\ NameOf(input.packets[i], 0) = NameOf(input.packets[j], 0)

(* The groups whose name is theirs alone. *)
Own(input) == {key \in Groups(input) : ~SharesItsName(input, key)}

FilesOf(input, keys) == {Expected(input, key) : key \in keys} \ {<<>>}

(* Once an input is done its sessions all have their file, with all their  *)
(* frames, and there is no other: by session, below the limit of -p, for   *)
(* an input whose stem no other has, and unless -d has since removed its   *)
(* files for the next input.  Only sessions whose names are one after      *)
(* sanitize_filename (output/mod.rs:133) may lack theirs.                  *)
KeepsItsFiles(i) ==
  /\ options.strategy.by = "session"
  /\ Cardinality(Groups(inputs[i])) < MaxSessions
  /\ \A j \in DOMAIN inputs : inputs[j].stem = inputs[i].stem => j = i
  /\ options.clean => stage = "ok" /\ i = Len(inputs)

EverySessionHasItsFile ==
  \A i \in Done :
    KeepsItsFiles(i) =>
      /\ ContentsOf(inputs[i].stem) \subseteq FilesOf(inputs[i], Groups(inputs[i]))
      /\ FilesOf(inputs[i], Own(inputs[i])) \subseteq ContentsOf(inputs[i].stem)
=============================================================================

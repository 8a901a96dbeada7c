---------------------------- MODULE ExtractQuery ----------------------------
(***************************************************************************)
(* Extract mode (run_extract and run_pipe of main.rs): the flow ids that   *)
(* each --filter-ip, --filter-port and --filter-proto finds are combined   *)
(* one filter after the other and each flow left is written to a file; or  *)
(* one flow is, by its id; or all go to the standard output, where         *)
(* rsplit_pipe_reader.py takes them apart; or the flow table is listed.    *)
(***************************************************************************)
EXTENDS ArchiveFormat

CONSTANTS
  Commands,     \* the command lines: the mode, and its filters or flow id
  Disks         \* whether creating and writing a file may fail: the
                \* possibilities, of which a run has one

Filter == [by : {"ip", "port", "proto"}, value : Nat]

Steps ==
  [filters |-> "filtering", flow |-> "extracting one", pipe |-> "piping", list |-> "listing"]

ASSUME CommandsAssumption ==
  \A c \in Commands :
    c.mode \in DOMAIN Steps /\ (c.mode = "filters" => c.filters \in Seq(Filter))

VARIABLES
  reader, command,
  disk_fails,     \* the disk of this run: whether its calls may fail
  applied,        \* filters applied so far
  target_flows,
  step,           \* what is done next, or how the run ended
  extracted,      \* flows dealt with
  files,          \* flow id -> the packets in its file, for the files created
  stdout          \* the rows, or the flows, that were printed

NotStarted ==
  /\ reader = Absent /\ command = Absent /\ disk_fails = FALSE
  /\ applied = 0 /\ target_flows = <<>>
  /\ step = "idle"
  /\ extracted = 0 /\ files = <<>> /\ stdout = <<>>

(* The archive is opened, and the first of the modes the command line      *)
(* names is taken.                                                         *)
Start(file) ==
  /\ step = "idle"
  /\ command' \in Commands
  /\ disk_fails' \in Disks
  /\ reader' = Open(file)
  /\ step' = IF reader' = Absent THEN "error" ELSE Steps[command'.mode]
  /\ UNCHANGED <<applied, target_flows, extracted, files, stdout>>

Find(filter) ==
  CASE filter.by = "ip"    -> FindByIp(reader, filter.value)
    [] filter.by = "port"  -> FindByPort(reader, filter.value)
    [] filter.by = "proto" -> FindByProtocol(reader, filter.value)

(* Vec::retain: the flows that are among ids, in their order. *)
Retained(flows, ids) ==
  FlattenSeq([i \in DOMAIN flows |-> IF flows[i] \in ids THEN <<flows[i]>> ELSE <<>>])

(* Mutant: the filters are joined. *)
CombinedByOr(flows, ids) == flows \o Retained(ids, ToSet(ids) \ ToSet(flows))

(* An empty list of flows is taken for "no filter yet", also when it is    *)
(* what the filters before left.                                           *)
Combined(flows, ids) ==
  IF flows = <<>> THEN ids ELSE Retained(flows, ToSet(ids))

ApplyFilter ==
  /\ step = "filtering" /\ applied < Len(command.filters)
  /\ applied' = applied + 1
  /\ target_flows' = Combined(target_flows, Find(command.filters[applied + 1]))
  /\ UNCHANGED <<reader, command, disk_fails, step, extracted, files, stdout>>

(* An empty result is an error, as no filter at all is. *)
FiltersDone ==
  /\ step = "filtering" /\ applied = Len(command.filters)
  /\ step' = IF target_flows = <<>> THEN "error" ELSE "extracting"
  /\ UNCHANGED <<reader, command, disk_fails, applied, target_flows, extracted, files, stdout>>
-----------------------------------------------------------------------------
WithFile(id, contents) ==
  [f \in DOMAIN files \cup {id} |-> IF f = id THEN contents ELSE files[f]]

(* What a flow's file may hold after extract_flow_to_file returned Ok: it  *)
(* is created under its final name and written through a BufWriter that is *)
(* dropped, so an error of the last flush is lost.                         *)
Written(entry) ==
  LET flow == ExtractedFlow(reader, entry)
  IN IF disk_fails THEN Prefixes(flow) ELSE {flow}

(* extract_flow_to_file on the next flow that get_flow knows.              *)
ExtractFlow ==
  /\ step = "extracting" /\ extracted < Len(target_flows)
  /\ LET id == target_flows[extracted + 1]
     IN \/ GetFlow(reader, id) = Absent /\ UNCHANGED files
        \/ /\ GetFlow(reader, id) # Absent
           /\ \E contents \in Written(GetFlow(reader, id)) : files' = WithFile(id, contents)
  /\ extracted' = extracted + 1
  /\ UNCHANGED <<reader, command, disk_fails, applied, target_flows, step, stdout>>

(* It returns an error, before or after the file was created.              *)
ExtractFails ==
  /\ step = "extracting" /\ extracted < Len(target_flows) /\ disk_fails
  /\ LET id == target_flows[extracted + 1]
     IN /\ GetFlow(reader, id) # Absent
        /\ \/ UNCHANGED files
           \/ \E contents \in Written(GetFlow(reader, id)) : files' = WithFile(id, contents)
  /\ step' = "error"
  /\ UNCHANGED <<reader, command, disk_fails, applied, target_flows, extracted, stdout>>

(* Mutant: the last flow is forgotten. *)
ExtractionDoneEarly ==
  /\ step = "extracting" /\ extracted + 1 >= Len(target_flows)
  /\ step' = "ok"
  /\ UNCHANGED <<reader, command, disk_fails, applied, target_flows, extracted, files, stdout>>

ExtractionDone ==
  /\ step = "extracting" /\ extracted = Len(target_flows)
  /\ step' = "ok"
  /\ UNCHANGED <<reader, command, disk_fails, applied, target_flows, extracted, files, stdout>>

(* --extract: one flow, which must be there. *)
ExtractOne ==
  /\ step = "extracting one"
  /\ \/ /\ GetFlow(reader, command.id) = Absent
        /\ step' = "error" /\ UNCHANGED files
     \/ /\ GetFlow(reader, command.id) # Absent
        /\ \E contents \in Written(GetFlow(reader, command.id)) :
             files' = WithFile(command.id, contents)
        /\ step' = "ok" \/ (disk_fails /\ step' = "error")
     \/ disk_fails /\ step' = "error" /\ UNCHANGED files
  /\ UNCHANGED <<reader, command, disk_fails, applied, target_flows, extracted, stdout>>

(* --list-flows: a row for each entry. *)
ListFlows ==
  /\ step = "listing"
  /\ stdout' = [i \in DOMAIN reader.entries |->
                  [flow_id |-> reader.entries[i].flow_id,
                   packets |-> reader.entries[i].packet_count]]
  /\ step' = "ok"
  /\ UNCHANGED <<reader, command, disk_fails, applied, target_flows, extracted, files>>

(* --pipe: the flows in the order of the table, each behind its length.    *)
PipeFlow ==
  /\ step = "piping" /\ extracted < Len(reader.entries)
  /\ stdout' = Append(stdout, PipedFlow(reader, reader.entries[extracted + 1]))
  /\ extracted' = extracted + 1
  /\ UNCHANGED <<reader, command, disk_fails, applied, target_flows, step, files>>

(* The pipe breaks.  A flow that is cut comes out of read_one_flow as if   *)
(* it were whole, one cut within its length or its header not at all.      *)
PipeFails ==
  /\ step = "piping" /\ disk_fails
  /\ \E n \in 0..Len(stdout) :
       \/ stdout' = SubSeq(stdout, 1, n)
       \/ /\ n > 0
          /\ \E flow \in Prefixes(stdout[n]) : stdout' = Append(SubSeq(stdout, 1, n - 1), flow)
  /\ step' = "error"
  /\ UNCHANGED <<reader, command, disk_fails, applied, target_flows, extracted, files>>

PipeDone ==
  /\ step = "piping" /\ extracted = Len(reader.entries)
  /\ step' = "ok"
  /\ UNCHANGED <<reader, command, disk_fails, applied, target_flows, extracted, files, stdout>>

Step ==
  \/ ApplyFilter \/ FiltersDone \/ ExtractFlow \/ ExtractFails \/ ExtractionDone
  \/ ExtractOne \/ ListFlows
  \/ PipeFlow \/ PipeFails \/ PipeDone
-----------------------------------------------------------------------------
Found(filter) ==
  ToSet(CASE filter.by = "ip"    -> ScanIp(reader.entries, filter.value)
          [] filter.by = "port"  -> ScanPort(reader.entries, filter.value)
          [] filter.by = "proto" -> ScanProto(reader.entries, filter.value))

(* The flows of the table that pass the first n filters. *)
Wanted(n) ==
  {id \in ToSet(Ids(reader.entries)) : \A i \in 1..n : id \in Found(command.filters[i])}

(* As long as no filter leaves nothing, the flows are those that pass      *)
(* every filter applied, each once, in the order of the table, whether     *)
(* they were found through the index or by scanning.                       *)
FiltersIntersect ==
  applied > 0 /\ (\A n \in 1..applied : Wanted(n) # {}) =>
    target_flows = Retained(Ids(reader.entries), Wanted(applied))

(* README.md:61-62, "Extract by IP + port combination": only flows that    *)
(* pass every filter are extracted.                                        *)
OnlyTheCombination ==
  step = "ok" /\ command.mode = "filters" =>
    DOMAIN files \subseteq Wanted(Len(command.filters))
=============================================================================

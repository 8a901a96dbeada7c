--------------------------- MODULE ArchivePromise ---------------------------
(***************************************************************************)
(* What archiving and extracting promise, without a word on how archives   *)
(* look like: the packets handed over, group by group, become an archive   *)
(* in one step or not at all, replacing the one before; and what a reader  *)
(* takes out of the archive it opened are whole groups of one archive,     *)
(* each with all its packets in the order they were handed over.           *)
(***************************************************************************)
EXTENDS Sequences

CONSTANTS
  Group,           \* the groups
  Packet,          \* the packets
  None,            \* no archive
  ContentsOf(_)    \* the groups' packets in an archive, a set of sequences

VARIABLES
  given,    \* group -> the packets handed over in this run
  archive,  \* the archive, or None
  opened,   \* the one the reader opened, or None
  taken,    \* what the reader took out of it
  stage     \* "taking" or "over"

vars == <<given, archive, opened, taken, stage>>

Init ==
  /\ given = [g \in Group |-> <<>>]
  /\ archive = None /\ opened = None /\ taken = {}
  /\ stage = "taking"

Take(g, packet) ==
  /\ stage = "taking"
  /\ given' = [given EXCEPT ![g] = Append(@, packet)]
  /\ UNCHANGED <<archive, opened, taken, stage>>

Publish ==
  /\ stage = "taking"
  /\ archive' # None
  /\ ContentsOf(archive') = {given[g] : g \in Group} \ {<<>>}
  /\ stage' = "over"
  /\ UNCHANGED <<given, opened, taken>>

GiveUp ==
  /\ stage = "taking"
  /\ stage' = "over"
  /\ UNCHANGED <<given, archive, opened, taken>>

Again ==
  /\ stage = "over"
  /\ given' = [g \in Group |-> <<>>]
  /\ stage' = "taking"
  /\ UNCHANGED <<archive, opened, taken>>

OpenArchive ==
  /\ opened = None /\ archive # None
  /\ opened' = archive
  /\ UNCHANGED <<given, archive, taken, stage>>

TakeOut ==
  /\ opened # None
  /\ taken' \subseteq ContentsOf(opened)
  /\ UNCHANGED <<given, archive, opened, stage>>

Next ==
  \/ \E g \in Group, packet \in Packet : Take(g, packet)
  \/ Publish \/ GiveUp \/ Again
  \/ OpenArchive \/ TakeOut

Spec == Init /\ [][Next]_vars
=============================================================================

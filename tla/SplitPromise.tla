---------------------------- MODULE SplitPromise ----------------------------
(***************************************************************************)
(* What the split output promises, with no writers, buffers, temporary     *)
(* files or evictions: a run takes frames for each group; once it has them *)
(* all it replaces the groups' files, one at a time and each as a whole,   *)
(* by all the frames of the group; a run that stops earlier replaces no    *)
(* further file.                                                           *)
(***************************************************************************)
EXTENDS Sequences

CONSTANTS
  Key,
  Absent,
  Frame     \* what a file is made of

VARIABLES
  asked,    \* group key -> the frames this run took for it
  file,     \* group key -> contents of the group's file or Absent
  stage     \* "taking" frames, "publishing" files, or "over"

vars == <<asked, file, stage>>

Init ==
  /\ asked = [k \in Key |-> <<>>]
  /\ file = [k \in Key |-> Absent]
  /\ stage = "taking"

Take(key, frame) ==
  /\ stage = "taking"
  /\ asked' = [asked EXCEPT ![key] = Append(@, frame)]
  /\ UNCHANGED <<file, stage>>

Seal ==
  /\ stage = "taking"
  /\ stage' = "publishing"
  /\ UNCHANGED <<asked, file>>

Publish(key) ==
  /\ stage = "publishing"
  /\ file' = [file EXCEPT ![key] = asked[key]]
  /\ UNCHANGED <<asked, stage>>

(* The run is complete, has failed, or was killed. *)
Stop ==
  /\ stage # "over"
  /\ stage' = "over"
  /\ UNCHANGED <<asked, file>>

NextRun ==
  /\ stage = "over"
  /\ stage' = "taking"
  /\ asked' = [k \in Key |-> <<>>]
  /\ UNCHANGED file

Next ==
  \/ \E key \in Key, frame \in Frame : Take(key, frame)
  \/ Seal
  \/ \E key \in Key : Publish(key)
  \/ Stop
  \/ NextRun

Spec == Init /\ [][Next]_vars
=============================================================================

------------------------------ MODULE LruTable ------------------------------
(***************************************************************************)
(* The bookkeeping that FlowManager (flow/mod.rs) and SplitWriter          *)
(* (output/split.rs) share: a hash map whose entries carry the generation  *)
(* of their last use, and an eviction that removes one entry of the lowest *)
(* generation.  The two maybe_evict functions have the same body.          *)
(*                                                                         *)
(* A map is a total function on Key, Absent where the map has no entry.    *)
(***************************************************************************)
EXTENDS Integers, FiniteSets

CONSTANTS
  Key,     \* the group keys that can occur
  Absent   \* no entry (Rust's None); in no entry's set

Live(table) == {k \in Key : table[k] # Absent}

(* The scan keeps the first entry with the lowest generation it meets, and *)
(* a hash map is iterated in any order, so entries that tie are all        *)
(* candidates.                                                             *)
LeastRecent(table) ==
  {k \in Live(table) :
     \A j \in Live(table) : table[k].last_access <= table[j].last_access}

(* Mutants: evicting only over the limit, and one entry too soon. *)
EvictableLate(table, max) ==
  IF Cardinality(Live(table)) <= max THEN {} ELSE LeastRecent(table)

EvictableEarly(table, max) ==
  IF Cardinality(Live(table)) < max - 1 THEN {} ELSE LeastRecent(table)

(* The test is on the size BEFORE the coming insertion, and is made even   *)
(* when the key of the coming packet is already in the map.                *)
Evictable(table, max) ==
  IF Cardinality(Live(table)) < max THEN {} ELSE LeastRecent(table)

(* The key an eviction removes, or Absent when it removes none: below the  *)
(* limit, or with an empty map (max = 0).                                  *)
Victims(table, max) ==
  IF Evictable(table, max) = {} THEN {Absent} ELSE Evictable(table, max)

Without(table, victim) ==
  [k \in Key |-> IF k = victim THEN Absent ELSE table[k]]

(* A table whose entries carry a generation. *)
Stamped(table) == \A k \in Live(table) : table[k].last_access \in Nat
=============================================================================

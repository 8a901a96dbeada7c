---------------------------- MODULE MCSplitWriter ----------------------------
(* SplitWriter with interchangeable keys; packets with odd numbers carry   *)
(* L7 payload.                                                             *)
EXTENDS SplitWriter

CONSTANTS k1, k2, k3

MCKey == {k1, k2, k3}
MCHasL7(pkt) == pkt % 2 = 1
KeySymmetry == Permutations(MCKey)
=============================================================================

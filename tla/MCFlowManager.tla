---------------------------- MODULE MCFlowManager ----------------------------
(* FlowManager with four group keys, interchangeable.                      *)
EXTENDS FlowManager

CONSTANTS k1, k2, k3, k4

MCKey == {k1, k2, k3, k4}
KeySymmetry == Permutations(MCKey)
=============================================================================

-------------------------- MODULE MCPythonArchives --------------------------
(* PythonArchives with two processes, which are alike, and two captures    *)
(* grouped by session: one of two conversations, and one more packet of    *)
(* the first of them.                                                      *)
EXTENDS PythonArchives

GS == INSTANCE GroupStrategy

T(a, b, p, q) == [protocol |-> 6, src_ip |-> a, dst_ip |-> b, src_port |-> p, dst_port |-> q]

Traffic == <<T(1, 2, 8, 9), T(2, 1, 9, 8), T(2, 2, 7, 7), T(3, 1, 7, 9)>>

MCCapture == {<<1, 3>>, <<2, 4>>}
MCFilters == {[ips |-> {2, Invalid}, ports |-> {}]}
MCPasses(filter, pkt) == GS!Matches(filter, [five_tuple |-> Traffic[pkt]])
MCKeysOf(pkt) == GS!SessionKeys([five_tuple |-> Traffic[pkt]])
MCPorts(pkt) == {Traffic[pkt].src_port, Traffic[pkt].dst_port}

ProcessesAreAlike == Permutations(Proc)
=============================================================================

------------------------------- MODULE MCTsh -------------------------------
(* Small instances of Tsh for TLC. *)
EXTENDS Tsh, TLC

CONSTANTS p1, p2, p3

MCPids2 == {p1, p2}
MCPids3 == {p1, p2, p3}

CtrlC    == {"INT"}
CtrlZ    == {"TSTP"}

\* pids are only compared for equality; NoPid is not among them
Symmetry == Permutations(MCPids3)
=============================================================================

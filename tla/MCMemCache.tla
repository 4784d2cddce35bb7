----------------------------- MODULE MCMemCache -----------------------------
(* Small instances of MemCache for TLC. *)
EXTENDS MemCache, TLC

CONSTANTS n1, n2, n3, n4

MCNodes == {n1, n2, n3, n4}
Symmetry == Permutations(MCNodes)

\* "A" and "a" differ only in case
MCKeys   == {"A", "a", "b", "c"}
MCFolded == [k \in MCKeys |-> IF k = "A" THEN "a" ELSE k]

MCData == {"empty", "small", "medium", "large"}
MCSize == [d \in MCData |-> CASE d = "empty" -> 0 [] d = "small" -> 1
                              [] d = "medium" -> 3 [] d = "large" -> 4]
=============================================================================

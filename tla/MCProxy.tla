------------------------------ MODULE MCProxy ------------------------------
(* Small instances of Proxy for TLC. *)
EXTENDS Proxy, TLC

CONSTANTS c1, c2, c3, u1, u2, u3

MCConns2 == {c1, c2}
MCConns3 == {c1, c2, c3}
Symmetry2 == Permutations(MCConns2)
Symmetry3 == Permutations(MCConns3)

MCUris1 == {u1}
MCUris2 == {u1, u2}
MCUris3 == {u1, u2, u3}
OneText   == [u \in MCUris1 |-> "text"]
AllKinds  == [u \in MCUris3 |-> IF u = u1 THEN "text" ELSE IF u = u2 THEN "binary" ELSE "large"]
TextLarge == [u \in MCUris2 |-> IF u = u1 THEN "text" ELSE "large"]
=============================================================================

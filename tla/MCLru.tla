------------------------------- MODULE MCLru --------------------------------
(* Instances of Lru: direct mapped, two-way and three-way caches.          *)
EXTENDS Lru
MCConfigs == {[S |-> 2, E |-> 2, B |-> 2], [S |-> 4, E |-> 1, B |-> 2], [S |-> 1, E |-> 3, B |-> 2]}
=============================================================================

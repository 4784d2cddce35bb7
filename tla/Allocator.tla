----------------------------- MODULE Allocator -----------------------------
(***************************************************************************)
(* What a dynamic memory allocator promises its caller: every live block   *)
(* is a range of words inside the heap, aligned, apart from the others,    *)
(* and nobody but its owner changes what is in it.                         *)
(***************************************************************************)
EXTENDS Integers, Sequences

CONSTANTS
  Ids,        \* names of blocks
  Heap,       \* the words of the heap
  Alignment   \* in words

VARIABLE live \* what is allocated: name -> [lo, data]

Words(b) == b.lo .. b.lo + Len(b.data) - 1

WellPlaced(blocks, i) ==
  /\ Words(blocks[i]) # {} /\ Words(blocks[i]) \subseteq Heap
  /\ blocks[i].lo % Alignment = 0
  /\ \A j \in DOMAIN blocks \ {i} : Words(blocks[i]) \cap Words(blocks[j]) = {}

Others(i) == \A j \in DOMAIN live \ {i} : live'[j] = live[j]

AInit == live = <<>>

Malloc(i) ==
  /\ i \notin DOMAIN live /\ DOMAIN live' = DOMAIN live \cup {i}
  /\ WellPlaced(live', i) /\ Others(i)

Free(i) ==
  /\ i \in DOMAIN live /\ DOMAIN live' = DOMAIN live \ {i}
  /\ Others(i)

\* A block that moves, grows or shrinks keeps what fits of its contents.
Realloc(i) ==
  /\ i \in DOMAIN live /\ DOMAIN live' = DOMAIN live
  /\ WellPlaced(live', i) /\ Others(i)
  /\ \A k \in DOMAIN live[i].data \cap DOMAIN live'[i].data :
       live'[i].data[k] = live[i].data[k]

Reset == live' = <<>>

ANext == Reset \/ \E i \in Ids : Malloc(i) \/ Free(i) \/ Realloc(i)

ASpec == AInit /\ [][ANext]_live
=============================================================================

------------------------------ MODULE MemCache ------------------------------
(***************************************************************************)
(* The object cache of proxy-lab/proxylab-handout/cache.c: a doubly linked *)
(* list of nodes, oldest at the head, with its node count and total size.  *)
(* One call at a time; the threads that share it are in module Proxy.  An  *)
(* assertion that fails aborts the process.                                *)
(***************************************************************************)
EXTENDS Integers, Sequences

CONSTANTS Keys, Data,
          Size,        \* sz_data of each object
          Folded,      \* the key in lower case: strcasecmp compares these
          Nodes, NULL, \* addresses malloc may return for a node
          MaxCache, MaxObject

ASSUME MemCacheAssumption ==
  /\ Size \in [Data -> Nat]
  /\ DOMAIN Folded = Keys
  /\ NULL \notin Nodes \cup Data
  /\ MaxObject \in Nat /\ MaxCache \in Nat /\ MaxObject <= MaxCache

VARIABLES mc,      \* the memcache and the memory of its nodes
          status   \* "up", or "aborted" by an assertion

mvars == <<mc, status>>

Pointers == Nodes \cup {NULL}
Fields   == [key : Keys, data : Data, prev : Pointers, next : Pointers]
Free     == [key |-> NULL, data |-> NULL, prev |-> NULL, next |-> NULL]   \* no node here
MemCaches == [head : Pointers, tail : Pointers, node_count : Nat, sz_cache : Nat,
              mem : [Nodes -> Fields \cup {Free}], asserted : BOOLEAN]
MTypeOK == mc \in MemCaches /\ status \in {"up", "aborted"}

Sz(m, cn) == Size[m.mem[cn].data]

cache_init == [head |-> NULL, tail |-> NULL, node_count |-> 0, sz_cache |-> 0,
               mem |-> [cn \in Nodes |-> Free], asserted |-> TRUE]

is_key_equal(m, cn, k) == Folded[m.mem[cn].key] = Folded[k]

\* the nodes that the search from the tail comes to
Backwards(m) ==
  LET Back[i \in 0 .. m.node_count] == IF i = 0 THEN m.tail ELSE m.mem[Back[i - 1]].prev
  IN  Back

\* the first of them with the key
cache_get(m, k) ==
  LET Hits == {i \in 0 .. m.node_count - 1 : is_key_equal(m, Backwards(m)[i], k)}
  IN  IF Hits = {} THEN NULL ELSE Backwards(m)[CHOOSE i \in Hits : \A j \in Hits : i <= j]

\* MUTANT: the size is not subtracted
UnlinkKeepsSize(m, cn, mem) ==
  [m EXCEPT !.mem = [mem EXCEPT ![cn] = Free], !.node_count = @ - 1]

\* The memory of a node that has left the list is never reached again.  The
\* code does not free it: the model gives it out again to stay finite.
Unlink(m, cn, mem) ==
  [m EXCEPT !.mem = [mem EXCEPT ![cn] = Free],
            !.sz_cache = @ - Sz(m, cn), !.node_count = @ - 1]

\* MUTANT: a node deleted at the tail leaves tail behind
delete_nodeKeepsTail(m, cn) ==
  LET p == m.mem[cn].prev   n == m.mem[cn].next IN
  IF m.head = m.tail THEN Unlink([m EXCEPT !.head = NULL, !.tail = NULL], cn, m.mem)
  ELSE IF p = NULL THEN Unlink([m EXCEPT !.head = n], cn, [m.mem EXCEPT ![n].prev = NULL])
  ELSE IF n = NULL THEN Unlink(m, cn, [m.mem EXCEPT ![p].next = NULL])
  ELSE Unlink(m, cn, [m.mem EXCEPT ![p].next = n, ![n].prev = p])

delete_node(m, cn) ==
  LET p == m.mem[cn].prev   n == m.mem[cn].next IN
  IF m.head = m.tail THEN Unlink([m EXCEPT !.head = NULL, !.tail = NULL], cn, m.mem)
  ELSE IF p = NULL THEN Unlink([m EXCEPT !.head = n], cn, [m.mem EXCEPT ![n].prev = NULL])
  ELSE IF n = NULL THEN Unlink([m EXCEPT !.tail = p], cn, [m.mem EXCEPT ![p].next = NULL])
  ELSE Unlink(m, cn, [m.mem EXCEPT ![p].next = n, ![n].prev = p])

assert(m, holds) == [m EXCEPT !.asserted = @ /\ holds]

\* dequeue: the prev it clears is the one of the node that leaves
dequeue(m) ==
  IF m.node_count = 0 THEN m
  ELSE IF m.node_count = 1
       THEN Unlink([assert(m, m.head = m.tail) EXCEPT !.head = NULL, !.tail = NULL],
                   m.head, m.mem)
       ELSE LET mem == [m.mem EXCEPT ![m.head].prev = NULL]
                new == mem[m.head].next
            IN  Unlink([assert(m, mem[new].prev = NULL /\ mem[m.tail].next = NULL)
                          EXCEPT !.head = new], m.head, mem)

\* MUTANT: an object that fills the cache exactly drops others
MakeRoomOffByOne(m, n) ==
  LET Room[i \in 0 .. m.node_count] ==
        IF i = 0 THEN m
        ELSE IF Room[i - 1].sz_cache + n >= MaxCache /\ Room[i - 1].asserted
             THEN dequeue(Room[i - 1]) ELSE Room[i - 1]
  IN  Room[m.node_count]

\* the while loop of cache_set: dequeue until n more bytes fit
MakeRoom(m, n) ==
  LET Room[i \in 0 .. m.node_count] ==
        IF i = 0 THEN m
        ELSE IF Room[i - 1].sz_cache + n > MaxCache /\ Room[i - 1].asserted
             THEN dequeue(Room[i - 1]) ELSE Room[i - 1]
  IN  Room[m.node_count]

enqueue(m, cn, k, d) ==
  LET node == [key |-> k, data |-> d, prev |-> m.tail, next |-> NULL]
      mem  == IF m.node_count = 0 THEN [m.mem EXCEPT ![cn] = [node EXCEPT !.prev = NULL]]
              ELSE [m.mem EXCEPT ![m.tail].next = cn, ![cn] = node]
      head == IF m.node_count = 0 THEN cn ELSE m.head
  IN  [assert(m, mem[head].prev = NULL) EXCEPT
         !.mem = mem, !.head = head, !.tail = cn,
         !.node_count = @ + 1, !.sz_cache = @ + Size[d]]

Prepared(k, d) ==
  LET old == cache_get(mc, k)
  IN  MakeRoom(IF old = NULL THEN mc ELSE delete_node(mc, old), Size[d])

cache_set(k, d) ==
  /\ status = "up"
  /\ Size[d] < MaxObject
  /\ Prepared(k, d).asserted
  /\ \E cn \in {x \in Nodes : Prepared(k, d).mem[x] = Free} :
       /\ enqueue(Prepared(k, d), cn, k, d).asserted
       /\ mc' = enqueue(Prepared(k, d), cn, k, d)
  /\ UNCHANGED status

\* an assertion of cache_set, dequeue or enqueue fails
cache_setAborts(k, d) ==
  /\ status = "up"
  /\ \/ Size[d] >= MaxObject
     \/ ~Prepared(k, d).asserted
     \/ \E cn \in Nodes : /\ Prepared(k, d).mem[cn] = Free
                          /\ ~enqueue(Prepared(k, d), cn, k, d).asserted
  /\ status' = "aborted"
  /\ UNCHANGED mc

Aborted == status = "aborted" /\ UNCHANGED mvars

MInit == mc = cache_init /\ status = "up"

MNext == Aborted \/ \E k \in Keys, d \in Data : cache_set(k, d) \/ cache_setAborts(k, d)

MSpec == MInit /\ [][MNext]_mvars

----------------------------------------------------------------------------
(***************************************************************************)
(* The list read from head to tail and the list read from tail to head are *)
(* the same node_count nodes, each other's reverse.  free_cache, which     *)
(* counts, and cache_get, which looks for NULL, see the same list.         *)
(***************************************************************************)
Order(m) ==
  LET Fwd[i \in 1 .. m.node_count] == IF i = 1 THEN m.head ELSE m.mem[Fwd[i - 1]].next
  IN  Fwd

DoublyLinked ==
  LET f == Order(mc)   n == mc.node_count IN
  /\ n = 0 => mc.head = NULL /\ mc.tail = NULL
  /\ n > 0 => f[n] = mc.tail /\ mc.mem[mc.tail].next = NULL /\ mc.mem[mc.head].prev = NULL
  /\ \A i \in 2 .. n : mc.mem[f[i]].prev = f[i - 1]
  /\ \A i, j \in 1 .. n : f[i] = f[j] => i = j
  /\ \A cn \in Nodes : mc.mem[cn] # Free => \E i \in 1 .. n : f[i] = cn

\* the struct has the types of cache.h, and its nodes are one list
CacheInv == MTypeOK /\ DoublyLinked

(***************************************************************************)
(* The list is the queue of CacheFifo, keys taken without their case: each *)
(* cache_set stores its object as the queue does, and aborts exactly when  *)
(* the queue breaks.                                                       *)
(***************************************************************************)
Entry(m, cn) == [key |-> Folded[m.mem[cn].key], data |-> m.mem[cn].data]
Queue == [i \in 1 .. mc.node_count |-> Entry(mc, Order(mc)[i])]

Fifo == INSTANCE CacheFifo WITH Keys <- {Folded[k] : k \in Keys},
                                queue <- Queue, broken <- status = "aborted"

ImplementsFifo == Fifo!QSpec

(***************************************************************************)
(* The sizes add up: sz_cache, which is only ever updated by differences,  *)
(* is what the nodes on the list hold, and within MAX_CACHE_SIZE.          *)
(***************************************************************************)
SizeIsRight == mc.sz_cache = Fifo!TotalSize(Queue) /\ mc.sz_cache <= MaxCache
=============================================================================

-------------------------------- MODULE Lru ---------------------------------
(***************************************************************************)
(* The simulator on any trace.  used is a history that the program does    *)
(* not keep: it tells of every block, as a set and a tag, at which access  *)
(* it was last used.  What least recently used means is stated with it.    *)
(***************************************************************************)
EXTENDS CSim, FiniteSets

CONSTANTS
  Addresses,   \* addresses in a trace
  MaxAccesses  \* bound of the length of a trace

ASSUME AddressesAssumption == Addresses \subseteq Nat
ASSUME AccessesAssumption == MaxAccesses \in Nat /\ MaxAccesses < STAMPS

VARIABLES used, accesses, modifies

vars == <<simvars, used, accesses, modifies>>

Use(block) ==
  used' = [b \in DOMAIN used \cup {block} |-> IF b = block THEN accesses + 1 ELSE used[b]]

Access(op, address) ==
  /\ accesses < MaxAccesses
  /\ LRUCacheAccess(op, address)
  /\ Use(<<get_set_idx(address), get_tag(address)>>)
  /\ accesses' = accesses + 1 /\ modifies' = modifies + OneIf(op = "M")

Init ==
  /\ \E c \in Configs : StartCSim(c)
  /\ used = [b \in {} |-> 0] /\ accesses = 0 /\ modifies = 0

\* Lines of the trace that do not begin with a space are skipped.
Next == \E op \in {"L", "S", "M"}, address \in Addresses : Access(op, address)

Spec == Init /\ [][Next]_vars

----------------------------------------------------------------------------
Line == [is_valid : BOOLEAN, tag : Nat, time_stamp : Nat]
LruTypeOK ==
  /\ config \in Configs /\ cache \in [Sets(config) -> [LinesOf(config) -> Line]]
  /\ time_stamp \in Nat /\ hits \in Nat /\ misses \in Nat /\ evictions \in Nat
  /\ used \in [DOMAIN used -> Nat] /\ accesses \in 0 .. MaxAccesses /\ modifies \in Nat

\* The stamp of a line is the last use of its block; a clear line has stamp 0.
StampsAreUses ==
  /\ time_stamp = accesses
  /\ \A s \in Sets(config) : \A i \in LinesOf(config) :
       IF cache[s][i].is_valid
       THEN /\ <<s, cache[s][i].tag>> \in DOMAIN used
            /\ used[<<s, cache[s][i].tag>>] = cache[s][i].time_stamp
            /\ cache[s][i].time_stamp \in 1 .. accesses
       ELSE cache[s][i].time_stamp = 0

\* No block is in two lines of its set, and no two lines have the same stamp.
LinesDiffer ==
  \A s \in Sets(config) : \A i, k \in LinesOf(config) :
    i # k /\ cache[s][i].is_valid /\ cache[s][k].is_valid
      => cache[s][i].tag # cache[s][k].tag /\ cache[s][i].time_stamp # cache[s][k].time_stamp

\* A block that was used and is not in the cache any more was used before
\* every block that is in its set, and the set is full.
EvictedIsOlder ==
  \A b \in DOMAIN used :
    \/ \E i \in LinesOf(config) : Holds(cache[b[1]][i], b[2])
    \/ \A i \in LinesOf(config) : cache[b[1]][i].is_valid /\ used[b] < cache[b[1]][i].time_stamp

\* Together: time stamps implement the order of last use.
LruInv == LruTypeOK /\ DOMAIN used \subseteq Sets(config) \X Nat /\ StampsAreUses /\ LinesDiffer /\ EvictedIsOlder

\* The cache is least recently used in the sense that does not mention lines:
\* a block is present iff fewer than E blocks of its set were used after it.
KeepsMostRecent ==
  \A b \in DOMAIN used :
    LET later == {x \in DOMAIN used : x[1] = b[1] /\ used[x] > used[b]}
    IN  IsHit(cache[b[1]], b[2]) <=> Cardinality(later) < config.E

\* Every access is a hit or a miss, a modify one hit more; what was brought in
\* and not evicted is still there.
CountsAddUp ==
  /\ hits + misses = accesses + modifies
  /\ misses - evictions =
       Cardinality({p \in Sets(config) \X LinesOf(config) : cache[p[1]][p[2]].is_valid})
=============================================================================

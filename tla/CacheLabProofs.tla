--------------------------- MODULE CacheLabProofs ---------------------------
(***************************************************************************)
(* Proofs for the cache lab.  The time stamps of csim.c implement the      *)
(* order of last use, for every cache and every trace shorter than the     *)
(* range of a stamp; the functions of trans.c transpose, for every shape;  *)
(* and what test-trans.c prints of them agrees in itself.  The second part *)
(* starts at Cell, the third at Place.                                     *)
(***************************************************************************)
EXTENDS Lru, TestTrans, LeastNumber

(* Remainders: a set index is one of the sets, and a stamp that has not     *)
(* wrapped is the number of accesses.                                       *)
LEMMA Remainder ==
  ASSUME NEW n \in Nat, NEW m \in Nat \ {0}
  PROVE  n % m \in 0 .. m - 1 /\ n \div m \in Nat /\ (n < m => n % m = n)
  OBVIOUS

(* The loop of LRUCacheAccess finds the oldest line of a set.               *)
LEMMA OldestIsOldest ==
  ASSUME NEW e \in Nat \ {0}, NEW lines \in [0 .. e - 1 -> Line]
  PROVE  /\ Oldest(lines) \in 0 .. e - 1
         /\ \A k \in 0 .. e - 1 : lines[Oldest(lines)].time_stamp <= lines[k].time_stamp
<1> DEFINE stamps == {lines[i].time_stamp : i \in 0 .. e - 1}
<1>1. stamps \in SUBSET Nat /\ stamps # {}
  BY DEF Line
<1>2. PICK low \in stamps : \A x \in stamps : low <= x
  BY <1>1, SmallestExists
<1> DEFINE lowest == {i \in 0 .. e - 1 : lines[i].time_stamp = low}
<1>3. lowest \in SUBSET Nat /\ lowest # {}
  BY <1>2
<1>4. PICK m \in lowest : \A k \in lowest : m <= k
  BY <1>3, SmallestExists
<1> DEFINE First(n) == \A k \in DOMAIN lines :
             Older(lines[n], lines[k]) /\ (Older(lines[k], lines[n]) => n <= k)
<1>5. m \in DOMAIN lines /\ First(m)
  <2>1. ASSUME NEW k \in 0 .. e - 1
        PROVE  lines[m].time_stamp <= lines[k].time_stamp
    BY <1>2, <1>4
  <2>2. ASSUME NEW k \in 0 .. e - 1, lines[k].time_stamp <= lines[m].time_stamp
        PROVE  m <= k
    <3>1. lines[k].time_stamp = low
      BY <2>1, <2>2, <1>4 DEF Line
    <3>2. QED
      BY <3>1, <1>4
  <2>3. QED
    BY <2>1, <2>2, <1>4 DEF Older
<1>6. Oldest(lines) = CHOOSE n \in DOMAIN lines : First(n)
  BY DEF Oldest
<1>7. Oldest(lines) \in DOMAIN lines /\ First(Oldest(lines))
  <2> HIDE DEF First
  <2> QED BY <1>5, <1>6
<1>8. QED
  BY <1>7 DEF Older

(* The line that an access touches: the one that holds the tag, or else the *)
(* oldest.                                                                  *)
LEMMA TargetIsRight ==
  ASSUME NEW e \in Nat \ {0}, NEW lines \in [0 .. e - 1 -> Line], NEW tag
  PROVE  /\ Target(lines, tag) \in 0 .. e - 1
         /\ IsHit(lines, tag) => Holds(lines[Target(lines, tag)], tag)
         /\ ~IsHit(lines, tag) =>
              \A k \in 0 .. e - 1 : lines[Target(lines, tag)].time_stamp <= lines[k].time_stamp
<1>1. CASE IsHit(lines, tag)
  BY <1>1 DEF IsHit, Target
<1>2. CASE ~IsHit(lines, tag)
  BY <1>2, OldestIsOldest DEF Target
<1>3. QED
  BY <1>1, <1>2

(* Before the first access there is nothing to order.                       *)
LEMMA InitLru == Init => LruInv
<1> SUFFICES ASSUME Init PROVE LruInv
  OBVIOUS
<1>1. LruTypeOK
  BY ConfigsAssumption, AccessesAssumption
     DEF LruTypeOK, Init, StartCSim, init_LRUCache, NoLine, Line, Sets, LinesOf
<1>2. StampsAreUses /\ LinesDiffer
  BY DEF Init, StartCSim, init_LRUCache, NoLine, StampsAreUses, LinesDiffer
<1>3. DOMAIN used = {}
  BY DEF Init
<1>4. QED
  BY <1>1, <1>2, <1>3 DEF LruInv, EvictedIsOlder

(* An access puts one line into its set: the touched line holds the tag and *)
(* the number of this access, all others stay as they are.                  *)
LEMMA AccessEffect ==
  ASSUME LruInv, NEW op, NEW address \in Addresses, Access(op, address)
  PROVE  \E s \in Sets(config), t \in Nat : \E i \in LinesOf(config) :
    /\ config' = config /\ config \in Configs /\ accesses' = accesses + 1 /\ accesses' \in 0 .. MaxAccesses
    /\ time_stamp' = accesses + 1
    /\ cache' \in [Sets(config) -> [LinesOf(config) -> Line]]
    /\ \A x \in Sets(config), k \in LinesOf(config) :
         cache'[x][k] = IF x = s /\ k = i
                        THEN [is_valid |-> TRUE, tag |-> t, time_stamp |-> accesses + 1]
                        ELSE cache[x][k]
    /\ IF IsHit(cache[s], t) THEN Holds(cache[s][i], t)
       ELSE \A k \in LinesOf(config) : cache[s][i].time_stamp <= cache[s][k].time_stamp
    /\ DOMAIN used' = DOMAIN used \cup {<<s, t>>}
    /\ used'[<<s, t>>] = accesses + 1
    /\ \A b \in DOMAIN used \ {<<s, t>>} : used'[b] = used[b]
<1> DEFINE s == get_set_idx(address)
           t == get_tag(address)
           lines == cache[s]
           i == Target(lines, t)
<1>1. config \in Configs /\ config.S \in Nat \ {0} /\ config.E \in Nat \ {0} /\ config.B \in Nat \ {0}
  BY ConfigsAssumption DEF LruInv, LruTypeOK
<1>2. s \in Sets(config) /\ t \in Nat
  <2>1. address \div config.B \in Nat
    BY <1>1, AddressesAssumption, Remainder
  <2>2. QED
    BY <1>1, <2>1, Remainder DEF get_set_idx, get_tag, Sets
<1>3. lines \in [0 .. config.E - 1 -> Line]
  BY <1>2 DEF LruInv, LruTypeOK, LinesOf
<1>4. /\ i \in LinesOf(config)
      /\ IsHit(lines, t) => Holds(lines[i], t)
      /\ ~IsHit(lines, t) => \A k \in LinesOf(config) : lines[i].time_stamp <= lines[k].time_stamp
  BY <1>1, <1>3, TargetIsRight DEF LinesOf
<1>5. accesses' = accesses + 1 /\ accesses' \in 0 .. MaxAccesses /\ config' = config
  BY AccessesAssumption DEF Access, LRUCacheAccess, LruInv, LruTypeOK
<1>6. time_stamp' = accesses + 1
  <2>1. accesses + 1 \in Nat /\ accesses + 1 < STAMPS /\ time_stamp = accesses
    BY <1>5, AccessesAssumption, StampsAssumption DEF LruInv, LruTypeOK, StampsAreUses
  <2>2. QED
    BY <2>1, StampsAssumption, Remainder DEF Access, LRUCacheAccess, Tick
<1>7. Stamped(lines[i], IsHit(lines, t), t) = [is_valid |-> TRUE, tag |-> t, time_stamp |-> accesses + 1]
  <2>1. Tick = accesses + 1
    BY <1>6 DEF Access, LRUCacheAccess
  <2>2. lines[i] \in Line
    BY <1>3, <1>4 DEF LinesOf
  <2>3. IsHit(lines, t) => lines[i].is_valid = TRUE /\ lines[i].tag = t
    BY <1>4, <2>2 DEF Holds, Line
  <2>4. QED
    BY <2>1, <2>2, <2>3 DEF Stamped, Line
<1>8. cache' = [cache EXCEPT ![s] = [lines EXCEPT ![i] =
                  [is_valid |-> TRUE, tag |-> t, time_stamp |-> accesses + 1]]]
  BY <1>7 DEF Access, LRUCacheAccess, UpdateSet
<1>9. cache' \in [Sets(config) -> [LinesOf(config) -> Line]]
  <2>1. [is_valid |-> TRUE, tag |-> t, time_stamp |-> accesses + 1] \in Line
    BY <1>2, <1>5 DEF Line, LruInv, LruTypeOK
  <2>2. QED
    BY <1>2, <1>3, <1>4, <1>8, <2>1 DEF LruInv, LruTypeOK, LinesOf
<1>10. \A x \in Sets(config), k \in LinesOf(config) :
         cache'[x][k] = IF x = s /\ k = i
                        THEN [is_valid |-> TRUE, tag |-> t, time_stamp |-> accesses + 1]
                        ELSE cache[x][k]
  BY <1>2, <1>3, <1>4, <1>8 DEF LruInv, LruTypeOK, LinesOf
<1>11. /\ DOMAIN used' = DOMAIN used \cup {<<s, t>>}
       /\ used'[<<s, t>>] = accesses + 1
       /\ \A b \in DOMAIN used \ {<<s, t>>} : used'[b] = used[b]
  BY DEF Access, Use
<1> HIDE DEF s, t, i
<1>12. QED
  BY <1>1, <1>2, <1>4, <1>5, <1>6, <1>9, <1>10, <1>11

(* A step keeps the invariant: the new stamp is larger than every other, and *)
(* the block that leaves was, of its set, the one used longest ago.          *)
LEMMA AccessLru ==
  ASSUME LruInv, NEW op \in {"L", "S", "M"}, NEW address \in Addresses, Access(op, address)
  PROVE  LruInv'
<1>1. PICK s \in Sets(config), t \in Nat : \E i \in LinesOf(config) :
    /\ config' = config /\ config \in Configs /\ accesses' = accesses + 1 /\ accesses' \in 0 .. MaxAccesses
    /\ time_stamp' = accesses + 1
    /\ cache' \in [Sets(config) -> [LinesOf(config) -> Line]]
    /\ \A x \in Sets(config), k \in LinesOf(config) :
         cache'[x][k] = IF x = s /\ k = i
                        THEN [is_valid |-> TRUE, tag |-> t, time_stamp |-> accesses + 1]
                        ELSE cache[x][k]
    /\ IF IsHit(cache[s], t) THEN Holds(cache[s][i], t)
       ELSE \A k \in LinesOf(config) : cache[s][i].time_stamp <= cache[s][k].time_stamp
    /\ DOMAIN used' = DOMAIN used \cup {<<s, t>>}
    /\ used'[<<s, t>>] = accesses + 1
    /\ \A b \in DOMAIN used \ {<<s, t>>} : used'[b] = used[b]
  BY AccessEffect
<1>2. PICK i \in LinesOf(config) :
    /\ config' = config /\ config \in Configs /\ accesses' = accesses + 1 /\ accesses' \in 0 .. MaxAccesses
    /\ time_stamp' = accesses + 1
    /\ cache' \in [Sets(config) -> [LinesOf(config) -> Line]]
    /\ \A x \in Sets(config), k \in LinesOf(config) :
         cache'[x][k] = IF x = s /\ k = i
                        THEN [is_valid |-> TRUE, tag |-> t, time_stamp |-> accesses + 1]
                        ELSE cache[x][k]
    /\ IF IsHit(cache[s], t) THEN Holds(cache[s][i], t)
       ELSE \A k \in LinesOf(config) : cache[s][i].time_stamp <= cache[s][k].time_stamp
    /\ DOMAIN used' = DOMAIN used \cup {<<s, t>>}
    /\ used'[<<s, t>>] = accesses + 1
    /\ \A b \in DOMAIN used \ {<<s, t>>} : used'[b] = used[b]
  BY <1>1
<1> DEFINE new == [is_valid |-> TRUE, tag |-> t, time_stamp |-> accesses + 1]
<1>3. cache'[s][i] = new
      /\ \A x \in Sets(config), k \in LinesOf(config) : ~(x = s /\ k = i) => cache'[x][k] = cache[x][k]
  BY <1>2
<1>4. /\ accesses \in Nat /\ \A x \in Sets(config), k \in LinesOf(config) : cache[x][k] \in Line
      /\ LinesOf(config)' = LinesOf(config) /\ Sets(config)' = Sets(config)
  <2>1. accesses \in Nat
    BY AccessesAssumption DEF LruInv, LruTypeOK
  <2>2. \A x \in Sets(config), k \in LinesOf(config) : cache[x][k] \in Line
    BY DEF LruInv, LruTypeOK
  <2>3. LinesOf(config)' = LinesOf(config) /\ Sets(config)' = Sets(config)
    BY <1>2 DEF LinesOf, Sets
  <2>4. QED
    BY <2>1, <2>2, <2>3
<1>5. LruTypeOK'
  <2>1. hits' \in Nat /\ misses' \in Nat /\ evictions' \in Nat /\ modifies' \in Nat
    BY DEF Access, LRUCacheAccess, Count, OneIf, LruInv, LruTypeOK
  <2>2. QED
    <3>1. used' \in [DOMAIN used' -> Nat]
      BY <1>4 DEF Access, Use, LruInv, LruTypeOK
    <3>2. QED
      BY <1>2, <1>4, <2>1, <3>1 DEF LruTypeOK
<1>6. (DOMAIN used \subseteq Sets(config) \X Nat)'
  BY <1>2, <1>4 DEF LruInv
\* The tag is in no other line of its set.
<1>7. \A k \in LinesOf(config) \ {i} : ~Holds(cache[s][k], t)
  <2> SUFFICES ASSUME NEW k \in LinesOf(config) \ {i}, Holds(cache[s][k], t) PROVE FALSE
    OBVIOUS
  <2>1. cache \in [Sets(config) -> [LinesOf(config) -> Line]]
    BY DEF LruInv, LruTypeOK
  <2>2. IsHit(cache[s], t)
    BY <2>1 DEF IsHit
  <2>3. Holds(cache[s][i], t)
    BY <1>2, <2>2
  <2>4. QED
    BY <2>3 DEF Holds, LruInv, LinesDiffer
\* Stamps given before are smaller than the new one.
<1>8. \A x \in Sets(config), k \in LinesOf(config) : cache[x][k].time_stamp <= accesses
  <2> SUFFICES ASSUME NEW x \in Sets(config), NEW k \in LinesOf(config)
      PROVE  cache[x][k].time_stamp <= accesses
    OBVIOUS
  <2>1. CASE cache[x][k].is_valid
    <3>1. cache[x][k].time_stamp \in 1 .. accesses
      BY <2>1 DEF LruInv, StampsAreUses
    <3>2. QED
      BY <1>4, <3>1
  <2>2. CASE ~cache[x][k].is_valid
    <3>1. cache[x][k].time_stamp = 0
      BY <2>2 DEF LruInv, StampsAreUses
    <3>2. QED
      BY <1>4, <3>1
  <2>3. QED
    BY <2>1, <2>2
<1>9. StampsAreUses'
  <2> SUFFICES ASSUME NEW x \in Sets(config), NEW k \in LinesOf(config)
      PROVE  IF cache'[x][k].is_valid
             THEN /\ <<x, cache'[x][k].tag>> \in DOMAIN used'
                  /\ used'[<<x, cache'[x][k].tag>>] = cache'[x][k].time_stamp
                  /\ cache'[x][k].time_stamp \in 1 .. accesses'
             ELSE cache'[x][k].time_stamp = 0
    BY <1>2, <1>4 DEF StampsAreUses
  <2>1. CASE x = s /\ k = i
    BY <1>2, <1>3, <1>4, <2>1
  <2>2. CASE ~(x = s /\ k = i)
    <3>1. cache'[x][k] = cache[x][k]
      BY <1>3, <2>2
    <3>2. CASE ~cache[x][k].is_valid
      BY <3>1, <3>2 DEF LruInv, StampsAreUses
    <3>3. CASE cache[x][k].is_valid
      <4>1. <<x, cache[x][k].tag>> # <<s, t>>
        BY <1>7, <2>2, <3>3 DEF Holds
      <4>2. /\ <<x, cache[x][k].tag>> \in DOMAIN used
            /\ used[<<x, cache[x][k].tag>>] = cache[x][k].time_stamp
            /\ cache[x][k].time_stamp \in 1 .. accesses
        BY <3>3 DEF LruInv, StampsAreUses
      <4>3. QED
        BY <1>2, <1>4, <3>1, <3>3, <4>1, <4>2
    <3>4. QED
      BY <3>2, <3>3
  <2>3. QED
    BY <2>1, <2>2
<1>10. LinesDiffer'
  <2> SUFFICES ASSUME NEW x \in Sets(config), NEW k \in LinesOf(config), NEW l \in LinesOf(config),
                      k # l, cache'[x][k].is_valid, cache'[x][l].is_valid
      PROVE  cache'[x][k].tag # cache'[x][l].tag /\ cache'[x][k].time_stamp # cache'[x][l].time_stamp
    BY <1>4 DEF LinesDiffer
  <2>1. CASE x = s /\ k = i
    BY <1>3, <1>4, <1>7, <1>8, <2>1 DEF Holds
  <2>2. CASE x = s /\ l = i
    BY <1>3, <1>4, <1>7, <1>8, <2>2 DEF Holds
  <2>3. CASE x # s \/ (k # i /\ l # i)
    BY <1>3, <2>3 DEF LruInv, LinesDiffer
  <2>4. QED
    BY <2>1, <2>2, <2>3
<1>11. EvictedIsOlder'
  <2> SUFFICES ASSUME NEW b \in DOMAIN used'
      PROVE  \/ \E k \in LinesOf(config) : Holds(cache'[b[1]][k], b[2])
             \/ \A k \in LinesOf(config) :
                  cache'[b[1]][k].is_valid /\ used'[b] < cache'[b[1]][k].time_stamp
    BY <1>4 DEF EvictedIsOlder, Holds
  <2>1. CASE b = <<s, t>>
    BY <1>3, <2>1 DEF Holds
  <2>2. CASE b # <<s, t>>
    <3>1. b \in DOMAIN used /\ used'[b] = used[b] /\ b[1] \in Sets(config) /\ b[2] \in Nat /\ b = <<b[1], b[2]>>
      BY <1>2, <2>2 DEF LruInv
    <3>2. ASSUME NEW k \in LinesOf(config), Holds(cache[b[1]][k], b[2])
          PROVE  \/ Holds(cache'[b[1]][k], b[2])
                 \/ \A l \in LinesOf(config) :
                      cache'[b[1]][l].is_valid /\ used[b] < cache'[b[1]][l].time_stamp
      <4>1. CASE ~(b[1] = s /\ k = i)
        BY <1>3, <3>1, <3>2, <4>1
      <4>2. CASE b[1] = s /\ k = i
        <5>1. b[2] # t
          BY <2>2, <3>1, <4>2
        <5>2. used[b] = cache[s][i].time_stamp /\ cache[s][i].is_valid /\ cache[s][i].time_stamp \in 1 .. accesses
          BY <3>1, <3>2, <4>2 DEF Holds, LruInv, StampsAreUses
        <5>3. ~IsHit(cache[s], t)
          BY <1>2, <3>2, <4>2, <5>1 DEF Holds
        <5>4. ASSUME NEW l \in LinesOf(config) \ {i}
              PROVE  cache[s][l].is_valid /\ used[b] < cache[s][l].time_stamp
          <6>1. cache[s][i].time_stamp <= cache[s][l].time_stamp /\ cache[s][i].time_stamp > 0
            BY <1>2, <5>2, <5>3
          <6>2. cache[s][l].is_valid
            <7>1. cache[s][l].time_stamp # 0
              BY <6>1, <5>2, <1>4 DEF Line
            <7>2. ~cache[s][l].is_valid => cache[s][l].time_stamp = 0
              BY DEF LruInv, StampsAreUses
            <7>3. QED
              BY <7>1, <7>2
          <6>3. cache[s][i].time_stamp # cache[s][l].time_stamp
            BY <6>2, <5>2 DEF LruInv, LinesDiffer
          <6>4. cache[s][l] \in Line /\ cache[s][i] \in Line
            BY <1>4
          <6>5. QED
            BY <5>2, <6>1, <6>2, <6>3, <6>4 DEF Line
        <5>5. QED
          BY <1>3, <1>4, <4>2, <5>2, <5>4
      <4>3. QED
        BY <4>1, <4>2
    <3>3. ASSUME \A k \in LinesOf(config) :
                   cache[b[1]][k].is_valid /\ used[b] < cache[b[1]][k].time_stamp
          PROVE  \A k \in LinesOf(config) :
                   cache'[b[1]][k].is_valid /\ used'[b] < cache'[b[1]][k].time_stamp
      <4> SUFFICES ASSUME NEW k \in LinesOf(config)
          PROVE  cache'[b[1]][k].is_valid /\ used[b] < cache'[b[1]][k].time_stamp
        BY <3>1
      <4>1. CASE ~(b[1] = s /\ k = i)
        BY <1>3, <3>1, <3>3, <4>1
      <4>2. CASE b[1] = s /\ k = i
        <5>1. used[b] \in Nat /\ cache[s][i].time_stamp \in Nat
          BY <1>4, <3>1 DEF LruInv, LruTypeOK, Line
        <5>2. used[b] < accesses + 1
          BY <1>4, <1>8, <3>3, <4>2, <5>1
        <5>3. QED
          BY <1>3, <4>2, <5>2
      <4>3. QED
        BY <4>1, <4>2
    <3>4. QED
      BY <3>1, <3>2, <3>3 DEF LruInv, EvictedIsOlder
  <2>3. QED
    BY <2>1, <2>2
<1>12. QED
  BY <1>5, <1>6, <1>9, <1>10, <1>11 DEF LruInv

(* In every trace the stamps of the lines are the last uses of their blocks, *)
(* no block is held twice, and what was evicted is older than what stayed.   *)
THEOREM LruIsKept == Spec => []LruInv
<1>1. LruInv /\ [Next]_vars => LruInv'
  <2> SUFFICES ASSUME LruInv, [Next]_vars PROVE LruInv'
    OBVIOUS
  <2>1. CASE Next
    BY <2>1, AccessLru DEF Next
  <2>2. CASE UNCHANGED vars
    BY <2>2 DEF vars, simvars, LruInv, LruTypeOK, StampsAreUses, LinesDiffer, EvictedIsOlder, Sets, LinesOf, Holds
  <2>3. QED
    BY <2>1, <2>2
<1>2. QED
  BY InitLru, <1>1, PTL DEF Spec
----------------------------------------------------------------------------
\* the lines that hold a block
InUse == {p \in Sets(config) \X LinesOf(config) : cache[p[1]][p[2]].is_valid}

(* An access leaves the line it touches in use.  It is a hit or a miss, and *)
(* a miss that does not evict takes a clear line.                           *)
LEMMA AccessCounts ==
  ASSUME LruInv, NEW op, NEW address \in Addresses, Access(op, address)
  PROVE  \E s \in Sets(config), i \in LinesOf(config) :
    /\ InUse' = InUse \cup {<<s, i>>}
    /\ hits' + misses' = hits + misses + 1 + OneIf(op = "M")
    /\ misses' - evictions' = misses - evictions + (IF <<s, i>> \in InUse THEN 0 ELSE 1)
<1> DEFINE s == get_set_idx(address)
           t == get_tag(address)
           i == Target(cache[s], t)
<1>1. config \in Configs /\ config.S \in Nat \ {0} /\ config.E \in Nat \ {0} /\ config.B \in Nat \ {0}
  BY ConfigsAssumption DEF LruInv, LruTypeOK
<1>2. s \in Sets(config)
  <2>1. address \div config.B \in Nat
    BY <1>1, AddressesAssumption, Remainder
  <2>2. QED
    BY <1>1, <2>1, Remainder DEF get_set_idx, Sets
<1>3. cache \in [Sets(config) -> [LinesOf(config) -> Line]] /\ cache[s] \in [0 .. config.E - 1 -> Line]
  BY <1>2 DEF LruInv, LruTypeOK, LinesOf
<1>4. i \in LinesOf(config) /\ (IsHit(cache[s], t) => cache[s][i].is_valid)
  BY <1>1, <1>3, TargetIsRight DEF LinesOf, Holds
<1>5. config' = config
      /\ cache' = [cache EXCEPT ![s] = [cache[s] EXCEPT ![i] =
                     Stamped(cache[s][i], IsHit(cache[s], t), t)]]
  BY DEF Access, LRUCacheAccess, UpdateSet
<1>6. cache'[s][i].is_valid
  <2>1. cache'[s][i] = Stamped(cache[s][i], IsHit(cache[s], t), t)
    BY <1>2, <1>3, <1>4, <1>5
  <2>2. cache[s][i] \in Line
    BY <1>3, <1>4 DEF LinesOf
  <2>3. QED
    BY <1>4, <2>1, <2>2 DEF Stamped, Line
<1>7. \A x \in Sets(config), k \in LinesOf(config) : ~(x = s /\ k = i) => cache'[x][k] = cache[x][k]
  BY <1>2, <1>3, <1>4, <1>5
<1>8. Sets(config)' = Sets(config) /\ LinesOf(config)' = LinesOf(config)
  BY <1>5 DEF Sets, LinesOf
<1>9. /\ hits' = hits + OneIf(IsHit(cache[s], t)) + OneIf(op = "M")
      /\ misses' = misses + OneIf(~IsHit(cache[s], t))
      /\ evictions' = evictions + OneIf(~IsHit(cache[s], t) /\ cache[s][i].is_valid)
  BY DEF Access, LRUCacheAccess, Count, Evicts, Target
<1>10. hits \in Nat /\ misses \in Nat /\ evictions \in Nat
  BY DEF LruInv, LruTypeOK
<1> HIDE DEF s, t, i
<1>11. InUse' = InUse \cup {<<s, i>>}
  BY <1>2, <1>4, <1>6, <1>7, <1>8 DEF InUse
<1>12. <<s, i>> \in InUse <=> cache[s][i].is_valid
  BY <1>2, <1>4 DEF InUse
<1>13. hits' + misses' = hits + misses + 1 + OneIf(op = "M")
  BY <1>9, <1>10 DEF OneIf
<1>14. misses' - evictions' = misses - evictions + (IF <<s, i>> \in InUse THEN 0 ELSE 1)
  BY <1>4, <1>9, <1>10, <1>12 DEF OneIf
<1>15. QED
  BY <1>2, <1>4, <1>11, <1>13, <1>14

(* The counts of csim.c fit each other and the cache: every access is a hit *)
(* or a miss, and the misses that did not evict are the lines in use.       *)
THEOREM CountsFit == Spec => []CountsAddUp
<1> DEFINE Fits == IsFiniteSet(InUse) /\ CountsAddUp
<1>1. Init => Fits
  <2> SUFFICES ASSUME Init PROVE Fits
    OBVIOUS
  <2>1. InUse = {}
    BY DEF Init, StartCSim, init_LRUCache, NoLine, InUse
  <2>2. hits = 0 /\ misses = 0 /\ evictions = 0 /\ accesses = 0 /\ modifies = 0
    BY DEF Init, StartCSim
  <2>3. IsFiniteSet(InUse) /\ Cardinality(InUse) = 0
    BY <2>1, FS_EmptySet
  <2>4. CountsAddUp
    BY <2>2, <2>3 DEF CountsAddUp, InUse
  <2>5. QED
    BY <2>3, <2>4
<1>2. ASSUME LruInv, Fits, [Next]_vars PROVE Fits'
  <2>1. CASE Next
    <3>1. PICK op \in {"L", "S", "M"}, address \in Addresses : Access(op, address)
      BY <2>1 DEF Next
    <3>2. PICK s \in Sets(config), i \in LinesOf(config) :
            /\ InUse' = InUse \cup {<<s, i>>}
            /\ hits' + misses' = hits + misses + 1 + OneIf(op = "M")
            /\ misses' - evictions' = misses - evictions + (IF <<s, i>> \in InUse THEN 0 ELSE 1)
      BY <1>2, <3>1, AccessCounts
    <3>3. IsFiniteSet(InUse')
          /\ Cardinality(InUse') = IF <<s, i>> \in InUse THEN Cardinality(InUse) ELSE Cardinality(InUse) + 1
      BY <1>2, <3>2, FS_AddElement
    <3>4. hits + misses = accesses + modifies /\ misses - evictions = Cardinality(InUse)
      BY <1>2 DEF CountsAddUp, InUse
    <3>5. accesses' = accesses + 1 /\ modifies' = modifies + OneIf(op = "M")
      BY <3>1 DEF Access
    <3>6. accesses \in Nat /\ modifies \in Nat
      BY <1>2, AccessesAssumption DEF LruInv, LruTypeOK
    <3>7. Cardinality(InUse) \in Nat
      BY <1>2, FS_CardinalityType
    <3>8. hits' + misses' = accesses' + modifies'
      BY <3>2, <3>4, <3>5, <3>6 DEF OneIf
    <3>9. misses' - evictions' = Cardinality(InUse')
      BY <3>2, <3>3, <3>4, <3>7
    <3>10. QED
      BY <3>3, <3>8, <3>9 DEF CountsAddUp, InUse
  <2>2. CASE UNCHANGED vars
    BY <1>2, <2>2 DEF vars, simvars, CountsAddUp, InUse, Sets, LinesOf
  <2>3. QED
    BY <1>2, <2>1, <2>2
<1>3. LruInv /\ Fits /\ [Next]_vars => Fits'
  BY <1>2
<1>4. QED
  BY <1>1, <1>3, LruIsKept, PTL DEF Spec
----------------------------------------------------------------------------
(* The blocks of its set that were used after b.                            *)
Later(b) == {x \in DOMAIN used : x[1] = b[1] /\ used[x] > used[b]}

LEMMA LinesCounted ==
  ASSUME config.E \in Nat \ {0}
  PROVE  IsFiniteSet(LinesOf(config)) /\ Cardinality(LinesOf(config)) = config.E
<1> DEFINE last == config.E - 1
<1>1. last \in Int /\ ~(0 > last) /\ last - 0 + 1 = config.E /\ LinesOf(config) = 0 .. last
  BY DEF LinesOf
<1> HIDE DEF last
<1>2. IsFiniteSet(0 .. last) /\ Cardinality(0 .. last) = last - 0 + 1
  BY <1>1, FS_Interval
<1> QED BY <1>1, <1>2

(* While b is in the cache the later blocks are in the other lines of its   *)
(* set; when it is not, the blocks of all the lines are later.              *)
LEMMA LaterOfPresent ==
  ASSUME LruInv, NEW b \in DOMAIN used, IsHit(cache[b[1]], b[2])
  PROVE  Cardinality(Later(b)) < config.E
<1> DEFINE s == b[1]
<1>1. config.E \in Nat \ {0}
  BY ConfigsAssumption DEF LruInv, LruTypeOK
<1>2. DOMAIN used \subseteq Sets(config) \X Nat /\ s \in Sets(config) /\ used \in [DOMAIN used -> Nat]
      /\ b = <<s, b[2]>>
  BY DEF LruInv, LruTypeOK
<1>3. cache[s] \in [LinesOf(config) -> Line]
  BY <1>2 DEF LruInv, LruTypeOK
<1>4. PICK i \in LinesOf(config) : Holds(cache[s][i], b[2])
  BY <1>3 DEF IsHit
<1>5. used[b] = cache[s][i].time_stamp
  BY <1>2, <1>4 DEF LruInv, StampsAreUses, Holds
<1>6. \A x \in Later(b) : \E k \in LinesOf(config) \ {i} : Holds(cache[s][k], x[2])
  <2> SUFFICES ASSUME NEW x \in Later(b)
               PROVE  \E k \in LinesOf(config) \ {i} : Holds(cache[s][k], x[2])
    OBVIOUS
  <2>1. x \in DOMAIN used /\ x[1] = s /\ used[x] > used[b]
    BY DEF Later
  <2>2. cache[s][i].time_stamp \in Nat /\ used[x] \in Nat
    BY <1>2, <1>3, <2>1 DEF Line
  <2>3. PICK k \in LinesOf(config) : Holds(cache[s][k], x[2])
    BY <1>4, <1>5, <2>1, <2>2 DEF LruInv, EvictedIsOlder
  <2>4. k # i
    <3> SUFFICES ASSUME k = i PROVE FALSE
      OBVIOUS
    <3>1. x[2] = b[2] /\ x = <<x[1], x[2]>>
      BY <1>2, <1>4, <2>1, <2>3 DEF Holds
    <3>2. x = b
      BY <1>2, <2>1, <3>1
    <3> QED BY <1>2, <2>1, <3>2
  <2> QED BY <2>3, <2>4
<1> DEFINE f == [x \in Later(b) |-> CHOOSE k \in LinesOf(config) \ {i} : Holds(cache[s][k], x[2])]
<1>7. \A x \in Later(b) : f[x] \in LinesOf(config) \ {i} /\ Holds(cache[s][f[x]], x[2])
  BY <1>6
<1>8. f \in [Later(b) -> LinesOf(config) \ {i}]
  BY <1>7
<1>9. \A x, y \in Later(b) : f[x] = f[y] => x = y
  <2> SUFFICES ASSUME NEW x \in Later(b), NEW y \in Later(b), f[x] = f[y] PROVE x = y
    OBVIOUS
  <2> HIDE DEF f
  <2>1. x[2] = y[2]
    BY <1>7 DEF Holds
  <2>2. x[1] = y[1] /\ x = <<x[1], x[2]>> /\ y = <<y[1], y[2]>>
    BY <1>2 DEF Later
  <2> QED BY <2>1, <2>2
<1>10. f \in Injection(Later(b), LinesOf(config) \ {i})
  <2> HIDE DEF f
  <2> QED BY <1>8, <1>9 DEF Injection, IsInjective
<1>11. IsFiniteSet(LinesOf(config)) /\ Cardinality(LinesOf(config)) = config.E
  BY <1>1, LinesCounted
<1>12. IsFiniteSet(LinesOf(config) \ {i}) /\ Cardinality(LinesOf(config) \ {i}) = config.E - 1
  BY <1>4, <1>11, FS_RemoveElement
<1>13. IsFiniteSet(Later(b)) /\ Cardinality(Later(b)) <= config.E - 1
  <2> HIDE DEF f
  <2> QED BY <1>10, <1>12, FS_Injection
<1>14. Cardinality(Later(b)) \in Nat
  BY <1>13, FS_CardinalityType
<1> QED BY <1>1, <1>13, <1>14

LEMMA LaterOfEvicted ==
  ASSUME LruInv, IsFiniteSet(DOMAIN used), NEW b \in DOMAIN used, ~IsHit(cache[b[1]], b[2])
  PROVE  ~(Cardinality(Later(b)) < config.E)
<1> DEFINE s == b[1]
           g == [k \in LinesOf(config) |-> <<s, cache[s][k].tag>>]
<1>1. config.E \in Nat \ {0}
  BY ConfigsAssumption DEF LruInv, LruTypeOK
<1>2. s \in Sets(config) /\ used \in [DOMAIN used -> Nat]
  BY DEF LruInv, LruTypeOK
<1>3. cache[s] \in [LinesOf(config) -> Line]
  BY <1>2 DEF LruInv, LruTypeOK
<1>4. \A k \in LinesOf(config) : cache[s][k].is_valid /\ used[b] < cache[s][k].time_stamp
  BY <1>3 DEF IsHit, LruInv, EvictedIsOlder
<1>5. \A k \in LinesOf(config) : <<s, cache[s][k].tag>> \in DOMAIN used
                                 /\ used[<<s, cache[s][k].tag>>] = cache[s][k].time_stamp
  BY <1>2, <1>4 DEF LruInv, StampsAreUses
<1>6. g \in [LinesOf(config) -> Later(b)]
  <2>1. \A k \in LinesOf(config) : used[b] \in Nat /\ cache[s][k].time_stamp \in Nat
    BY <1>2, <1>3 DEF Line
  <2> QED BY <1>4, <1>5, <2>1 DEF Later
<1>7. \A k, l \in LinesOf(config) : g[k] = g[l] => k = l
  BY <1>2, <1>4 DEF LruInv, LinesDiffer
<1>8. g \in Injection(LinesOf(config), Later(b))
  <2> HIDE DEF g
  <2> QED BY <1>6, <1>7 DEF Injection, IsInjective
<1>9. IsFiniteSet(Later(b))
  BY FS_Subset DEF Later
<1>10. Cardinality(LinesOf(config)) = config.E
  BY <1>1, LinesCounted
<1>11. Cardinality(LinesOf(config)) <= Cardinality(Later(b)) /\ Cardinality(Later(b)) \in Nat
  <2> HIDE DEF g
  <2> QED BY <1>8, <1>9, FS_Injection, FS_CardinalityType
<1> QED BY <1>1, <1>10, <1>11

(* csim.c simulates a cache that replaces the least recently used block: a  *)
(* block is in the cache exactly as long as fewer blocks of its set were    *)
(* used after it than the set has lines.                                    *)
THEOREM MostRecentKept == Spec => []KeepsMostRecent
<1>1. Init => IsFiniteSet(DOMAIN used)
  <2> SUFFICES ASSUME Init PROVE IsFiniteSet(DOMAIN used)
    OBVIOUS
  <2>1. DOMAIN used = {}
    BY DEF Init
  <2> QED BY <2>1, FS_EmptySet
<1>2. LruInv /\ IsFiniteSet(DOMAIN used) /\ [Next]_vars => IsFiniteSet(DOMAIN used)'
  <2> SUFFICES ASSUME LruInv, IsFiniteSet(DOMAIN used), [Next]_vars PROVE IsFiniteSet(DOMAIN used')
    OBVIOUS
  <2>1. CASE Next
    <3>1. PICK op \in {"L", "S", "M"}, address \in Addresses : Access(op, address)
      BY <2>1 DEF Next
    <3>2. DOMAIN used' = DOMAIN used \cup {<<get_set_idx(address), get_tag(address)>>}
      BY <3>1 DEF Access, Use
    <3> QED BY <3>2, FS_AddElement
  <2>2. CASE UNCHANGED vars
    BY <2>2 DEF vars
  <2> QED BY <2>1, <2>2
<1>3. LruInv /\ IsFiniteSet(DOMAIN used) => KeepsMostRecent
  <2> SUFFICES ASSUME LruInv, IsFiniteSet(DOMAIN used), NEW b \in DOMAIN used
               PROVE  IsHit(cache[b[1]], b[2]) <=> Cardinality(Later(b)) < config.E
    BY DEF KeepsMostRecent, Later
  <2>1. CASE IsHit(cache[b[1]], b[2])
    BY <2>1, LaterOfPresent
  <2>2. CASE ~IsHit(cache[b[1]], b[2])
    BY <2>2, LaterOfEvicted
  <2> QED BY <2>1, <2>2
<1> QED BY <1>1, <1>2, <1>3, LruIsKept, PTL DEF Spec

----------------------------------------------------------------------------
\* where B has the element of column y and row x of A, and what A has there
Cell(x, y) == y * N + x
Number(x, y) == x * M + y
Stored(x, y) == B[Cell(x, y)] = Number(x, y)

\* the four loop variables are where the loops may take them
InLoops ==
  /\ at \in [col_block : Nat, row_block : Nat, i : Nat, j : Nat]
  /\ at.row_block <= at.i /\ at.i < RowEnd
  /\ at.col_block <= at.j /\ at.j < ColEnd
  /\ Blocked => at.row_block % step = 0 /\ at.col_block % step = 0

\* the elements before the present one, and with it
Passed(x, y) ==
  \/ y < at.col_block
  \/ y < ColEnd /\ (x < at.i \/ (x = at.i /\ y < at.j))
Reached(x, y) == Passed(x, y) \/ (x = at.i /\ y = at.j)
Covered(x, y) == IF pc = "diag" THEN Reached(x, y) ELSE Passed(x, y)

\* the element on the diagonal of the present row, to be stored at its end
OnDiagonalBlock == Blocked /\ at.row_block = at.col_block
Waits(x, y) == OnDiagonalBlock /\ x = at.i /\ y = at.i /\ diag = at.i

(***************************************************************************)
(* Every element that the loops have passed is stored, but for one that    *)
(* waits.  The element in temp may always be stored: what is left from a   *)
(* row before, in a block with rows beyond the last column, is stored in   *)
(* its place again.                                                        *)
(***************************************************************************)
TransInv ==
  /\ pc \in {"load", "store", "diag", "end"}
  /\ B \in [0 .. M * N - 1 -> Int]
  /\ diag \in 0 .. N - 1 /\ diag \in 0 .. M - 1 /\ temp = Number(diag, diag)
  /\ pc = "end" => \A x \in 0 .. N - 1, y \in 0 .. M - 1 : Stored(x, y)
  /\ pc # "end" =>
       /\ InLoops
       /\ \A x \in 0 .. N - 1, y \in 0 .. M - 1 : Covered(x, y) => Stored(x, y) \/ Waits(x, y)
  /\ pc = "store" => ~OnDiagonal /\ value = Number(at.i, at.j)
  /\ pc = "diag" => OnDiagonalBlock /\ at.j + 1 = ColEnd

TransIsKept ==
  /\ M \in Nat \ {0} /\ N \in Nat \ {0}
  /\ Promised =>
       /\ phase \in {"start", "call"} => TransInv
       /\ phase \in {"end", "validate"} => validate

----------------------------------------------------------------------------
(***************************************************************************)
(* The elements of a matrix have different places in memory.               *)
(***************************************************************************)
LEMMA RowsFollow ==
  ASSUME NEW n \in Nat \ {0}, NEW a \in Nat, NEW b \in Nat, a < b
  PROVE  a * n + n <= b * n
<1> DEFINE k == b - a - 1
<1>1. k \in Nat /\ b = a + 1 + k
  OBVIOUS
<1>2. b * n = a * n + n + k * n
  <2> HIDE DEF k
  <2> QED BY <1>1
<1>3. k * n \in Nat /\ a * n \in Nat /\ b * n \in Nat
  <2> HIDE DEF k
  <2> QED BY <1>1
<1> HIDE DEF k
<1>4. QED
  BY <1>2, <1>3

LEMMA CellsDiffer ==
  ASSUME NEW m \in Nat \ {0}, NEW n \in Nat \ {0},
         NEW x \in 0 .. n - 1, NEW y \in 0 .. m - 1
  PROVE  /\ y * n + x \in 0 .. m * n - 1
         /\ \A a \in 0 .. n - 1, b \in 0 .. m - 1 : b * n + a = y * n + x => a = x /\ b = y
<1>1. y * n \in Nat /\ m * n \in Nat /\ y * n + n <= m * n
  <2>1. y \in Nat /\ y < m
    OBVIOUS
  <2>2. y * n + n <= m * n
    BY <2>1, RowsFollow
  <2>3. QED
    BY <2>1, <2>2
<1>2. y * n + x \in 0 .. m * n - 1
  <2>1. x \in Nat /\ x < n
    OBVIOUS
  <2>2. QED
    BY <1>1, <2>1
<1>3. ASSUME NEW a \in 0 .. n - 1, NEW b \in 0 .. m - 1, b * n + a = y * n + x
      PROVE  a = x /\ b = y
  <2>1. b * n \in Nat /\ y * n \in Nat /\ b \in Nat /\ y \in Nat
    OBVIOUS
  <2>2. ~(b < y)
    <3>1. b < y => b * n + n <= y * n
      BY <2>1, RowsFollow
    <3>2. QED
      BY <1>3, <2>1, <3>1
  <2>3. ~(y < b)
    <3>1. y < b => y * n + n <= b * n
      BY <2>1, RowsFollow
    <3>2. QED
      BY <1>3, <2>1, <3>1
  <2>4. b = y
    BY <2>1, <2>2, <2>3
  <2>5. QED
    BY <1>3, <2>1, <2>4
<1>4. QED
  BY <1>2, <1>3

(* The block that a row is in.                                              *)
LEMMA BlocksTile ==
  ASSUME NEW s \in {4, 8, 16}, NEW a \in Nat, a % s = 0
  PROVE  /\ (a + s) % s = 0 /\ 0 % s = 0
         /\ \A b \in Nat, x \in Nat :
              b % s = 0 /\ a <= x /\ x < a + s /\ b <= x /\ x < b + s => a = b
<1>1. CASE s = 4
  BY <1>1
<1>2. CASE s = 8
  BY <1>2
<1>3. CASE s = 16
  BY <1>3
<1>4. QED
  BY <1>1, <1>2, <1>3

(* In the shapes that are promised the loops end at the last column.        *)
LEMMA ShapeOfLoops ==
  ASSUME M \in Nat \ {0}, N \in Nat \ {0}, Promised
  PROVE  Cols = M /\ step \in Nat \ {0} /\ (Blocked => step \in {4, 8, 16})
<1>1. CASE ~Blocked
  BY <1>1 DEF Cols, step, Square
<1>2. CASE Blocked /\ Square
  <2>1. M = N /\ N \in {32, 64}
    BY <1>2 DEF Blocked, Square, Promised
  <2>2. step = IF N = 64 THEN 4 ELSE 8
    BY <1>2, <2>1 DEF step
  <2>3. QED
    BY <1>2, <2>1, <2>2 DEF Cols
<1>3. CASE Blocked /\ ~Square
  BY <1>3 DEF Cols, step, Square
<1>4. QED
  BY <1>1, <1>2, <1>3

----------------------------------------------------------------------------
Sound == M \in Nat \ {0} /\ N \in Nat \ {0} /\ Promised
SameCall == UNCHANGED <<fn, M, N>>

LEMMA CallStays ==
  ASSUME SameCall
  PROVE  /\ step' = step /\ Cols' = Cols /\ (Blocked' <=> Blocked) /\ N' = N /\ M' = M
         /\ (Promised' <=> Promised)
  BY DEF SameCall, step, Cols, Square, Blocked, Promised

(* The numbers of a row and a column inside the loops.                      *)
LEMMA Positions ==
  ASSUME Sound, InLoops
  PROVE  /\ at.col_block \in Nat /\ at.row_block \in Nat /\ at.i \in Nat /\ at.j \in Nat
         /\ at.row_block <= at.i /\ at.i < RowEnd /\ at.col_block <= at.j /\ at.j < ColEnd
         /\ RowEnd = (IF at.row_block + step < N THEN at.row_block + step ELSE N)
         /\ ColEnd = (IF at.col_block + step < M THEN at.col_block + step ELSE M)
         /\ RowEnd \in Nat /\ ColEnd \in Nat
         /\ at.i \in 0 .. N - 1 /\ at.j \in 0 .. M - 1
<1>1. M \in Nat \ {0} /\ N \in Nat \ {0} /\ Cols = M /\ step \in Nat \ {0}
  BY ShapeOfLoops DEF Sound
<1>2. /\ at.col_block \in Nat /\ at.row_block \in Nat /\ at.i \in Nat /\ at.j \in Nat
      /\ at.row_block <= at.i /\ at.i < RowEnd /\ at.col_block <= at.j /\ at.j < ColEnd
  BY DEF InLoops
<1>3. /\ RowEnd = (IF at.row_block + step < N THEN at.row_block + step ELSE N)
      /\ ColEnd = (IF at.col_block + step < M THEN at.col_block + step ELSE M)
  BY <1>1 DEF RowEnd, ColEnd, Smaller
<1>4. QED
  BY <1>1, <1>2, <1>3

(***************************************************************************)
(* At the end of a row the loops go on to the first element that was not   *)
(* reached, or there is none.                                              *)
(***************************************************************************)
AllReached == \A x \in 0 .. N - 1, y \in 0 .. M - 1 : Reached(x, y)
Follows == \A x \in 0 .. N - 1, y \in 0 .. M - 1 : Passed(x, y)' => Reached(x, y)

\* the loops are at the start of a block
LEMMA BlockStarts ==
  ASSUME Sound, SameCall, NEW c \in Nat, NEW r \in Nat, c < M, r < N,
         Blocked => c % step = 0 /\ r % step = 0, Block(c, r)
  PROVE  /\ pc' = "load" /\ InLoops'
         /\ at'.col_block = c /\ at'.row_block = r /\ at'.i = r /\ at'.j = c
         /\ \A x \in 0 .. N - 1, y \in 0 .. M - 1 :
              Passed(x, y)' => \/ y < c
                               \/ y < (IF c + step < M THEN c + step ELSE M) /\ x < r
<1>1. M \in Nat \ {0} /\ N \in Nat \ {0} /\ Cols = M /\ step \in Nat \ {0}
  BY ShapeOfLoops DEF Sound
<1>2. at' = [col_block |-> c, row_block |-> r, i |-> r, j |-> c] /\ pc' = "load"
  BY DEF Block
<1>3. step' = step /\ Cols' = M /\ (Blocked' <=> Blocked) /\ N' = N /\ M' = M
  BY <1>1, CallStays
<1>4. /\ RowEnd' = (IF r + step < N THEN r + step ELSE N)
      /\ ColEnd' = (IF c + step < M THEN c + step ELSE M)
  BY <1>2, <1>3 DEF RowEnd, ColEnd, Smaller
<1>5. r < RowEnd' /\ c < ColEnd'
  BY <1>1, <1>4
<1>6. InLoops'
  BY <1>2, <1>3, <1>5 DEF InLoops
<1>7. ASSUME NEW x \in 0 .. N - 1, NEW y \in 0 .. M - 1, Passed(x, y)'
      PROVE  y < c \/ (y < ColEnd' /\ x < r)
  BY <1>1, <1>2, <1>7 DEF Passed
<1>8. QED
  BY <1>2, <1>4, <1>6, <1>7

LEMMA NextRowMoves ==
  ASSUME Sound, SameCall, InLoops, at.j + 1 = ColEnd, NextRow
  PROVE  \/ pc' = "end" /\ AllReached
         \/ pc' = "load" /\ InLoops' /\ Follows
<1>1. M \in Nat \ {0} /\ N \in Nat \ {0} /\ Cols = M /\ step \in Nat \ {0}
      /\ (Blocked => step \in {4, 8, 16})
  BY ShapeOfLoops DEF Sound
<1>2. /\ at.col_block \in Nat /\ at.row_block \in Nat /\ at.i \in Nat /\ at.j \in Nat
      /\ at.row_block <= at.i /\ at.i < RowEnd /\ at.col_block <= at.j /\ at.j < ColEnd
      /\ RowEnd = (IF at.row_block + step < N THEN at.row_block + step ELSE N)
      /\ ColEnd = (IF at.col_block + step < M THEN at.col_block + step ELSE M)
      /\ RowEnd \in Nat /\ ColEnd \in Nat
  BY Positions
<1>3. Blocked => at.row_block % step = 0 /\ at.col_block % step = 0
  BY DEF InLoops
<1>4. step' = step /\ Cols' = Cols /\ (Blocked' <=> Blocked) /\ N' = N /\ M' = M
  BY CallStays
<1>5. CASE at.i + 1 < RowEnd /\ at' = [at EXCEPT !.i = @ + 1, !.j = at.col_block] /\ pc' = "load"
  <2>1. /\ at' \in [col_block : Nat, row_block : Nat, i : Nat, j : Nat]
        /\ at'.col_block = at.col_block /\ at'.row_block = at.row_block
        /\ at'.i = at.i + 1 /\ at'.j = at.col_block
    <3>1. at \in [col_block : Nat, row_block : Nat, i : Nat, j : Nat]
      BY DEF InLoops
    <3>2. at' = [col_block |-> at.col_block, row_block |-> at.row_block,
                 i |-> at.i + 1, j |-> at.col_block]
      BY <1>5, <3>1
    <3>3. QED
      BY <1>2, <3>2
  <2>2. RowEnd' = RowEnd /\ ColEnd' = ColEnd
    BY <1>4, <2>1 DEF RowEnd, ColEnd
  <2>3. InLoops'
    BY <1>2, <1>3, <1>4, <1>5, <2>1, <2>2 DEF InLoops
  <2>4. ASSUME NEW x \in 0 .. N - 1, NEW y \in 0 .. M - 1, Passed(x, y)'
        PROVE  Reached(x, y)
    <3>1. y < at.col_block \/ (y < ColEnd /\ (x < at.i + 1 \/ (x = at.i + 1 /\ y < at.col_block)))
      BY <2>1, <2>2, <2>4 DEF Passed
    <3>2. QED
      BY <1>1, <1>2, <3>1 DEF Reached, Passed
  <2>5. QED
    BY <1>5, <2>3, <2>4 DEF Follows
<1>6. CASE at.i + 1 = RowEnd /\ RowEnd < N /\ Block(at.col_block, RowEnd)
  <2>1. RowEnd = at.row_block + step /\ at.col_block < M
    BY <1>1, <1>2, <1>6
  <2>2. Blocked => at.col_block % step = 0 /\ RowEnd % step = 0
    BY <1>1, <1>2, <1>3, <2>1, BlocksTile
  <2>3. /\ pc' = "load" /\ InLoops'
        /\ \A x \in 0 .. N - 1, y \in 0 .. M - 1 :
             Passed(x, y)' => y < at.col_block \/ (y < ColEnd /\ x < RowEnd)
    BY <1>2, <1>6, <2>1, <2>2, BlockStarts
  <2>4. ASSUME NEW x \in 0 .. N - 1, NEW y \in 0 .. M - 1, Passed(x, y)'
        PROVE  Reached(x, y)
    <3>1. y < at.col_block \/ (y < ColEnd /\ x < RowEnd)
      BY <2>3, <2>4
    <3>2. QED
      BY <1>1, <1>2, <1>6, <3>1 DEF Reached, Passed
  <2>5. QED
    BY <2>3, <2>4 DEF Follows
<1>7. CASE at.i + 1 = RowEnd /\ RowEnd = N /\ ColEnd < Cols /\ Block(ColEnd, 0)
  <2>1. ColEnd = at.col_block + step /\ ColEnd < M /\ 0 \in Nat /\ 0 < N
    BY <1>1, <1>2, <1>7
  <2>2. Blocked => ColEnd % step = 0 /\ 0 % step = 0
    BY <1>1, <1>2, <1>3, <2>1, BlocksTile
  <2>3. PICK r \in Nat : r = 0
    OBVIOUS
  <2>4. r < N /\ (Blocked => ColEnd % step = 0 /\ r % step = 0) /\ Block(ColEnd, r)
    BY <1>7, <2>1, <2>2, <2>3
  <2>5. /\ pc' = "load" /\ InLoops'
        /\ \A x \in 0 .. N - 1, y \in 0 .. M - 1 :
             Passed(x, y)' => \/ y < ColEnd
                              \/ y < (IF ColEnd + step < M THEN ColEnd + step ELSE M) /\ x < r
    BY <1>2, <2>1, <2>4, BlockStarts
  <2>6. ASSUME NEW x \in 0 .. N - 1, NEW y \in 0 .. M - 1, Passed(x, y)'
        PROVE  Reached(x, y)
    <3>1. y < ColEnd
      BY <1>1, <2>3, <2>5, <2>6
    <3>2. QED
      BY <1>1, <1>2, <1>7, <3>1 DEF Reached, Passed
  <2>7. QED
    BY <2>5, <2>6 DEF Follows
<1>8. CASE at.i + 1 = RowEnd /\ RowEnd = N /\ ColEnd = Cols /\ pc' = "end"
  <2>1. ASSUME NEW x \in 0 .. N - 1, NEW y \in 0 .. M - 1
        PROVE  Reached(x, y)
    BY <1>1, <1>2, <1>8 DEF Reached, Passed
  <2>2. QED
    BY <1>8, <2>1 DEF AllReached
<1>9. QED
  BY <1>5, <1>6, <1>7, <1>8 DEF NextRow

(***************************************************************************)
(* The same for the end of an iteration of the innermost loop.             *)
(***************************************************************************)
LEMMA AdvanceMoves ==
  ASSUME Sound, SameCall, InLoops, Advance
  PROVE  \/ /\ ~OnDiagonalBlock
            /\ pc' = "end" /\ AllReached
         \/ /\ ~OnDiagonalBlock
            /\ pc' = "load" /\ InLoops' /\ Follows
         \/ /\ pc' = "load" /\ InLoops' /\ Follows
            /\ at'.col_block = at.col_block /\ at'.row_block = at.row_block /\ at'.i = at.i
         \/ pc' = "diag" /\ at' = at /\ OnDiagonalBlock /\ at.j + 1 = ColEnd
<1>1. M \in Nat \ {0} /\ N \in Nat \ {0}
  BY DEF Sound
<1>2. /\ at.col_block \in Nat /\ at.row_block \in Nat /\ at.i \in Nat /\ at.j \in Nat
      /\ at.row_block <= at.i /\ at.i < RowEnd /\ at.col_block <= at.j /\ at.j < ColEnd
      /\ RowEnd \in Nat /\ ColEnd \in Nat
  BY Positions
<1>3. step' = step /\ Cols' = Cols /\ (Blocked' <=> Blocked) /\ N' = N /\ M' = M
  BY CallStays
<1>4. CASE at.j + 1 < ColEnd /\ at' = [at EXCEPT !.j = @ + 1] /\ pc' = "load"
  <2>1. /\ at' \in [col_block : Nat, row_block : Nat, i : Nat, j : Nat]
        /\ at'.col_block = at.col_block /\ at'.row_block = at.row_block
        /\ at'.i = at.i /\ at'.j = at.j + 1
    <3>1. at \in [col_block : Nat, row_block : Nat, i : Nat, j : Nat]
      BY DEF InLoops
    <3>2. at' = [col_block |-> at.col_block, row_block |-> at.row_block,
                 i |-> at.i, j |-> at.j + 1]
      BY <1>4, <3>1
    <3>3. QED
      BY <1>2, <3>2
  <2>2. RowEnd' = RowEnd /\ ColEnd' = ColEnd
    BY <1>3, <2>1 DEF RowEnd, ColEnd
  <2>3. Blocked => at.row_block % step = 0 /\ at.col_block % step = 0
    BY DEF InLoops
  <2>4. InLoops'
    BY <1>2, <1>3, <1>4, <2>1, <2>2, <2>3 DEF InLoops
  <2>5. ASSUME NEW x \in 0 .. N - 1, NEW y \in 0 .. M - 1, Passed(x, y)'
        PROVE  Reached(x, y)
    <3>1. y < at.col_block \/ (y < ColEnd /\ (x < at.i \/ (x = at.i /\ y < at.j + 1)))
      BY <2>1, <2>2, <2>5 DEF Passed
    <3>2. QED
      BY <1>1, <1>2, <3>1 DEF Reached, Passed
  <2>6. QED
    BY <1>4, <2>1, <2>4, <2>5 DEF Follows
<1>5. CASE /\ at.j + 1 = ColEnd /\ Blocked /\ at.row_block = at.col_block
           /\ pc' = "diag" /\ UNCHANGED at
  BY <1>5 DEF OnDiagonalBlock
<1>6. CASE at.j + 1 = ColEnd /\ ~(Blocked /\ at.row_block = at.col_block) /\ NextRow
  BY <1>6, NextRowMoves DEF OnDiagonalBlock
<1>7. QED
  BY <1>4, <1>5, <1>6 DEF Advance

----------------------------------------------------------------------------
(***************************************************************************)
(* To store an element of A where it belongs disturbs no other element.    *)
(***************************************************************************)
Written(a, b) == [B EXCEPT ![Cell(a, b)] = Number(a, b)]

LEMMA WrittenStores ==
  ASSUME Sound, SameCall, B \in [0 .. M * N - 1 -> Int],
         NEW a \in 0 .. N - 1, NEW b \in 0 .. M - 1, B' = Written(a, b)
  PROVE  /\ B' \in [0 .. M * N - 1 -> Int]
         /\ Stored(a, b)'
         /\ \A x \in 0 .. N - 1, y \in 0 .. M - 1 : Stored(x, y) => Stored(x, y)'
<1>1. M \in Nat \ {0} /\ N \in Nat \ {0} /\ M' = M /\ N' = N
  BY DEF Sound, SameCall
<1>2. \A x \in 0 .. N - 1, y \in 0 .. M - 1 :
        /\ Cell(x, y) \in 0 .. M * N - 1 /\ Number(x, y) \in Int
        /\ Cell(a, b) = Cell(x, y) => a = x /\ b = y
        /\ Cell(x, y)' = Cell(x, y) /\ Number(x, y)' = Number(x, y)
  <2> SUFFICES ASSUME NEW x \in 0 .. N - 1, NEW y \in 0 .. M - 1
               PROVE  /\ Cell(x, y) \in 0 .. M * N - 1 /\ Number(x, y) \in Int
                      /\ Cell(a, b) = Cell(x, y) => a = x /\ b = y
                      /\ Cell(x, y)' = Cell(x, y) /\ Number(x, y)' = Number(x, y)
    OBVIOUS
  <2>1. /\ Cell(x, y) \in 0 .. M * N - 1
        /\ Cell(a, b) = Cell(x, y) => a = x /\ b = y
    BY <1>1, CellsDiffer DEF Cell
  <2>2. Cell(x, y)' = Cell(x, y) /\ Number(x, y)' = Number(x, y)
    BY <1>1 DEF Cell, Number
  <2>3. Number(x, y) \in Int
    BY <1>1 DEF Number
  <2>4. QED
    BY <2>1, <2>2, <2>3
<1> DEFINE D == 0 .. M * N - 1
<1>3. B' = [B EXCEPT ![Cell(a, b)] = Number(a, b)] /\ B \in [D -> Int]
  BY DEF Written
<1>4. M' * N' = M * N
  BY <1>1
<1>5. Cell(a, b) \in D /\ Number(a, b) \in Int
  BY <1>2
<1> HIDE DEF D
<1>6. /\ B' \in [D -> Int] /\ B'[Cell(a, b)] = Number(a, b)
      /\ \A k \in D : k # Cell(a, b) => B'[k] = B[k]
  BY <1>3, <1>5
<1>7. Stored(a, b)'
  BY <1>2, <1>6 DEF Stored
<1>8. ASSUME NEW x \in 0 .. N - 1, NEW y \in 0 .. M - 1, Stored(x, y)
      PROVE  Stored(x, y)'
  <2>1. CASE Cell(x, y) = Cell(a, b)
    BY <1>2, <1>7, <2>1
  <2>2. CASE Cell(x, y) # Cell(a, b)
    <3>1. Cell(x, y) \in D
      BY <1>2 DEF D
    <3>2. QED
      BY <1>2, <1>6, <1>8, <2>2, <3>1 DEF Stored
  <2>3. QED
    BY <2>1, <2>2
<1>9. QED
  BY <1>6, <1>7, <1>8 DEF D

(***************************************************************************)
(* What one access has to settle before the loops move on, and then the    *)
(* invariant holds where they arrive.                                      *)
(***************************************************************************)
Held(x, y) == OnDiagonalBlock /\ x = at.i /\ y = at.i /\ diag' = at.i
Settled ==
  \A x \in 0 .. N - 1, y \in 0 .. M - 1 : Reached(x, y) => Stored(x, y)' \/ Held(x, y)
Arrived ==
  /\ pc \in {"load", "diag", "end"}
  /\ pc = "end" => \A x \in 0 .. N - 1, y \in 0 .. M - 1 : Stored(x, y)
  /\ pc # "end" =>
       /\ InLoops
       /\ \A x \in 0 .. N - 1, y \in 0 .. M - 1 : Covered(x, y) => Stored(x, y) \/ Waits(x, y)
  /\ pc = "diag" => OnDiagonalBlock /\ at.j + 1 = ColEnd

LEMMA AdvanceArrives ==
  ASSUME Sound, SameCall, InLoops, Advance, Settled
  PROVE  Arrived'
<1>1. M' = M /\ N' = N /\ (Blocked' <=> Blocked)
  BY CallStays
<1>2. CASE ~OnDiagonalBlock /\ pc' = "end" /\ AllReached
  <2>1. \A x \in 0 .. N - 1, y \in 0 .. M - 1 : Stored(x, y)'
    BY <1>2 DEF Settled, Held, AllReached
  <2>2. QED
    BY <1>1, <1>2, <2>1 DEF Arrived
<1>3. CASE ~OnDiagonalBlock /\ pc' = "load" /\ InLoops' /\ Follows
  <2>1. \A x \in 0 .. N - 1, y \in 0 .. M - 1 : Covered(x, y)' => Stored(x, y)'
    BY <1>3 DEF Settled, Held, Follows, Covered
  <2>2. QED
    BY <1>1, <1>3, <2>1 DEF Arrived
<1>4. CASE /\ pc' = "load" /\ InLoops' /\ Follows
           /\ at'.col_block = at.col_block /\ at'.row_block = at.row_block /\ at'.i = at.i
  <2>1. \A x, y : Held(x, y) => Waits(x, y)'
    BY <1>1, <1>4 DEF Held, Waits, OnDiagonalBlock
  <2>2. \A x \in 0 .. N - 1, y \in 0 .. M - 1 : Covered(x, y)' => Stored(x, y)' \/ Waits(x, y)'
    BY <1>4, <2>1 DEF Settled, Follows, Covered
  <2>3. QED
    BY <1>1, <1>4, <2>2 DEF Arrived
<1>5. CASE pc' = "diag" /\ at' = at /\ OnDiagonalBlock /\ at.j + 1 = ColEnd
  <2>1. RowEnd' = RowEnd /\ ColEnd' = ColEnd /\ step' = step
    BY <1>1, <1>5, CallStays DEF RowEnd, ColEnd
  <2>2. InLoops' /\ OnDiagonalBlock' /\ (at.j + 1 = ColEnd)'
    <3>1. InLoops'
      BY <1>1, <1>5, <2>1 DEF InLoops
    <3>2. QED
      BY <1>1, <1>5, <2>1, <3>1 DEF OnDiagonalBlock
  <2>3. \A x, y : /\ Held(x, y) => Waits(x, y)'
                  /\ Covered(x, y)' => Reached(x, y)
    BY <1>1, <1>5, <2>1 DEF Held, Waits, OnDiagonalBlock, Covered, Reached, Passed
  <2>4. \A x \in 0 .. N - 1, y \in 0 .. M - 1 : Covered(x, y)' => Stored(x, y)' \/ Waits(x, y)'
    BY <2>3 DEF Settled
  <2>5. QED
    BY <1>1, <1>5, <2>2, <2>4 DEF Arrived
<1>6. QED
  BY <1>2, <1>3, <1>4, <1>5, AdvanceMoves

LEMMA NextRowArrives ==
  ASSUME Sound, SameCall, InLoops, at.j + 1 = ColEnd, NextRow,
         \A x \in 0 .. N - 1, y \in 0 .. M - 1 : Reached(x, y) => Stored(x, y)'
  PROVE  Arrived'
<1>1. M' = M /\ N' = N
  BY CallStays
<1>2. CASE pc' = "end" /\ AllReached
  BY <1>1, <1>2 DEF Arrived, AllReached
<1>3. CASE pc' = "load" /\ InLoops' /\ Follows
  <2>1. \A x \in 0 .. N - 1, y \in 0 .. M - 1 : Covered(x, y)' => Stored(x, y)'
    BY <1>3 DEF Follows, Covered
  <2>2. QED
    BY <1>1, <1>3, <2>1 DEF Arrived
<1>4. QED
  BY <1>2, <1>3, NextRowMoves

----------------------------------------------------------------------------
(* The element under the loops is on the diagonal only in a block on it.    *)
LEMMA DiagonalInItsBlock ==
  ASSUME Sound, InLoops, OnDiagonal
  PROVE  OnDiagonalBlock
<1>1. step \in {4, 8, 16} /\ Blocked /\ at.i = at.j /\ M \in Nat /\ N \in Nat
  BY ShapeOfLoops DEF Sound, OnDiagonal
<1>2. at.row_block % step = 0 /\ at.col_block % step = 0
  BY <1>1 DEF InLoops
<1>3. /\ at.row_block \in Nat /\ at.col_block \in Nat /\ at.i \in Nat /\ at.j \in Nat
      /\ at.row_block <= at.i /\ at.i < at.row_block + step
      /\ at.col_block <= at.j /\ at.j < at.col_block + step
  <2>1. /\ at.col_block \in Nat /\ at.row_block \in Nat /\ at.i \in Nat /\ at.j \in Nat
        /\ at.row_block <= at.i /\ at.i < RowEnd /\ at.col_block <= at.j /\ at.j < ColEnd
        /\ RowEnd = (IF at.row_block + step < N THEN at.row_block + step ELSE N)
        /\ ColEnd = (IF at.col_block + step < M THEN at.col_block + step ELSE M)
    BY Positions
  <2>2. QED
    BY <1>1, <2>1
<1>4. at.row_block = at.col_block
  BY <1>1, <1>2, <1>3, BlocksTile
<1>5. QED
  BY <1>1, <1>4 DEF OnDiagonalBlock

(***************************************************************************)
(* The four actions.                                                       *)
(***************************************************************************)
JustCalled ==
  /\ pc = "load" /\ at = [col_block |-> 0, row_block |-> 0, i |-> 0, j |-> 0]
  /\ temp = 0 /\ diag = 0
  /\ B = [k \in 0 .. M * N - 1 |-> Random]

LEMMA CallStarts == Sound /\ JustCalled => TransInv
<1> SUFFICES ASSUME Sound, JustCalled PROVE TransInv
  OBVIOUS
<1>1. M \in Nat \ {0} /\ N \in Nat \ {0} /\ Cols = M /\ step \in Nat \ {0}
      /\ (Blocked => step \in {4, 8, 16})
  BY ShapeOfLoops DEF Sound
<1>2. at.col_block = 0 /\ at.row_block = 0 /\ at.i = 0 /\ at.j = 0
      /\ at \in [col_block : Nat, row_block : Nat, i : Nat, j : Nat] /\ pc = "load"
  BY DEF JustCalled
<1>3. 0 < RowEnd /\ 0 < ColEnd
  BY <1>1, <1>2 DEF RowEnd, ColEnd, Smaller
<1>4. Blocked => 0 % step = 0
  BY <1>1
<1>5. InLoops
  BY <1>2, <1>3, <1>4 DEF InLoops
<1>6. \A x \in 0 .. N - 1, y \in 0 .. M - 1 : ~Covered(x, y)
  BY <1>1, <1>2 DEF Covered, Passed
<1>7. diag \in 0 .. N - 1 /\ diag \in 0 .. M - 1 /\ temp = Number(diag, diag)
  <2>1. diag = 0 /\ temp = 0
    BY DEF JustCalled
  <2>2. QED
    BY <1>1, <2>1 DEF Number
<1>8. B \in [0 .. M * N - 1 -> Int]
  BY DEF JustCalled, Random
<1>9. QED
  BY <1>2, <1>5, <1>6, <1>7, <1>8 DEF TransInv

LEMMA LoadKeeps ==
  ASSUME Sound, TransInv, Load
  PROVE  TransInv'
<1>1. SameCall /\ M' = M /\ N' = N /\ B' = B /\ pc = "load"
  BY DEF Load, SameCall
<1>2. InLoops /\ M \in Nat \ {0} /\ N \in Nat \ {0}
  BY <1>1 DEF TransInv, Sound
<1>3. /\ at.i \in 0 .. N - 1 /\ at.j \in 0 .. M - 1 /\ at.i \in Nat /\ at.j \in Nat
      /\ at.col_block \in Nat /\ at.col_block <= at.j
  BY <1>2, Positions
<1>4. \A x \in 0 .. N - 1, y \in 0 .. M - 1 : Passed(x, y) => Stored(x, y) \/ Waits(x, y)
  BY <1>1 DEF TransInv, Covered
<1>5. \A x, y : Stored(x, y)' <=> Stored(x, y)
  BY <1>1 DEF Stored, Cell, Number
<1>6. B' \in [0 .. M' * N' - 1 -> Int]
  BY <1>1 DEF TransInv
<1>7. CASE OnDiagonal
  <2>1. temp' = AIndex /\ diag' = at.i /\ Advance /\ at.i = at.j
    BY <1>7 DEF Load, OnDiagonal
  <2>2. OnDiagonalBlock
    BY <1>2, <1>7, DiagonalInItsBlock
  <2>3. \A x \in 0 .. N - 1, y \in 0 .. M - 1 : Passed(x, y) => Stored(x, y)
    <3> SUFFICES ASSUME NEW x \in 0 .. N - 1, NEW y \in 0 .. M - 1, Passed(x, y), Waits(x, y)
                 PROVE  FALSE
      BY <1>4
    <3>1. x = at.i /\ y = at.j
      BY <2>1 DEF Waits
    <3>2. QED
      BY <1>3, <3>1 DEF Passed
  <2>4. Settled
    BY <1>5, <2>1, <2>2, <2>3 DEF Settled, Reached, Held
  <2>5. Arrived'
    BY <1>1, <1>2, <2>1, <2>4, AdvanceArrives
  <2>6. diag' \in 0 .. N' - 1 /\ diag' \in 0 .. M' - 1 /\ temp' = Number(diag, diag)'
    BY <1>1, <1>3, <2>1 DEF AIndex, Number
  <2>7. QED
    BY <1>6, <2>5, <2>6 DEF Arrived, TransInv
<1>8. CASE ~OnDiagonal
  <2>1. value' = AIndex /\ pc' = "store" /\ UNCHANGED <<temp, diag, at, fn>>
    BY <1>8 DEF Load
  <2>2. step' = step /\ Cols' = Cols /\ (Blocked' <=> Blocked)
    BY <1>1, CallStays
  <2>3. RowEnd' = RowEnd /\ ColEnd' = ColEnd
    BY <1>1, <2>1, <2>2 DEF RowEnd, ColEnd
  <2>4. InLoops'
    BY <1>2, <2>1, <2>2, <2>3 DEF InLoops
  <2>5. \A x, y : /\ Covered(x, y)' => Passed(x, y)
                  /\ Waits(x, y) => Waits(x, y)'
    BY <2>1, <2>2, <2>3 DEF Covered, Passed, Waits, OnDiagonalBlock
  <2>6. \A x \in 0 .. N' - 1, y \in 0 .. M' - 1 : Covered(x, y)' => Stored(x, y)' \/ Waits(x, y)'
    BY <1>1, <1>4, <1>5, <2>5
  <2>7. ~OnDiagonal' /\ value' = Number(at.i, at.j)'
    BY <1>1, <1>8, <2>1, <2>2 DEF OnDiagonal, AIndex, Number
  <2>8. diag' \in 0 .. N' - 1 /\ diag' \in 0 .. M' - 1 /\ temp' = Number(diag, diag)'
    BY <1>1, <2>1 DEF TransInv, Number
  <2>9. QED
    BY <1>6, <2>1, <2>4, <2>6, <2>7, <2>8 DEF TransInv
<1>9. QED
  BY <1>7, <1>8

LEMMA StoreKeeps ==
  ASSUME Sound, TransInv, Store
  PROVE  TransInv'
<1>1. /\ SameCall /\ M' = M /\ N' = N /\ pc = "store" /\ Advance
      /\ temp' = temp /\ diag' = diag /\ B' = [B EXCEPT ![BIndex] = value]
  BY DEF Store, SameCall
<1>2. InLoops /\ ~OnDiagonal /\ value = Number(at.i, at.j) /\ B \in [0 .. M * N - 1 -> Int]
  BY <1>1 DEF TransInv
<1>3. at.i \in 0 .. N - 1 /\ at.j \in 0 .. M - 1
  BY <1>2, Positions
<1>4. B' = Written(at.i, at.j)
  BY <1>1, <1>2 DEF Written, BIndex, Cell
<1>5. PICK a \in 0 .. N - 1, b \in 0 .. M - 1 : a = at.i /\ b = at.j
  BY <1>3
<1>6. B' = Written(a, b)
  BY <1>4, <1>5
<1>7. /\ B' \in [0 .. M * N - 1 -> Int] /\ Stored(a, b)'
      /\ \A x \in 0 .. N - 1, y \in 0 .. M - 1 : Stored(x, y) => Stored(x, y)'
  BY <1>1, <1>2, <1>6, WrittenStores
<1>8. \A x \in 0 .. N - 1, y \in 0 .. M - 1 : Passed(x, y) => Stored(x, y) \/ Waits(x, y)
  BY <1>1 DEF TransInv, Covered
<1>9. \A x, y : Waits(x, y) => Held(x, y)
  BY <1>1 DEF Waits, Held
<1>10. Settled
  BY <1>5, <1>7, <1>8, <1>9 DEF Settled, Reached
<1>11. Arrived'
  BY <1>1, <1>2, <1>10, AdvanceArrives
<1>12. diag' \in 0 .. N' - 1 /\ diag' \in 0 .. M' - 1 /\ temp' = Number(diag, diag)'
  BY <1>1 DEF TransInv, Number
<1>13. QED
  BY <1>1, <1>7, <1>11, <1>12 DEF Arrived, TransInv

LEMMA StoreDiagKeeps ==
  ASSUME Sound, TransInv, StoreDiag
  PROVE  TransInv'
<1>1. /\ SameCall /\ M' = M /\ N' = N /\ pc = "diag" /\ NextRow
      /\ temp' = temp /\ diag' = diag /\ B' = [B EXCEPT ![diag * N + diag] = temp]
  BY DEF StoreDiag, SameCall
<1>2. /\ InLoops /\ at.j + 1 = ColEnd /\ B \in [0 .. M * N - 1 -> Int]
      /\ diag \in 0 .. N - 1 /\ diag \in 0 .. M - 1 /\ temp = Number(diag, diag)
      /\ \A x \in 0 .. N - 1, y \in 0 .. M - 1 : Reached(x, y) => Stored(x, y) \/ Waits(x, y)
  BY <1>1 DEF TransInv, Covered
<1>3. B' = Written(diag, diag)
  BY <1>1, <1>2 DEF Written, Cell
<1>4. PICK a \in 0 .. N - 1, b \in 0 .. M - 1 : a = diag /\ b = diag
  BY <1>2
<1>5. B' = Written(a, b)
  BY <1>3, <1>4
<1>6. /\ B' \in [0 .. M * N - 1 -> Int] /\ Stored(a, b)'
      /\ \A x \in 0 .. N - 1, y \in 0 .. M - 1 : Stored(x, y) => Stored(x, y)'
  BY <1>1, <1>2, <1>5, WrittenStores
<1>7. \A x \in 0 .. N - 1, y \in 0 .. M - 1 : Reached(x, y) => Stored(x, y)'
  BY <1>2, <1>4, <1>6 DEF Waits
<1>8. Arrived'
  BY <1>1, <1>2, <1>7, NextRowArrives
<1>9. diag' \in 0 .. N' - 1 /\ diag' \in 0 .. M' - 1 /\ temp' = Number(diag, diag)'
  BY <1>1 DEF TransInv, Number
<1>10. QED
  BY <1>1, <1>6, <1>8, <1>9 DEF Arrived, TransInv

----------------------------------------------------------------------------
LEMMA TransIsKeptInductive ==
  ASSUME TransIsKept, [TNext]_tvars
  PROVE  TransIsKept'
<1>1. M \in Nat \ {0} /\ N \in Nat \ {0}
  BY DEF TransIsKept
<1>2. ASSUME UNCHANGED transvars,
             phase' \in {"start", "call"} => phase \in {"start", "call"},
             Promised /\ phase' \in {"end", "validate"} => validate
      PROVE  TransIsKept'
  <2>1. /\ M' = M /\ N' = N /\ fn' = fn /\ (Promised' <=> Promised) /\ (validate' <=> validate)
        /\ (TransInv <=> TransInv')
    <3>1. /\ M' = M /\ N' = N /\ fn' = fn /\ pc' = pc /\ at' = at /\ temp' = temp /\ diag' = diag
          /\ value' = value /\ B' = B
      BY <1>2 DEF transvars
    <3>2. SameCall
      BY <3>1 DEF SameCall
    <3>3. step' = step /\ Cols' = Cols /\ (Blocked' <=> Blocked) /\ (Promised' <=> Promised)
      BY <3>2, CallStays
    <3>4. RowEnd' = RowEnd /\ ColEnd' = ColEnd /\ (OnDiagonal' <=> OnDiagonal)
          /\ (OnDiagonalBlock' <=> OnDiagonalBlock)
      BY <3>1, <3>3 DEF RowEnd, ColEnd, OnDiagonal, OnDiagonalBlock
    <3>5. /\ InLoops' <=> InLoops
          /\ \A x, y : /\ Stored(x, y)' <=> Stored(x, y)
                       /\ Covered(x, y)' <=> Covered(x, y)
                       /\ Waits(x, y)' <=> Waits(x, y)
                       /\ Number(x, y)' = Number(x, y)
      BY <3>1, <3>3, <3>4 DEF InLoops, Stored, Cell, Number, Covered, Reached, Passed, Waits
    <3>6. TransInv' <=> TransInv
      BY <3>1, <3>4, <3>5 DEF TransInv
    <3>7. validate' <=> validate
      BY <3>1 DEF validate
    <3>8. QED
      BY <3>1, <3>3, <3>6, <3>7
  <2>2. QED
    BY <1>2, <2>1 DEF TransIsKept
<1>3. ASSUME Promised, TransInv, phase \in {"start", "call"}, phase' = "call", M' = M, N' = N,
             Promised' <=> Promised, TransInv'
      PROVE  TransIsKept'
  BY <1>1, <1>3 DEF TransIsKept
<1>4. ASSUME phase = "call", phase' = "call", Load \/ Store \/ StoreDiag
      PROVE  TransIsKept'
  <2>1. SameCall
    BY <1>4 DEF Load, Store, StoreDiag, SameCall
  <2>2. M' = M /\ N' = N /\ (Promised' <=> Promised)
    BY <2>1, CallStays
  <2>3. ASSUME Promised PROVE TransInv'
    <3>1. Sound /\ TransInv
      BY <1>1, <1>4, <2>3 DEF Sound, TransIsKept
    <3>2. QED
      BY <1>4, <3>1, LoadKeeps, StoreKeeps, StoreDiagKeeps
  <2>4. QED
    BY <1>1, <1>4, <2>2, <2>3 DEF TransIsKept
<1>5. CASE StartFunction
  <2>1. phase' = "start" /\ CallTrans(Current)
    BY <1>5 DEF StartFunction
  <2>2. M' = M /\ N' = N
    BY <2>1 DEF CallTrans
  <2>3. JustCalled'
    BY <2>1, <2>2 DEF CallTrans, JustCalled
  <2>4. Promised' => TransInv'
    <3>1. Sound' /\ JustCalled' => TransInv'
      BY CallStarts, PTL
    <3>2. QED
      BY <1>1, <2>2, <2>3, <3>1 DEF Sound
  <2>5. QED
    BY <1>1, <2>1, <2>2, <2>4 DEF TransIsKept
<1>6. CASE TraceLoad \/ TraceStore \/ TraceDiag
  BY <1>4, <1>6 DEF TraceLoad, TraceStore, TraceDiag, drivervars
<1>7. CASE Returned
  <2>1. UNCHANGED transvars /\ phase = "call" /\ pc = "end" /\ phase' = "end"
    BY <1>7 DEF Returned
  <2>2. ASSUME Promised PROVE validate
    <3>1. TransInv
      BY <2>1, <2>2 DEF TransIsKept
    <3>2. QED
      BY <2>1, <3>1 DEF TransInv, Stored, Cell, Number, validate
  <2>3. QED
    BY <1>2, <2>1, <2>2
<1>8. CASE Global(Prologue, "start", "call")
  <2>1. UNCHANGED transvars /\ phase = "start" /\ phase' \in {"start", "call"}
    BY <1>8 DEF Global
  <2>2. QED
    BY <1>2, <2>1
<1>9. CASE Global(Epilogue, "end", "validate")
  <2>1. UNCHANGED transvars /\ phase = "end" /\ phase' \in {"end", "validate"}
    BY <1>9 DEF Global
  <2>2. Promised => validate
    BY <2>1 DEF TransIsKept
  <2>3. QED
    BY <1>2, <2>1, <2>2
<1>10. CASE Validate
  <2>1. UNCHANGED transvars /\ phase' \in {"csim", "eval"}
    BY <1>10 DEF Validate
  <2>2. QED
    BY <1>2, <2>1
<1>11. CASE Simulated \/ SimulatorFails \/ Collect \/ Report \/ Return \/ Alarm
  <2>1. UNCHANGED transvars /\ phase' \in {"collect", "aborted", "eval", "reported", "done"}
    BY <1>11 DEF Simulated, SimulatorFails, Collect, Report, Return, Alarm
  <2>2. QED
    BY <1>2, <2>1
<1>12. CASE UNCHANGED tvars
  <2>1. UNCHANGED transvars /\ phase' = phase
    BY <1>12 DEF tvars, drivervars
  <2>2. Promised /\ phase \in {"end", "validate"} => validate
    BY DEF TransIsKept
  <2>3. QED
    BY <1>2, <2>1, <2>2
<1>13. QED
  BY <1>5, <1>6, <1>7, <1>8, <1>9, <1>10, <1>11, <1>12 DEF TNext

(* The shape that main lets through.                                        *)
LEMMA InitialShape == TInit => M \in 1 .. MAXN /\ N \in 1 .. MAXN
<1> SUFFICES ASSUME TInit PROVE M \in 1 .. MAXN /\ N \in 1 .. MAXN
  OBVIOUS
<1>1. PICK shape \in Shapes : M = shape[1] /\ N = shape[2]
  BY DEF TInit
<1>2. shape \in (1 .. MAXN) \X (1 .. MAXN)
  BY <1>1, ShapesAssumption
<1>3. QED
  BY <1>1, <1>2

(***************************************************************************)
(* Both functions of trans.c transpose, whatever the shape, with the one   *)
(* exception that Promised makes.                                          *)
(***************************************************************************)
THEOREM TransposesAll == TSpec => []Transposes
<1>1. TInit => TransIsKept
  <2> SUFFICES ASSUME TInit PROVE TransIsKept
    OBVIOUS
  <2>1. M \in Nat \ {0} /\ N \in Nat \ {0}
    BY InitialShape DEF MAXN
  <2>2. phase = "eval"
    BY DEF TInit
  <2>3. QED
    BY <2>1, <2>2 DEF TransIsKept
<1>2. TransIsKept => Transposes
  BY DEF TransIsKept, Transposes
<1>3. QED
  BY <1>1, <1>2, TransIsKeptInductive, PTL DEF TSpec

----------------------------------------------------------------------------
\* the element that the loops have come to; how many accesses are behind in it
Place == MAXN * MAXN * at.col_block + MAXN * at.i + at.j
Behind ==
  CASE pc = "load" -> 0
    [] pc = "store" -> 1
    [] pc = "diag" -> 2
    [] pc = "end" -> 3
MostOfCall == 3 * MAXN * MAXN * MAXN

\* the numbers of the loops, which are below MAXN in every shape, promised or not
Inside ==
  /\ at \in [col_block : Nat, row_block : Nat, i : Nat, j : Nat]
  /\ at.row_block <= at.i /\ at.i < RowEnd
  /\ at.col_block <= at.j /\ at.j < ColEnd
  /\ pc \in {"load", "store", "diag", "end"}
  /\ pc = "diag" => at.j + 1 = ColEnd
Shaped == M \in 1 .. MAXN /\ N \in 1 .. MAXN

\* a number of misses that says that a function ran
Measured(n) == n \in Nat /\ 0 < n /\ n < INT_MAX

MissesOfTrace ==
  /\ config = eval_perf_config /\ misses \in Nat /\ done \in Nat
  /\ phase = "start" =>
       /\ at = [col_block |-> 0, row_block |-> 0, i |-> 0, j |-> 0] /\ pc = "load"
       /\ misses <= done /\ done < Len(Prologue)
       /\ IF done = 0 THEN cache = init_LRUCache(config) ELSE misses >= 1
  /\ phase = "call" =>
       /\ done = 0 /\ Inside /\ misses >= 1
       /\ misses <= Len(Prologue) + 3 * Place + Behind
  /\ phase = "end" =>
       /\ done < Len(Epilogue) /\ misses >= 1
       /\ misses <= Len(Prologue) + MostOfCall + done
  /\ phase \in {"validate", "csim"} => Measured(misses)

FileIsMeasured == csim_results = NoFile \/ Measured(csim_results.misses)

----------------------------------------------------------------------------
(* The loops have a step in every shape, promised or not.                   *)
LEMMA StepsForward ==
  ASSUME Shaped
  PROVE  step \in Nat \ {0} /\ Cols \in 1 .. MAXN /\ N \in 1 .. MAXN /\ MAXN \in Nat
<1>1. M \in Nat \ {0} /\ N \in Nat \ {0} /\ MAXN \in Nat
  BY DEF Shaped, MAXN
<1>2. Cols \in 1 .. MAXN /\ N \in 1 .. MAXN
  BY DEF Shaped, Cols
<1>3. step \in Nat \ {0}
  <2>1. CASE Square /\ M = 64
    BY <2>1 DEF step, Square
  <2>2. CASE Square /\ M # 64
    BY <2>2 DEF step, Square
  <2>3. CASE Blocked /\ ~Square
    BY <2>3 DEF step
  <2>4. CASE ~Blocked
    BY <1>1, <2>4 DEF step, Square
  <2>5. QED
    BY <2>1, <2>2, <2>3, <2>4
<1>4. QED
  BY <1>1, <1>2, <1>3

(* The numbers of a row and a column of such loops.                         *)
LEMMA InsideNumbers ==
  ASSUME Shaped, Inside
  PROVE  /\ at.col_block \in Nat /\ at.row_block \in Nat /\ at.i \in Nat /\ at.j \in Nat
         /\ at.row_block <= at.i /\ at.i < RowEnd /\ at.col_block <= at.j /\ at.j < ColEnd
         /\ RowEnd \in Nat /\ RowEnd <= N /\ N <= MAXN /\ N \in Nat
         /\ ColEnd \in Nat /\ ColEnd <= Cols /\ Cols <= MAXN /\ Cols \in Nat
<1>1. /\ at.col_block \in Nat /\ at.row_block \in Nat /\ at.i \in Nat /\ at.j \in Nat
      /\ at.row_block <= at.i /\ at.i < RowEnd /\ at.col_block <= at.j /\ at.j < ColEnd
  BY DEF Inside
<1>2. step \in Nat \ {0} /\ Cols \in 1 .. MAXN /\ N \in 1 .. MAXN /\ MAXN \in Nat
  BY StepsForward
<1>3. RowEnd \in Nat /\ RowEnd <= N
  BY <1>1, <1>2 DEF RowEnd, Smaller
<1>4. ColEnd \in Nat /\ ColEnd <= Cols
  BY <1>1, <1>2 DEF ColEnd, Smaller
<1>5. QED
  BY <1>1, <1>2, <1>3, <1>4

(* At the start of a block the loops are inside.                            *)
LEMMA BlockInside ==
  ASSUME Shaped, SameCall, NEW c \in Nat, NEW r \in Nat, c < Cols, r < N, Block(c, r)
  PROVE  /\ Inside' /\ pc' = "load"
         /\ Place' = MAXN * MAXN * c + MAXN * r + c
<1>1. at' = [col_block |-> c, row_block |-> r, i |-> r, j |-> c] /\ pc' = "load"
  BY DEF Block
<1>2. step \in Nat \ {0} /\ Cols \in 1 .. MAXN /\ N \in 1 .. MAXN /\ MAXN \in Nat
  BY StepsForward
<1>3. step' = step /\ Cols' = Cols /\ N' = N
  BY CallStays
<1>4. at'.col_block = c /\ at'.row_block = r /\ at'.i = r /\ at'.j = c
  BY <1>1
<1>5. r < RowEnd'
  BY <1>2, <1>3, <1>4 DEF RowEnd, Smaller
<1>6. c < ColEnd'
  BY <1>2, <1>3, <1>4 DEF ColEnd, Smaller
<1>7. Inside'
  BY <1>1, <1>4, <1>5, <1>6 DEF Inside
<1>8. Place' = MAXN * MAXN * c + MAXN * r + c
  BY <1>4 DEF Place
<1>9. QED
  BY <1>1, <1>7, <1>8

\* the loops have gone on to a later element, or stay at this one
GoesOn ==
  \/ pc' \in {"diag", "end"} /\ Place' = Place
  \/ pc' = "load" /\ Place' >= Place + 1

(* The end of a row.                                                        *)
LEMMA RowGoesOn ==
  ASSUME Shaped, SameCall, Inside, at.j + 1 = ColEnd, NextRow
  PROVE  Inside' /\ GoesOn /\ pc' \in {"load", "end"}
<1>1. /\ at.col_block \in Nat /\ at.row_block \in Nat /\ at.i \in Nat /\ at.j \in Nat
      /\ at.row_block <= at.i /\ at.i < RowEnd /\ at.col_block <= at.j /\ at.j < ColEnd
      /\ RowEnd \in Nat /\ RowEnd <= N /\ N <= MAXN /\ N \in Nat
      /\ ColEnd \in Nat /\ ColEnd <= Cols /\ Cols <= MAXN /\ Cols \in Nat
  BY InsideNumbers
<1>2. step' = step /\ Cols' = Cols /\ N' = N
  BY CallStays
<1>3. at.col_block < Cols
  BY <1>1
<1>4. CASE at.i + 1 < RowEnd /\ at' = [at EXCEPT !.i = @ + 1, !.j = at.col_block] /\ pc' = "load"
  <2>1. at \in [col_block : Nat, row_block : Nat, i : Nat, j : Nat]
    BY DEF Inside
  <2>2. at' = [col_block |-> at.col_block, row_block |-> at.row_block,
               i |-> at.i + 1, j |-> at.col_block]
    BY <1>4, <2>1
  <2>3. /\ at'.col_block = at.col_block /\ at'.row_block = at.row_block
        /\ at'.i = at.i + 1 /\ at'.j = at.col_block
        /\ at' \in [col_block : Nat, row_block : Nat, i : Nat, j : Nat]
    BY <1>1, <2>2
  <2>4. RowEnd' = RowEnd /\ ColEnd' = ColEnd
    BY <1>2, <2>3 DEF RowEnd, ColEnd
  <2>5. Inside'
    BY <1>1, <1>4, <2>3, <2>4 DEF Inside
  <2>6. Place' >= Place + 1
    <3>1. Place' = MAXN * MAXN * at.col_block + MAXN * (at.i + 1) + at.col_block
      BY <2>3 DEF Place
    <3>2. at.j < MAXN
      BY <1>1 DEF MAXN
    <3>3. QED
      BY <1>1, <3>1, <3>2 DEF Place, MAXN
  <2>7. QED
    BY <1>4, <2>5, <2>6 DEF GoesOn
<1>5. CASE at.i + 1 = RowEnd /\ RowEnd < N /\ Block(at.col_block, RowEnd)
  <2>1. /\ Inside' /\ pc' = "load"
        /\ Place' = MAXN * MAXN * at.col_block + MAXN * RowEnd + at.col_block
    BY <1>1, <1>3, <1>5, BlockInside
  <2>2. at.j < MAXN /\ RowEnd = at.i + 1
    BY <1>1, <1>5 DEF MAXN
  <2>3. Place' >= Place + 1
    BY <1>1, <2>1, <2>2 DEF Place, MAXN
  <2>4. QED
    BY <2>1, <2>3 DEF GoesOn
<1>6. CASE at.i + 1 = RowEnd /\ RowEnd = N /\ ColEnd < Cols /\ Block(ColEnd, 0)
  <2>1. PICK r \in Nat : r = 0
    OBVIOUS
  <2>2. r < N /\ ColEnd < Cols /\ Block(ColEnd, r)
    BY <1>1, <1>6, <2>1
  <2>3. /\ Inside' /\ pc' = "load"
        /\ Place' = MAXN * MAXN * ColEnd + MAXN * r + ColEnd
    BY <1>1, <2>2, BlockInside
  <2>4. at.j < MAXN /\ at.i < MAXN /\ ColEnd >= at.col_block + 1
    BY <1>1 DEF MAXN
  <2>5. Place' >= Place + 1
    BY <1>1, <2>1, <2>3, <2>4 DEF Place, MAXN
  <2>6. QED
    BY <2>3, <2>5 DEF GoesOn
<1>7. CASE at.i + 1 = RowEnd /\ RowEnd = N /\ ColEnd = Cols /\ pc' = "end" /\ UNCHANGED at
  <2>1. RowEnd' = RowEnd /\ ColEnd' = ColEnd
    BY <1>2, <1>7 DEF RowEnd, ColEnd
  <2>2. Inside'
    BY <1>7, <2>1 DEF Inside
  <2>3. Place' = Place
    BY <1>7 DEF Place
  <2>4. QED
    BY <1>7, <2>2, <2>3 DEF GoesOn
<1>8. QED
  BY <1>4, <1>5, <1>6, <1>7 DEF NextRow

(* The end of an element.                                                   *)
LEMMA ElementGoesOn ==
  ASSUME Shaped, SameCall, Inside, Advance
  PROVE  Inside' /\ GoesOn
<1>1. /\ at.col_block \in Nat /\ at.row_block \in Nat /\ at.i \in Nat /\ at.j \in Nat
      /\ at.row_block <= at.i /\ at.i < RowEnd /\ at.col_block <= at.j /\ at.j < ColEnd
      /\ RowEnd \in Nat /\ RowEnd <= N /\ N <= MAXN /\ N \in Nat
      /\ ColEnd \in Nat /\ ColEnd <= Cols /\ Cols <= MAXN /\ Cols \in Nat
  BY InsideNumbers
<1>2. step' = step /\ Cols' = Cols /\ N' = N
  BY CallStays
<1>3. CASE at.j + 1 < ColEnd /\ at' = [at EXCEPT !.j = @ + 1] /\ pc' = "load"
  <2>1. at \in [col_block : Nat, row_block : Nat, i : Nat, j : Nat]
    BY DEF Inside
  <2>2. at' = [col_block |-> at.col_block, row_block |-> at.row_block, i |-> at.i, j |-> at.j + 1]
    BY <1>3, <2>1
  <2>3. /\ at'.col_block = at.col_block /\ at'.row_block = at.row_block
        /\ at'.i = at.i /\ at'.j = at.j + 1
        /\ at' \in [col_block : Nat, row_block : Nat, i : Nat, j : Nat]
    BY <1>1, <2>2
  <2>4. RowEnd' = RowEnd /\ ColEnd' = ColEnd
    BY <1>2, <2>3 DEF RowEnd, ColEnd
  <2>5. Inside'
    BY <1>1, <1>3, <2>3, <2>4 DEF Inside
  <2>6. Place' >= Place + 1
    BY <1>1, <2>3 DEF Place, MAXN
  <2>7. QED
    BY <1>3, <2>5, <2>6 DEF GoesOn
<1>4. CASE at.j + 1 = ColEnd /\ pc' = "diag" /\ UNCHANGED at
  <2>1. RowEnd' = RowEnd /\ ColEnd' = ColEnd
    BY <1>2, <1>4 DEF RowEnd, ColEnd
  <2>2. Inside' /\ Place' = Place
    BY <1>4, <2>1 DEF Inside, Place
  <2>3. QED
    BY <1>4, <2>2 DEF GoesOn
<1>5. CASE at.j + 1 = ColEnd /\ NextRow
  BY <1>5, RowGoesOn
<1>6. QED
  BY <1>3, <1>4, <1>5 DEF Advance

(* A place inside the arrays, and what is behind at it.                     *)
LEMMA PlaceBounded ==
  ASSUME Shaped, Inside
  PROVE  Place \in Nat /\ Place <= MAXN * MAXN * MAXN - 1
<1>1. /\ at.col_block \in Nat /\ at.row_block \in Nat /\ at.i \in Nat /\ at.j \in Nat
      /\ at.row_block <= at.i /\ at.i < RowEnd /\ at.col_block <= at.j /\ at.j < ColEnd
      /\ RowEnd \in Nat /\ RowEnd <= N /\ N <= MAXN /\ N \in Nat
      /\ ColEnd \in Nat /\ ColEnd <= Cols /\ Cols <= MAXN /\ Cols \in Nat
  BY InsideNumbers
<1>2. at.i <= MAXN - 1 /\ at.j <= MAXN - 1 /\ at.col_block <= MAXN - 1
  BY <1>1 DEF MAXN
<1>3. QED
  BY <1>1, <1>2 DEF Place, MAXN

----------------------------------------------------------------------------
(* An access counts one miss at most, and the first of a cold cache one.    *)
LEMMA AccessCounted ==
  ASSUME misses \in Nat, NEW op, NEW address, LRUCacheAccess(op, address)
  PROVE  misses' \in Nat /\ misses <= misses' /\ misses' <= misses + 1 /\ config' = config
<1>1. PICK b : misses' = misses + OneIf(b)
  BY DEF LRUCacheAccess, Count
<1>2. OneIf(b) \in {0, 1}
  BY DEF OneIf
<1>3. config' = config
  BY DEF LRUCacheAccess
<1>4. QED
  BY <1>1, <1>2, <1>3

LEMMA ColdMisses ==
  ASSUME misses \in Nat, NEW op, NEW address \in Nat, LRUCacheAccess(op, address),
         config = eval_perf_config, cache = init_LRUCache(config)
  PROVE  misses' = misses + 1
<1>1. config.S = 32 /\ config.E = 1 /\ config.B = 32
  BY DEF eval_perf_config
<1>2. get_set_idx(address) \in 0 .. 31
  BY <1>1 DEF get_set_idx
<1>3. PICK s, tag : s = get_set_idx(address) /\ tag = get_tag(address)
  OBVIOUS
<1>4. cache[s] = [i \in 0 .. 0 |-> NoLine]
  BY <1>1, <1>2, <1>3 DEF init_LRUCache, Sets, LinesOf
<1>5. ~IsHit(cache[s], tag)
  BY <1>4 DEF IsHit, Holds, NoLine
<1>6. misses' = misses + OneIf(~IsHit(cache[s], tag))
  BY <1>3 DEF LRUCacheAccess, Count
<1>7. QED
  BY <1>5, <1>6 DEF OneIf

(* What the trace has of the globals.                                       *)
LEMMA FewGlobals ==
  /\ Len(Prologue) \in Nat \ {0} /\ Prologue[1] \in Nat
  /\ Len(Epilogue) \in Nat \ {0}
  /\ Len(Prologue) + Len(Epilogue) <= MAXN * MAXN
<1>1. Prologue \in Seq(Nat) /\ Prologue # <<>> /\ Epilogue \in Seq(Nat) /\ Epilogue # <<>>
  BY GlobalsAssumption
<1>2. Len(Prologue) \in Nat /\ Len(Prologue) # 0 /\ Len(Epilogue) \in Nat /\ Len(Epilogue) # 0
  BY <1>1
<1>3. Prologue[1] \in Nat
  BY <1>1, <1>2
<1>4. QED
  BY <1>2, <1>3, GlobalsAssumption

(* The next element leaves room for the accesses to this one, and an access *)
(* that goes on keeps the number of misses behind.                          *)
LEMMA ThreeAnElement ==
  ASSUME NEW p \in Nat, NEW q \in Nat, q >= p + 1, NEW b \in 0 .. 2
  PROVE  3 * q + 0 >= 3 * p + b + 1
  OBVIOUS

LEMMA MissesBehind ==
  ASSUME NEW m \in Nat, NEW n \in Nat, NEW len \in Nat, NEW p \in Nat, NEW q \in Nat,
         NEW b \in 0 .. 3, NEW c \in 0 .. 3,
         n <= m + 1, m <= len + 3 * p + b, 3 * q + c >= 3 * p + b + 1
  PROVE  n <= len + 3 * q + c
  OBVIOUS

\* an access of the function, and where it leaves the loops
Call ==
  /\ misses' \in Nat /\ misses <= misses' /\ misses' <= misses + 1
  /\ phase' = phase /\ done' = done /\ config' = config
  /\ Inside' /\ Place' \in Nat
  /\ 3 * Place' + Behind' >= 3 * Place + Behind + 1

(* An access of the function counts one miss at most, and moves the loops.  *)
LEMMA CallCounted ==
  ASSUME Shaped, Inside, misses \in Nat, TraceLoad \/ TraceStore \/ TraceDiag
  PROVE  Call
<1>1. SameCall
  BY DEF TraceLoad, TraceStore, TraceDiag, Load, Store, StoreDiag, SameCall
<1>2. PICK op, address : LRUCacheAccess(op, address)
  BY DEF TraceLoad, TraceStore, TraceDiag
<1>3. misses' \in Nat /\ misses <= misses' /\ misses' <= misses + 1 /\ config' = config
  BY <1>2, AccessCounted
<1>4. phase' = phase /\ done' = done
  BY DEF TraceLoad, TraceStore, TraceDiag, drivervars
<1>5. Place \in Nat
  BY PlaceBounded
<1>6. Shaped'
  BY <1>1 DEF Shaped, SameCall
<1>7. ASSUME Inside'
      PROVE  Place' \in Nat
  <2>1. (Shaped /\ Inside => Place \in Nat)'
    BY PlaceBounded, PTL
  <2>2. QED
    BY <1>6, <1>7, <2>1
<1>8. ASSUME GoesOn, pc \in {"load", "store"}, Place' \in Nat
      PROVE  3 * Place' + Behind' >= 3 * Place + Behind + 1
  <2>1. Behind \in {0, 1}
    BY <1>8 DEF Behind
  <2>2. CASE pc' = "diag" /\ Place' = Place
    <3>1. Behind' = 2
      BY <2>2 DEF Behind
    <3>2. QED
      BY <1>5, <2>1, <2>2, <3>1
  <2>3. CASE pc' = "end" /\ Place' = Place
    <3>1. Behind' = 3
      BY <2>3 DEF Behind
    <3>2. QED
      BY <1>5, <2>1, <2>3, <3>1
  <2>4. CASE pc' = "load" /\ Place' >= Place + 1
    <3>1. Behind' = 0
      BY <2>4 DEF Behind
    <3>2. QED
      <4>1. Behind \in 0 .. 2
        BY <2>1
      <4>2. 3 * Place' + 0 >= 3 * Place + Behind + 1
        BY <1>5, <1>8, <2>4, <4>1, ThreeAnElement
      <4>3. QED
        BY <3>1, <4>2
  <2>5. QED
    BY <1>8, <2>2, <2>3, <2>4 DEF GoesOn
<1>9. ASSUME pc \in {"load", "store"}, Advance
      PROVE  Call
  <2>1. Inside' /\ GoesOn
    BY <1>1, <1>9, ElementGoesOn
  <2>2. Place' \in Nat
    BY <1>7, <2>1
  <2>3. 3 * Place' + Behind' >= 3 * Place + Behind + 1
    BY <1>8, <1>9, <2>1, <2>2
  <2>4. QED
    BY <1>3, <1>4, <2>1, <2>2, <2>3 DEF Call
<1>10. CASE TraceLoad
  <2>1. pc = "load" /\ (Advance \/ (pc' = "store" /\ UNCHANGED at))
    BY <1>10 DEF TraceLoad, Load
  <2>2. CASE Advance
    BY <1>9, <2>1, <2>2
  <2>3. CASE pc' = "store" /\ UNCHANGED at
    <3>1. RowEnd' = RowEnd /\ ColEnd' = ColEnd
      BY <1>1, <2>3, CallStays DEF RowEnd, ColEnd
    <3>2. Inside' /\ Place' = Place
      BY <2>3, <3>1 DEF Inside, Place
    <3>3. Behind = 0 /\ Behind' = 1
      BY <2>1, <2>3 DEF Behind
    <3>4. 3 * Place' + Behind' >= 3 * Place + Behind + 1
      BY <1>5, <3>2, <3>3
    <3>5. QED
      BY <1>3, <1>4, <1>5, <3>2, <3>4 DEF Call
  <2>4. QED
    BY <2>1, <2>2, <2>3
<1>11. CASE TraceStore
  BY <1>9, <1>11 DEF TraceStore, Store
<1>12. CASE TraceDiag
  <2>1. pc = "diag" /\ NextRow /\ at.j + 1 = ColEnd
    BY <1>12 DEF TraceDiag, StoreDiag, Inside
  <2>2. Inside' /\ GoesOn /\ pc' \in {"load", "end"}
    BY <1>1, <2>1, RowGoesOn
  <2>3. Place' \in Nat
    BY <1>7, <2>2
  <2>4. Behind = 2
    BY <2>1 DEF Behind
  <2>5. CASE pc' = "end" /\ Place' = Place
    <3>1. Behind' = 3
      BY <2>5 DEF Behind
    <3>2. 3 * Place' + Behind' >= 3 * Place + Behind + 1
      BY <1>5, <2>4, <2>5, <3>1
    <3>3. QED
      BY <1>3, <1>4, <2>2, <2>3, <3>2 DEF Call
  <2>6. CASE pc' = "load" /\ Place' >= Place + 1
    <3>1. Behind' = 0
      BY <2>6 DEF Behind
    <3>2. 3 * Place' + Behind' >= 3 * Place + Behind + 1
      <4>1. Behind \in 0 .. 2
        BY <2>4
      <4>2. 3 * Place' + 0 >= 3 * Place + Behind + 1
        BY <1>5, <2>3, <2>6, <4>1, ThreeAnElement
      <4>3. QED
        BY <3>1, <4>2
    <3>3. QED
      BY <1>3, <1>4, <2>2, <2>3, <3>2 DEF Call
  <2>7. QED
    BY <2>2, <2>5, <2>6 DEF GoesOn
<1>13. QED
  BY <1>10, <1>11, <1>12

----------------------------------------------------------------------------
(* What a trace has counted, action by action.                              *)
LEMMA StartCounted ==
  ASSUME MissesOfTrace, StartFunction
  PROVE  MissesOfTrace'
<1>1. /\ phase' = "start" /\ done' = 0 /\ config' = config /\ misses' = 0
      /\ cache' = init_LRUCache(config)
  BY DEF StartFunction, StartCold
<1>2. at' = [col_block |-> 0, row_block |-> 0, i |-> 0, j |-> 0] /\ pc' = "load"
  BY DEF StartFunction, CallTrans
<1>3. 0 < Len(Prologue)
  BY FewGlobals
<1>4. config' = eval_perf_config
  BY <1>1 DEF MissesOfTrace
<1>5. QED
  BY <1>1, <1>2, <1>3, <1>4 DEF MissesOfTrace, eval_perf_config

LEMMA CallKeepsMisses ==
  ASSUME Shaped, MissesOfTrace, TraceLoad \/ TraceStore \/ TraceDiag
  PROVE  MissesOfTrace'
<1>1. phase = "call"
  BY DEF TraceLoad, TraceStore, TraceDiag
<1>2. /\ misses \in Nat /\ done = 0 /\ Inside /\ misses >= 1
      /\ misses <= Len(Prologue) + 3 * Place + Behind /\ config = eval_perf_config
  BY <1>1 DEF MissesOfTrace
<1>3. Call
  BY <1>2, CallCounted
<1>4. /\ misses' \in Nat /\ misses <= misses' /\ misses' <= misses + 1
      /\ phase' = "call" /\ done' = 0 /\ config' = eval_perf_config
      /\ Inside' /\ Place' \in Nat
      /\ 3 * Place' + Behind' >= 3 * Place + Behind + 1
  BY <1>1, <1>2, <1>3 DEF Call, eval_perf_config
<1>5. Place \in Nat /\ Len(Prologue) \in Nat
  BY <1>2, PlaceBounded, FewGlobals
<1>6. Behind \in 0 .. 3
  BY <1>2 DEF Inside, Behind
<1>7. Behind' \in 0 .. 3
  BY <1>4 DEF Inside, Behind
<1>8. misses' >= 1 /\ misses' <= Len(Prologue) + 3 * Place' + Behind'
  <2>1. misses' >= 1
    BY <1>2, <1>4
  <2>2. misses' <= Len(Prologue) + 3 * Place' + Behind'
    BY <1>2, <1>4, <1>5, <1>6, <1>7, MissesBehind
  <2>3. QED
    BY <2>1, <2>2
<1>9. QED
  BY <1>4, <1>8 DEF MissesOfTrace, eval_perf_config

LEMMA ReturnKeepsMisses ==
  ASSUME Shaped, MissesOfTrace, Returned
  PROVE  MissesOfTrace'
<1>1. /\ phase = "call" /\ pc = "end" /\ phase' = "end"
      /\ misses' = misses /\ config' = config /\ done' = done
  BY DEF Returned, simvars
<1>2. /\ misses \in Nat /\ done = 0 /\ Inside /\ misses >= 1
      /\ misses <= Len(Prologue) + 3 * Place + Behind /\ config = eval_perf_config
  BY <1>1 DEF MissesOfTrace
<1>3. Place \in Nat /\ Place <= MAXN * MAXN * MAXN - 1 /\ Behind = 3
  BY <1>1, <1>2, PlaceBounded DEF Behind
<1>4. Len(Prologue) \in Nat /\ 0 < Len(Epilogue)
  BY FewGlobals
<1>5. misses <= Len(Prologue) + MostOfCall + 0
  BY <1>2, <1>3, <1>4 DEF MostOfCall, MAXN
<1>6. config' = eval_perf_config
  BY <1>1, <1>2 DEF eval_perf_config
<1>7. misses' \in Nat /\ misses' >= 1 /\ misses' <= Len(Prologue) + MostOfCall + 0 /\ done' = 0
  BY <1>1, <1>2, <1>5
<1>8. phase' = "end"
  BY <1>1
<1>9. QED
  BY <1>4, <1>6, <1>7, <1>8 DEF MissesOfTrace, eval_perf_config

LEMMA PrologueKeepsMisses ==
  ASSUME Shaped, MissesOfTrace, Global(Prologue, "start", "call")
  PROVE  MissesOfTrace'
<1>1. phase = "start" /\ UNCHANGED transvars
  BY DEF Global
<1>2. /\ config = eval_perf_config /\ misses \in Nat /\ done \in Nat
      /\ at = [col_block |-> 0, row_block |-> 0, i |-> 0, j |-> 0] /\ pc = "load"
      /\ misses <= done /\ done < Len(Prologue)
      /\ IF done = 0 THEN cache = init_LRUCache(config) ELSE misses >= 1
  BY <1>1 DEF MissesOfTrace
<1>3. PICK op, address : LRUCacheAccess(op, address) /\ address = Prologue[done + 1]
  BY DEF Global
<1>4. misses' \in Nat /\ misses <= misses' /\ misses' <= misses + 1 /\ config' = config
  BY <1>2, <1>3, AccessCounted
<1>5. misses' >= 1
  <2>1. CASE done = 0
    <3>1. address \in Nat
      BY <1>3, <2>1, FewGlobals
    <3>2. cache = init_LRUCache(config)
      BY <1>2, <2>1
    <3>3. misses' = misses + 1
      BY <1>2, <1>3, <3>1, <3>2, ColdMisses
    <3>4. QED
      BY <1>2, <3>3
  <2>2. CASE done # 0
    BY <1>2, <1>4, <2>2
  <2>3. QED
    BY <2>1, <2>2
<1>6. at' = at /\ pc' = pc
  BY <1>1 DEF transvars
<1>7. config' = eval_perf_config
  BY <1>2, <1>4 DEF eval_perf_config
<1>8. Len(Prologue) \in Nat
  BY FewGlobals
<1>9. CASE done + 1 < Len(Prologue) /\ done' = done + 1 /\ UNCHANGED phase
  <2>1. /\ phase' = "start" /\ done' \in Nat /\ done' # 0 /\ done' < Len(Prologue)
        /\ misses' <= done'
    BY <1>1, <1>2, <1>4, <1>8, <1>9
  <2>2. at' = [col_block |-> 0, row_block |-> 0, i |-> 0, j |-> 0] /\ pc' = "load"
    BY <1>2, <1>6
  <2>3. QED
    BY <1>4, <1>5, <1>7, <2>1, <2>2 DEF MissesOfTrace, eval_perf_config
<1>10. CASE ~(done + 1 < Len(Prologue)) /\ done' = 0 /\ phase' = "call"
  <2>1. misses' <= Len(Prologue)
    BY <1>2, <1>4, <1>8, <1>10
  <2>2. SameCall
    BY <1>1 DEF SameCall, transvars
  <2>3. PICK c \in Nat : c = 0
    OBVIOUS
  <2>4. Block(c, c)
    BY <1>2, <1>6, <2>3 DEF Block
  <2>5. c < Cols /\ c < N
    BY <2>3, StepsForward
  <2>6. Inside' /\ pc' = "load" /\ Place' = MAXN * MAXN * c + MAXN * c + c
    BY <2>2, <2>4, <2>5, BlockInside
  <2>7. Place' = 0
    BY <2>3, <2>6 DEF MAXN
  <2>8. Behind' = 0
    BY <2>6 DEF Behind
  <2>9. misses' <= Len(Prologue) + 3 * Place' + Behind'
    BY <1>4, <1>8, <2>1, <2>7, <2>8
  <2>10. QED
    BY <1>4, <1>5, <1>7, <1>10, <2>6, <2>9 DEF MissesOfTrace, eval_perf_config
<1>11. QED
  BY <1>9, <1>10 DEF Global

LEMMA EpilogueKeepsMisses ==
  ASSUME MissesOfTrace, Global(Epilogue, "end", "validate")
  PROVE  MissesOfTrace'
<1>1. phase = "end"
  BY DEF Global
<1>2. /\ config = eval_perf_config /\ misses \in Nat /\ done \in Nat
      /\ done < Len(Epilogue) /\ misses >= 1 /\ misses <= Len(Prologue) + MostOfCall + done
  BY <1>1 DEF MissesOfTrace
<1>3. PICK op, address : LRUCacheAccess(op, address)
  BY DEF Global
<1>4. misses' \in Nat /\ misses <= misses' /\ misses' <= misses + 1 /\ config' = config
  BY <1>2, <1>3, AccessCounted
<1>5. config' = eval_perf_config
  BY <1>2, <1>4 DEF eval_perf_config
<1>6. /\ Len(Prologue) \in Nat /\ Len(Epilogue) \in Nat
      /\ Len(Prologue) + Len(Epilogue) <= MAXN * MAXN /\ MostOfCall \in Nat
  BY FewGlobals DEF MostOfCall, MAXN
<1>7. CASE done + 1 < Len(Epilogue) /\ done' = done + 1 /\ UNCHANGED phase
  <2>1. /\ phase' = "end" /\ done' \in Nat /\ done' < Len(Epilogue) /\ misses' >= 1
        /\ misses' <= Len(Prologue) + MostOfCall + done'
    BY <1>1, <1>2, <1>4, <1>6, <1>7
  <2>2. QED
    BY <1>4, <1>5, <2>1 DEF MissesOfTrace, eval_perf_config
<1>8. CASE done' = 0 /\ phase' = "validate"
  <2>1. misses' >= 1 /\ misses' <= Len(Prologue) + MostOfCall + Len(Epilogue)
    BY <1>2, <1>4, <1>6
  <2>2. misses' <= MAXN * MAXN + MostOfCall
    BY <1>4, <1>6, <2>1 DEF MAXN
  <2>3. Measured(misses')
    BY <1>4, <2>1, <2>2, SMT DEF Measured, MostOfCall, MAXN, INT_MAX
  <2>4. QED
    BY <1>4, <1>5, <1>8, <2>3 DEF MissesOfTrace, eval_perf_config
<1>9. QED
  BY <1>7, <1>8 DEF Global

(* The actions that count nothing.                                          *)
LEMMA NoAccessKeepsMisses ==
  ASSUME MissesOfTrace, UNCHANGED <<simvars, transvars, done>>,
         phase' \notin {"start", "call", "end"},
         phase' \in {"validate", "csim"} => phase \in {"validate", "csim"}
  PROVE  MissesOfTrace'
<1>1. misses' = misses /\ config' = config /\ done' = done
  BY DEF simvars
<1>2. QED
  BY <1>1 DEF MissesOfTrace, eval_perf_config

----------------------------------------------------------------------------
(* The shape is the one of the command line throughout.                     *)
LEMMA ShapeIsKept ==
  ASSUME Shaped, [TNext]_tvars
  PROVE  Shaped'
<1>1. CASE UNCHANGED <<fn, M, N>>
  BY <1>1 DEF Shaped
<1>2. CASE StartFunction
  <2>1. fn' = func_list[func_counter + 1] /\ M' = M /\ N' = N
    BY <1>2 DEF StartFunction, CallTrans, Current
  <2>2. M' \in 1 .. MAXN /\ N' \in 1 .. MAXN
    BY <2>1 DEF Shaped
  <2>3. QED
    BY <2>2 DEF Shaped
<1>3. CASE UNCHANGED transvars
  BY <1>1, <1>3 DEF transvars
<1>4. CASE TraceLoad \/ TraceStore \/ TraceDiag
  BY <1>1, <1>4 DEF TraceLoad, TraceStore, TraceDiag, Load, Store, StoreDiag
<1>5. CASE Global(Prologue, "start", "call") \/ Global(Epilogue, "end", "validate")
  BY <1>3, <1>5 DEF Global
<1>6. CASE \/ Returned \/ Validate \/ Simulated \/ SimulatorFails \/ Collect
           \/ Report \/ Return \/ Alarm
  BY <1>3, <1>6 DEF Returned, Validate, Simulated, SimulatorFails, Collect, Report, Return, Alarm
<1>7. CASE UNCHANGED tvars
  BY <1>3, <1>7 DEF tvars
<1>8. QED
  BY <1>2, <1>4, <1>5, <1>6, <1>7 DEF TNext

(* What the misses of a trace may be, in every step.                        *)
LEMMA MissesAreKept ==
  ASSUME Shaped, MissesOfTrace, [TNext]_tvars
  PROVE  MissesOfTrace'
<1>1. CASE StartFunction
  BY <1>1, StartCounted
<1>2. CASE TraceLoad \/ TraceStore \/ TraceDiag
  BY <1>2, CallKeepsMisses
<1>3. CASE Global(Prologue, "start", "call")
  BY <1>3, PrologueKeepsMisses
<1>4. CASE Global(Epilogue, "end", "validate")
  BY <1>4, EpilogueKeepsMisses
<1>5. CASE Returned
  BY <1>5, ReturnKeepsMisses
<1>6. CASE Validate
  <2>1. UNCHANGED <<simvars, transvars, done>> /\ phase = "validate" /\ phase' \in {"csim", "eval"}
    BY <1>6 DEF Validate
  <2>2. QED
    BY <2>1, NoAccessKeepsMisses
<1>7. CASE Simulated \/ SimulatorFails \/ Collect \/ Report \/ Return \/ Alarm
  <2>1. /\ UNCHANGED <<simvars, transvars, done>>
        /\ phase' \in {"collect", "aborted", "eval", "reported", "done"}
    BY <1>7 DEF Simulated, SimulatorFails, Collect, Report, Return, Alarm
  <2>2. QED
    BY <2>1, NoAccessKeepsMisses
<1>8. CASE UNCHANGED tvars
  <2>1. /\ config' = config /\ misses' = misses /\ done' = done /\ phase' = phase /\ cache' = cache
        /\ at' = at /\ pc' = pc /\ fn' = fn /\ M' = M /\ N' = N
    BY <1>8 DEF tvars, simvars, transvars, drivervars
  <2>2. SameCall
    BY <2>1 DEF SameCall
  <2>3. RowEnd' = RowEnd /\ ColEnd' = ColEnd
    BY <2>1, <2>2, CallStays DEF RowEnd, ColEnd
  <2>4. Inside' = Inside /\ Place' = Place /\ Behind' = Behind
    BY <2>1, <2>3 DEF Inside, Place, Behind
  <2>5. QED
    BY <2>1, <2>4 DEF MissesOfTrace, eval_perf_config
<1>9. QED
  BY <1>1, <1>2, <1>3, <1>4, <1>5, <1>6, <1>7, <1>8 DEF TNext

----------------------------------------------------------------------------
(* The file has a number of misses whenever it is there.                    *)
LEMMA FileIsKept ==
  ASSUME MissesOfTrace, FileIsMeasured, [TNext]_tvars
  PROVE  FileIsMeasured'
<1>1. CASE csim_results' = csim_results
  BY <1>1 DEF FileIsMeasured, NoFile
<1>2. CASE Simulated
  <2>1. phase = "csim" /\ csim_results' = [of |-> Current, misses |-> misses]
    BY <1>2 DEF Simulated
  <2>2. Measured(misses)
    BY <2>1 DEF MissesOfTrace
  <2>3. csim_results'.misses = misses
    BY <2>1
  <2>4. QED
    BY <2>2, <2>3 DEF FileIsMeasured
<1>3. CASE \/ StartFunction \/ TraceLoad \/ TraceStore \/ TraceDiag \/ Returned
           \/ Global(Prologue, "start", "call") \/ Global(Epilogue, "end", "validate")
  BY <1>1, <1>3 DEF StartFunction, TraceLoad, TraceStore, TraceDiag, Returned, Global, drivervars
<1>4. CASE Validate \/ SimulatorFails \/ Collect \/ Report \/ Return \/ Alarm
  BY <1>1, <1>4 DEF Validate, SimulatorFails, Collect, Report, Return, Alarm
<1>5. CASE UNCHANGED tvars
  BY <1>1, <1>5 DEF tvars, drivervars
<1>6. QED
  BY <1>2, <1>3, <1>4, <1>5 DEF TNext

\* what the verdict needs of a record of results
Result(r) == r \in [funcid : Int, correct : {0, 1}, misses : Int]
Decided(r) ==
  Result(r) /\ IF r.correct = 0 THEN r.misses = INT_MAX ELSE Measured(r.misses)
\* correct, with a number of misses from before or from none
Accepted(r) == Result(r) /\ r.correct = 1

\* the verdict, by what eval_perf is doing
VerdictByPhase ==
  /\ phase \in {"eval", "start", "call", "end", "validate", "reported"} => Decided(results)
  /\ phase \in {"csim", "collect"} =>
       IF results.funcid = func_counter THEN Accepted(results) ELSE Decided(results)

(* Validation accepts the submission, and the file decides it.              *)
LEMMA AcceptedThenDecided ==
  /\ \A r : Decided(r) => Accepted([r EXCEPT !.correct = 1])
  /\ \A r, n : Accepted(r) /\ Measured(n) => Decided([r EXCEPT !.misses = n])
  /\ \A r : \A f \in Int : Decided(r) => Decided([r EXCEPT !.funcid = f])
<1>1. ASSUME NEW r, Decided(r)
      PROVE  Accepted([r EXCEPT !.correct = 1])
  BY <1>1 DEF Decided, Accepted, Result
<1>2. ASSUME NEW r, NEW n, Accepted(r), Measured(n)
      PROVE  Decided([r EXCEPT !.misses = n])
  <2>1. PICK s : s = [r EXCEPT !.misses = n]
    OBVIOUS
  <2>2. n \in Int /\ r \in [funcid : Int, correct : {0, 1}, misses : Int] /\ r.correct = 1
    BY <1>2 DEF Accepted, Result, Measured
  <2>3. Result(s) /\ s.correct = 1 /\ s.misses = n
    BY <2>1, <2>2 DEF Result
  <2>4. QED
    BY <1>2, <2>1, <2>3 DEF Decided
<1>3. ASSUME NEW r, NEW f \in Int, Decided(r)
      PROVE  Decided([r EXCEPT !.funcid = f])
  <2>1. PICK s : s = [r EXCEPT !.funcid = f]
    OBVIOUS
  <2>2. r \in [funcid : Int, correct : {0, 1}, misses : Int]
    BY <1>3 DEF Decided, Result
  <2>3. Result(s) /\ s.correct = r.correct /\ s.misses = r.misses
    BY <2>1, <2>2 DEF Result
  <2>4. QED
    BY <1>3, <2>1, <2>3 DEF Decided
<1>4. QED
  BY <1>1, <1>2, <1>3

(* The verdict goes with what eval_perf is doing.                           *)
LEMMA VerdictIsDecided ==
  ASSUME MissesOfTrace, FileIsMeasured, VerdictByPhase, func_counter \in Nat, [TNext]_tvars
  PROVE  VerdictByPhase' /\ func_counter' \in Nat
<1>1. CASE StartFunction
  <2>1. /\ phase = "eval" /\ phase' = "start" /\ func_counter' = func_counter
        /\ results' = results \/ results' = [results EXCEPT !.funcid = func_counter]
    BY <1>1 DEF StartFunction
  <2>2. Decided(results)
    BY <2>1 DEF VerdictByPhase
  <2>3. func_counter \in Int
    OBVIOUS
  <2>4. Decided([results EXCEPT !.funcid = func_counter])
    BY <2>2, <2>3, AcceptedThenDecided
  <2>5. Decided(results')
    BY <2>1, <2>2, <2>4
  <2>6. QED
    BY <2>1, <2>5 DEF VerdictByPhase
<1>2. ASSUME results' = results, func_counter' = func_counter,
             phase \in {"eval", "start", "call", "end", "validate", "reported"},
             phase' \in {"start", "call", "end", "validate", "reported", "done"}
      PROVE  VerdictByPhase' /\ func_counter' \in Nat
  <2>1. Decided(results)
    BY <1>2 DEF VerdictByPhase
  <2>2. Decided(results')
    BY <1>2, <2>1
  <2>3. QED
    BY <1>2, <2>2 DEF VerdictByPhase
<1>3. CASE TraceLoad \/ TraceStore \/ TraceDiag
  <2>1. results' = results /\ func_counter' = func_counter /\ phase = "call" /\ phase' = phase
    BY <1>3 DEF TraceLoad, TraceStore, TraceDiag, drivervars
  <2>2. QED
    BY <1>2, <2>1
<1>4. CASE Returned \/ Report \/ Return
  <2>1. /\ results' = results /\ func_counter' = func_counter
        /\ phase \in {"call", "eval", "reported"} /\ phase' \in {"end", "reported", "done"}
    BY <1>4 DEF Returned, Report, Return
  <2>2. QED
    BY <1>2, <2>1
<1>5. CASE Global(Prologue, "start", "call") \/ Global(Epilogue, "end", "validate")
  <2>1. /\ results' = results /\ func_counter' = func_counter
        /\ phase \in {"start", "end"} /\ phase' \in {"start", "call", "end", "validate"}
    BY <1>5 DEF Global
  <2>2. QED
    BY <1>2, <2>1
<1>6. CASE Validate
  <2>1. phase = "validate" /\ Decided(results)
    BY <1>6 DEF Validate, VerdictByPhase
  <2>2. CASE phase' = "eval" /\ func_counter' = func_counter + 1 /\ results' = results
    <3>1. Decided(results')
      BY <2>1, <2>2
    <3>2. QED
      BY <2>2, <3>1 DEF VerdictByPhase
  <2>3. CASE phase' = "csim" /\ func_counter' = func_counter /\ results.funcid # func_counter
             /\ results' = results
    <3>1. Decided(results') /\ results'.funcid # func_counter'
      BY <2>1, <2>3
    <3>2. QED
      BY <2>3, <3>1 DEF VerdictByPhase
  <2>4. CASE phase' = "csim" /\ func_counter' = func_counter /\ results.funcid = func_counter
             /\ results' = [results EXCEPT !.correct = 1]
    <3>1. Accepted(results')
      BY <2>1, <2>4, AcceptedThenDecided
    <3>2. results'.funcid = func_counter'
      BY <2>1, <2>4 DEF Decided, Result
    <3>3. QED
      BY <2>4, <3>1, <3>2 DEF VerdictByPhase
  <2>5. QED
    BY <1>6, <2>2, <2>3, <2>4 DEF Validate
<1>7. CASE Simulated \/ SimulatorFails
  <2>1. results' = results /\ func_counter' = func_counter /\ phase = "csim" /\ phase' = "collect"
    BY <1>7 DEF Simulated, SimulatorFails
  <2>2. IF results.funcid = func_counter THEN Accepted(results) ELSE Decided(results)
    BY <2>1 DEF VerdictByPhase
  <2>3. IF results'.funcid = func_counter' THEN Accepted(results') ELSE Decided(results')
    BY <2>1, <2>2
  <2>4. QED
    BY <2>1, <2>3 DEF VerdictByPhase
<1>8. CASE Collect
  <2>1. phase = "collect"
    BY <1>8 DEF Collect
  <2>2. IF results.funcid = func_counter THEN Accepted(results) ELSE Decided(results)
    BY <2>1 DEF VerdictByPhase
  <2>3. CASE phase' = "aborted" /\ func_counter' = func_counter
    BY <2>3 DEF VerdictByPhase
  <2>4. CASE csim_results # NoFile /\ phase' = "eval" /\ func_counter' = func_counter + 1
             /\ results.funcid = func_counter
             /\ results' = [results EXCEPT !.misses = csim_results.misses]
    <3>1. Measured(csim_results.misses)
      BY <2>4 DEF FileIsMeasured
    <3>2. Accepted(results)
      BY <2>2, <2>4
    <3>3. Decided(results')
      BY <2>4, <3>1, <3>2, AcceptedThenDecided
    <3>4. QED
      BY <2>4, <3>3 DEF VerdictByPhase
  <2>5. CASE phase' = "eval" /\ func_counter' = func_counter + 1
             /\ results.funcid # func_counter /\ results' = results
    <3>1. Decided(results')
      BY <2>2, <2>5
    <3>2. QED
      BY <2>5, <3>1 DEF VerdictByPhase
  <2>6. QED
    BY <1>8, <2>3, <2>4, <2>5 DEF Collect
<1>9. CASE Alarm
  <2>1. phase' = "done" /\ func_counter' = func_counter
    BY <1>9 DEF Alarm
  <2>2. QED
    BY <2>1 DEF VerdictByPhase
<1>10. CASE UNCHANGED tvars
  <2>1. results' = results /\ func_counter' = func_counter /\ phase' = phase
    BY <1>10 DEF tvars, drivervars
  <2>2. (Decided(results') <=> Decided(results)) /\ (Accepted(results') <=> Accepted(results))
    BY <2>1
  <2>3. QED
    BY <2>1, <2>2 DEF VerdictByPhase
<1>11. QED
  BY <1>1, <1>3, <1>4, <1>5, <1>6, <1>7, <1>8, <1>9, <1>10 DEF TNext

----------------------------------------------------------------------------
\* a line that VerdictsAgree allows
Agrees(line) == line.correct = 0 <=> line.misses \in {0, INT_MAX}
LinesAgree ==
  printed \in Seq([correct : Int, misses : Int]) /\ \A k \in 1 .. Len(printed) : Agrees(printed[k])

(* A decided result, and the line of the alarm, are such lines.             *)
LEMMA DecidedAgrees ==
  /\ \A r : Decided(r) => /\ r.correct \in Int /\ r.misses \in Int
                          /\ Agrees([correct |-> r.correct, misses |-> r.misses])
  /\ Agrees([correct |-> 0, misses |-> 0])
<1>1. ASSUME NEW r, Decided(r)
      PROVE  /\ r.correct \in Int /\ r.misses \in Int
             /\ Agrees([correct |-> r.correct, misses |-> r.misses])
  <2>1. r.correct \in {0, 1} /\ r.misses \in Int
    BY <1>1 DEF Decided, Result
  <2>2. CASE r.correct = 0
    <3>1. r.misses = INT_MAX
      BY <1>1, <2>2 DEF Decided
    <3>2. QED
      BY <2>1, <2>2, <3>1 DEF Agrees
  <2>3. CASE r.correct = 1
    <3>1. r.misses # 0 /\ r.misses # INT_MAX
      BY <1>1, <2>3, SMT DEF Decided, Measured, INT_MAX
    <3>2. QED
      BY <2>1, <2>3, <3>1 DEF Agrees
  <2>4. QED
    BY <2>1, <2>2, <2>3
<1>2. Agrees([correct |-> 0, misses |-> 0])
  BY DEF Agrees
<1>3. QED
  BY <1>1, <1>2

(* Every line that is printed is of a decided result, or is the alarm's.    *)
LEMMA LinesAreKept ==
  ASSUME VerdictByPhase, LinesAgree, [TNext]_tvars
  PROVE  LinesAgree'
<1>1. ASSUME NEW c \in Int, NEW n \in Int, PrintLine(c, n), Agrees([correct |-> c, misses |-> n])
      PROVE  LinesAgree'
  <2>1. PICK line : line = [correct |-> c, misses |-> n]
    OBVIOUS
  <2>2. PICK S : S = [correct : Int, misses : Int]
    OBVIOUS
  <2>3. line \in S /\ Agrees(line) /\ printed \in Seq(S) /\ printed' = Append(printed, line)
    BY <1>1, <2>1, <2>2 DEF PrintLine, LinesAgree
  <2>4. printed' \in Seq(S) /\ Len(printed') = Len(printed) + 1 /\ Len(printed) \in Nat
    BY <2>3
  <2>5. ASSUME NEW k \in 1 .. Len(printed')
        PROVE  Agrees(printed'[k])
    <3>1. CASE k = Len(printed) + 1
      <4>1. printed'[k] = line
        BY <2>3, <3>1
      <4>2. QED
        BY <2>3, <4>1
    <3>2. CASE k \in 1 .. Len(printed)
      <4>1. printed'[k] = printed[k]
        BY <2>3, <3>2
      <4>2. Agrees(printed[k])
        BY <3>2 DEF LinesAgree
      <4>3. QED
        BY <4>1, <4>2
    <3>3. QED
      BY <2>4, <3>1, <3>2
  <2>6. QED
    BY <2>2, <2>4, <2>5 DEF LinesAgree
<1>2. ASSUME printed' = printed
      PROVE  LinesAgree'
  BY <1>2 DEF LinesAgree
<1>3. CASE Report
  <2>1. phase = "eval" /\ PrintLine(results.correct, results.misses)
    BY <1>3 DEF Report
  <2>2. Decided(results)
    BY <2>1 DEF VerdictByPhase
  <2>3. QED
    BY <1>1, <2>1, <2>2, DecidedAgrees
<1>4. CASE Alarm
  <2>1. PrintLine(0, 0)
    BY <1>4 DEF Alarm
  <2>2. PICK z \in Int : z = 0
    OBVIOUS
  <2>3. PrintLine(z, z) /\ Agrees([correct |-> z, misses |-> z])
    BY <2>1, <2>2, DecidedAgrees
  <2>4. QED
    BY <1>1, <2>3
<1>5. CASE \/ StartFunction \/ TraceLoad \/ TraceStore \/ TraceDiag \/ Returned
           \/ Global(Prologue, "start", "call") \/ Global(Epilogue, "end", "validate")
  BY <1>2, <1>5 DEF StartFunction, TraceLoad, TraceStore, TraceDiag, Returned, Global, drivervars
<1>6. CASE Validate \/ Simulated \/ SimulatorFails \/ Collect \/ Return
  BY <1>2, <1>6 DEF Validate, Simulated, SimulatorFails, Collect, Return
<1>7. CASE UNCHANGED tvars
  BY <1>2, <1>7 DEF tvars, drivervars
<1>8. QED
  BY <1>3, <1>4, <1>5, <1>6, <1>7 DEF TNext

----------------------------------------------------------------------------
(***************************************************************************)
(* The lines that test-trans prints agree in themselves, for every shape   *)
(* that main lets through, every layout of the globals and the matrices,   *)
(* and whenever the alarm comes or the simulator fails.                    *)
(***************************************************************************)
VerdictIsKept ==
  Shaped /\ MissesOfTrace /\ FileIsMeasured /\ VerdictByPhase /\ func_counter \in Nat /\ LinesAgree

THEOREM VerdictsAlwaysAgree == TSpec => []VerdictsAgree
<1>1. TInit => VerdictIsKept
  <2> SUFFICES ASSUME TInit PROVE VerdictIsKept
    OBVIOUS
  <2>1. Shaped
    BY InitialShape DEF TInit, Shaped
  <2>2. phase = "eval" /\ func_counter = 0 /\ done = 0 /\ printed = <<>>
        /\ results = [funcid |-> -1, correct |-> 0, misses |-> INT_MAX]
        /\ config = eval_perf_config /\ misses = 0
    BY DEF TInit, StartCSim
  <2>3. MissesOfTrace
    BY <2>2 DEF MissesOfTrace, eval_perf_config
  <2>4. FileIsMeasured
    <3>1. CASE csim_results = NoFile
      BY <3>1 DEF FileIsMeasured
    <3>2. CASE csim_results = [of |-> "earlier run", misses |-> 1]
      <4>1. csim_results.misses = 1
        BY <3>2
      <4>2. Measured(csim_results.misses)
        BY <4>1, SMT DEF Measured, INT_MAX
      <4>3. QED
        BY <4>2 DEF FileIsMeasured
    <3>3. QED
      BY <3>1, <3>2 DEF TInit
  <2>5. Decided(results)
    <3>1. INT_MAX \in Int
      BY SMT DEF INT_MAX
    <3>2. QED
      BY <2>2, <3>1 DEF Decided, Result
  <2>6. VerdictByPhase
    BY <2>2, <2>5 DEF VerdictByPhase
  <2>7. LinesAgree
    BY <2>2 DEF LinesAgree
  <2>8. func_counter \in Nat
    BY <2>2
  <2>9. QED
    BY <2>1, <2>3, <2>4, <2>6, <2>7, <2>8 DEF VerdictIsKept
<1>2. VerdictIsKept /\ [TNext]_tvars => VerdictIsKept'
  <2> SUFFICES ASSUME VerdictIsKept, [TNext]_tvars PROVE VerdictIsKept'
    OBVIOUS
  <2>1. /\ Shaped /\ MissesOfTrace /\ FileIsMeasured /\ VerdictByPhase
        /\ func_counter \in Nat /\ LinesAgree
    BY DEF VerdictIsKept
  <2>2. Shaped' /\ MissesOfTrace' /\ FileIsMeasured'
    BY <2>1, ShapeIsKept, MissesAreKept, FileIsKept
  <2>3. VerdictByPhase' /\ func_counter' \in Nat /\ LinesAgree'
    BY <2>1, VerdictIsDecided, LinesAreKept
  <2>4. QED
    BY <2>2, <2>3 DEF VerdictIsKept
<1>3. VerdictIsKept => VerdictsAgree
  BY DEF VerdictIsKept, LinesAgree, Agrees, VerdictsAgree
<1>4. QED
  BY <1>1, <1>2, <1>3, PTL DEF TSpec
=============================================================================

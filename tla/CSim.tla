-------------------------------- MODULE CSim --------------------------------
(***************************************************************************)
(* csim.c: a set-associative cache that replaces the least recently used   *)
(* line of a set, as an unsigned time stamp in every line tells it.  It    *)
(* finds out what hits; the data itself plays no part.                     *)
(***************************************************************************)
EXTENDS Integers

CONSTANTS
  Configs,   \* what arg_parse lets through: numbers of sets S, of lines E, and bytes B of a block
  STAMPS     \* values of a time stamp: 2^32

ASSUME ConfigsAssumption == Configs \subseteq [S : Nat \ {0}, E : Nat \ {0}, B : Nat \ {0}]
ASSUME StampsAssumption == STAMPS \in Nat \ {0}

VARIABLES config, cache, time_stamp, hits, misses, evictions

simvars == <<config, cache, time_stamp, hits, misses, evictions>>

Sets(c) == 0 .. c.S - 1
LinesOf(c) == 0 .. c.E - 1

get_set_idx(address) == (address \div config.B) % config.S
get_tag(address) == (address \div config.B) \div config.S

\* calloc clears the lines
NoLine == [is_valid |-> FALSE, tag |-> 0, time_stamp |-> 0]
init_LRUCache(c) == [set \in Sets(c) |-> [i \in LinesOf(c) |-> NoLine]]

Holds(line, tag) == line.is_valid /\ line.tag = tag
IsHit(lines, tag) == \E i \in DOMAIN lines : Holds(lines[i], tag)

\* The loop stops at a hit; without one it ends with the first of the oldest.
Older(line, other) == line.time_stamp <= other.time_stamp
\* MUTANT: the comparison of the stamps is turned round
Newest(lines) == CHOOSE i \in DOMAIN lines : \A k \in DOMAIN lines : Older(lines[k], lines[i])
Oldest(lines) ==
  CHOOSE i \in DOMAIN lines : \A k \in DOMAIN lines :
    Older(lines[i], lines[k]) /\ (Older(lines[k], lines[i]) => i <= k)
Target(lines, tag) ==
  IF IsHit(lines, tag) THEN CHOOSE i \in DOMAIN lines : Holds(lines[i], tag) ELSE Oldest(lines)

Tick == (time_stamp + 1) % STAMPS

\* MUTANT: only a miss stamps its line
StampedOnMiss(line, hit, tag) ==
  IF hit THEN line ELSE [is_valid |-> TRUE, tag |-> tag, time_stamp |-> Tick]
Stamped(line, hit, tag) ==
  IF hit THEN [line EXCEPT !.time_stamp = Tick]
  ELSE [is_valid |-> TRUE, tag |-> tag, time_stamp |-> Tick]

\* MUTANT: every miss is counted as an eviction
EvictsAlways(lines, tag) == ~IsHit(lines, tag)
Evicts(lines, tag) == ~IsHit(lines, tag) /\ lines[Oldest(lines)].is_valid

OneIf(condition) == IF condition THEN 1 ELSE 0

UpdateSet(set, tag) ==
  LET lines == cache[set]
      line == Target(lines, tag)
      hit == IsHit(lines, tag)
  IN  cache' = [cache EXCEPT ![set] = [lines EXCEPT ![line] = Stamped(lines[line], hit, tag)]]

\* A modify is a load and a store, which always hits.
Count(op, lines, tag) ==
  /\ hits' = hits + OneIf(IsHit(lines, tag)) + OneIf(op = "M")
  /\ misses' = misses + OneIf(~IsHit(lines, tag))
  /\ evictions' = evictions + OneIf(Evicts(lines, tag))

LRUCacheAccess(op, address) ==
  /\ time_stamp' = Tick
  /\ UpdateSet(get_set_idx(address), get_tag(address))
  /\ Count(op, cache[get_set_idx(address)], get_tag(address))
  /\ UNCHANGED config

StartCSim(c) ==
  /\ config = c /\ cache = init_LRUCache(c) /\ time_stamp = 0
  /\ hits = 0 /\ misses = 0 /\ evictions = 0
=============================================================================

---------------------------- MODULE MallocProofs ----------------------------
EXTENDS MDriver, LeastNumber, SequenceTheorems, TLAPS

(***************************************************************************)
(* Addresses.                                                              *)
(***************************************************************************)
\* Where the heap begins and ends: mem_start_brk is 2, the prologue's block is 14.
LEMMA Places ==
  /\ NULL = 0 /\ DSIZE = 2 /\ MIN_BLOCK = 4 /\ free_list_size = 10
  /\ mem_start_brk = 2 /\ heap_listp = 14 /\ mem_max_addr = MAX_HEAP + 2
  /\ Memory = 2 .. MAX_HEAP + 1
  /\ \A i : HEAD(i) = 2 + i
  /\ MAX_HEAP \in Nat
BY HeapAssumption DEF NULL, DSIZE, MIN_BLOCK, free_list_size, mem_start_brk, heap_listp, mem_max_addr, Memory, HEAD

\* Every heap: any words below the break.
Heaps == [m : [Memory -> Nat], brk : Nat]

\* r is g with the words of W changed
Changed(g, r, W) ==
  /\ r \in Heaps /\ r.brk = g.brk
  /\ \A w \in Memory \ W : r.m[w] = g.m[w]

\* PUT changes one word.
LEMMA PutChanges ==
  ASSUME NEW g \in Heaps, NEW p \in Memory, NEW v \in Nat, NEW r, r = PUT(g, p, v)
  PROVE  Changed(g, r, {p}) /\ r.m[p] = v
<1>1. r = [g EXCEPT !.m = [g.m EXCEPT ![p] = v]]
  BY DEF PUT, Heaps
<1>2. [g.m EXCEPT ![p] = v] \in [Memory -> Nat]
  BY DEF Heaps
<1>3. r.m = [g.m EXCEPT ![p] = v] /\ r.brk = g.brk /\ r \in Heaps
  BY <1>1, <1>2 DEF Heaps
<1>4. g.m \in [Memory -> Nat]
  BY DEF Heaps
<1>5. QED
  BY <1>3, <1>4 DEF Changed

\* r is g with v in the word w.
Wrote(g, r, w, v) == r \in Heaps /\ r.brk = g.brk /\ \A x \in Memory : r.m[x] = IF x = w THEN v ELSE g.m[x]
\* PUT writes its value and nothing else.
LEMMA PutWrote ==
  ASSUME NEW g \in Heaps, NEW p \in Memory, NEW v \in Nat, NEW r, r = PUT(g, p, v)
  PROVE  Wrote(g, r, p, v)
BY PutChanges DEF Wrote, Changed

(***************************************************************************)
(* The grid of blocks.                                                     *)
(***************************************************************************)
\* B holds the addresses of the blocks, z their sizes: block b begins at an even
\* address, has an even size and ends where the next one begins.
Cell(B, z, brk, b) ==
  /\ b \in Nat /\ b % 2 = 0 /\ 14 <= b
  /\ z[b] \in Nat /\ z[b] % 2 = 0 /\ 2 <= z[b] /\ (b # 14 => 4 <= z[b])
  /\ b + z[b] <= brk /\ b + z[b] \in B \cup {brk}

\* The blocks tile the heap from the prologue, 14, to the epilogue at brk.
Grid(B, z, brk) ==
  /\ brk \in Nat /\ brk % 2 = 0 /\ brk <= MAX_HEAP + 2
  /\ z \in [B -> Nat] /\ 14 \in B /\ z[14] = 2
  /\ \A b \in B : Cell(B, z, brk, b)
  /\ \A b, c \in B : b < c => b + z[b] <= c
  /\ \A c \in B \cup {brk} : c # 14 => \E b \in B : b + z[b] = c

\* The sizes after block n joined the block b before it, after block b was cut
\* at a, and after the heap grew by a block of k.
Merged(B, z, b, n) == [c \in B \ {n} |-> IF c = b THEN z[b] + z[n] ELSE z[c]]
Halved(B, z, b, a) == [c \in B \cup {b + a} |-> IF c = b THEN a ELSE IF c = b + a THEN z[b] - a ELSE z[c]]
Extended(B, z, brk, k) == [c \in B \cup {brk} |-> IF c = brk THEN k ELSE z[c]]

\* Two neighbours that become one block still tile the heap.
LEMMA MergedGrid ==
  ASSUME NEW B, NEW z, NEW brk, Grid(B, z, brk), NEW b \in B, NEW n \in B, n = b + z[b], b # 14,
         NEW y, y = Merged(B, z, b, n)
  PROVE  Grid(B \ {n}, y, brk)
<1>1. /\ b \in Nat /\ n \in Nat /\ z[b] \in Nat /\ z[n] \in Nat /\ b < n /\ n < n + z[n] /\ brk \in Nat
      /\ b % 2 = 0 /\ z[b] % 2 = 0 /\ z[n] % 2 = 0 /\ 4 <= z[b] /\ 14 < b
      /\ n + z[n] <= brk /\ n + z[n] \in B \cup {brk}
  BY DEF Grid, Cell
<1>2. y \in [B \ {n} -> Nat] /\ b \in B \ {n} /\ y[b] = z[b] + z[n] /\ \A c \in B \ {n} : c # b => y[c] = z[c]
  <2>1. b \in B \ {n} /\ z \in [B -> Nat]
    BY <1>1 DEF Grid
  <2>2. z[b] + z[n] \in Nat
    BY <1>1
  <2>3. y = [c \in B \ {n} |-> IF c = b THEN z[b] + z[n] ELSE z[c]]
    BY DEF Merged
  <2>4. \A c \in B \ {n} : (IF c = b THEN z[b] + z[n] ELSE z[c]) \in Nat
    BY <2>1, <2>2
  <2>5. y \in [B \ {n} -> Nat]
    BY <2>3, <2>4
  <2>6. QED
    BY <2>1, <2>3, <2>5
<1>3. ASSUME NEW c \in B \ {n}
      PROVE  Cell(B \ {n}, y, brk, c)
  <2>1. CASE c = b
    BY <1>1, <1>2, <2>1 DEF Cell
  <2>2. CASE c # b
    <3>1. Cell(B, z, brk, c) /\ y[c] = z[c]
      BY <1>2, <2>2 DEF Grid
    <3>2. c + z[c] # n
      <4>1. c < b => c + z[c] <= b
        BY DEF Grid
      <4>2. c > n => c + z[c] > n
        BY <1>1, <3>1 DEF Cell
      <4>3. b < c => n <= c
        BY DEF Grid
      <4>4. QED
        BY <1>1, <2>2, <3>1, <4>1, <4>2, <4>3 DEF Cell
    <3>3. QED
      BY <3>1, <3>2 DEF Cell
  <2>3. QED
    BY <2>1, <2>2
<1>4. ASSUME NEW c \in B \ {n}, NEW d \in B \ {n}, c < d
      PROVE  c + y[c] <= d
  <2>1. c \in Nat /\ d \in Nat /\ z[c] \in Nat /\ c + z[c] <= d
    BY <1>4 DEF Grid, Cell
  <2>2. CASE c = b
    <3>1. n < d
      BY <1>1, <2>1, <2>2
    <3>2. n + z[n] <= d
      BY <3>1 DEF Grid
    <3>3. QED
      BY <1>1, <1>2, <2>2, <3>2
  <2>3. QED
    BY <1>2, <2>1, <2>2
<1>5. ASSUME NEW c \in (B \ {n}) \cup {brk}, c # 14
      PROVE  \E d \in B \ {n} : d + y[d] = c
  <2>1. PICK d \in B : d + z[d] = c
    BY <1>5 DEF Grid
  <2>2. CASE d = n
    BY <1>1, <1>2, <2>1, <2>2
  <2>3. CASE d # n
    <3>1. d # b
      BY <1>1, <1>5, <2>1
    <3>2. QED
      BY <1>2, <2>1, <2>3, <3>1
  <2>4. QED
    BY <2>2, <2>3
<1>6. 14 \in B \ {n} /\ y[14] = 2 /\ brk \in Nat /\ brk % 2 = 0 /\ brk <= MAX_HEAP + 2
  BY <1>1, <1>2 DEF Grid
<1>7. QED
  BY <1>2, <1>3, <1>4, <1>5, <1>6 DEF Grid

\* Block b is cut in two, at a place that leaves two blocks of a legal size.
HalvedInto(B, z, brk, b, a, C, y, n) ==
  /\ Grid(B, z, brk) /\ b \in B /\ b # 14 /\ a \in Nat /\ a % 2 = 0 /\ 4 <= a /\ 4 <= z[b] - a
  /\ n = b + a /\ C = B \cup {n} /\ y = Halved(B, z, b, a)
\* The two halves, and nothing else, are new.
Halves(B, z, b, a, y, n) ==
  n \notin B /\ n # b /\ y[b] = a /\ y[n] = z[b] - a /\ \A c \in B : c # b => y[c] = z[c]
\* A block that is cut in two leaves a tiled heap.
LEMMA HalvedGrid ==
  ASSUME NEW B, NEW z, NEW brk, NEW b, NEW a, NEW C, NEW y, NEW n, HalvedInto(B, z, brk, b, a, C, y, n)
  PROVE  Grid(C, y, brk) /\ Halves(B, z, b, a, y, n)
<1> USE DEF HalvedInto
<1>1. /\ b \in Nat /\ z[b] \in Nat /\ b < b + a /\ b + a < b + z[b] /\ brk \in Nat
      /\ b % 2 = 0 /\ z[b] % 2 = 0 /\ 14 < b /\ b + z[b] <= brk /\ b + z[b] \in B \cup {brk}
      /\ z \in [B -> Nat] /\ 14 \in B /\ z[14] = 2
  BY DEF Grid, Cell
<1> DEFINE m == z[b] - a
<1>2. n \notin B /\ n # brk /\ n \in Nat /\ n % 2 = 0 /\ m \in Nat /\ m % 2 = 0 /\ 4 <= m /\ n + m = b + z[b]
      /\ b < n /\ n < b + z[b] /\ b + a = n
  <2>1. ASSUME n \in B
        PROVE  FALSE
    <3>1. b + z[b] <= n
      BY <1>1, <2>1 DEF Grid
    <3>2. QED
      BY <1>1, <3>1
  <2>2. n # brk /\ n \in Nat /\ b < n /\ n < b + z[b] /\ b + a = n
    BY <1>1
  <2>3. n % 2 = 0 /\ m % 2 = 0
    BY <1>1
  <2>4. m \in Nat /\ 4 <= m /\ n + m = b + z[b]
    BY <1>1
  <2>5. QED
    BY <2>1, <2>2, <2>3, <2>4
<1>3. y \in [C -> Nat] /\ y[b] = a /\ y[n] = m /\ \A c \in B : c # b => y[c] = z[c]
  <2>1. y = [c \in C |-> IF c = b THEN a ELSE IF c = n THEN m ELSE z[c]]
    BY DEF Halved
  <2>2. \A c \in C : (IF c = b THEN a ELSE IF c = n THEN m ELSE z[c]) \in Nat
    BY <1>1, <1>2
  <2>3. y \in [C -> Nat]
    BY <2>1, <2>2
  <2> HIDE DEF m
  <2>4. QED
    BY <1>2, <2>1, <2>3
<1> HIDE DEF m
<1>4. ASSUME NEW c \in B, c # b
      PROVE  /\ Cell(C, y, brk, c)
             /\ c < b => c + y[c] <= b
             /\ b < c => b + z[b] <= c
  BY <1>2, <1>3, <1>4 DEF Grid, Cell
<1>5. Cell(C, y, brk, b) /\ Cell(C, y, brk, n)
  BY <1>1, <1>2, <1>3 DEF Cell
<1>6. ASSUME NEW c \in C, NEW d \in C, c < d
      PROVE  c + y[c] <= d
  <2>1. CASE c \in B \ {b} /\ d \in B \ {b}
    BY <1>3, <1>6, <2>1 DEF Grid
  <2>2. CASE c \in B \ {b} /\ d \in {b, n}
    <3>1. c \in Nat /\ y[c] \in Nat /\ (c < b => c + y[c] <= b) /\ (b < c => b + z[b] <= c)
      BY <1>4, <2>2 DEF Cell
    <3>2. QED
      BY <1>1, <1>2, <1>6, <2>2, <3>1
  <2>3. CASE c \in {b, n} /\ d \in B \ {b}
    <3>1. d \in Nat /\ (b < d => b + z[b] <= d)
      BY <1>4, <2>3 DEF Cell
    <3>2. QED
      BY <1>1, <1>2, <1>3, <1>6, <2>3, <3>1
  <2>4. CASE c \in {b, n} /\ d \in {b, n}
    BY <1>1, <1>2, <1>3, <1>6, <2>4
  <2>5. QED
    BY <2>1, <2>2, <2>3, <2>4
<1>7. ASSUME NEW c \in (C) \cup {brk}, c # 14
      PROVE  \E d \in C : d + y[d] = c
  <2>1. CASE c = n
    BY <1>2, <1>3, <2>1
  <2>2. CASE c # n
    <3>1. PICK d \in B : d + z[d] = c
      BY <1>7, <2>2 DEF Grid
    <3>2. QED
      BY <1>2, <1>3, <3>1
  <2>3. QED
    BY <2>1, <2>2
<1>8. 14 \in C /\ y[14] = 2 /\ brk % 2 = 0 /\ brk <= MAX_HEAP + 2
  BY <1>1, <1>3 DEF Grid
<1>9. Grid(C, y, brk)
  <2>1. \A c \in C : Cell(C, y, brk, c)
    BY <1>4, <1>5
  <2>2. QED
    BY <1>1, <1>3, <1>6, <1>7, <1>8, <2>1 DEF Grid
<1>10. QED
  BY <1>1, <1>2, <1>3, <1>9 DEF m, Halves

\* A block of k words at b is of a legal size and within the memory.
Fitting(b, k) == k \in Nat /\ k % 2 = 0 /\ 4 <= k /\ b + k <= MAX_HEAP + 2
\* The heap grows by a block of k words at its break.
GrownGrid(B, z, brk, k, C, y, n) ==
  Grid(B, z, brk) /\ Fitting(brk, k) /\ n = brk + k /\ C = B \cup {brk} /\ y = Extended(B, z, brk, k)
\* Every other block is as before.
OnlyNew(B, z, brk, k, y) == brk \notin B /\ y[brk] = k /\ \A c \in B : y[c] = z[c]
\* A heap that grows by a block is tiled.
LEMMA ExtendedGrid ==
  ASSUME NEW B, NEW z, NEW brk, NEW k, NEW n, NEW C, NEW y, GrownGrid(B, z, brk, k, C, y, n)
  PROVE  Grid(C, y, n) /\ OnlyNew(B, z, brk, k, y)
<1> USE DEF GrownGrid
<1>0. k \in Nat /\ k % 2 = 0 /\ 4 <= k /\ brk + k <= MAX_HEAP + 2
  BY DEF Fitting
<1>1. brk \in Nat /\ brk % 2 = 0 /\ z \in [B -> Nat] /\ 14 \in B /\ z[14] = 2 /\ n \in Nat
      /\ n % 2 = 0 /\ n = brk + k /\ 14 < brk
  BY <1>0 DEF Grid, Cell
<1>2. \A c \in B : c \in Nat /\ z[c] \in Nat /\ c < brk /\ c + z[c] <= brk
  BY <1>1 DEF Grid, Cell
<1>3. y \in [C -> Nat] /\ brk \notin B /\ y[brk] = k /\ \A c \in B : y[c] = z[c]
  <2>1. y = [c \in C |-> IF c = brk THEN k ELSE z[c]]
    BY DEF Extended
  <2>2. \A c \in C : (IF c = brk THEN k ELSE z[c]) \in Nat
    BY <1>0, <1>1
  <2>3. y \in [C -> Nat]
    BY <2>1, <2>2
  <2>4. QED
    BY <1>0, <1>1, <1>2, <2>1, <2>3
<1>4. ASSUME NEW c \in C
      PROVE  Cell(C, y, n, c)
  <2>1. CASE c = brk
    BY <1>0, <1>1, <1>3, <2>1 DEF Cell
  <2>2. CASE c \in B
    <3>1. Cell(B, z, brk, c) /\ y[c] = z[c]
      BY <1>3, <2>2 DEF Grid
    <3>2. QED
      BY <1>0, <1>1, <3>1 DEF Cell
  <2>3. QED
    BY <2>1, <2>2
<1>5. ASSUME NEW c \in C, NEW d \in C, c < d
      PROVE  c + y[c] <= d
  <2>1. c \in B
    BY <1>0, <1>1, <1>2, <1>5
  <2>2. QED
    BY <1>2, <1>3, <1>5, <2>1 DEF Grid
<1>6. ASSUME NEW c \in (C) \cup {n}, c # 14
      PROVE  \E d \in C : d + y[d] = c
  <2>1. CASE c = n
    BY <1>0, <1>3, <2>1
  <2>2. CASE c \in C
    <3>1. PICK d \in B : d + z[d] = c
      BY <1>6, <2>2 DEF Grid
    <3>2. QED
      BY <1>3, <3>1
  <2>3. QED
    BY <2>1, <2>2
<1>7. QED
  BY <1>0, <1>1, <1>3, <1>4, <1>5, <1>6 DEF Grid, OnlyNew

\* Sizes are listed in 1 to 6, larger ones never in an earlier list.
LEMMA SizeLists ==
  ASSUME NEW s \in Nat, 4 <= s
  PROVE  /\ get_free_list_idx(s) \in 1 .. 6
         /\ \A t \in Nat : s <= t => get_free_list_idx(s) <= get_free_list_idx(t)
<1> DEFINE P(i, t) == 2 ^ i <= 4 * t /\ (i = 9 \/ 4 * t < 2 ^ (i + 1))
           L(t) == CHOOSE i \in 0 .. 9 : P(i, t)
<1>1. ASSUME NEW t \in Nat, 4 <= t
      PROVE  /\ ~P(0, t) /\ ~P(1, t) /\ ~P(2, t) /\ ~P(3, t)
             /\ P(4, t) <=> (4 <= t /\ t < 8)
             /\ P(5, t) <=> (8 <= t /\ t < 16)
             /\ P(6, t) <=> (16 <= t /\ t < 32)
             /\ P(7, t) <=> (32 <= t /\ t < 64)
             /\ P(8, t) <=> (64 <= t /\ t < 128)
             /\ P(9, t) <=> 128 <= t
  BY <1>1
<1>3. \A t : get_free_list_idx(t) = L(t) - 3
  BY DEF get_free_list_idx, free_list_size, BYTES
<1> HIDE DEF P
<1>2. ASSUME NEW t \in Nat, 4 <= t
      PROVE  L(t) \in 4 .. 9 /\ P(L(t), t)
  <2>1. \E i \in 0 .. 9 : P(i, t)
    BY <1>1, <1>2
  <2>2. L(t) \in 0 .. 9 /\ P(L(t), t)
    BY <2>1
  <2>3. QED
    BY <1>1, <1>2, <2>2
<1> HIDE DEF L
<1>4. QED
  BY <1>1, <1>2, <1>3

(***************************************************************************)
(* The words of a heap.                                                    *)
(***************************************************************************)
\* The list of block b, the head of list i, the numbers of the lists.
Idx(z, b) == get_free_list_idx(z[b])
First(g, i) == g.m[HEAD(i)]
Lists == 0 .. 9

\* What SUCC and PRED of b and the head of list i must be when the blocks F are
\* listed; the rank goes down along a list, so that no list is a circle.
Next1(g, F, z, rank, b) ==
  SUCC(g, b) # 0 => /\ SUCC(g, b) \in F /\ PRED(g, SUCC(g, b)) = b
                    /\ Idx(z, SUCC(g, b)) = Idx(z, b) /\ rank[SUCC(g, b)] < rank[b]
Prev1(g, F, z, b) ==
  \/ PRED(g, b) = 0 /\ First(g, Idx(z, b)) = b
  \/ PRED(g, b) \in F /\ SUCC(g, PRED(g, b)) = b /\ Idx(z, PRED(g, b)) = Idx(z, b)
First1(g, F, z, i) ==
  First(g, i) # 0 => First(g, i) \in F /\ PRED(g, First(g, i)) = 0 /\ Idx(z, First(g, i)) = i

\* The lists hold the blocks of F, doubly linked.
Linked(g, F, z, rank) ==
  /\ rank \in [F -> Nat]
  /\ \A b \in F : Next1(g, F, z, rank, b)
  /\ \A b \in F : Prev1(g, F, z, b)
  /\ \A i \in Lists : First1(g, F, z, i)

\* What the tag of block b says, and that the blocks B are tagged so.
Word(z, V, b) == z[b] + IF b \in V THEN 0 ELSE 1
Cells(g, B, z, V) == \A b \in B : g.m[b - 1] = Word(z, V, b) /\ g.m[b + z[b] - 2] = Word(z, V, b)
\* The free blocks V, the listed ones F and those being written, X.
Parts(B, V, F, X) == V \subseteq B /\ 14 \notin V /\ F \subseteq V /\ X \subseteq B \ {14} /\ X \cap F = {}

Epilogue(g) == g.m[g.brk - 1] = 1

\* A heap within an operation: blocks B of sizes z, those of V free, those of F
\* listed, those of X with tags that are not yet written.
State(g, B, z, V, F, X) ==
  /\ g \in Heaps /\ Grid(B, z, g.brk) /\ Parts(B, V, F, X)
  /\ Cells(g, B \ X, z, V) /\ Epilogue(g)
  /\ \E rank : Linked(g, F, z, rank)

\* The words of block b, from its header to its footer.
Own(z, b) == (b - 1) .. (b + z[b] - 2)

\* Blocks have no word in common, and none with the heads and the epilogue.
LEMMA Owns ==
  ASSUME NEW B, NEW z, NEW brk, Grid(B, z, brk)
  PROVE  /\ \A b \in B : /\ Own(z, b) \subseteq Memory /\ brk - 1 \notin Own(z, b)
                         /\ b - 1 \in Own(z, b) /\ b + z[b] - 2 \in Own(z, b)
                         /\ \A w \in Own(z, b) : 12 < w
         /\ \A b, c \in B : b # c => Own(z, b) \cap Own(z, c) = {}
         /\ \A b \in B \ {14} : 16 <= b /\ b \in Own(z, b) /\ b + 1 \in Own(z, b)
                                 /\ b # b + z[b] - 2 /\ b + 1 # b + z[b] - 2
         /\ brk - 1 \in Memory /\ 14 < brk
         /\ \A i \in Lists : HEAD(i) \in Memory /\ HEAD(i) = i + 2
<1>1. /\ brk \in Nat /\ brk <= MAX_HEAP + 2 /\ 14 \in B
      /\ \A b \in B : b \in Nat /\ 14 <= b /\ z[b] \in Nat /\ 2 <= z[b] /\ (b # 14 => 4 <= z[b])
                      /\ b + z[b] <= brk /\ b % 2 = 0
  BY DEF Grid, Cell
<1>2. \A b, c \in B : b < c => b + z[b] <= c
  BY DEF Grid
<1>3. Memory = 2 .. MAX_HEAP + 1 /\ MAX_HEAP \in Nat /\ \A i : HEAD(i) = 2 + i
  BY Places
<1>4. 14 < brk
  BY <1>1
<1>5. ASSUME NEW b \in B
      PROVE  /\ Own(z, b) \subseteq Memory /\ brk - 1 \notin Own(z, b)
             /\ b - 1 \in Own(z, b) /\ b + z[b] - 2 \in Own(z, b)
             /\ \A w \in Own(z, b) : 12 < w
  BY <1>1, <1>3 DEF Own
<1>6. ASSUME NEW b \in B, NEW c \in B, b # c
      PROVE  Own(z, b) \cap Own(z, c) = {}
  <2>1. b + z[b] <= c \/ c + z[c] <= b
    BY <1>1, <1>2, <1>6
  <2>2. QED
    BY <1>1, <2>1 DEF Own
<1>7. ASSUME NEW b \in B \ {14}
      PROVE  16 <= b /\ b \in Own(z, b) /\ b + 1 \in Own(z, b) /\ b # b + z[b] - 2 /\ b + 1 # b + z[b] - 2
  BY <1>1 DEF Own
<1>8. brk - 1 \in Memory /\ \A i \in Lists : HEAD(i) \in Memory /\ HEAD(i) = i + 2
  BY <1>1, <1>3, <1>4 DEF Lists
<1>9. QED
  BY <1>4, <1>5, <1>6, <1>7, <1>8

\* Lists stay when links and heads do.
LEMMA LinkedStays ==
  ASSUME NEW g, NEW r, NEW F, NEW z, NEW rank, Linked(g, F, z, rank), 0 \notin F,
         \A b \in F : SUCC(r, b) = SUCC(g, b) /\ PRED(r, b) = PRED(g, b) /\ Idx(z, b) \in Lists,
         \A i \in Lists : First(r, i) = First(g, i)
  PROVE  Linked(r, F, z, rank)
<1>1. \A b \in F : Next1(r, F, z, rank, b)
  BY DEF Linked, Next1
<1>2. \A b \in F : Prev1(r, F, z, b)
  BY DEF Linked, Prev1
<1>3. \A i \in Lists : First1(r, F, z, i)
  BY DEF Linked, First1
<1>4. QED
  BY <1>1, <1>2, <1>3 DEF Linked

\* Every block but the prologue has a list.
LEMMA IdxInLists ==
  ASSUME NEW B, NEW z, NEW brk, Grid(B, z, brk)
  PROVE  \A b \in B \ {14} : Idx(z, b) \in Lists
<1>1. \A b \in B \ {14} : z[b] \in Nat /\ 4 <= z[b]
  BY DEF Grid, Cell
<1>2. QED
  BY <1>1, SizeLists DEF Idx, Lists

(***************************************************************************)
(* Words of blocks that are in no list are overwritten.                    *)
(***************************************************************************)
\* A write within blocks that are not listed spoils the tags of those alone.
LEMMA Frame ==
  ASSUME NEW g, NEW B, NEW z, NEW V, NEW F, NEW X, State(g, B, z, V, F, X),
         NEW r, NEW W, Changed(g, r, W), NEW Y, Y \subseteq B \ {14}, Y \cap F = {},
         \A w \in W : \E b \in Y : w \in Own(z, b)
  PROVE  State(r, B, z, V, F, X \cup Y)
<1>1. Grid(B, z, g.brk) /\ r.brk = g.brk /\ r \in Heaps
  BY DEF State, Changed
<1>2. \A w \in Memory : (\A b \in Y : w \notin Own(z, b)) => r.m[w] = g.m[w]
  BY DEF Changed
<1>3. ASSUME NEW b \in B \ Y, NEW w \in Own(z, b)
      PROVE  r.m[w] = g.m[w]
  BY <1>1, <1>2, Owns
<1>4. Cells(r, B \ (X \cup Y), z, V)
  <2>1. Cells(g, B \ X, z, V)
    BY DEF State
  <2>2. QED
    BY <1>1, <1>3, <2>1, Owns DEF Cells
<1>5. Epilogue(r)
  <2>1. g.m[g.brk - 1] = 1
    BY DEF State, Epilogue
  <2>2. QED
    BY <1>1, <1>2, <2>1, Owns DEF Epilogue
<1>6. PICK rank : Linked(g, F, z, rank)
  BY DEF State
<1>7. \A b \in F : b \in B \ {14} /\ b \in B \ Y
  BY DEF State, Parts
<1>8. \A b \in F : SUCC(r, b) = SUCC(g, b) /\ PRED(r, b) = PRED(g, b) /\ Idx(z, b) \in Lists
  BY <1>1, <1>3, <1>7, Owns, IdxInLists DEF SUCC, PRED
<1>9. \A i \in Lists : First(r, i) = First(g, i)
  <2>1. \A i \in Lists : HEAD(i) \in Memory /\ \A b \in B : HEAD(i) \notin Own(z, b)
    BY <1>1, Owns DEF Lists
  <2>2. QED
    BY <1>2, <2>1 DEF First
<1>10. 0 \notin F
  BY <1>1, <1>7, Owns
<1>11. Linked(r, F, z, rank)
  BY <1>6, <1>8, <1>9, <1>10, LinkedStays
<1>12. Parts(B, V, F, X \cup Y)
  BY DEF State, Parts
<1>13. QED
  BY <1>1, <1>4, <1>5, <1>11, <1>12 DEF State

\* The break stays.
SameBrk(g, r) == r.brk = g.brk

\* Each block of A stays allocated, with its size at least and all its words of data.
Kept(g, z, r, B1, z1, V1, A) ==
  \A c \in A : c \in B1 \ V1 /\ z1[c] = z[c] /\ \A w \in Own(z, c) : r.m[w] = g.m[w]

\* Words elsewhere are written: the blocks keep theirs.
LEMMA KeptByWords ==
  ASSUME NEW g, NEW z, NEW r, NEW B, NEW V, NEW W, NEW A, NEW brk, Grid(B, z, brk), Changed(g, r, W),
         A \subseteq B \ V, \A c \in A : W \cap Own(z, c) = {}
  PROVE  Kept(g, z, r, B, z, V, A)
<1>1. \A c \in A : Own(z, c) \subseteq Memory
  BY Owns
<1>2. QED
  BY <1>1 DEF Kept, Changed

\* What two operations keep, both together keep.
LEMMA KeptTwice ==
  ASSUME NEW g, NEW r, NEW s, NEW z, NEW B1, NEW z1, NEW V1, NEW B2, NEW z2, NEW V2, NEW A,
         Kept(g, z, r, B1, z1, V1, A), Kept(r, z1, s, B2, z2, V2, A)
  PROVE  Kept(g, z, s, B2, z2, V2, A)
<1>1. \A c \in A : Own(z1, c) = Own(z, c)
  BY DEF Kept, Own
<1>2. QED
  BY <1>1 DEF Kept

\* Lists depend on the sizes of the blocks they hold only.
LEMMA SameIdx ==
  ASSUME NEW g, NEW F, NEW z, NEW z1, NEW rank, Linked(g, F, z, rank), \A c \in F : z1[c] = z[c]
  PROVE  Linked(g, F, z1, rank)
<1>1. \A c \in F : Idx(z1, c) = Idx(z, c)
  BY DEF Idx
<1>2. \A c \in F : Next1(g, F, z1, rank, c)
  BY <1>1 DEF Linked, Next1
<1>3. \A c \in F : Prev1(g, F, z1, c)
  BY <1>1 DEF Linked, Prev1
<1>4. \A i \in Lists : First1(g, F, z1, i)
  BY <1>1 DEF Linked, First1
<1>5. QED
  BY <1>2, <1>3, <1>4 DEF Linked

\* The same words seen as other blocks, where the blocks that differ are untagged.
LEMMA Regrid ==
  ASSUME NEW g, NEW B, NEW z, NEW V, NEW F, NEW X, State(g, B, z, V, F, X),
         NEW B1, NEW z1, NEW V1, NEW X1, Grid(B1, z1, g.brk), Parts(B1, V1, F, X1),
         \A c \in B1 \ X1 : c \in B \ X /\ z1[c] = z[c] /\ (c \in V1 <=> c \in V)
  PROVE  State(g, B1, z1, V1, F, X1)
<1>1. g \in Heaps /\ Epilogue(g) /\ Cells(g, B \ X, z, V)
  BY DEF State
<1>2. PICK rank : Linked(g, F, z, rank)
  BY DEF State
<1>3. \A b \in F : z1[b] = z[b]
  BY DEF Parts
<1>5. Linked(g, F, z1, rank)
  BY <1>2, <1>3, SameIdx
<1>6. Cells(g, B1 \ X1, z1, V1)
  BY <1>1 DEF Cells, Word
<1>7. QED
  BY <1>1, <1>5, <1>6 DEF State

(***************************************************************************)
(* Boundary tags are read and written.                                     *)
(***************************************************************************)
\* The macros of mm.c read the size, the bit and both neighbours of a tagged block.
LEMMA Reads ==
  ASSUME NEW g, NEW B, NEW z, NEW V, NEW F, NEW X, State(g, B, z, V, F, X), NEW b \in B \ X,
         NEW c, c = b + z[b], NEW w, w = c - 2
  PROVE  /\ SIZE(g, b) = z[b] /\ (IS_FREE(g, HDRP(b)) <=> b \in V)
         /\ FTRP(g, b) = w /\ NEXT_BLKP(g, b) = c
         /\ PREV_BLKP(g, c) = b /\ (IS_FREE(g, w) <=> b \in V)
<1>1. /\ g.m[b - 1] = Word(z, V, b) /\ g.m[w] = Word(z, V, b)
      /\ w = b + z[b] - 2 /\ z[b] \in Nat /\ z[b] % 2 = 0 /\ b \in Nat
  BY DEF State, Cells, Grid, Cell
<1>2. \A x : (x = z[b] \/ x = z[b] + 1) => x - (x % 2) = z[b] /\ (x % 2 = 0 <=> x = z[b])
  BY <1>1
<1>3. (Word(z, V, b) = z[b] \/ Word(z, V, b) = z[b] + 1) /\ (Word(z, V, b) = z[b] <=> b \in V)
  BY <1>1 DEF Word
<1>4. GET_SIZE(g, b - 1) = z[b] /\ GET_SIZE(g, w) = z[b]
  BY <1>1, <1>2, <1>3 DEF GET_SIZE
<1>5. (IS_FREE(g, b - 1) <=> b \in V) /\ (IS_FREE(g, w) <=> b \in V)
  BY <1>1, <1>2, <1>3 DEF IS_FREE
<1>6. SIZE(g, b) = z[b] /\ HDRP(b) = b - 1
  BY <1>4 DEF SIZE, HDRP
<1>7. QED
  BY <1>1, <1>4, <1>5, <1>6, Places DEF FTRP, NEXT_BLKP, PREV_BLKP

\* The epilogue reads as an allocated block of size 0.
LEMMA ReadsEnd ==
  ASSUME NEW g, NEW B, NEW z, NEW V, NEW F, NEW X, State(g, B, z, V, F, X)
  PROVE  SIZE(g, g.brk) = 0 /\ ~IS_FREE(g, HDRP(g.brk))
BY DEF State, Epilogue, SIZE, GET_SIZE, IS_FREE, HDRP

\* r is g with v in two words
WroteBoth(g, r, u, w, v) ==
  r \in Heaps /\ r.brk = g.brk /\ \A x \in Memory : r.m[x] = IF x = u \/ x = w THEN v ELSE g.m[x]
\* TAG writes the header and the footer.
LEMMA TagWrites ==
  ASSUME NEW g \in Heaps, NEW b, NEW size, NEW v \in Nat, NEW alloc, v = PACK(size, alloc),
         NEW u \in Memory, u = b - 1, NEW w \in Memory, w = b + size - 2, NEW r, r = TAG(g, b, size, alloc)
  PROVE  WroteBoth(g, r, u, w, v)
<1>1. PICK s : s = PUT(g, u, v)
  OBVIOUS
<1>2. Wrote(g, s, u, v)
  BY <1>1, PutWrote
<1>3. r = PUT(s, w, v)
  BY <1>1, Places DEF TAG, HDRP
<1>4. s \in Heaps
  BY <1>2 DEF Wrote
<1>5. Wrote(s, r, w, v)
  BY <1>3, <1>4, PutWrote
<1>6. QED
  BY <1>2, <1>5 DEF Wrote, WroteBoth

\* TAG completes a block that was untagged, and touches no other.
LEMMA TagBlock ==
  ASSUME NEW g, NEW B, NEW z, NEW V, NEW F, NEW X, State(g, B, z, V, F, X),
         NEW b \in B, b # 14, b \notin F, NEW size, size = z[b],
         NEW alloc, alloc = IF b \in V THEN 0 ELSE 1, NEW r, r = TAG(g, b, size, alloc)
  PROVE  State(r, B, z, V, F, X \ {b}) /\ Kept(g, z, r, B, z, V, (B \ V) \ {b}) /\ SameBrk(g, r)
<1>1. Grid(B, z, g.brk) /\ g \in Heaps /\ b \in Nat /\ size \in Nat
  BY DEF State, Grid, Cell
<1>2. b - 1 \in Memory /\ b + size - 2 \in Memory /\ b - 1 \in Own(z, b) /\ b + size - 2 \in Own(z, b)
  BY <1>1, Owns
<1>3. Word(z, V, b) \in Nat /\ Word(z, V, b) = PACK(size, alloc)
  BY <1>1 DEF Word, PACK
<1>4. Changed(g, r, {b - 1, b + size - 2}) /\ r.m[b - 1] = Word(z, V, b) /\ r.m[b + size - 2] = Word(z, V, b)
  <2>1. PICK u, w : u = b - 1 /\ w = b + size - 2
    OBVIOUS
  <2>2. PICK v : v = Word(z, V, b)
    OBVIOUS
  <2>3. WroteBoth(g, r, u, w, v)
    BY <1>1, <1>2, <1>3, <2>1, <2>2, TagWrites
  <2>4. QED
    BY <1>2, <2>1, <2>2, <2>3 DEF WroteBoth, Changed
<1>5. State(r, B, z, V, F, X \cup {b})
  <2>1. PICK W : W = {b - 1, b + size - 2}
    OBVIOUS
  <2>2. PICK Y : Y = {b}
    OBVIOUS
  <2>3. Y \subseteq B \ {14} /\ Y \cap F = {}
    BY <2>2
  <2>4. \A w \in W : \E c \in Y : w \in Own(z, c)
    BY <1>2, <2>1, <2>2
  <2>5. Changed(g, r, W)
    BY <1>4, <2>1
  <2>6. State(r, B, z, V, F, X \cup Y)
    BY <2>3, <2>4, <2>5, Frame
  <2>7. QED
    BY <2>2, <2>6
<1>6. State(r, B, z, V, F, X \ {b})
  <2>1. Cells(r, B \ (X \ {b}), z, V)
    BY <1>4, <1>5 DEF State, Cells
  <2>2. Parts(B, V, F, X \ {b})
    BY <1>5 DEF State, Parts
  <2>3. QED
    BY <1>5, <2>1, <2>2 DEF State
<1>7. Kept(g, z, r, B, z, V, (B \ V) \ {b})
  <2>1. \A c \in (B \ V) \ {b} : {b - 1, b + size - 2} \cap Own(z, c) = {}
    BY <1>1, <1>2, Owns
  <2>2. QED
    BY <1>1, <1>4, <2>1, KeptByWords
<1>8. QED
  BY <1>4, <1>6, <1>7 DEF Changed, SameBrk

(***************************************************************************)
(* The lists.                                                              *)
(***************************************************************************)
\* What the links and heads are after b was taken out, and put in.
Bypassed(g, r, F, b, s, p, j) ==
  /\ \A c \in F : SUCC(r, c) = IF c = p THEN s ELSE SUCC(g, c)
  /\ \A c \in F : PRED(r, c) = IF c = s THEN p ELSE PRED(g, c)
  /\ \A i \in Lists : First(r, i) = IF p = 0 /\ i = j THEN s ELSE First(g, i)
Headed(g, r, F, b, f, j) ==
  /\ SUCC(r, b) = f /\ PRED(r, b) = 0
  /\ \A c \in F : SUCC(r, c) = SUCC(g, c)
  /\ \A c \in F : PRED(r, c) = IF c = f THEN b ELSE PRED(g, c)
  /\ \A i \in Lists : First(r, i) = IF i = j THEN b ELSE First(g, i)

\* The lists without b.
LEMMA Unlinked ==
  ASSUME NEW g, NEW r, NEW F, NEW z, NEW rank, Linked(g, F, z, rank), 0 \notin F, NEW b \in F,
         \A c \in F : Idx(z, c) \in Lists,
         NEW s, s = SUCC(g, b), NEW p, p = PRED(g, b), NEW j, j = Idx(z, b),
         Bypassed(g, r, F, b, s, p, j)
  PROVE  \E rank1 : Linked(r, F \ {b}, z, rank1)
<1> USE DEF Bypassed
<1> DEFINE rank1 == [c \in F \ {b} |-> rank[c]]
<1>1. rank \in [F -> Nat] /\ rank1 \in [F \ {b} -> Nat] /\ \A c \in F \ {b} : rank1[c] = rank[c]
  BY DEF Linked
<1> HIDE DEF rank1
<1>2. /\ s # 0 => s \in F /\ PRED(g, s) = b /\ Idx(z, s) = Idx(z, b) /\ rank[s] < rank[b] /\ s # b
      /\ p # 0 => p \in F /\ SUCC(g, p) = b /\ Idx(z, p) = Idx(z, b) /\ rank[b] < rank[p] /\ p # b
      /\ p = 0 => First(g, Idx(z, b)) = b
  <2>1. Next1(g, F, z, rank, b) /\ Prev1(g, F, z, b)
    BY DEF Linked
  <2>2. p # 0 => Next1(g, F, z, rank, p)
    BY <2>1 DEF Linked, Prev1
  <2>3. s # 0 => s \in F /\ PRED(g, s) = b /\ Idx(z, s) = Idx(z, b) /\ rank[s] < rank[b]
    BY <2>1 DEF Next1
  <2>4. p # 0 => p \in F /\ SUCC(g, p) = b /\ Idx(z, p) = Idx(z, b)
    BY <2>1 DEF Prev1
  <2>5. p # 0 => rank[b] < rank[p]
    BY <2>2, <2>4 DEF Next1
  <2>6. p = 0 => First(g, Idx(z, b)) = b
    BY <2>1 DEF Prev1
  <2>7. QED
    BY <1>1, <2>3, <2>4, <2>5, <2>6
<1>3. ASSUME NEW c \in F \ {b}
      PROVE  Next1(r, F \ {b}, z, rank1, c)
  <2>1. Next1(g, F, z, rank, c)
    BY DEF Linked
  <2>2. CASE c = p
    <3>1. SUCC(r, c) = s
      BY <2>2
    <3>2. s # 0 => s \in F \ {b} /\ PRED(r, s) = p /\ Idx(z, s) = Idx(z, p)
      BY <1>2, <2>2
    <3>3. s # 0 => rank1[s] < rank1[c]
      BY <1>1, <1>2, <2>2
    <3>4. QED
      BY <2>2, <3>1, <3>2, <3>3 DEF Next1
  <2>3. CASE c # p
    <3>1. SUCC(r, c) = SUCC(g, c)
      BY <2>3
    <3>2. SUCC(g, c) # 0 => SUCC(g, c) \in F \ {b} /\ SUCC(g, c) # s
      BY <1>2, <2>1, <2>3 DEF Next1
    <3>3. QED
      BY <1>1, <2>1, <3>1, <3>2 DEF Next1
  <2>4. QED
    BY <2>2, <2>3
<1>4. ASSUME NEW c \in F \ {b}
      PROVE  Prev1(r, F \ {b}, z, c)
  <2>1. Prev1(g, F, z, c) /\ Idx(z, c) \in Lists
    BY DEF Linked
  <2>2. CASE c = s
    BY <1>2, <2>1, <2>2 DEF Prev1
  <2>3. CASE c # s
    <3>1. PRED(r, c) = PRED(g, c)
      BY <2>3
    <3>2. CASE PRED(g, c) = 0
      <4>1. First(g, Idx(z, c)) = c
        BY <2>1, <3>2 DEF Prev1
      <4>2. First(r, Idx(z, c)) = c
        BY <1>2, <2>1, <4>1
      <4>3. QED
        BY <3>1, <3>2, <4>2 DEF Prev1
    <3>3. CASE PRED(g, c) # 0
      <4>1. PRED(g, c) \in F /\ SUCC(g, PRED(g, c)) = c /\ Idx(z, PRED(g, c)) = Idx(z, c)
        BY <2>1, <3>3 DEF Prev1
      <4>2. PRED(g, c) # b /\ PRED(g, c) # p
        BY <1>2, <2>3, <3>3, <4>1
      <4>3. QED
        BY <3>1, <4>1, <4>2 DEF Prev1
    <3>4. QED
      BY <3>2, <3>3
  <2>4. QED
    BY <2>2, <2>3
<1>5. ASSUME NEW i \in Lists
      PROVE  First1(r, F \ {b}, z, i)
  <2>1. First1(g, F, z, i)
    BY DEF Linked
  <2>2. CASE p = 0 /\ i = Idx(z, b)
    BY <1>2, <2>2 DEF First1
  <2>3. CASE ~(p = 0 /\ i = Idx(z, b))
    <3>1. First(r, i) = First(g, i)
      BY <2>3
    <3>2. First(g, i) # 0 => First(g, i) # b /\ First(g, i) # s
      BY <1>2, <2>1, <2>3 DEF First1
    <3>3. QED
      BY <2>1, <3>1, <3>2 DEF First1
  <2>4. QED
    BY <2>2, <2>3
<1>6. Linked(r, F \ {b}, z, rank1)
  BY <1>1, <1>3, <1>4, <1>5 DEF Linked
<1>7. QED
  BY <1>6

\* The lists with b at the head of its own.
LEMMA Relinked ==
  ASSUME NEW g, NEW r, NEW F, NEW z, NEW rank, Linked(g, F, z, rank), 0 \notin F, NEW b, b \notin F, b # 0,
         \A c \in F : Idx(z, c) \in Lists, NEW j \in Lists, j = Idx(z, b), NEW f, f = First(g, j),
         Headed(g, r, F, b, f, j)
  PROVE  \E rank1 : Linked(r, F \cup {b}, z, rank1)
<1> USE DEF Headed
<1>1. rank \in [F -> Nat] /\ (f # 0 => f \in F /\ PRED(g, f) = 0 /\ Idx(z, f) = j)
  BY DEF Linked, First1
<1> DEFINE top == IF f = 0 THEN 0 ELSE rank[f] + 1
           rank1 == [c \in F \cup {b} |-> IF c = b THEN top ELSE rank[c]]
<1>2. top \in Nat /\ (f # 0 => rank[f] < top)
  BY <1>1
<1>3. rank1 \in [F \cup {b} -> Nat] /\ rank1[b] = top /\ \A c \in F : rank1[c] = rank[c]
  BY <1>1, <1>2
<1> HIDE DEF top, rank1
<1>4. ASSUME NEW c \in F \cup {b}
      PROVE  Next1(r, F \cup {b}, z, rank1, c)
  <2>1. CASE c = b
    BY <1>1, <1>2, <1>3, <2>1 DEF Next1
  <2>2. CASE c # b
    <3>1. Next1(g, F, z, rank, c) /\ SUCC(r, c) = SUCC(g, c) /\ c \in F
      BY <2>2 DEF Linked
    <3>2. SUCC(g, c) # 0 => SUCC(g, c) \in F /\ PRED(g, SUCC(g, c)) = c /\ SUCC(g, c) # f
      BY <1>1, <3>1 DEF Next1
    <3>3. QED
      BY <1>3, <3>1, <3>2 DEF Next1
  <2>3. QED
    BY <2>1, <2>2
<1>5. ASSUME NEW c \in F \cup {b}
      PROVE  Prev1(r, F \cup {b}, z, c)
  <2>1. CASE c = b
    BY <2>1 DEF Prev1
  <2>2. CASE c # b
    <3>1. Prev1(g, F, z, c) /\ c \in F /\ Idx(z, c) \in Lists
      BY <2>2 DEF Linked
    <3>2. CASE c = f
      BY <1>1, <2>2, <3>1, <3>2 DEF Prev1
    <3>3. CASE c # f
      <4>1. PRED(r, c) = PRED(g, c)
        BY <3>1, <3>3
      <4>2. PRED(g, c) = 0 => Idx(z, c) # j
        BY <3>1, <3>3 DEF Prev1
      <4>3. QED
        BY <3>1, <4>1, <4>2 DEF Prev1
    <3>4. QED
      BY <3>2, <3>3
  <2>3. QED
    BY <2>1, <2>2
<1>6. ASSUME NEW i \in Lists
      PROVE  First1(r, F \cup {b}, z, i)
  <2>1. CASE i = j
    BY <2>1 DEF First1
  <2>2. CASE i # j
    <3>1. First1(g, F, z, i) /\ First(r, i) = First(g, i)
      BY <2>2 DEF Linked
    <3>2. First(g, i) # f \/ First(g, i) = 0
      BY <1>1, <2>2, <3>1 DEF First1
    <3>3. QED
      BY <3>1, <3>2 DEF First1
  <2>3. QED
    BY <2>1, <2>2
<1>7. Linked(r, F \cup {b}, z, rank1)
  BY <1>3, <1>4, <1>5, <1>6 DEF Linked
<1>8. QED
  BY <1>7

\* The words delete_node and insert_node write: heads and links of free blocks.
LinkWords(G) == {HEAD(i) : i \in Lists} \cup G \cup {c + 1 : c \in G}

\* They are words of free blocks or heads, none of a tag and none of a neighbour.
LEMMA ListWords ==
  ASSUME NEW B, NEW z, NEW brk, Grid(B, z, brk), NEW G, G \subseteq B \ {14}
  PROVE  /\ \A c \in G : /\ c \in Nat /\ c + 1 \in Nat /\ c # 0 /\ c \in Memory /\ c + 1 \in Memory
                         /\ \A i \in Lists : c # HEAD(i) /\ c + 1 # HEAD(i)
         /\ \A c, d \in G : c + 1 # d /\ (c + 1 = d + 1 => c = d)
         /\ \A i, j \in Lists : HEAD(i) = HEAD(j) => i = j
         /\ \A w \in LinkWords(G) : w \in Memory /\ w # brk - 1 /\ \A c \in B \ G : w \notin Own(z, c)
         /\ \A w \in LinkWords(G) : \A c \in G : w # c - 1 /\ w # c + z[c] - 2
<1>1. \A c \in G : /\ c \in Nat /\ 16 <= c /\ c % 2 = 0 /\ c \in Own(z, c) /\ c + 1 \in Own(z, c)
                   /\ Own(z, c) \subseteq Memory /\ brk - 1 \notin Own(z, c) /\ z[c] \in Nat /\ 4 <= z[c]
                   /\ z[c] % 2 = 0
  <2>1. \A c \in G : c \in B \ {14}
    OBVIOUS
  <2>2. \A c \in G : 16 <= c /\ c \in Own(z, c) /\ c + 1 \in Own(z, c)
    BY <2>1, Owns
  <2>3. \A c \in G : Own(z, c) \subseteq Memory /\ brk - 1 \notin Own(z, c)
    BY <2>1, Owns
  <2>4. \A c \in G : c \in Nat /\ c % 2 = 0 /\ z[c] \in Nat /\ 4 <= z[c] /\ z[c] % 2 = 0
    BY <2>1 DEF Grid, Cell
  <2>5. QED
    BY <2>2, <2>3, <2>4
<1>2. \A i \in Lists : i \in Nat /\ HEAD(i) = i + 2 /\ HEAD(i) \in Memory /\ HEAD(i) < 12 /\ HEAD(i) # brk - 1
  <2>1. brk \in Nat /\ 14 < brk /\ \A i \in Lists : HEAD(i) \in Memory /\ HEAD(i) = i + 2
    BY Owns DEF Grid
  <2>2. \A i \in Lists : i \in Nat /\ i <= 9
    BY DEF Lists
  <2>3. QED
    BY <2>1, <2>2
<1>3. \A c \in G : /\ c \in Nat /\ c + 1 \in Nat /\ c # 0 /\ c \in Memory /\ c + 1 \in Memory
                   /\ \A i \in Lists : c # HEAD(i) /\ c + 1 # HEAD(i)
  BY <1>1, <1>2
<1>4. \A c, d \in G : c + 1 # d /\ (c + 1 = d + 1 => c = d)
  BY <1>1
<1>5. \A i, j \in Lists : HEAD(i) = HEAD(j) => i = j
  BY <1>2
<1>6. ASSUME NEW w \in LinkWords(G)
      PROVE  w \in Memory /\ w # brk - 1 /\ \A c \in B \ G : w \notin Own(z, c)
  <2>1. CASE \E i \in Lists : w = HEAD(i)
    <3>1. \A c \in B : \A v \in Own(z, c) : 12 < v
      BY Owns
    <3>2. QED
      BY <1>2, <2>1, <3>1 DEF Lists
  <2>2. CASE \E c \in G : w \in Own(z, c)
    BY <1>1, <2>2, Owns
  <2>3. QED
    BY <1>1, <1>6, <2>1, <2>2 DEF LinkWords
<1>7. ASSUME NEW w \in LinkWords(G), NEW c \in G
      PROVE  w # c - 1 /\ w # c + z[c] - 2
  <2>1. c - 1 \in Own(z, c) /\ c + z[c] - 2 \in Own(z, c) /\ \A v \in Own(z, c) : 12 < v
    BY Owns
  <2>2. CASE \E i \in Lists : w = HEAD(i)
    BY <1>2, <2>1, <2>2
  <2>3. CASE w \in {c, c + 1}
    BY <1>1, <2>3
  <2>4. CASE \E d \in G \ {c} : w \in {d, d + 1}
    <3>1. PICK d \in G \ {c} : w \in Own(z, d)
      BY <1>1, <2>4
    <3>2. Own(z, c) \cap Own(z, d) = {}
      BY Owns
    <3>3. QED
      BY <2>1, <3>1, <3>2
  <2>5. QED
    BY <1>7, <2>2, <2>3, <2>4 DEF LinkWords
<1>8. QED
  BY <1>3, <1>4, <1>5, <1>6, <1>7

\* Writing them leaves tags and allocated blocks alone.
LEMMA ListFrame ==
  ASSUME NEW g, NEW B, NEW z, NEW V, NEW F, NEW X, State(g, B, z, V, F, X),
         NEW r, NEW W, Changed(g, r, W), \A w \in W : w \in LinkWords(V)
  PROVE  /\ r \in Heaps /\ r.brk = g.brk /\ Cells(r, B \ X, z, V) /\ Epilogue(r)
         /\ Kept(g, z, r, B, z, V, B \ V)
<1>1. /\ Grid(B, z, g.brk) /\ r \in Heaps /\ r.brk = g.brk /\ V \subseteq B \ {14}
      /\ Cells(g, B \ X, z, V) /\ Epilogue(g)
  BY DEF State, Changed, Parts
<1>2. \A w \in Memory \ LinkWords(V) : r.m[w] = g.m[w]
  BY DEF Changed
<1>3. \A c \in B : c - 1 \in Own(z, c) /\ c + z[c] - 2 \in Own(z, c) /\ Own(z, c) \subseteq Memory
  BY <1>1, Owns
<1>4. /\ \A w \in LinkWords(V) : w # g.brk - 1 /\ \A c \in B \ V : w \notin Own(z, c)
      /\ \A w \in LinkWords(V) : \A c \in V : w # c - 1 /\ w # c + z[c] - 2
  BY <1>1, ListWords
<1>5. \A c \in B : r.m[c - 1] = g.m[c - 1] /\ r.m[c + z[c] - 2] = g.m[c + z[c] - 2]
  BY <1>2, <1>3, <1>4
<1>6. Cells(r, B \ X, z, V)
  BY <1>1, <1>5 DEF Cells
<1>7. Epilogue(r)
  <2>1. g.brk - 1 \in Memory
    BY <1>1, Owns
  <2>2. QED
    BY <1>1, <1>2, <1>4, <2>1 DEF Epilogue
<1>8. Kept(g, z, r, B, z, V, B \ V)
  <2>1. \A c \in B \ V : W \cap Own(z, c) = {}
    BY <1>4
  <2>2. QED
    BY <1>1, <2>1, KeptByWords
<1>9. QED
  BY <1>1, <1>6, <1>7, <1>8

\* delete_node takes a listed block out of its list and changes nothing else.
LEMMA DeleteNode ==
  ASSUME NEW g, NEW B, NEW z, NEW V, NEW F, NEW X, State(g, B, z, V, F, X), NEW b \in F,
         NEW r, r = delete_node(g, b)
  PROVE  State(r, B, z, V, F \ {b}, X) /\ Kept(g, z, r, B, z, V, B \ V) /\ SameBrk(g, r)
<1> DEFINE s == SUCC(g, b)
           p == PRED(g, b)
           j == Idx(z, b)
           t == IF p = 0 THEN HEAD(j) ELSE p
<1>1. PICK rank : Linked(g, F, z, rank)
  BY DEF State
<1>2. g \in Heaps /\ Grid(B, z, g.brk) /\ Parts(B, V, F, X) /\ F \subseteq B \ {14} /\ V \subseteq B \ {14}
  BY DEF State, Parts
<1>3. \A c \in F : c \in Nat /\ c \in Memory /\ c + 1 \in Memory /\ c # 0
  BY <1>2, ListWords
<1>4. s \in F \cup {0} /\ p \in F \cup {0} /\ j \in Lists /\ s \in Nat /\ p \in Nat
  <2>1. s \in F \cup {0} /\ p \in F \cup {0}
    BY <1>1 DEF Linked, Next1, Prev1
  <2>2. j \in Lists
    BY <1>2, IdxInLists
  <2>3. QED
    BY <1>3, <2>1, <2>2
<1>5. HEAD(j) \in Memory
  BY <1>2, <1>4, Owns
<1>6. SIZE(g, b) = z[b]
  BY <1>2, Reads DEF Parts
<1>7. PICK g1 : g1 = IF s = NULL THEN g ELSE PUT(g, s + 1, p)
  OBVIOUS
<1>8. r = PUT(g1, t, s)
  BY <1>6, <1>7, Places DEF delete_node, Idx
<1> HIDE DEF s, p, j
<1>9. /\ g1 \in Heaps /\ g1.brk = g.brk
      /\ \A x \in Memory : g1.m[x] = IF s # 0 /\ x = s + 1 THEN p ELSE g.m[x]
  <2>1. CASE s = 0
    BY <1>2, <1>7, <2>1, Places
  <2>2. CASE s # 0
    <3>1. Wrote(g, g1, s + 1, p)
      BY <1>2, <1>3, <1>4, <1>7, <2>2, PutWrote, Places
    <3>2. QED
      BY <2>2, <3>1 DEF Wrote
  <2>3. QED
    BY <2>1, <2>2
<1>10. t \in Memory
  BY <1>3, <1>4, <1>5
<1> HIDE DEF t
<1>11. Wrote(g1, r, t, s)
  BY <1>4, <1>8, <1>9, <1>10, PutWrote
<1>12. /\ r \in Heaps /\ r.brk = g.brk
       /\ \A x \in Memory : r.m[x] = IF x = t THEN s ELSE IF s # 0 /\ x = s + 1 THEN p ELSE g.m[x]
  BY <1>9, <1>11 DEF Wrote
<1>13. t \in LinkWords(V) /\ (s # 0 => s + 1 \in LinkWords(V))
  BY <1>2, <1>4 DEF LinkWords, t, Parts
<1>14. PICK W : W = {t} \cup (IF s = 0 THEN {} ELSE {s + 1})
  OBVIOUS
<1>15. Changed(g, r, W) /\ \A w \in W : w \in LinkWords(V)
  BY <1>12, <1>13, <1>14 DEF Changed
<1>16. /\ Cells(r, B \ X, z, V) /\ Epilogue(r)
       /\ Kept(g, z, r, B, z, V, B \ V)
  BY <1>15, ListFrame
<1>17. \A c \in F : \A i \in Lists : c # HEAD(i) /\ c + 1 # HEAD(i)
  BY <1>2, ListWords
<1>18. \A c, d \in F : c + 1 # d /\ (c + 1 = d + 1 => c = d)
  BY <1>2, ListWords
<1>19. \A c \in F : SUCC(r, c) = IF c = p THEN s ELSE SUCC(g, c)
  <2>1. \A c \in F : c = t <=> c = p
    BY <1>3, <1>4, <1>17 DEF t
  <2>2. QED
    BY <1>3, <1>4, <1>12, <1>18, <2>1 DEF SUCC
<1>20. \A c \in F : PRED(r, c) = IF c = s THEN p ELSE PRED(g, c)
  <2>1. \A c \in F : c + 1 # t
    BY <1>4, <1>17, <1>18 DEF t
  <2>2. QED
    BY <1>3, <1>4, <1>12, <1>18, <2>1 DEF PRED
<1>21. \A i \in Lists : First(r, i) = IF p = 0 /\ i = j THEN s ELSE First(g, i)
  <2>1. \A i \in Lists : HEAD(i) \in Memory /\ (HEAD(i) = t <=> p = 0 /\ i = j)
    <3>1. \A i \in Lists : HEAD(i) \in Memory /\ (HEAD(i) = HEAD(j) => i = j)
      BY <1>2, <1>4, Owns, ListWords
    <3>2. QED
      BY <1>4, <1>17, <3>1 DEF t
  <2>2. QED
    BY <1>4, <1>12, <1>17, <2>1 DEF First
<1>22. \A c \in F : Idx(z, c) \in Lists
  BY <1>2, IdxInLists
<1>23. \E rank1 : Linked(r, F \ {b}, z, rank1)
  <2>1. 0 \notin F
    BY <1>3
  <2>2. s = SUCC(g, b) /\ p = PRED(g, b)
    BY DEF s, p
  <2>3. Bypassed(g, r, F, b, s, p, j)
    BY <1>19, <1>20, <1>21 DEF Bypassed
  <2>4. j = Idx(z, b)
    BY DEF j
  <2>5. QED
    BY <1>1, <1>22, <2>1, <2>2, <2>3, <2>4, Unlinked
<1>24. Parts(B, V, F \ {b}, X)
  BY <1>2 DEF Parts
<1>25. QED
  BY <1>2, <1>12, <1>16, <1>23, <1>24 DEF State, SameBrk

\* insert_node puts a free block into the list of its size.
LEMMA InsertNode ==
  ASSUME NEW g, NEW B, NEW z, NEW V, NEW F, NEW X, State(g, B, z, V, F, X), NEW b \in V,
         b \notin F, b \notin X, NEW r, r = insert_node(g, b)
  PROVE  State(r, B, z, V, F \cup {b}, X) /\ Kept(g, z, r, B, z, V, B \ V) /\ SameBrk(g, r)
<1> DEFINE j == Idx(z, b)
           f == First(g, j)
           t == HEAD(j)
<1>1. PICK rank : Linked(g, F, z, rank)
  BY DEF State
<1>2. g \in Heaps /\ Grid(B, z, g.brk) /\ Parts(B, V, F, X) /\ F \subseteq B \ {14} /\ V \subseteq B \ {14}
  BY DEF State, Parts
<1>3. \A c \in V : c \in Nat /\ c \in Memory /\ c + 1 \in Memory /\ c # 0
  BY <1>2, ListWords
<1>4. j \in Lists /\ f \in F \cup {0} /\ f \in Nat
  <2>1. j \in Lists
    BY <1>2, IdxInLists
  <2>2. f \in F \cup {0}
    BY <1>1, <2>1 DEF Linked, First1
  <2>3. QED
    BY <1>2, <1>3, <2>1, <2>2 DEF Parts
<1>5. t \in Memory
  BY <1>2, <1>4, Owns
<1>6. SIZE(g, b) = z[b]
  BY <1>2, Reads DEF Parts
<1>7. PICK g1 : g1 = IF f = NULL THEN g ELSE PUT(g, f + 1, b)
  OBVIOUS
<1>8. PICK g2 : g2 = PUT(g1, b + 1, NULL)
  OBVIOUS
<1>9. PICK g3 : g3 = PUT(g2, b, f)
  OBVIOUS
<1>10. r = PUT(g3, t, b)
  BY <1>6, <1>7, <1>8, <1>9 DEF insert_node, Idx, First
<1> HIDE DEF j, f, t
<1>11. /\ g1 \in Heaps /\ g1.brk = g.brk
       /\ \A x \in Memory : g1.m[x] = IF f # 0 /\ x = f + 1 THEN b ELSE g.m[x]
  <2>1. CASE f = 0
    BY <1>2, <1>7, <2>1, Places
  <2>2. CASE f # 0
    <3>1. f + 1 \in Memory /\ b \in Nat
      BY <1>2, <1>3, <1>4, <2>2 DEF Parts
    <3>2. g1 = PUT(g, f + 1, b)
      BY <1>7, <2>2, Places
    <3>3. Wrote(g, g1, f + 1, b)
      BY <1>2, <3>1, <3>2, PutWrote
    <3>4. QED
      BY <2>2, <3>3 DEF Wrote
  <2>3. QED
    BY <2>1, <2>2
<1>12. Wrote(g1, g2, b + 1, 0)
  <2>1. NULL = 0 /\ 0 \in Nat /\ b + 1 \in Memory
    BY <1>3, Places
  <2>2. QED
    BY <1>8, <1>11, <2>1, PutWrote
<1>13. Wrote(g2, g3, b, f)
  <2>1. g2 \in Heaps
    BY <1>12 DEF Wrote
  <2>2. b \in Memory /\ f \in Nat
    BY <1>3, <1>4
  <2>3. QED
    BY <1>9, <2>1, <2>2, PutWrote
<1>14. Wrote(g3, r, t, b)
  <2>1. g3 \in Heaps /\ b \in Nat
    BY <1>3, <1>13 DEF Wrote
  <2>2. QED
    BY <1>5, <1>10, <2>1, PutWrote
<1>15. /\ r \in Heaps /\ r.brk = g.brk
       /\ \A x \in Memory : r.m[x] = IF x = t THEN b ELSE IF x = b THEN f ELSE IF x = b + 1 THEN 0
                                     ELSE IF f # 0 /\ x = f + 1 THEN b ELSE g.m[x]
  BY <1>11, <1>12, <1>13, <1>14 DEF Wrote
<1>16. /\ t \in LinkWords(V) /\ (f # 0 => f + 1 \in LinkWords(V))
       /\ b \in LinkWords(V) /\ b + 1 \in LinkWords(V)
  BY <1>2, <1>4 DEF LinkWords, t, Parts
<1>17. PICK W : W = {t, b, b + 1} \cup (IF f = 0 THEN {} ELSE {f + 1})
  OBVIOUS
<1>18. Changed(g, r, W) /\ \A w \in W : w \in LinkWords(V)
  BY <1>15, <1>16, <1>17 DEF Changed
<1>19. /\ Cells(r, B \ X, z, V) /\ Epilogue(r)
       /\ Kept(g, z, r, B, z, V, B \ V)
  BY <1>18, ListFrame
<1>20. \A c \in V : \A i \in Lists : c # HEAD(i) /\ c + 1 # HEAD(i)
  BY <1>2, ListWords
<1>21. \A c, d \in V : c + 1 # d /\ (c + 1 = d + 1 => c = d)
  BY <1>2, ListWords
<1>22. \A c \in V : c # t /\ c + 1 # t
  BY <1>4, <1>20 DEF t
<1>23. F \subseteq V /\ (f # 0 => f \in V)
  BY <1>2, <1>4 DEF Parts
<1>24. SUCC(r, b) = f /\ PRED(r, b) = 0
  BY <1>3, <1>15, <1>21, <1>22 DEF SUCC, PRED
<1>25. \A c \in F : SUCC(r, c) = SUCC(g, c)
  BY <1>3, <1>15, <1>21, <1>22, <1>23 DEF SUCC
<1>26. \A c \in F : PRED(r, c) = IF c = f THEN b ELSE PRED(g, c)
  BY <1>3, <1>15, <1>21, <1>22, <1>23 DEF PRED
<1>27. \A i \in Lists : First(r, i) = IF i = j THEN b ELSE First(g, i)
  <2>1. \A i \in Lists : HEAD(i) \in Memory /\ (HEAD(i) = t <=> i = j)
    BY <1>2, <1>4, Owns, ListWords DEF t
  <2>2. QED
    BY <1>15, <1>20, <1>23, <2>1 DEF First
<1>28. \E rank1 : Linked(r, F \cup {b}, z, rank1)
  <2>1. 0 \notin F /\ b # 0
    BY <1>3, <1>23
  <2>2. Headed(g, r, F, b, f, j)
    BY <1>24, <1>25, <1>26, <1>27 DEF Headed
  <2>3. j = Idx(z, b) /\ f = First(g, j)
    BY DEF j, f
  <2>4. \A c \in F : Idx(z, c) \in Lists
    BY <1>2, IdxInLists
  <2>5. QED
    BY <1>1, <1>4, <2>1, <2>2, <2>3, <2>4, Relinked
<1>29. Parts(B, V, F \cup {b}, X)
  BY <1>2 DEF Parts
<1>30. QED
  BY <1>2, <1>15, <1>19, <1>28, <1>29 DEF State, SameBrk

\* No block of F ends at b; the block grew; the answer; no two free neighbours.
NoneBefore(z, F, b) == \A c \in F : c + z[c] # b
Grows(z, b, y, c) == z[b] <= y[c]
Answer(r, s, p) == r = [h |-> s, p |-> p]
Apart(z, F) == \A c \in F : c + z[c] \notin F
\* A heap between two calls: every block tagged, every free one listed, and no two
\* of them next to each other.
Sound(g, B, z, V) == State(g, B, z, V, V, {}) /\ Apart(z, V)

\* Blocks seen in another grid keep their words.
LEMMA KeptRegrid ==
  ASSUME NEW g, NEW z, NEW B1, NEW z1, NEW V1, NEW A, \A c \in A : c \in B1 \ V1 /\ z1[c] = z[c]
  PROVE  Kept(g, z, g, B1, z1, V1, A)
BY DEF Kept

\* Only one block ends where another begins.
LEMMA Neighbours ==
  ASSUME NEW B, NEW z, NEW brk, Grid(B, z, brk), NEW b \in B, NEW c \in B, b + z[b] = c + z[c]
  PROVE  b = c
<1>1. /\ b \in Nat /\ c \in Nat /\ z[b] \in Nat /\ z[c] \in Nat /\ 2 <= z[b] /\ 2 <= z[c]
  BY DEF Grid, Cell
<1>2. (b < c => b + z[b] <= c) /\ (c < b => c + z[c] <= b)
  BY DEF Grid
<1>3. QED
  BY <1>1, <1>2

\* A block that is to be free is tagged and put into its list.
LEMMA Joins ==
  ASSUME NEW g, NEW B, NEW z, NEW V, NEW F, NEW X, NEW b, State(g, B, z, V, F, X), X = {b}, b \in V, b \notin F,
         NEW size, size = z[b], NEW r, r = Join(g, b, size)
  PROVE  \E s : /\ State(s, B, z, V, F \cup {b}, {}) /\ Answer(r, s, b)
                /\ Kept(g, z, s, B, z, V, B \ V)
<1>1. PICK s : s = TAG(g, b, size, 0)
  OBVIOUS
<1>2. PICK t : t = insert_node(s, b)
  OBVIOUS
<1>3. Answer(r, t, b)
  BY <1>1, <1>2 DEF Join, Answer
<1>4. b \in B /\ b # 14 /\ 0 = IF b \in V THEN 0 ELSE 1
  BY DEF State, Parts
<1>5. State(s, B, z, V, F, X \ {b}) /\ Kept(g, z, s, B, z, V, (B \ V) \ {b})
  BY <1>1, <1>4, TagBlock
<1>6. PICK Y : Y = X \ {b}
  OBVIOUS
<1>7. Y = {} /\ (B \ V) \ {b} = B \ V
  BY <1>6
<1>8. State(s, B, z, V, F, Y) /\ Kept(g, z, s, B, z, V, B \ V) /\ b \notin Y
  BY <1>5, <1>6, <1>7
<1>9. State(t, B, z, V, F \cup {b}, Y) /\ Kept(s, z, t, B, z, V, B \ V)
  BY <1>2, <1>8, InsertNode
<1>10. Kept(g, z, t, B, z, V, B \ V)
  BY <1>8, <1>9, KeptTwice
<1>11. QED
  BY <1>3, <1>7, <1>9, <1>10

\* The block after b joins it if it is free.
Joining(g, B, z, V, F, b, size, n) ==
  /\ State(g, B, z, V, F, {b}) /\ b \notin F /\ V = F \cup {b} /\ Apart(z, F) /\ NoneBefore(z, F, b)
  /\ size = z[b] /\ n = b + z[b]
JoinedNext(g, B, z, V, F, b, n, r) ==
  \E t, B1, z1, V1 : /\ Answer(r, t, b) /\ Sound(t, B1, z1, V1) /\ b \in V1 /\ Grows(z, b, z1, b)
                     /\ Kept(g, z, t, B1, z1, V1, B \ V)
                     /\ n \notin F => B1 = B /\ z1 = z /\ V1 = V
\* The block after b joins it if it is free, and leaves its list first.
LEMMA JoinsNext ==
  ASSUME NEW g, NEW B, NEW z, NEW V, NEW F, NEW b, NEW size, NEW n, Joining(g, B, z, V, F, b, size, n),
         NEW r, r = JoinNext(g, b, size, n)
  PROVE  JoinedNext(g, B, z, V, F, b, n, r)
<1>0. PICK X : /\ State(g, B, z, V, F, X) /\ X = {b} /\ b \notin F /\ V = F \cup {b} /\ Apart(z, F) /\ NoneBefore(z, F, b)
               /\ size = z[b] /\ n = b + z[b]
  BY DEF Joining
<1>1. /\ Grid(B, z, g.brk) /\ b \in B /\ b # 14 /\ b \in V /\ F \subseteq B /\ 14 \notin F
  BY <1>0 DEF State, Parts
<1>2. b \in Nat /\ z[b] \in Nat /\ 2 <= z[b] /\ n \in B \cup {g.brk} /\ n # b
  BY <1>0, <1>1 DEF Grid, Cell
<1>3. g.brk \notin B
  BY <1>0, <1>1 DEF Grid, Cell
<1>4. IS_FREE(g, HDRP(n)) <=> n \in F
  <2>1. CASE n = g.brk
    BY <1>0, <1>1, <1>3, <2>1, ReadsEnd
  <2>2. CASE n \in B
    <3>1. n \in B \ {b}
      BY <1>0, <1>2, <2>2
    <3>2. IS_FREE(g, HDRP(n)) <=> n \in V
      BY <1>0, <3>1, Reads
    <3>3. QED
      BY <1>0, <1>2, <3>2
  <2>3. QED
    BY <1>0, <1>2, <2>1, <2>2
<1>5. CASE n \notin F
  <2>1. r = Join(g, b, size)
    BY <1>0, <1>4, <1>5 DEF JoinNext
  <2>2. PICK t : /\ State(t, B, z, V, F \cup {b}, {}) /\ Answer(r, t, b)
                 /\ Kept(g, z, t, B, z, V, B \ V)
    BY <1>0, <1>1, <2>1, Joins
  <2>3. Apart(z, V)
    BY <1>0, <1>2, <1>5 DEF Apart, NoneBefore
  <2>4. Sound(t, B, z, V)
    BY <1>0, <2>2, <2>3 DEF Sound
  <2>5. Grows(z, b, z, b)
    BY <1>0, <1>2 DEF Grows
  <2>6. QED
    BY <1>0, <1>1, <2>2, <2>4, <2>5 DEF JoinedNext
<1>6. CASE n \in F
  <2> DEFINE B1 == B \ {n}
             z1 == Merged(B, z, b, n)
             V1 == V \ {n}
             F1 == F \ {n}
  <2>1. PICK s : s = delete_node(g, n)
    OBVIOUS
  <2>2. State(s, B, z, V, F1, X) /\ Kept(g, z, s, B, z, V, B \ V) /\ SameBrk(g, s)
    BY <1>0, <1>6, <2>1, DeleteNode
  <2>3. Grid(B1, z1, g.brk) /\ z1[b] = z[b] + z[n] /\ \A c \in B1 : c # b => z1[c] = z[c]
    <3>1. n \in B
      BY <1>0, <1>1, <1>6
    <3>2. Grid(B1, z1, g.brk)
      BY <1>0, <1>1, <3>1, MergedGrid
    <3>3. b \in B1
      BY <1>0, <1>1, <1>2
    <3>4. QED
      BY <1>0, <3>2, <3>3 DEF Merged
  <2> HIDE DEF z1
  <2>4. State(s, B1, z1, V1, F1, X)
    <3>1. Parts(B1, V1, F1, X)
      BY <1>0, <1>1, <1>2, <2>2 DEF State, Parts
    <3>2. \A c \in B1 \ X : c \in B \ X /\ z1[c] = z[c] /\ (c \in V1 <=> c \in V)
      BY <1>0, <2>3
    <3>3. Grid(B1, z1, s.brk)
      BY <1>0, <2>2, <2>3 DEF SameBrk
    <3>4. QED
      BY <1>0, <2>2, <3>1, <3>2, <3>3, Regrid
  <2>5. Kept(s, z, s, B1, z1, V1, B \ V)
    <3>1. \A c \in B \ V : c \in B1 \ V1 /\ z1[c] = z[c]
      BY <1>0, <1>1, <1>6, <2>3
    <3>2. QED
      BY <1>0, <3>1, KeptRegrid
  <2>6. r = Join(s, b, z1[b])
    <3>1. n \in B \ {b}
      BY <1>0, <1>1, <1>2, <1>6
    <3>2. SIZE(g, n) = z[n]
      BY <1>0, <3>1, Reads
    <3>3. QED
      BY <1>0, <1>4, <1>6, <2>1, <2>3, <3>2 DEF JoinNext
  <2>7. PICK t : /\ State(t, B1, z1, V1, F1 \cup {b}, {}) /\ Answer(r, t, b)
                 /\ Kept(s, z1, t, B1, z1, V1, B1 \ V1)
    <3>1. b \in V1 /\ b \notin F1
      BY <1>0, <1>1, <1>2
    <3>2. PICK size1 : size1 = z1[b]
      OBVIOUS
    <3>3. r = Join(s, b, size1)
      BY <1>0, <2>6, <3>2
    <3>4. QED
      BY <1>0, <2>4, <3>1, <3>2, <3>3, Joins
  <2>8. B1 \ V1 = B \ V /\ F1 \cup {b} = V1
    BY <1>0, <1>1, <1>2, <1>6
  <2>9. Kept(g, z, t, B1, z1, V1, B \ V)
    BY <1>0, <2>2, <2>5, <2>7, <2>8, KeptTwice
  <2>10. Apart(z1, V1)
    <3>1. ASSUME NEW c \in F1
          PROVE  c + z1[c] \notin V1
      <4>1. c + z[c] \notin F /\ c + z[c] # b /\ z1[c] = z[c]
        BY <1>0, <1>1, <2>3 DEF Apart, NoneBefore
      <4>2. QED
        BY <1>0, <4>1
    <3>2. b + z1[b] \notin V1
      <4>1. z[n] \in Nat /\ 2 <= z[n]
        BY <1>0, <1>1, <1>6 DEF Grid, Cell
      <4>2. b + z1[b] = n + z[n] /\ b + z1[b] # b
        BY <1>0, <1>2, <2>3, <4>1
      <4>3. n + z[n] \notin F
        BY <1>0, <1>6 DEF Apart
      <4>4. QED
        BY <1>0, <4>2, <4>3
    <3>3. QED
      BY <1>0, <2>8, <3>1, <3>2 DEF Apart
  <2>11. Sound(t, B1, z1, V1)
    BY <1>0, <2>7, <2>8, <2>10 DEF Sound
  <2>12. b \in V1 /\ Grows(z, b, z1, b)
    <3>1. z[n] \in Nat
      BY <1>0, <1>1, <1>6 DEF Grid, Cell
    <3>2. QED
      BY <1>0, <1>1, <1>2, <2>3, <3>1 DEF Grows
  <2>13. QED
    BY <1>0, <1>6, <2>7, <2>9, <2>11, <2>12 DEF JoinedNext
<1>7. QED
  BY <1>0, <1>5, <1>6

\* Neither neighbour of b is free.
Alone(z, F, b) == b + z[b] \notin F /\ NoneBefore(z, F, b)

\* coalesce answers a sound heap, in which b is part of the free block it returns.
Freed(g, B, z, V, F, b, r) ==
  \E t, p, B1, z1, V1 : /\ Answer(r, t, p) /\ Sound(t, B1, z1, V1) /\ p \in V1 /\ Grows(z, b, z1, p)
                        /\ Kept(g, z, t, B1, z1, V1, B \ V)
                        /\ Alone(z, F, b) => p = b /\ B1 = B /\ z1 = z /\ V1 = V
\* coalesce makes a heap sound in which one free block is not listed yet.
LEMMA Coalesces ==
  ASSUME NEW g, NEW B, NEW z, NEW V, NEW F, NEW X, NEW b, State(g, B, z, V, F, X), X = {}, b \notin F, V = F \cup {b},
         Apart(z, F), NEW r, r = coalesce(g, b)
  PROVE  Freed(g, B, z, V, F, b, r)
<1>1. /\ Grid(B, z, g.brk) /\ b \in B /\ b # 14 /\ b \in V /\ F \subseteq B /\ 14 \notin F
  BY DEF State, Parts
<1>2. PICK q \in B : q + z[q] = b
  BY <1>1 DEF Grid
<1>3. b \in Nat /\ z[b] \in Nat /\ 2 <= z[b] /\ q \in Nat /\ z[q] \in Nat /\ 2 <= z[q] /\ q # b
  BY <1>1, <1>2 DEF Grid, Cell
<1>4. PICK w : w = b - 2
  OBVIOUS
<1>5. /\ PREV_BLKP(g, b) = q /\ FTRP(g, q) = w /\ SIZE(g, q) = z[q] /\ (IS_FREE(g, w) <=> q \in F)
      /\ SIZE(g, b) = z[b] /\ NEXT_BLKP(g, b) = b + z[b]
  <2>1. q \in B \ X /\ b \in B \ X
    BY <1>1
  <2>2. PREV_BLKP(g, b) = q /\ FTRP(g, q) = w /\ SIZE(g, q) = z[q] /\ (IS_FREE(g, w) <=> q \in V)
    BY <1>2, <1>4, <2>1, Reads
  <2>3. SIZE(g, b) = z[b] /\ NEXT_BLKP(g, b) = b + z[b]
    BY <2>1, Reads
  <2>4. QED
    BY <1>3, <2>2, <2>3
<1>6. IS_FREE(g, FTRP(g, q)) <=> q \in F
  BY <1>5
<1>7. PICK Y : Y = {b}
  OBVIOUS
<1>8. CASE q \notin F
  <2>1. r = JoinNext(g, b, z[b], b + z[b])
    BY <1>5, <1>6, <1>8 DEF coalesce, JoinBoth
  <2>2. State(g, B, z, V, F, Y)
    <3>1. Parts(B, V, F, Y)
      BY <1>1, <1>7 DEF State, Parts
    <3>2. \A c \in B \ Y : c \in B \ X /\ z[c] = z[c] /\ (c \in V <=> c \in V)
      OBVIOUS
    <3>3. QED
      BY <1>1, <3>1, <3>2, Regrid
  <2>3. NoneBefore(z, F, b)
    BY <1>1, <1>2, <1>8, Neighbours DEF NoneBefore
  <2>4. PICK n : n = b + z[b]
    OBVIOUS
  <2>5. PICK size : size = z[b]
    OBVIOUS
  <2>6. r = JoinNext(g, b, size, n)
    BY <2>1, <2>4, <2>5
  <2>7. PICK t, B1, z1, V1 : /\ Answer(r, t, b) /\ Sound(t, B1, z1, V1) /\ b \in V1 /\ Grows(z, b, z1, b)
                             /\ Kept(g, z, t, B1, z1, V1, B \ V)
                             /\ n \notin F => B1 = B /\ z1 = z /\ V1 = V
    <3>1. Joining(g, B, z, V, F, b, size, n)
      BY <1>7, <2>2, <2>3, <2>4, <2>5 DEF Joining
    <3>2. JoinedNext(g, B, z, V, F, b, n, r)
      BY <2>6, <3>1, JoinsNext
    <3>3. QED
      BY <3>2 DEF JoinedNext
  <2>8. Alone(z, F, b) => b = b /\ B1 = B /\ z1 = z /\ V1 = V
    BY <2>4, <2>7 DEF Alone
  <2>9. QED
    BY <2>7, <2>8 DEF Freed
<1>9. CASE q \in F
  <2> DEFINE B2 == B \ {b}
             z2 == Merged(B, z, q, b)
             V2 == V \ {b}
             F2 == F \ {q}
  <2>1. PICK s : s = delete_node(g, q)
    OBVIOUS
  <2>2. State(s, B, z, V, F2, X) /\ Kept(g, z, s, B, z, V, B \ V) /\ SameBrk(g, s)
    BY <1>9, <2>1, DeleteNode
  <2>3. Grid(B2, z2, g.brk) /\ z2[q] = z[q] + z[b] /\ \A c \in B2 : c # q => z2[c] = z[c]
    <3>1. q # 14 /\ b = q + z[q]
      BY <1>1, <1>2, <1>9
    <3>2. Grid(B2, z2, g.brk)
      BY <1>1, <3>1, MergedGrid
    <3>3. q \in B2
      BY <1>3
    <3>4. QED
      BY <3>2, <3>3 DEF Merged
  <2> HIDE DEF z2
  <2>4. PICK Z : Z = {q}
    OBVIOUS
  <2>5. State(s, B2, z2, V2, F2, Z)
    <3>1. Parts(B2, V2, F2, Z)
      BY <1>1, <1>3, <1>9, <2>4 DEF Parts
    <3>2. \A c \in B2 \ Z : c \in B \ X /\ z2[c] = z[c] /\ (c \in V2 <=> c \in V)
      BY <2>3, <2>4
    <3>3. Grid(B2, z2, s.brk)
      BY <2>2, <2>3 DEF SameBrk
    <3>4. QED
      BY <2>2, <3>1, <3>2, <3>3, Regrid
  <2>6. Kept(s, z, s, B2, z2, V2, B \ V)
    <3>1. \A c \in B \ V : c \in B2 \ V2 /\ z2[c] = z[c]
      BY <1>1, <1>9, <2>3
    <3>2. QED
      BY <3>1, KeptRegrid
  <2>7. PICK n : n = b + z[b]
    OBVIOUS
  <2>8. PICK size : size = z2[q]
    OBVIOUS
  <2>9. r = JoinNext(s, q, size, n)
    <3>1. z[b] + z[q] = size
      BY <1>3, <2>3, <2>8
    <3>2. QED
      BY <1>5, <1>6, <1>9, <2>1, <2>7, <3>1 DEF coalesce, JoinBoth
  <2>10. n = q + z2[q]
    BY <1>2, <1>3, <2>3, <2>7
  <2>11. V2 = F2 \cup {q} /\ q \notin F2 /\ B2 \ V2 = B \ V
    BY <1>1, <1>3, <1>9
  <2>12. \A c \in F2 : z2[c] = z[c] /\ c + z[c] \notin F
    BY <1>1, <2>3 DEF Apart
  <2>13. Apart(z2, F2) /\ NoneBefore(z2, F2, q)
    BY <1>9, <2>12 DEF Apart, NoneBefore
  <2>14. PICK t, B1, z1, V1 : /\ Answer(r, t, q) /\ Sound(t, B1, z1, V1) /\ q \in V1 /\ Grows(z2, q, z1, q)
                              /\ Kept(s, z2, t, B1, z1, V1, B2 \ V2)
    <3>1. Joining(s, B2, z2, V2, F2, q, size, n)
      BY <2>4, <2>5, <2>8, <2>10, <2>11, <2>13 DEF Joining
    <3>2. JoinedNext(s, B2, z2, V2, F2, q, n, r)
      BY <2>9, <3>1, JoinsNext
    <3>3. QED
      BY <3>2 DEF JoinedNext
  <2>15. Kept(g, z, t, B1, z1, V1, B \ V)
    BY <2>2, <2>6, <2>11, <2>14, KeptTwice
  <2>16. Grows(z, b, z1, q)
    <3>1. z1[q] \in Nat
      BY <2>14 DEF Sound, State, Parts, Grid, Cell
    <3>2. QED
      BY <1>3, <2>3, <2>14, <3>1 DEF Grows
  <2>17. ~Alone(z, F, b)
    BY <1>2, <1>9 DEF Alone, NoneBefore
  <2>18. QED
    BY <2>14, <2>15, <2>16, <2>17 DEF Freed
<1>10. QED
  BY <1>8, <1>9

\* The heap grows by a block of k words.
Longer(g, k) == [g EXCEPT !.brk = @ + k]
GrownHeap(g, B, z, V, F, b, k, B1, z1, V1, n, r) ==
  /\ State(g, B, z, V, F, {}) /\ GrownGrid(B, z, b, k, B1, z1, n) /\ b = g.brk /\ V1 = V \cup {b}
  /\ r = PUT(TAG(Longer(g, k), b, k, 0), b + k - 1, PACK(0, 1))
\* The new block and the new epilogue are tagged.
LEMMA ExtendTags ==
  ASSUME NEW g, NEW B, NEW z, NEW V, NEW F, NEW b, NEW k, NEW B1, NEW z1, NEW V1, NEW n, NEW r,
         GrownHeap(g, B, z, V, F, b, k, B1, z1, V1, n, r)
  PROVE  State(r, B1, z1, V1, F, {}) /\ Kept(g, z, r, B1, z1, V1, B \ V)
<1>0. PICK X : X = {}
  OBVIOUS
<1>c. PICK e : e = b + k - 1
  OBVIOUS
<1>d. PICK s, t : s = Longer(g, k) /\ t = TAG(s, b, k, 0)
  OBVIOUS
<1>e. /\ State(g, B, z, V, F, X) /\ GrownGrid(B, z, b, k, B1, z1, n) /\ b = g.brk /\ V1 = V \cup {b}
      /\ r = PUT(t, e, PACK(0, 1))
  BY <1>0, <1>c, <1>d DEF GrownHeap
<1>a. n = b + k /\ B1 = B \cup {b} /\ z1 = Extended(B, z, b, k) /\ b = g.brk /\ V1 = V \cup {b} /\ e = b + k - 1
      /\ s = Longer(g, k) /\ t = TAG(s, b, k, 0) /\ r = PUT(t, e, PACK(0, 1)) /\ X = {}
  BY <1>0, <1>c, <1>d, <1>e DEF GrownGrid
<1>1. g \in Heaps /\ Grid(B, z, b) /\ Parts(B, V, F, X) /\ Cells(g, B, z, V) /\ b \in Nat /\ b # 14
      /\ k \in Nat /\ k % 2 = 0 /\ 4 <= k /\ b + k <= MAX_HEAP + 2
  <2>1. g \in Heaps /\ Grid(B, z, b) /\ Parts(B, V, F, X) /\ Cells(g, B, z, V)
    BY <1>a, <1>e DEF State
  <2>2. QED
    BY <1>a, <2>1, Owns, <1>e DEF Grid, Fitting, GrownGrid
<1>b. PICK u, w : u = b - 1 /\ w = b + k - 2
  OBVIOUS
<1>2. /\ Grid(B1, z1, n) /\ b \notin B /\ z1[b] = k /\ \A c \in B : z1[c] = z[c]
  BY <1>a, <1>e, ExtendedGrid DEF OnlyNew
<1>3. s \in Heaps /\ s.m = g.m /\ s.brk = n
  BY <1>a, <1>1, <1>a DEF Longer, Heaps
<1>4. /\ Own(z1, b) \subseteq Memory /\ e \notin Own(z1, b) /\ u \in Own(z1, b) /\ w \in Own(z1, b)
      /\ e \in Memory
      /\ \A c \in B : Own(z1, c) \subseteq Memory /\ e \notin Own(z1, c) /\ Own(z1, c) \cap Own(z1, b) = {}
      /\ \A i \in Lists : HEAD(i) \in Memory /\ HEAD(i) \notin Own(z1, b) /\ HEAD(i) # e
  <2>1. b \in B1 /\ \A c \in B : c \in B1 /\ c # b
    BY <1>a, <1>2
  <2>2. /\ Own(z1, b) \subseteq Memory /\ e \notin Own(z1, b) /\ u \in Own(z1, b) /\ w \in Own(z1, b)
        /\ e \in Memory /\ \A x \in Own(z1, b) : 12 < x
    <3>1. /\ Own(z1, b) \subseteq Memory /\ n - 1 \notin Own(z1, b)
          /\ b - 1 \in Own(z1, b) /\ b + z1[b] - 2 \in Own(z1, b)
          /\ n - 1 \in Memory /\ \A x \in Own(z1, b) : 12 < x
      BY <1>a, <1>2, <2>1, Owns
    <3>2. n - 1 = e /\ b + z1[b] - 2 = w /\ b - 1 = u
      BY <1>a, <1>1, <1>2, <1>a, <1>b
    <3>3. QED
      BY <3>1, <3>2
  <2>3. \A c \in B : Own(z1, c) \subseteq Memory /\ e \notin Own(z1, c) /\ Own(z1, c) \cap Own(z1, b) = {}
    <3>1. \A c \in B : Own(z1, c) \subseteq Memory /\ n - 1 \notin Own(z1, c)
      BY <1>a, <1>2, <2>1, Owns
    <3>2. \A c \in B : Own(z1, c) \cap Own(z1, b) = {}
      BY <1>a, <1>2, <2>1, Owns
    <3>3. n - 1 = e
      BY <1>a, <1>1, <1>a
    <3>4. QED
      BY <3>1, <3>2, <3>3
  <2>4. 14 < b /\ \A i \in Lists : HEAD(i) \in Memory /\ HEAD(i) = i + 2 /\ HEAD(i) < 12
    <3>1. 14 < b /\ \A i \in Lists : HEAD(i) \in Memory /\ HEAD(i) = i + 2
      BY <1>a, <1>1, Owns
    <3>2. QED
      BY <3>1 DEF Lists
  <2>5. \A i \in Lists : HEAD(i) \notin Own(z1, b) /\ HEAD(i) # e
    <3>1. e > 12
      <4>1. b \in Nat /\ 14 < b
        BY <1>a, <1>1, <2>4
      <4>2. QED
        BY <1>1, <1>a, <4>1
    <3>2. \A i \in Lists : HEAD(i) \in Int
      BY <1>a, <2>4 DEF Lists
    <3>3. ASSUME NEW i \in Lists
          PROVE  HEAD(i) \notin Own(z1, b) /\ HEAD(i) # e
      <4>1. PICK x \in Int : x = HEAD(i)
        BY <3>2
      <4>2. x < 12
        BY <1>a, <2>4, <4>1
      <4>3. x \notin Own(z1, b)
        BY <1>a, <2>2, <4>2
      <4>4. x # e
        BY <3>1, <4>2
      <4>5. QED
        BY <4>1, <4>3, <4>4
    <3>4. QED
      BY <3>3
  <2>6. QED
    BY <1>a, <2>2, <2>3, <2>4, <2>5
<1>5. PICK v : v = PACK(k, 0)
  OBVIOUS
<1>6. v = k
  BY <1>1, <1>a, <1>5 DEF PACK
<1>7. WroteBoth(s, t, u, w, v)
  BY <1>1, <1>a, <1>3, <1>4, <1>5, <1>6, <1>b, TagWrites
<1>8. Changed(t, r, {e}) /\ r.m[e] = 1
  <2>1. PACK(0, 1) = 1 /\ t \in Heaps
    BY <1>a, <1>7 DEF PACK, WroteBoth
  <2>2. QED
    BY <1>a, <1>4, <2>1, PutChanges
<1>9. /\ r \in Heaps /\ r.brk = n
      /\ \A x \in Memory : x \notin Own(z1, b) /\ x # e => r.m[x] = g.m[x]
      /\ r.m[u] = k /\ r.m[w] = k
  <2>1. r \in Heaps /\ r.brk = n
    BY <1>a, <1>3, <1>7, <1>8 DEF Changed, WroteBoth
  <2>2. u # e /\ w # e /\ u \in Memory /\ w \in Memory
    BY <1>a, <1>1, <1>4
  <2>3. \A x \in Memory : x \notin Own(z1, b) /\ x # e => r.m[x] = g.m[x]
    BY <1>a, <1>3, <1>4, <1>7, <1>8 DEF Changed, WroteBoth
  <2>4. r.m[u] = k /\ r.m[w] = k
    BY <1>a, <1>6, <1>7, <1>8, <2>2 DEF Changed, WroteBoth
  <2>5. QED
    BY <1>a, <2>1, <2>3, <2>4
<1>10. \A c \in B : \A x \in Own(z1, c) : r.m[x] = g.m[x]
  BY <1>a, <1>4, <1>9
<1>11. Cells(r, B1 \ X, z1, V1)
  <2>1. \A c \in B : c - 1 \in Own(z1, c) /\ c + z[c] - 2 \in Own(z1, c)
    BY <1>a, <1>1, <1>2, Owns DEF Own
  <2>2. \A c \in B : r.m[c - 1] = Word(z1, V1, c) /\ r.m[c + z1[c] - 2] = Word(z1, V1, c)
    BY <1>a, <1>1, <1>2, <1>10, <2>1 DEF Cells, Word
  <2>3. r.m[b - 1] = Word(z1, V1, b) /\ r.m[b + z1[b] - 2] = Word(z1, V1, b)
    BY <1>1, <1>a, <1>2, <1>9, <1>b DEF Word
  <2>4. QED
    BY <1>a, <1>1, <2>2, <2>3 DEF Cells
<1>12. Epilogue(r)
  <2>1. r.brk - 1 = e
    BY <1>a, <1>1, <1>9, <1>a
  <2>2. QED
    BY <1>a, <1>8, <2>1 DEF Epilogue
<1>13. PICK rank : Linked(g, F, z, rank)
  BY <1>e DEF State
<1>14. F \subseteq B \ {14} /\ \A c \in F : z1[c] = z[c]
  BY <1>a, <1>1, <1>2 DEF Parts
<1>15. \E rank1 : Linked(r, F, z1, rank1)
  <2>1. Linked(g, F, z1, rank)
    BY <1>a, <1>13, <1>14, SameIdx
  <2>2. \A c \in F : SUCC(r, c) = SUCC(g, c) /\ PRED(r, c) = PRED(g, c) /\ Idx(z1, c) \in Lists
    <3>1. \A c \in F : c \in Own(z1, c) /\ c + 1 \in Own(z1, c)
      BY <1>a, <1>2, <1>14, Owns
    <3>2. \A c \in F : SUCC(r, c) = SUCC(g, c) /\ PRED(r, c) = PRED(g, c)
      BY <1>a, <1>10, <1>14, <3>1 DEF SUCC, PRED
    <3>3. \A c \in F : c \in B1 \ {14}
      BY <1>a, <1>14
    <3>4. QED
      BY <1>a, <1>2, <3>2, <3>3, IdxInLists
  <2>3. \A i \in Lists : First(r, i) = First(g, i)
    BY <1>a, <1>4, <1>9 DEF First
  <2>4. 0 \notin F
    BY <1>a, <1>1, <1>14, Owns
  <2>5. QED
    BY <1>a, <2>1, <2>2, <2>3, <2>4, LinkedStays
<1>16. Parts(B1, V1, F, X)
  BY <1>a, <1>1, <1>2 DEF Parts
<1>17. Kept(g, z, r, B1, z1, V1, B \ V)
  <2>1. \A c \in B \ V : c \in B1 \ V1 /\ z1[c] = z[c] /\ Own(z, c) = Own(z1, c)
    BY <1>a, <1>2 DEF Own
  <2>2. QED
    BY <1>a, <1>10, <2>1 DEF Kept
<1>18. State(r, B1, z1, V1, F, X)
  BY <1>a, <1>2, <1>9, <1>11, <1>12, <1>15, <1>16 DEF State
<1>19. QED
  BY <1>0, <1>17, <1>18

\* The size asked for.
AtLeast(n, z, b) == n <= z[b]
\* The heap served a block of the size asked for; there was no room for it.
Served(g, B, z, V, words, t, p, B1, z1, V1) ==
  Sound(t, B1, z1, V1) /\ p \in V1 /\ AtLeast(words, z1, p) /\ Kept(g, z, t, B1, z1, V1, B \ V)
NoRoom(b, words) == b + words + (words % 2) > MAX_HEAP + 2
\* extend_heap adds a free block, or there is no room and nothing changes.
Extends(g, B, z, V, b, words, r) ==
  \/ Answer(r, g, NULL) /\ NoRoom(b, words)
  \/ \E t, p, B1, z1, V1 : /\ Answer(r, t, p) /\ Served(g, B, z, V, words, t, p, B1, z1, V1)
                           /\ NoneBefore(z, V, b) => p = b /\ (words % 2 = 0 => z1[p] = words)

\* mem_sbrk moves the break, or fails.
Sbrked(g, b, size, s) ==
  IF b + size > MAX_HEAP + 2 THEN s.p = -1 ELSE s.h = Longer(g, size) /\ s.p = b
\* mem_sbrk moves the break, or fails.
LEMMA Sbrks ==
  ASSUME NEW g \in Heaps, NEW size \in Nat, NEW b, b = g.brk, NEW s, s = mem_sbrk(g, size)
  PROVE  Sbrked(g, b, size, s)
<1>1. mem_max_addr = MAX_HEAP + 2 /\ b \in Nat /\ Failed = -1
  BY Places DEF Heaps, Failed
<1>2. QED
  BY <1>1, Places DEF mem_sbrk, Longer, Sbrked

\* extend_heap keeps the heap sound.
LEMMA ExtendsHeap ==
  ASSUME NEW g, NEW B, NEW z, NEW V, Sound(g, B, z, V), NEW words \in Nat, 4 <= words, NEW b, b = g.brk,
         NEW r, r = extend_heap(g, words)
  PROVE  Extends(g, B, z, V, b, words, r)
<1>1. g \in Heaps /\ Grid(B, z, b) /\ Parts(B, V, V, {}) /\ b \in Nat
  BY DEF Sound, State, Grid
<1>2. PICK k : k = words + (words % 2)
  OBVIOUS
<1>3. k \in Nat /\ k % 2 = 0 /\ 4 <= k /\ words <= k /\ (words % 2 = 0 => k = words)
  BY <1>2
<1>4. PICK s : s = mem_sbrk(g, k)
  OBVIOUS
<1>b. Sbrked(g, b, k, s)
  BY <1>1, <1>3, <1>4, Sbrks
<1>5. r = IF s.p = -1 THEN [h |-> g, p |-> NULL]
          ELSE coalesce(PUT(TAG(s.h, s.p, k, 0), s.p + k - 1, PACK(0, 1)), s.p)
  BY <1>2, <1>4 DEF extend_heap, Failed
<1>6. CASE b + k > MAX_HEAP + 2
  <2>1. s.p = -1
    BY <1>6, <1>b DEF Sbrked
  <2>2. Answer(r, g, NULL)
    BY <1>5, <2>1 DEF Answer
  <2>3. NoRoom(b, words)
    BY <1>1, <1>2, <1>3, <1>6, Places DEF NoRoom
  <2>4. QED
    BY <2>2, <2>3 DEF Extends
<1>7. CASE b + k <= MAX_HEAP + 2
  <2>1. s.h = Longer(g, k) /\ s.p = b
    <3>1. ~(b + k > MAX_HEAP + 2)
      BY <1>1, <1>3, <1>7, Places
    <3>2. QED
      BY <1>b, <3>1 DEF Sbrked
  <2>2. s.p # -1
    BY <1>1, <2>1
  <2>3. PICK e : e = b + k - 1
    OBVIOUS
  <2>4. PICK g1, g2, g3 : g1 = Longer(g, k) /\ g2 = TAG(g1, b, k, 0) /\ g3 = PUT(g2, e, PACK(0, 1))
    OBVIOUS
  <2>5. r = coalesce(g3, b)
    <3>1. r = coalesce(PUT(TAG(s.h, s.p, k, 0), s.p + k - 1, PACK(0, 1)), s.p)
      BY <1>5, <2>2
    <3>2. QED
      BY <2>1, <2>3, <2>4, <3>1
  <2>a. PICK X, C, y, U, n : X = {} /\ C = B \cup {b} /\ y = Extended(B, z, b, k) /\ U = V \cup {b} /\ n = b + k
    OBVIOUS
  <2>b. Fitting(b, k)
    BY <1>3, <1>7 DEF Fitting
  <2>c. GrownGrid(B, z, b, k, C, y, n)
    BY <1>1, <2>a, <2>b DEF GrownGrid
  <2>6. State(g3, C, y, U, V, X) /\ Kept(g, z, g3, C, y, U, B \ V)
    <3>1. GrownHeap(g, B, z, V, V, b, k, C, y, U, n, g3)
      BY <2>3, <2>4, <2>a, <2>c DEF Sound, GrownHeap
    <3>2. State(g3, C, y, U, V, {}) /\ Kept(g, z, g3, C, y, U, B \ V)
      BY <3>1, ExtendTags
    <3>3. QED
      BY <2>a, <3>2
  <2>7. Grid(C, y, n) /\ b \notin B /\ y[b] = k /\ \A c \in B : y[c] = z[c]
    BY <2>c, ExtendedGrid DEF OnlyNew
  <2>8. V \subseteq B /\ \A c \in V : y[c] = z[c]
    BY <1>1, <2>7 DEF Parts
  <2>9. Apart(y, V) /\ (NoneBefore(z, V, b) => NoneBefore(y, V, b))
    BY <2>8 DEF Sound, Apart, NoneBefore
  <2>10. Freed(g3, C, y, U, V, b, r)
    BY <2>5, <2>6, <2>7, <2>8, <2>9, <2>a, Coalesces
  <2>11. PICK t, p, B1, z1, V1 : /\ Answer(r, t, p) /\ Sound(t, B1, z1, V1) /\ p \in V1 /\ Grows(y, b, z1, p)
                                 /\ Kept(g3, y, t, B1, z1, V1, C \ U)
                                 /\ Alone(y, V, b) => p = b /\ B1 = C /\ z1 = y /\ V1 = U
    BY <2>10 DEF Freed
  <2>12. C \ U = B \ V
    BY <2>7, <2>a
  <2>13. Kept(g, z, t, B1, z1, V1, B \ V)
    BY <2>6, <2>11, <2>12, KeptTwice
  <2>14. AtLeast(words, z1, p)
    <3>1. z1[p] \in Nat
      BY <2>11 DEF Sound, State, Parts, Grid, Cell
    <3>2. k <= z1[p]
      BY <2>7, <2>11 DEF Grows
    <3>3. QED
      BY <1>3, <3>1, <3>2 DEF AtLeast
  <2>15. ASSUME NoneBefore(z, V, b)
         PROVE  p = b /\ (words % 2 = 0 => z1[p] = words)
    <3>1. b + y[b] \notin V
      <4>1. \A c \in V : c \in Nat /\ c < b
        BY <1>1, <2>8 DEF Grid, Cell
      <4>2. b + k \in Nat /\ ~(b + k < b)
        BY <1>1, <1>3
      <4>3. QED
        BY <2>7, <4>1, <4>2
    <3>2. Alone(y, V, b)
      BY <2>9, <2>15, <3>1 DEF Alone
    <3>3. QED
      BY <1>3, <2>7, <2>11, <3>2, <2>a
  <2>16. Served(g, B, z, V, words, t, p, B1, z1, V1)
    BY <2>11, <2>13, <2>14 DEF Served
  <2>17. QED
    BY <2>11, <2>15, <2>16 DEF Extends
<1>8. QED
  BY <1>1, <1>3, <1>6, <1>7, Places

\* One block that is not listed becomes allocated or free.
Retagging(g, B, z, V, F, b, size, alloc, V1) ==
  /\ State(g, B, z, V, F, {}) /\ b \in B /\ b # 14 /\ b \notin F /\ size = z[b]
  /\ alloc \in {0, 1} /\ V1 = IF alloc = 0 THEN V \cup {b} ELSE V \ {b}
\* Its new tag is written, all else stays.
LEMMA Retags ==
  ASSUME NEW g, NEW B, NEW z, NEW V, NEW F, NEW b, NEW size, NEW alloc, NEW V1,
         Retagging(g, B, z, V, F, b, size, alloc, V1), NEW r, r = TAG(g, b, size, alloc)
  PROVE  State(r, B, z, V1, F, {}) /\ Kept(g, z, r, B, z, V1, (B \ V) \ {b})
<1>1. PICK X, Y : X = {} /\ Y = {b}
  OBVIOUS
<1>2. /\ State(g, B, z, V, F, X) /\ b \in B /\ b # 14 /\ b \notin F /\ size = z[b]
      /\ alloc \in {0, 1} /\ V1 = IF alloc = 0 THEN V \cup {b} ELSE V \ {b}
  BY <1>1 DEF Retagging
<1>3. Grid(B, z, g.brk) /\ Parts(B, V1, F, Y)
  BY <1>1, <1>2 DEF State, Parts
<1>4. \A c \in B \ Y : c \in B \ X /\ z[c] = z[c] /\ (c \in V1 <=> c \in V)
  BY <1>1, <1>2
<1>5. State(g, B, z, V1, F, Y)
  BY <1>2, <1>3, <1>4, Regrid
<1>6. alloc = IF b \in V1 THEN 0 ELSE 1
  BY <1>2
<1>7. State(r, B, z, V1, F, Y \ {b}) /\ Kept(g, z, r, B, z, V1, (B \ V1) \ {b})
  BY <1>2, <1>5, <1>6, TagBlock
<1>8. Y \ {b} = {} /\ (B \ V1) \ {b} = (B \ V) \ {b}
  BY <1>1, <1>2
<1>9. QED
  BY <1>7, <1>8

\* What mm_free promises: a sound heap, and every other block kept.
Frees(g, B, z, V, b, t) ==
  \E B1, z1, V1 : Sound(t, B1, z1, V1) /\ Kept(g, z, t, B1, z1, V1, (B \ V) \ {b})
\* b is a block the caller may pass to the package.
Owned(B, V, b) == b \in B \ V /\ b # 14
\* mm_free does what it promises.
LEMMA FreesBlock ==
  ASSUME NEW g, NEW B, NEW z, NEW V, Sound(g, B, z, V), NEW b, Owned(B, V, b), NEW t, t = mm_free(g, b)
  PROVE  Frees(g, B, z, V, b, t)
<1>1. PICK X : X = {}
  OBVIOUS
<1>2. State(g, B, z, V, V, X) /\ Apart(z, V) /\ b \in B \ V /\ b # 14 /\ Grid(B, z, g.brk)
  BY <1>1 DEF Sound, Owned, State
<1>3. b # NULL
  BY <1>2, Places DEF Grid, Cell
<1>4. SIZE(g, b) = z[b]
  <2>1. b \in B \ X
    BY <1>1, <1>2
  <2>2. QED
    BY <1>2, <2>1, Reads
<1>5. PICK size : size = z[b]
  OBVIOUS
<1>6. PICK s : s = TAG(g, b, size, 0)
  OBVIOUS
<1>7. PICK c : c = coalesce(s, b)
  OBVIOUS
<1>8. t = c.h
  BY <1>3, <1>4, <1>5, <1>6, <1>7 DEF mm_free
<1>9. PICK U : U = V \cup {b}
  OBVIOUS
<1>10. State(s, B, z, U, V, {}) /\ Kept(g, z, s, B, z, U, (B \ V) \ {b})
  <2>1. Retagging(g, B, z, V, V, b, size, 0, U)
    BY <1>1, <1>2, <1>5, <1>9 DEF Retagging
  <2>2. QED
    BY <1>6, <2>1, Retags
<1>11. State(s, B, z, U, V, X) /\ b \notin V
  BY <1>1, <1>2, <1>10
<1>12. Freed(s, B, z, U, V, b, c)
  BY <1>1, <1>2, <1>7, <1>9, <1>11, Coalesces
<1>13. PICK q, p, B1, z1, V1 : Answer(c, q, p) /\ Sound(q, B1, z1, V1) /\ Kept(s, z, q, B1, z1, V1, B \ U)
  BY <1>12 DEF Freed
<1>14. q = t
  BY <1>8, <1>13 DEF Answer
<1>15. B \ U = (B \ V) \ {b}
  BY <1>9
<1>16. Kept(g, z, q, B1, z1, V1, (B \ V) \ {b})
  BY <1>10, <1>13, <1>15, KeptTwice
<1>17. QED
  BY <1>13, <1>14, <1>16 DEF Frees

\* Block b is large enough for a words.
Room(z, b, a) == a \in Nat /\ a % 2 = 0 /\ 4 <= a /\ AtLeast(a, z, b)
\* What place promises: b is allocated with a words at least, the others kept.
Places1(g, B, z, V, b, a, t) ==
  \E B1, z1, V1 : /\ Sound(t, B1, z1, V1) /\ Owned(B1, V1, b) /\ AtLeast(a, z1, b)
                  /\ Kept(g, z, t, B1, z1, V1, B \ V)
\* place does what it promises, whether it splits the block or not.
LEMMA PlacesBlock ==
  ASSUME NEW g, NEW B, NEW z, NEW V, Sound(g, B, z, V), NEW b, b \in V, NEW a, Room(z, b, a),
         NEW t, t = place(g, b, a)
  PROVE  Places1(g, B, z, V, b, a, t)
<1>1. PICK X, F : X = {} /\ F = V \ {b}
  OBVIOUS
<1>2. State(g, B, z, V, V, X) /\ Apart(z, V) /\ b \in B /\ b # 14 /\ Grid(B, z, g.brk) /\ Parts(B, V, V, X)
  BY <1>1 DEF Sound, State, Parts
<1>3. /\ a \in Nat /\ a % 2 = 0 /\ 4 <= a /\ a <= z[b] /\ b \in Nat /\ z[b] \in Nat
      /\ SIZE(g, b) = z[b]
  <2>1. b \in B \ X
    BY <1>1, <1>2
  <2>2. SIZE(g, b) = z[b]
    BY <1>2, <2>1, Reads
  <2>3. QED
    BY <1>2, <2>2 DEF Room, AtLeast, Grid, Cell
<1>4. PICK g1 : g1 = delete_node(g, b)
  OBVIOUS
<1>5. State(g1, B, z, V, F, X) /\ Kept(g, z, g1, B, z, V, B \ V) /\ SameBrk(g, g1)
  BY <1>1, <1>2, <1>4, DeleteNode
<1>6. PICK m : m = z[b] - a
  OBVIOUS
<1>7. CASE m < 4
  <2>1. PICK size : size = z[b]
    OBVIOUS
  <2>2. t = TAG(g1, b, size, 1)
    <3>1. ~(z[b] - a >= 4)
      BY <1>3, <1>6, <1>7
    <3>2. QED
      BY <1>3, <1>4, <2>1, <3>1, Places DEF place
  <2>3. Retagging(g1, B, z, V, F, b, size, 1, F)
    BY <1>1, <1>2, <1>5, <2>1 DEF Retagging
  <2>4. State(t, B, z, F, F, {}) /\ Kept(g1, z, t, B, z, F, (B \ V) \ {b})
    BY <2>2, <2>3, Retags
  <2>5. Apart(z, F)
    BY <1>1, <1>2 DEF Apart
  <2>6. Sound(t, B, z, F)
    BY <2>4, <2>5 DEF Sound
  <2>7. (B \ V) \ {b} = B \ V
    OBVIOUS
  <2>8. Kept(g, z, t, B, z, F, B \ V)
    BY <1>5, <2>4, <2>7, KeptTwice
  <2>9. Owned(B, F, b) /\ AtLeast(a, z, b)
    BY <1>1, <1>2, <1>3 DEF Owned, AtLeast
  <2>10. QED
    BY <2>6, <2>8, <2>9 DEF Places1
<1>8. CASE 4 <= m
  <2>1. PICK n, C, y, U : n = b + a /\ C = B \cup {n} /\ y = Halved(B, z, b, a) /\ U = F \cup {n}
    OBVIOUS
  <2>2. Grid(C, y, g.brk) /\ n \notin B /\ n # b /\ y[b] = a /\ y[n] = m /\ \A c \in B : c # b => y[c] = z[c]
    <3>1. HalvedInto(B, z, g.brk, b, a, C, y, n)
      BY <1>2, <1>3, <1>6, <1>8, <2>1 DEF HalvedInto
    <3>2. QED
      BY <1>6, <3>1, HalvedGrid DEF Halves
  <2>3. PICK Y, Y1 : Y = {b, n} /\ Y1 = {n}
    OBVIOUS
  <2>4. n # 14
    BY <1>2, <2>2 DEF Grid
  <2>5. State(g1, C, y, U, F, Y)
    <3>1. Parts(C, U, F, Y)
      BY <1>1, <1>2, <2>1, <2>2, <2>3, <2>4 DEF Parts
    <3>2. Grid(C, y, g1.brk)
      BY <1>5, <2>2 DEF SameBrk
    <3>3. \A c \in C \ Y : c \in B \ X /\ y[c] = z[c] /\ (c \in U <=> c \in V)
      BY <1>1, <2>1, <2>2, <2>3
    <3>4. QED
      BY <1>5, <3>1, <3>2, <3>3, Regrid
  <2>6. Kept(g1, z, g1, C, y, U, B \ V)
    <3>1. \A c \in B \ V : c \in C \ U /\ y[c] = z[c]
      BY <1>1, <2>1, <2>2
    <3>2. QED
      BY <3>1, KeptRegrid
  <2>7. PICK g2 : g2 = TAG(g1, b, a, 1)
    OBVIOUS
  <2>8. State(g2, C, y, U, F, Y1) /\ Kept(g1, y, g2, C, y, U, (C \ U) \ {b})
    <3>1. b \in C /\ b # 14 /\ b \notin F /\ a = y[b] /\ 1 = IF b \in U THEN 0 ELSE 1
      BY <1>1, <1>2, <2>1, <2>2
    <3>2. State(g2, C, y, U, F, Y \ {b}) /\ Kept(g1, y, g2, C, y, U, (C \ U) \ {b})
      BY <2>5, <2>7, <3>1, TagBlock
    <3>3. Y \ {b} = Y1
      BY <2>2, <2>3
    <3>4. QED
      BY <3>2, <3>3
  <2>9. PICK g3 : g3 = TAG(g2, n, m, 0)
    OBVIOUS
  <2>10. State(g3, C, y, U, F, X) /\ Kept(g2, y, g3, C, y, U, (C \ U) \ {n})
    <3>1. n \in C /\ n # 14 /\ n \notin F /\ m = y[n] /\ 0 = IF n \in U THEN 0 ELSE 1
      BY <1>1, <1>2, <2>1, <2>2, <2>4 DEF Parts
    <3>2. State(g3, C, y, U, F, Y1 \ {n}) /\ Kept(g2, y, g3, C, y, U, (C \ U) \ {n})
      BY <2>8, <2>9, <3>1, TagBlock
    <3>3. Y1 \ {n} = X
      BY <1>1, <2>3
    <3>4. QED
      BY <3>2, <3>3
  <2>11. PICK c : c = coalesce(g3, n)
    OBVIOUS
  <2>12. t = c.h
    <3>1. z[b] - a >= 4
      BY <1>3, <1>6, <1>8
    <3>2. t = coalesce(TAG(TAG(g1, b, a, 1), b + a, z[b] - a, 0), b + a).h
      BY <1>3, <1>4, <3>1, Places DEF place
    <3>3. QED
      BY <1>6, <2>1, <2>7, <2>9, <2>11, <3>2
  <2>13. n \notin F /\ Apart(y, F)
    BY <1>1, <1>2, <2>2 DEF Apart, Parts
  <2>14. Freed(g3, C, y, U, F, n, c)
    BY <1>1, <2>1, <2>10, <2>11, <2>13, Coalesces
  <2>15. PICK q, p, B1, z1, V1 : /\ Answer(c, q, p) /\ Sound(q, B1, z1, V1)
                                 /\ Kept(g3, y, q, B1, z1, V1, C \ U)
    BY <2>14 DEF Freed
  <2>16. q = t
    BY <2>12, <2>15 DEF Answer
  <2>17. b \in C \ U /\ n \notin C \ U /\ C \ U = (B \ V) \cup {b} /\ b \notin B \ V
    BY <1>1, <1>2, <2>1, <2>2
  <2>18. Kept(g, z, q, B1, z1, V1, B \ V)
    <3>1. Kept(g, z, g1, C, y, U, B \ V)
      BY <1>5, <2>6, KeptTwice
    <3>2. (C \ U) \ {b} = B \ V
      BY <2>17
    <3>3. Kept(g, z, g2, C, y, U, B \ V)
      BY <2>8, <3>1, <3>2, KeptTwice
    <3>4. \A d \in B \ V : d \in (C \ U) \ {n}
      BY <2>17
    <3>5. Kept(g2, y, g3, C, y, U, B \ V)
      BY <2>10, <3>4 DEF Kept
    <3>6. Kept(g3, y, q, B1, z1, V1, B \ V)
      BY <2>15, <2>17 DEF Kept
    <3>7. Kept(g, z, g3, C, y, U, B \ V)
      BY <3>3, <3>5, KeptTwice
    <3>8. QED
      BY <3>6, <3>7, KeptTwice
  <2>19. Owned(B1, V1, b) /\ AtLeast(a, z1, b)
    <3>1. b \in B1 \ V1 /\ z1[b] = a
      BY <2>2, <2>15, <2>17 DEF Kept
    <3>2. QED
      BY <1>2, <1>3, <3>1 DEF Owned, AtLeast
  <2>20. QED
    BY <2>15, <2>16, <2>18, <2>19 DEF Places1
<1>9. QED
  BY <1>3, <1>6, <1>7, <1>8

(***************************************************************************)
(* The search of a free block.                                             *)
(***************************************************************************)
\* nd walks list i from its head, by SUCC.
Follows(g, V, i, nd) ==
  /\ nd \in [0 .. MaxBlocks -> V \cup {0}] /\ nd[0] = First(g, i)
  /\ \A k \in 1 .. MaxBlocks : nd[k] = IF nd[k - 1] = 0 THEN 0 ELSE SUCC(g, nd[k - 1])

\* Node walks the list while it meets blocks, which are all free.
LEMMA Nodes ==
  ASSUME NEW g, NEW B, NEW z, NEW V, Sound(g, B, z, V), NEW i \in Lists
  PROVE  Follows(g, V, i, Node(g, i))
<1> DEFINE n == MaxBlocks
           S == V \cup {0}
           next(bp) == IF bp = 0 THEN 0 ELSE SUCC(g, bp)
           step == [q \in (1 .. n) \X S |-> next(q[2])]
<1>1. n \in Nat
  BY HeapAssumption, Places DEF MaxBlocks
<1>2. PICK X : X = {}
  OBVIOUS
<1>3. PICK rank : Linked(g, V, z, rank) /\ State(g, B, z, V, V, X) /\ V \subseteq B
  BY <1>2 DEF Sound, State, Parts
<1>4. First(g, i) \in S /\ \A b \in S : next(b) \in S
  BY <1>3 DEF Linked, First1, Next1
<1>5. step \in [(1 .. n) \X S -> S]
  <2> HIDE DEF next, S
  <2> QED BY <1>4
<1>6. PICK f : Loops(f, n, S, First(g, i), step)
  <2> HIDE DEF step, S, n
  <2> QED BY <1>1, <1>4, <1>5, LoopExists
<1>7. /\ f \in [0 .. n -> S] /\ f[0] = First(g, i)
      /\ \A k \in 1 .. n : f[k] = step[<<k, f[k - 1]>>]
  BY <1>6 DEF Loops
<1>8. \A k \in 1 .. n : f[k] = next(f[k - 1])
  <2>1. SUFFICES ASSUME NEW k \in 1 .. n
                 PROVE  f[k] = next(f[k - 1])
    OBVIOUS
  <2>2. PICK x \in S : x = f[k - 1]
    <3> HIDE DEF S
    <3>1. k - 1 \in 0 .. n
      BY <1>1
    <3>2. QED
      BY <1>7, <3>1
  <2>3. f[k] = step[<<k, x>>]
    BY <1>7, <2>2
  <2>4. step[<<k, x>>] = next(x)
    <3> HIDE DEF S, next
    <3> QED OBVIOUS
  <2>5. QED
    BY <2>2, <2>3, <2>4
<1> HIDE DEF step
<1>9. \A b \in S : next(b) = IF b = NULL \/ ~IS_FREE(g, HDRP(b)) THEN NULL ELSE SUCC(g, b)
  <2>1. \A b \in V : IS_FREE(g, HDRP(b))
    <3>1. \A b \in V : b \in B \ X
      BY <1>2, <1>3
    <3>2. QED
      BY <1>3, <3>1, Reads
  <2>2. QED
    BY <2>1, Places
<1> DEFINE Is(nd) == nd = [k \in 0 .. MaxBlocks |-> IF k = 0 THEN g.m[HEAD(i)]
                           ELSE LET bp == nd[k - 1]
                                IN  IF bp = NULL \/ ~IS_FREE(g, HDRP(bp)) THEN NULL ELSE SUCC(g, bp)]
<1>10. ASSUME NEW nd, nd \in [0 .. n -> S], nd[0] = First(g, i), \A k \in 1 .. n : nd[k] = next(nd[k - 1])
       PROVE  Is(nd)
  <2> DEFINE body(k) == IF k = 0 THEN g.m[HEAD(i)]
                        ELSE LET bp == nd[k - 1]
                             IN  IF bp = NULL \/ ~IS_FREE(g, HDRP(bp)) THEN NULL ELSE SUCC(g, bp)
  <2>1. \A k \in 0 .. n : nd[k] = body(k)
    <3>1. SUFFICES ASSUME NEW k \in 0 .. n
                   PROVE  nd[k] = body(k)
      OBVIOUS
    <3>2. CASE k = 0
      BY <1>10, <3>2 DEF First
    <3>3. CASE k # 0
      <4>1. k \in 1 .. n /\ k - 1 \in 0 .. n
        BY <1>1, <3>3
      <4>2. PICK x \in S : x = nd[k - 1]
        <5> HIDE DEF S
        <5> QED BY <1>10, <4>1
      <4>3. nd[k] = next(x)
        BY <1>10, <4>1, <4>2
      <4>4. next(x) = IF x = NULL \/ ~IS_FREE(g, HDRP(x)) THEN NULL ELSE SUCC(g, x)
        <5> HIDE DEF S, next
        <5> QED BY <1>9
      <4>5. QED
        BY <3>3, <4>2, <4>3, <4>4
    <3>4. QED
      BY <3>2, <3>3
  <2> HIDE DEF body, S
  <2>2. nd = [k \in 0 .. n |-> body(k)]
    BY <1>10, <2>1
  <2>3. QED
    BY <2>2 DEF body
<1>11. Node(g, i) = CHOOSE nd : Is(nd)
  BY DEF Node
<1>12. ASSUME NEW nd, Is(nd)
       PROVE  nd = f
  <2> DEFINE Bad == {k \in 0 .. n : nd[k] # f[k]}
  <2>1. DOMAIN nd = 0 .. n
    BY <1>12
  <2>2. nd[0] = f[0]
    BY <1>1, <1>7, <1>12 DEF First
  <2>3. \A k \in 1 .. n : nd[k - 1] = f[k - 1] => nd[k] = f[k]
    <3>1. SUFFICES ASSUME NEW k \in 1 .. n, nd[k - 1] = f[k - 1]
                   PROVE  nd[k] = f[k]
      OBVIOUS
    <3>2. k \in 0 .. n /\ k # 0 /\ k - 1 \in 0 .. n
      BY <1>1
    <3>3. PICK x \in S : x = nd[k - 1] /\ x = f[k - 1]
      <4> HIDE DEF S, Is
      <4> QED BY <1>7, <3>1, <3>2
    <3>4. nd[k] = IF x = NULL \/ ~IS_FREE(g, HDRP(x)) THEN NULL ELSE SUCC(g, x)
      BY <1>12, <3>2, <3>3
    <3>5. f[k] = next(x)
      BY <1>8, <3>3
    <3>6. QED
      <4> HIDE DEF S, next
      <4> QED BY <1>9, <3>3, <3>4, <3>5
  <2>4. Bad = {}
    <3>1. SUFFICES ASSUME Bad # {}
                   PROVE  FALSE
      OBVIOUS
    <3>2. PICK k \in Bad : \A j \in Bad : k <= j
      <4>1. Bad \in SUBSET Nat
        BY <1>1
      <4> HIDE DEF Bad
      <4> QED BY <3>1, <4>1, SmallestExists
    <3>3. k \in 1 .. n /\ k - 1 \in 0 .. n /\ k - 1 \notin Bad
      BY <1>1, <2>2, <3>2
    <3>4. QED
      BY <2>3, <3>2, <3>3
  <2>5. QED
    <3>1. \A k \in 0 .. n : nd[k] = f[k]
      BY <2>4
    <3>2. nd = [k \in 0 .. n |-> nd[k]]
      BY <1>12
    <3> HIDE DEF Is, S
    <3>3. QED
      BY <1>7, <3>1, <3>2
<1>13. Is(f)
  <2> HIDE DEF Is, next, S
  <2> QED BY <1>7, <1>8, <1>10
<1>14. Node(g, i) = f
  <2> HIDE DEF Is
  <2> QED BY <1>11, <1>12, <1>13
<1>15. QED
  BY <1>7, <1>8, <1>14 DEF Follows

\* A heap has no more blocks than MaxBlocks: one list cannot fill that many places.
LEMMA FewBlocks ==
  ASSUME NEW B, NEW z, NEW brk, Grid(B, z, brk), NEW f, f \in [0 .. MaxBlocks -> B \ {14}]
  PROVE  \E j, k \in 0 .. MaxBlocks : j # k /\ f[j] = f[k]
<1>1. MAX_HEAP \in Nat /\ MaxBlocks = MAX_HEAP \div 4 /\ MaxBlocks \in Nat
  BY HeapAssumption, Places DEF MaxBlocks
<1>2. \A b \in B \ {14} : b \in Nat /\ 16 <= b /\ b + 4 <= MAX_HEAP + 2
  <2>1. brk \in Nat /\ brk <= MAX_HEAP + 2
    BY DEF Grid
  <2>2. ASSUME NEW b \in B \ {14}
        PROVE  b \in Nat /\ 16 <= b /\ z[b] \in Nat /\ 4 <= z[b] /\ b + z[b] <= brk
    <3>1. b \in Nat /\ z[b] \in Nat /\ 4 <= z[b] /\ b + z[b] <= brk /\ b % 2 = 0 /\ 14 <= b
      BY DEF Grid, Cell
    <3>2. QED
      BY <3>1
  <2>3. ASSUME NEW b \in B \ {14}
        PROVE  b + 4 <= MAX_HEAP + 2
    <3>1. b \in Nat /\ z[b] \in Nat /\ 4 <= z[b] /\ b + z[b] <= brk
      BY <2>2
    <3>2. QED
      BY <1>1, <2>1, <3>1
  <2>4. QED
    BY <2>2, <2>3
<1>3. \A b, c \in B \ {14} : b < c => b + 4 <= c
  <2>1. \A b \in B \ {14} : z[b] \in Nat /\ 4 <= z[b]
    BY DEF Grid, Cell
  <2>2. \A b, c \in B \ {14} : b < c => b + z[b] <= c
    BY DEF Grid
  <2>3. ASSUME NEW b \in B \ {14}, NEW c \in B \ {14}, b < c
        PROVE  b + 4 <= c
    <3>1. b \in Nat /\ c \in Nat /\ z[b] \in Nat /\ 4 <= z[b] /\ b + z[b] <= c
      BY <1>2, <2>1, <2>2, <2>3
    <3>2. QED
      BY <3>1
  <2>4. QED
    BY <2>3
<1> DEFINE S == 0 .. MaxBlocks
           T == 1 .. MaxBlocks
           s == [k \in S |-> f[k] \div 4]
<1>4. s \in [S -> T]
  <2>1. ASSUME NEW b \in B \ {14}
        PROVE  b \div 4 \in T
    <3>1. b \in Nat /\ 16 <= b /\ b + 4 <= MAX_HEAP + 2
      BY <1>2
    <3>2. b \div 4 \in Nat /\ 1 <= b \div 4 /\ b \div 4 <= MaxBlocks
      BY <1>1, <3>1
    <3>3. QED
      BY <1>1, <3>2
  <2>2. QED
    BY <2>1
<1>5. IsFiniteSet(S) /\ IsFiniteSet(T) /\ Cardinality(T) < Cardinality(S)
  <2>1. IsFiniteSet(S) /\ Cardinality(S) = MaxBlocks + 1
    BY <1>1, FS_Interval
  <2>2. IsFiniteSet(T) /\ Cardinality(T) = MaxBlocks
    BY <1>1, FS_Interval
  <2>3. QED
    BY <1>1, <2>1, <2>2
<1>6. \E j, k \in S : j # k /\ s[j] = s[k]
  <2> HIDE DEF S, T, s
  <2> QED BY <1>4, <1>5, FS_PigeonHole
<1>7. PICK j \in S, k \in S : j # k /\ s[j] = s[k]
  BY <1>6
<1>8. f[j] \div 4 = f[k] \div 4
  BY <1>7
<1>9. PICK x \in B \ {14}, y \in B \ {14} : x = f[j] /\ y = f[k]
  OBVIOUS
<1>10. x = y
  <2>1. x \div 4 = y \div 4 /\ x \in Nat /\ y \in Nat /\ (x < y => x + 4 <= y) /\ (y < x => y + 4 <= x)
    BY <1>2, <1>3, <1>8, <1>9
  <2>2. QED
    BY <2>1
<1>11. QED
  BY <1>7, <1>9, <1>10

\* The chain nd of list i up to place k.
Chained(g, V, z, i, nd, rank, k) ==
  nd[k] # 0 =>
    /\ nd[k] \in V /\ Idx(z, nd[k]) = i /\ PRED(g, nd[k]) = IF k = 0 THEN 0 ELSE nd[k - 1]
    /\ \A j \in 0 .. k - 1 : nd[j] # 0 /\ rank[nd[k]] < rank[nd[j]]
\* The blocks of a chain are of its list, different, and linked backwards.
LEMMA Chains ==
  ASSUME NEW g, NEW V, NEW z, NEW rank, Linked(g, V, z, rank), 0 \notin V, NEW i \in Lists,
         NEW nd, Follows(g, V, i, nd), NEW k \in 0 .. MaxBlocks
  PROVE  Chained(g, V, z, i, nd, rank, k)
<1> DEFINE n == MaxBlocks
           Bad == {j \in 0 .. n : ~Chained(g, V, z, i, nd, rank, j)}
<1>1. n \in Nat
  BY HeapAssumption, Places DEF MaxBlocks
<1>2. /\ nd \in [0 .. n -> V \cup {0}] /\ nd[0] = First(g, i)
      /\ \A j \in 1 .. n : nd[j] = IF nd[j - 1] = 0 THEN 0 ELSE SUCC(g, nd[j - 1])
  BY DEF Follows
<1>3. Chained(g, V, z, i, nd, rank, 0)
  <2>1. nd[0] # 0 => nd[0] \in V /\ PRED(g, nd[0]) = 0 /\ Idx(z, nd[0]) = i
    BY <1>2 DEF Linked, First1
  <2>2. 0 .. 0 - 1 = {}
    OBVIOUS
  <2>3. QED
    BY <2>1, <2>2 DEF Chained
<1>4. ASSUME NEW j \in 1 .. n, Chained(g, V, z, i, nd, rank, j - 1)
      PROVE  Chained(g, V, z, i, nd, rank, j)
  <2>1. SUFFICES ASSUME nd[j] # 0
                 PROVE  /\ nd[j] \in V /\ Idx(z, nd[j]) = i /\ PRED(g, nd[j]) = nd[j - 1]
                        /\ \A l \in 0 .. j - 1 : nd[l] # 0 /\ rank[nd[j]] < rank[nd[l]]
    BY DEF Chained
  <2>2. nd[j - 1] # 0 /\ nd[j] = SUCC(g, nd[j - 1])
    BY <1>2, <2>1
  <2>3. /\ nd[j - 1] \in V /\ Idx(z, nd[j - 1]) = i
        /\ \A l \in 0 .. j - 1 - 1 : nd[l] # 0 /\ rank[nd[j - 1]] < rank[nd[l]]
    BY <1>4, <2>2 DEF Chained
  <2>4. PICK b : b = nd[j - 1]
    OBVIOUS
  <2>5. Next1(g, V, z, rank, b)
    BY <2>3, <2>4 DEF Linked
  <2>6. nd[j] \in V /\ Idx(z, nd[j]) = i /\ PRED(g, nd[j]) = nd[j - 1] /\ rank[nd[j]] < rank[nd[j - 1]]
    BY <2>1, <2>2, <2>3, <2>4, <2>5 DEF Next1
  <2>7. rank \in [V -> Nat]
    BY DEF Linked
  <2>8. ASSUME NEW l \in 0 .. j - 1
        PROVE  nd[l] # 0 /\ rank[nd[j]] < rank[nd[l]]
    <3>1. CASE l = j - 1
      BY <2>2, <2>6, <3>1
    <3>2. CASE l # j - 1
      <4>1. l \in 0 .. j - 1 - 1 /\ l \in 0 .. n
        BY <1>1, <3>2
      <4>2. nd[l] # 0 /\ rank[nd[j - 1]] < rank[nd[l]] /\ nd[l] \in V
        BY <1>2, <2>3, <4>1
      <4>3. QED
        BY <2>3, <2>6, <2>7, <4>2
    <3>3. QED
      BY <3>1, <3>2
  <2>9. QED
    BY <2>6, <2>8
<1>5. Bad = {}
  <2>1. SUFFICES ASSUME Bad # {}
                 PROVE  FALSE
    OBVIOUS
  <2>2. PICK j \in Bad : \A l \in Bad : j <= l
    <3>1. Bad \in SUBSET Nat
      BY <1>1
    <3> HIDE DEF Bad
    <3> QED BY <2>1, <3>1, SmallestExists
  <2>3. j # 0
    BY <1>3, <2>2
  <2>4. j \in 1 .. n /\ j - 1 \in 0 .. n /\ j - 1 \notin Bad
    BY <1>1, <2>2, <2>3
  <2>5. QED
    BY <1>4, <2>2, <2>4
<1>6. QED
  BY <1>5

\* Every block that is free has a place in the chain of its list.
Listing(g, V, z, i, nd) ==
  /\ nd \in [0 .. MaxBlocks -> V \cup {0}] /\ 0 \notin V
  /\ \A j, k \in 0 .. MaxBlocks : nd[k] # 0 /\ nd[j] = nd[k] => j = k
  /\ \A k \in 0 .. MaxBlocks : nd[k] # 0 => /\ Idx(z, nd[k]) = i
                                            /\ PRED(g, nd[k]) = IF k = 0 THEN 0 ELSE nd[k - 1]
  /\ \A b \in V : Idx(z, b) = i => \E k \in 0 .. MaxBlocks : nd[k] = b
\* The chain of list i holds the free blocks of its sizes, each once.
LEMMA ListsAll ==
  ASSUME NEW g, NEW B, NEW z, NEW V, Sound(g, B, z, V), NEW i \in Lists, NEW nd, nd = Node(g, i)
  PROVE  Listing(g, V, z, i, nd)
<1> DEFINE n == MaxBlocks
<1>1. n \in Nat
  BY HeapAssumption, Places DEF MaxBlocks
<1>2. PICK rank : Linked(g, V, z, rank) /\ Grid(B, z, g.brk) /\ V \subseteq B \ {14}
  BY DEF Sound, State, Parts
<1>3. Follows(g, V, i, nd)
  BY Nodes
<1>4. /\ nd \in [0 .. n -> V \cup {0}] /\ nd[0] = First(g, i)
      /\ \A j \in 1 .. n : nd[j] = IF nd[j - 1] = 0 THEN 0 ELSE SUCC(g, nd[j - 1])
  BY <1>3 DEF Follows
<1>5. 0 \notin V
  BY <1>2 DEF Grid, Cell
<1>6. \A k \in 0 .. n : Chained(g, V, z, i, nd, rank, k)
  BY <1>2, <1>3, <1>5, Chains
<1>7. rank \in [V -> Nat]
  BY <1>2 DEF Linked
<1>8. ASSUME NEW j \in 0 .. n, NEW k \in 0 .. n, nd[k] # 0, nd[j] = nd[k]
      PROVE  j = k
  <2>1. ASSUME NEW x \in 0 .. n, NEW y \in 0 .. n, x < y, nd[y] # 0, nd[x] = nd[y]
        PROVE  FALSE
    <3>1. nd[y] \in V /\ rank[nd[y]] < rank[nd[x]]
      BY <1>6, <2>1 DEF Chained
    <3>2. rank[nd[y]] \in Nat
      BY <1>7, <3>1
    <3>3. QED
      BY <2>1, <3>1, <3>2
  <2>2. QED
    BY <1>8, <2>1
<1>9. nd[n] = 0
  <2>1. SUFFICES ASSUME nd[n] # 0
                 PROVE  FALSE
    OBVIOUS
  <2>2. \A j \in 0 .. n : nd[j] \in V
    <3>1. n \in 0 .. n
      BY <1>1
    <3>2. nd[n] \in V /\ \A j \in 0 .. n - 1 : nd[j] # 0
      BY <1>6, <2>1, <3>1 DEF Chained
    <3>3. \A j \in 0 .. n : j = n \/ j \in 0 .. n - 1
      BY <1>1
    <3>4. QED
      BY <1>4, <3>2, <3>3
  <2>3. nd \in [0 .. MaxBlocks -> B \ {14}]
    BY <1>2, <1>4, <2>2
  <2>4. PICK j \in 0 .. MaxBlocks, k \in 0 .. MaxBlocks : j # k /\ nd[j] = nd[k]
    BY <1>2, <2>3, FewBlocks
  <2>5. QED
    BY <1>5, <1>8, <2>2, <2>4
<1> DEFINE Missing(b) == b \in V /\ Idx(z, b) = i /\ ~\E k \in 0 .. n : nd[k] = b
<1>10. ASSUME NEW b \in V, Missing(b)
       PROVE  \E c \in V : Missing(c) /\ rank[b] < rank[c]
  <2>1. Prev1(g, V, z, b) /\ Idx(z, b) = i
    BY <1>2, <1>10 DEF Linked
  <2>2. PICK c : c = PRED(g, b)
    OBVIOUS
  <2>3. First(g, i) # b
    BY <1>1, <1>4, <1>10
  <2>4. c \in V /\ SUCC(g, c) = b /\ Idx(z, c) = i
    BY <2>1, <2>2, <2>3 DEF Prev1
  <2>5. rank[b] < rank[c]
    <3>1. Next1(g, V, z, rank, c)
      BY <1>2, <2>4 DEF Linked
    <3>2. QED
      BY <1>5, <2>4, <3>1 DEF Next1
  <2>6. ASSUME NEW k \in 0 .. n, nd[k] = c
        PROVE  FALSE
    <3>1. k # n
      BY <1>5, <1>9, <2>4, <2>6
    <3>2. k + 1 \in 1 .. n /\ k + 1 \in 0 .. n /\ (k + 1) - 1 = k
      BY <1>1, <3>1
    <3>3. PICK j : j = k + 1
      OBVIOUS
    <3>4. nd[j] = SUCC(g, c)
      <4>1. j \in 1 .. n /\ j - 1 = k
        BY <3>2, <3>3
      <4>2. nd[j] = IF nd[k] = 0 THEN 0 ELSE SUCC(g, nd[k])
        BY <1>4, <4>1
      <4>3. QED
        BY <1>5, <2>4, <2>6, <4>2
    <3>5. QED
      BY <1>10, <2>4, <3>2, <3>3, <3>4
  <2>7. QED
    BY <2>4, <2>5, <2>6
<1>11. \A b \in V : ~Missing(b)
  <2>1. SUFFICES ASSUME NEW b0 \in V, Missing(b0)
                 PROVE  FALSE
    OBVIOUS
  <2> DEFINE U == {b \in V : Missing(b)}
             R == {rank[b] : b \in U}
  <2>2. IsFiniteSet(U)
    <3>1. \A b \in U : b \in 0 .. MAX_HEAP + 2
      <4>1. \A b \in V : b \in Nat /\ z[b] \in Nat /\ b + z[b] <= g.brk /\ g.brk \in Nat /\ g.brk <= MAX_HEAP + 2
        BY <1>2 DEF Grid, Cell
      <4>2. QED
        BY <4>1, Places
    <3>2. IsFiniteSet(0 .. MAX_HEAP + 2)
      BY Places, FS_Interval
    <3> HIDE DEF U
    <3>3. U \subseteq 0 .. MAX_HEAP + 2
      BY <3>1
    <3>4. QED
      BY <3>2, <3>3, FS_Subset
  <2>3. IsFiniteSet(R)
    <3> DEFINE f == [b \in U |-> rank[b]]
    <3>1. f \in Surjection(U, R)
      BY DEF Surjection
    <3> HIDE DEF U, R, f
    <3>2. QED
      BY <2>2, <3>1, FS_Surjection
  <2>4. R \in SUBSET Nat /\ R # {}
    BY <1>7, <2>1
  <2>5. PICK m \in R : \A x \in R : x <= m
    <3> HIDE DEF R
    <3> QED BY <2>3, <2>4, LargestExists
  <2>6. PICK b \in U : m = rank[b]
    BY <2>5
  <2>7. PICK c \in V : Missing(c) /\ rank[b] < rank[c]
    <3> HIDE DEF Missing
    <3> QED BY <1>10, <2>6
  <2>8. rank[c] \in R /\ rank[b] \in Nat /\ rank[c] \in Nat
    BY <1>7, <2>6, <2>7
  <2>9. rank[c] <= m
    BY <2>5, <2>8
  <2>10. QED
    BY <2>6, <2>7, <2>8, <2>9
<1>12. \A k \in 0 .. n : nd[k] # 0 => Idx(z, nd[k]) = i /\ PRED(g, nd[k]) = IF k = 0 THEN 0 ELSE nd[k - 1]
  BY <1>6 DEF Chained
<1>13. QED
  BY <1>4, <1>5, <1>8, <1>11, <1>12 DEF Listing

\* A set of numbers that is not empty has its least one.
LEMMA MinIsIn ==
  ASSUME NEW S \in SUBSET Nat, S # {}
  PROVE  Min(S) \in S
<1>1. \E m \in S : \A k \in S : m <= k
  BY SmallestExists
<1>2. QED
  BY <1>1 DEF Min

\* S holds the places of the free blocks of a words at least.
FitsIn(V, z, a, nd, S) == \A k : k \in S <=> k \in 0 .. MaxBlocks /\ nd[k] \in V /\ AtLeast(a, z, nd[k])
\* Fits finds those.
LEMMA FitsAreNodes ==
  ASSUME NEW g, NEW B, NEW z, NEW V, Sound(g, B, z, V), NEW i \in Lists, NEW nd, nd = Node(g, i), NEW a,
         NEW S, S = Fits(g, i, a)
  PROVE  FitsIn(V, z, a, nd, S)
<1>1. PICK X : X = {}
  OBVIOUS
<1>2. State(g, B, z, V, V, X) /\ V \subseteq B
  BY <1>1 DEF Sound, State, Parts
<1>3. Listing(g, V, z, i, nd)
  BY ListsAll
<1>4. \A b \in V : IS_FREE(g, HDRP(b)) /\ SIZE(g, b) = z[b]
  <2>1. \A b \in V : b \in B \ X
    BY <1>1, <1>2
  <2>2. QED
    BY <1>2, <2>1, Reads
<1>5. nd \in [0 .. MaxBlocks -> V \cup {0}] /\ 0 \notin V
  BY <1>3 DEF Listing
<1>6. S = {k \in 0 .. MaxBlocks : nd[k] # NULL /\ IS_FREE(g, HDRP(nd[k])) /\ a <= SIZE(g, nd[k])}
  BY DEF Fits
<1>7. ASSUME NEW k \in 0 .. MaxBlocks
      PROVE  k \in S <=> nd[k] \in V /\ AtLeast(a, z, nd[k])
  <2>1. PICK b \in V \cup {0} : b = nd[k]
    BY <1>5
  <2>2. CASE b = 0
    BY <1>5, <1>6, <2>1, <2>2, Places
  <2>3. CASE b \in V
    <3>1. b # NULL
      BY <1>5, <2>3, Places
    <3>2. k \in S <=> a <= SIZE(g, b)
      BY <1>4, <1>6, <2>1, <2>3, <3>1
    <3>3. QED
      BY <1>4, <2>1, <2>3, <3>2 DEF AtLeast
  <2>4. QED
    BY <2>1, <2>2, <2>3
<1>8. QED
  BY <1>6, <1>7 DEF FitsIn

\* A free block that is large enough, or there is none in the whole heap.
Found(V, z, a, f) ==
  \/ f = 0 /\ \A b \in V : ~AtLeast(a, z, b)
  \/ f \in V /\ AtLeast(a, z, f)
\* find_fit misses no free block that is large enough.
LEMMA FindsFit ==
  ASSUME NEW g, NEW B, NEW z, NEW V, Sound(g, B, z, V), NEW a \in Nat, 4 <= a, NEW f, f = find_fit(g, a)
  PROVE  Found(V, z, a, f)
<1> DEFINE lists == get_free_list_idx(a) .. 9
           found == {i \in lists : Fits(g, i, a) # {}}
<1>1. get_free_list_idx(a) \in 1 .. 6 /\ \A t \in Nat : a <= t => get_free_list_idx(a) <= get_free_list_idx(t)
  BY SizeLists
<1>2. \A i \in lists : i \in Lists /\ i \in Nat
  BY <1>1 DEF Lists
<1>3. f = IF found = {} THEN NULL ELSE Node(g, Min(found))[Min(Fits(g, Min(found), a))]
  <2>1. free_list_size - 1 = 9
    BY Places
  <2>2. QED
    BY <2>1 DEF find_fit, FirstFit
<1>4. Grid(B, z, g.brk) /\ V \subseteq B \ {14}
  BY DEF Sound, State, Parts
<1>5. CASE found = {}
  <2>1. ASSUME NEW b \in V, AtLeast(a, z, b)
        PROVE  FALSE
    <3>1. a <= z[b] /\ z[b] \in Nat /\ 4 <= z[b]
      BY <1>4, <2>1 DEF AtLeast, Grid, Cell
    <3>2. PICK i : i = Idx(z, b)
      OBVIOUS
    <3>3. i \in Lists /\ i \in lists
      <4>1. i \in 1 .. 6 /\ get_free_list_idx(a) <= i
        BY <1>1, <3>1, <3>2, SizeLists DEF Idx
      <4>2. QED
        BY <1>1, <4>1 DEF Lists
    <3>4. PICK nd, S : nd = Node(g, i) /\ S = Fits(g, i, a)
      OBVIOUS
    <3>5. Listing(g, V, z, i, nd) /\ FitsIn(V, z, a, nd, S)
      BY <3>3, <3>4, ListsAll, FitsAreNodes
    <3>6. PICK k \in 0 .. MaxBlocks : nd[k] = b
      BY <3>2, <3>5 DEF Listing
    <3>7. k \in S
      BY <2>1, <3>5, <3>6 DEF FitsIn
    <3>8. i \in found
      BY <3>3, <3>4, <3>7
    <3>9. QED
      BY <1>5, <3>8
  <2>2. f = 0
    BY <1>3, <1>5, Places
  <2>3. QED
    BY <2>1, <2>2 DEF Found
<1>6. CASE found # {}
  <2>1. PICK i : i = Min(found)
    OBVIOUS
  <2>2. i \in found
    <3>1. found \in SUBSET Nat
      BY <1>2
    <3> HIDE DEF found
    <3>2. QED
      BY <1>6, <2>1, <3>1, MinIsIn
  <2>3. i \in Lists
    BY <1>2, <2>2
  <2>4. PICK nd, S : nd = Node(g, i) /\ S = Fits(g, i, a)
    OBVIOUS
  <2>5. FitsIn(V, z, a, nd, S) /\ S # {}
    BY <2>2, <2>3, <2>4, FitsAreNodes
  <2>6. Min(S) \in S
    <3>1. S \in SUBSET Nat
      BY <2>5 DEF FitsIn
    <3>2. QED
      BY <2>5, <3>1, MinIsIn
  <2>7. f = nd[Min(S)]
    <3> HIDE DEF found
    <3> QED BY <1>3, <1>6, <2>1, <2>4
  <2>8. QED
    BY <2>5, <2>6, <2>7 DEF FitsIn, Found
<1>7. QED
  BY <1>5, <1>6

\* asize leaves room for the tags, and is a legal size.
LEMMA RoundsUp ==
  ASSUME NEW size \in Nat, size # 0, NEW a, a = asize(size)
  PROVE  a \in Nat /\ a % 2 = 0 /\ 4 <= a /\ size + 2 <= a
<1>1. a = IF size <= 2 THEN 4 ELSE 2 * ((size + 2 + (2 - 1)) \div 2)
  BY Places DEF asize
<1>2. CASE size <= 2
  BY <1>1, <1>2
<1>3. CASE ~(size <= 2)
  <2>1. PICK q : q = (size + 3) \div 2
    OBVIOUS
  <2>2. q \in Nat /\ size + 2 <= 2 * q /\ 2 <= q
    BY <1>3, <2>1
  <2>3. a = 2 * q
    BY <1>1, <1>3, <2>1
  <2>4. QED
    BY <2>2, <2>3
<1>4. QED
  BY <1>2, <1>3

(***************************************************************************)
(* The request of a new block.                                             *)
(***************************************************************************)
\* No free block has a words.
Full(V, z, a) == \A b \in V : ~AtLeast(a, z, b)
\* The heap cannot grow by a words; nor has a free block a words; the block b is
\* the last one and the heap cannot grow by what it lacks; a request is refused.
NoMore(g, a) == g.brk + Larger(a, CHUNKSIZE) > MAX_HEAP + 2
Exhausted(g, a) == NoMore(g, a) /\ \E B, z, V : Sound(g, B, z, V) /\ Full(V, z, a)
Stuck(g, b, a) == SIZE(g, NEXT_BLKP(g, b)) = 0 /\ NoMore(g, a - SIZE(g, b))
Refusal(g, b, a) == Exhausted(g, a) \/ Stuck(g, b, a)

\* What mm_malloc promises: a block of a words at least that was not allocated,
\* the allocated ones kept; or NULL, and then no free block has them and the
\* heap cannot grow by them.
Granted(g, B, z, V, a, r) ==
  \E t, p, B1, z1, V1 : /\ Answer(r, t, p) /\ Sound(t, B1, z1, V1) /\ Owned(B1, V1, p) /\ p \notin B \ V
                        /\ AtLeast(a, z1, p) /\ Kept(g, z, t, B1, z1, V1, B \ V)
Mallocs(g, B, z, V, a, r) ==
  \/ Answer(r, g, 0) /\ Full(V, z, a) /\ NoMore(g, a)
  \/ Granted(g, B, z, V, a, r)
\* mm_malloc does what it promises.
LEMMA MallocsBlock ==
  ASSUME NEW g, NEW B, NEW z, NEW V, Sound(g, B, z, V), NEW size \in Nat, size # 0,
         NEW a, a = asize(size), NEW r, r = mm_malloc(g, size)
  PROVE  Mallocs(g, B, z, V, a, r)
<1>1. a \in Nat /\ a % 2 = 0 /\ 4 <= a
  BY RoundsUp
<1>2. PICK f : f = find_fit(g, a)
  OBVIOUS
<1>3. Found(V, z, a, f)
  BY <1>1, <1>2, FindsFit
<1>4. r = Placed(IF f # NULL THEN [h |-> g, p |-> f] ELSE extend_heap(g, Larger(a, CHUNKSIZE)), a)
  BY <1>2 DEF mm_malloc, Placed
<1>5. Grid(B, z, g.brk) /\ V \subseteq B /\ \A b \in V : b # 0
  <2>1. Grid(B, z, g.brk) /\ V \subseteq B
    BY DEF Sound, State, Parts
  <2>2. QED
    BY <2>1 DEF Grid, Cell
<1>6. CASE f # 0
  <2>1. f \in V /\ AtLeast(a, z, f)
    BY <1>3, <1>6 DEF Found
  <2>2. PICK t : t = place(g, f, a)
    OBVIOUS
  <2>3. Answer(r, t, f)
    BY <1>4, <1>6, <2>2, Places DEF Placed, Answer
  <2>4. Places1(g, B, z, V, f, a, t)
    BY <1>1, <2>1, <2>2, PlacesBlock DEF Room
  <2>5. QED
    BY <2>1, <2>3, <2>4 DEF Places1, Granted, Mallocs
<1>7. CASE f = 0
  <2>1. Full(V, z, a)
    BY <1>3, <1>5, <1>7 DEF Found, Full
  <2>2. PICK words, b, x : words = Larger(a, CHUNKSIZE) /\ b = g.brk /\ x = extend_heap(g, words)
    OBVIOUS
  <2>3. words \in Nat /\ 4 <= words /\ a <= words
    BY <1>1, <2>2, HeapAssumption DEF Larger
  <2>4. Extends(g, B, z, V, b, words, x)
    BY <2>2, <2>3, ExtendsHeap
  <2>5. r = Placed(x, a)
    BY <1>4, <1>7, <2>2, Places
  <2>6. CASE Answer(x, g, NULL) /\ NoRoom(b, words)
    <3>1. Answer(r, g, 0)
      BY <2>5, <2>6, Places DEF Placed, Answer
    <3>2. words % 2 = 0
      BY <1>1, <2>2, HeapAssumption DEF Larger
    <3>3. NoMore(g, a)
      BY <2>2, <2>3, <2>6, <3>2, <1>5 DEF NoRoom, NoMore, Grid
    <3>4. QED
      BY <2>1, <3>1, <3>3 DEF Mallocs
  <2>7. CASE ~(Answer(x, g, NULL) /\ NoRoom(b, words))
    <3>1. PICK t, p, B1, z1, V1 : Answer(x, t, p) /\ Served(g, B, z, V, words, t, p, B1, z1, V1)
      BY <2>4, <2>7 DEF Extends
    <3>2. /\ Sound(t, B1, z1, V1) /\ p \in V1 /\ AtLeast(words, z1, p) /\ Kept(g, z, t, B1, z1, V1, B \ V)
      BY <3>1 DEF Served
    <3>3. p \in Nat /\ p # 0 /\ z1[p] \in Nat
      BY <3>2 DEF Sound, State, Parts, Grid, Cell
    <3>4. PICK s : s = place(t, p, a)
      OBVIOUS
    <3>5. Answer(r, s, p)
      BY <2>5, <3>1, <3>3, <3>4, Places DEF Placed, Answer
    <3>6. Room(z1, p, a)
      BY <1>1, <2>3, <3>2, <3>3 DEF Room, AtLeast
    <3>7. Places1(t, B1, z1, V1, p, a, s)
      BY <3>2, <3>4, <3>6, PlacesBlock
    <3>8. PICK B2, z2, V2 : /\ Sound(s, B2, z2, V2) /\ Owned(B2, V2, p) /\ AtLeast(a, z2, p)
                            /\ Kept(t, z1, s, B2, z2, V2, B1 \ V1)
      BY <3>7 DEF Places1
    <3>9. \A c \in B \ V : c \in B1 \ V1
      BY <3>2 DEF Kept
    <3>10. Kept(t, z1, s, B2, z2, V2, B \ V)
      BY <3>8, <3>9 DEF Kept
    <3>11. Kept(g, z, s, B2, z2, V2, B \ V)
      BY <3>2, <3>10, KeptTwice
    <3>12. p \notin B \ V
      BY <3>2, <3>9
    <3>13. QED
      BY <3>5, <3>8, <3>11, <3>12 DEF Granted, Mallocs
  <2>8. QED
    BY <2>6, <2>7
<1>8. QED
  BY <1>6, <1>7

\* The words of block b the caller may write.
DataWords(z, b) == b .. b + z[b] - 3
\* Whatever the caller writes there, the heap stays sound.
LEMMA PayloadIsFree ==
  ASSUME NEW g, NEW B, NEW z, NEW V, Sound(g, B, z, V), NEW p, Owned(B, V, p),
         NEW r, NEW W, Changed(g, r, W), \A w \in W : w \in DataWords(z, p)
  PROVE  Sound(r, B, z, V) /\ Kept(g, z, r, B, z, V, (B \ V) \ {p})
<1>1. PICK X, Y : X = {} /\ Y = {p}
  OBVIOUS
<1>2. State(g, B, z, V, V, X) /\ Apart(z, V) /\ Grid(B, z, g.brk) /\ Cells(g, B, z, V) /\ p \in B \ V /\ p # 14
  <2>1. B \ {} = B
    OBVIOUS
  <2>2. QED
    BY <1>1, <2>1 DEF Sound, State, Owned
<1>3. p \in Nat /\ z[p] \in Nat /\ 4 <= z[p]
  BY <1>2 DEF Grid, Cell
<1>4. \A w \in W : w \in Own(z, p) /\ w # p - 1 /\ w # p + z[p] - 2
  BY <1>3 DEF DataWords, Own
<1>5. State(r, B, z, V, V, X \cup Y)
  <2>1. Y \subseteq B \ {14} /\ Y \cap V = {}
    BY <1>1, <1>2
  <2>2. \A w \in W : \E c \in Y : w \in Own(z, c)
    BY <1>1, <1>4
  <2>3. QED
    BY <1>2, <2>1, <2>2, Frame
<1>6. Cells(r, B, z, V)
  <2>1. \A c \in B \ {p} : r.m[c - 1] = Word(z, V, c) /\ r.m[c + z[c] - 2] = Word(z, V, c)
    BY <1>1, <1>5 DEF State, Cells
  <2>2. p - 1 \in Memory \ W /\ p + z[p] - 2 \in Memory \ W
    BY <1>2, <1>4, Owns
  <2>3. r.m[p - 1] = Word(z, V, p) /\ r.m[p + z[p] - 2] = Word(z, V, p)
    BY <1>2, <2>2 DEF Cells, Changed
  <2>4. QED
    BY <2>1, <2>3 DEF Cells
<1>7. State(r, B, z, V, V, {})
  <2>1. Parts(B, V, V, {})
    BY <1>1, <1>2 DEF State
  <2>2. B \ {} = B
    OBVIOUS
  <2>3. QED
    BY <1>5, <1>6, <2>1, <2>2 DEF State
<1>8. Kept(g, z, r, B, z, V, (B \ V) \ {p})
  <2>1. \A c \in (B \ V) \ {p} : W \cap Own(z, c) = {}
    BY <1>2, <1>4, Owns
  <2>2. QED
    BY <1>2, <2>1, KeptByWords
<1>9. QED
  BY <1>2, <1>7, <1>8 DEF Sound

\* c is t with k words of from at p.
Copied(c, t, from, p, k) ==
  /\ c \in Heaps /\ c.brk = t.brk
  /\ \A w \in Memory : c.m[w] = IF w \in p .. p + k - 1 THEN t.m[w - p + from] ELSE t.m[w]
\* memcpy writes those words only.
LEMMA CopyWrites ==
  ASSUME NEW t \in Heaps, NEW from \in Nat, NEW p \in Nat, NEW k \in Nat,
         \A w \in from .. from + k - 1 : w \in Memory, NEW c, c = Copy(t, from, p, k)
  PROVE  Copied(c, t, from, p, k)
<1>1. c = [t EXCEPT !.m = [w \in Memory |-> IF w \in p .. p + k - 1 THEN t.m[w - p + from] ELSE t.m[w]]]
  BY DEF Copy
<1>2. t.m \in [Memory -> Nat] /\ t.brk \in Nat /\ t = [m |-> t.m, brk |-> t.brk]
  BY DEF Heaps
<1>3. \A w \in Memory : w \in Nat
  BY Places
<1>4. PICK m : m = [w \in Memory |-> IF w \in p .. p + k - 1 THEN t.m[w - p + from] ELSE t.m[w]]
  OBVIOUS
<1>5. m \in [Memory -> Nat]
  <2>1. ASSUME NEW w \in Memory
        PROVE  (IF w \in p .. p + k - 1 THEN t.m[w - p + from] ELSE t.m[w]) \in Nat
    <3>1. CASE w \in p .. p + k - 1
      <4>1. w - p + from \in from .. from + k - 1
        BY <1>3, <3>1
      <4>2. w - p + from \in Memory
        BY <4>1
      <4>3. QED
        BY <1>2, <3>1, <4>2
    <3>2. CASE w \notin p .. p + k - 1
      BY <1>2, <3>2
    <3>3. QED
      BY <3>1, <3>2
  <2>2. QED
    BY <1>4, <2>1
<1>6. c.m = m /\ c.brk = t.brk /\ c \in Heaps
  BY <1>1, <1>2, <1>4, <1>5 DEF Heaps
<1>7. QED
  BY <1>4, <1>6 DEF Copied

(***************************************************************************)
(* The contents of a block move to a new one.                              *)
(***************************************************************************)
\* The first n words are the same; the request failed, as the heap is now; it was
\* served, with b gone and its first n words in the new block; what is asked for.
SameData(g, b, t, p, n) == \A j \in 0 .. n - 1 : t.m[p + j] = g.m[b + j]
Unserved(g, B, z, V, b, a, r) ==
  \E t, B1, z1, V1 : /\ Answer(r, t, 0) /\ Sound(t, B1, z1, V1) /\ Kept(g, z, t, B1, z1, V1, B \ V)
                     /\ Refusal(t, b, a)
Reallocated(g, B, z, V, b, a, n, r) ==
  \E t, p, B1, z1, V1 : /\ Answer(r, t, p) /\ Sound(t, B1, z1, V1) /\ Owned(B1, V1, p) /\ p \notin (B \ V) \ {b}
                        /\ AtLeast(a, z1, p) /\ Kept(g, z, t, B1, z1, V1, (B \ V) \ {b})
                        /\ SameData(g, b, t, p, n)
Asked(z, b, size, a, n) ==
  /\ size \in Nat /\ size # 0 /\ a = asize(size) /\ n \in Nat /\ n <= size /\ n + 2 <= z[b]

\* A new block, the copy, and the old one freed: the contents are kept.
LEMMA MovesBlock ==
  ASSUME NEW g, NEW B, NEW z, NEW V, Sound(g, B, z, V), NEW b, Owned(B, V, b), NEW size, NEW a, NEW n,
         Asked(z, b, size, a, n), NEW old, old = z[b], NEW r, r = Moved(mm_malloc(g, size), b, size, old)
  PROVE  Unserved(g, B, z, V, b, a, r) \/ Reallocated(g, B, z, V, b, a, n, r)
<1>1. /\ size \in Nat /\ size # 0 /\ a = asize(size) /\ n \in Nat /\ n <= size /\ n + 2 <= z[b]
      /\ a \in Nat /\ size + 2 <= a
  BY RoundsUp DEF Asked
<1>2. /\ Grid(B, z, g.brk) /\ b \in B \ V /\ b # 14 /\ b \in Nat /\ z[b] \in Nat
  BY DEF Sound, State, Owned, Grid, Cell
<1>3. PICK x : x = mm_malloc(g, size)
  OBVIOUS
<1>4. r = Moved(x, b, size, old)
  BY <1>3
<1>5. Mallocs(g, B, z, V, a, x)
  BY <1>1, <1>3, MallocsBlock
<1>6. CASE Answer(x, g, 0) /\ Full(V, z, a) /\ NoMore(g, a)
  <2>1. Answer(r, g, 0)
    BY <1>4, <1>6, Places DEF Moved, Answer
  <2>5. Refusal(g, b, a)
    BY <1>6 DEF Exhausted, Refusal
  <2>2. \A c \in B \ V : c \in B \ V /\ z[c] = z[c]
    OBVIOUS
  <2>3. Kept(g, z, g, B, z, V, B \ V)
    BY <2>2, KeptRegrid
  <2>4. QED
    BY <2>1, <2>3, <2>5 DEF Unserved
<1>7. CASE Granted(g, B, z, V, a, x)
  <2>1. PICK t, p, B1, z1, V1 :
               /\ Answer(x, t, p) /\ Sound(t, B1, z1, V1) /\ Owned(B1, V1, p) /\ p \notin B \ V
               /\ AtLeast(a, z1, p) /\ Kept(g, z, t, B1, z1, V1, B \ V)
    BY <1>7 DEF Granted
  <2>2. /\ Grid(B1, z1, t.brk) /\ t \in Heaps /\ p \in B1 \ V1 /\ p \in Nat /\ p # 0
        /\ z1[p] \in Nat /\ a <= z1[p]
    BY <2>1 DEF Sound, State, Owned, Grid, Cell, AtLeast
  <2>3. b \in B1 \ V1 /\ z1[b] = z[b] /\ b # p /\ Owned(B1, V1, b) /\ \A w \in Own(z, b) : t.m[w] = g.m[w]
    BY <1>2, <2>1 DEF Kept, Owned
  <2>4. PICK k : k = IF size < old THEN size ELSE old
    OBVIOUS
  <2>5. k \in Nat /\ k <= size /\ k <= z[b] /\ n <= k
    BY <1>1, <1>2, <2>4
  <2>6. PICK c, f : c = Copy(t, b, p, k) /\ f = mm_free(c, b)
    OBVIOUS
  <2>7. Answer(r, f, p)
    BY <1>4, <2>1, <2>2, <2>4, <2>6, Places DEF Moved, Answer
  <2>8. Copied(c, t, b, p, k)
    <3>1. ASSUME NEW w \in b .. b + k - 1
          PROVE  w \in Memory
      <4>1. b + z1[b] <= t.brk /\ t.brk \in Nat /\ t.brk <= MAX_HEAP + 2 /\ 14 <= b
        BY <2>2, <2>3 DEF Grid, Cell
      <4>2. w \in Nat /\ b <= w /\ w <= b + k - 1
        BY <1>2, <2>5
      <4>3. w \in 2 .. MAX_HEAP + 1
        BY <1>2, <2>3, <2>5, <4>1, <4>2, Places
      <4>4. QED
        BY <4>3, Places
    <3>2. QED
      BY <1>2, <2>2, <2>5, <2>6, <3>1, CopyWrites
  <2>9. PICK W : W = p .. p + k - 1
    OBVIOUS
  <2>10. \A w \in W : w \in DataWords(z1, p)
    BY <1>1, <2>2, <2>5, <2>9 DEF DataWords
  <2>11. Changed(t, c, W)
    BY <2>8, <2>9 DEF Copied, Changed
  <2>12. Sound(c, B1, z1, V1) /\ Kept(t, z1, c, B1, z1, V1, (B1 \ V1) \ {p})
    BY <2>1, <2>10, <2>11, PayloadIsFree
  <2>13. Frees(c, B1, z1, V1, b, f)
    BY <2>3, <2>6, <2>12, FreesBlock
  <2>14. PICK B2, z2, V2 : Sound(f, B2, z2, V2) /\ Kept(c, z1, f, B2, z2, V2, (B1 \ V1) \ {b})
    BY <2>13 DEF Frees
  <2>15. p \in (B1 \ V1) \ {b}
    BY <2>2, <2>3
  <2>16. p \in B2 \ V2 /\ z2[p] = z1[p] /\ \A w \in Own(z1, p) : f.m[w] = c.m[w]
    BY <2>14, <2>15 DEF Kept
  <2>17. Owned(B2, V2, p) /\ AtLeast(a, z2, p) /\ p \notin (B \ V) \ {b}
    BY <2>1, <2>2, <2>16 DEF Owned, AtLeast
  <2>18. Kept(g, z, f, B2, z2, V2, (B \ V) \ {b})
    <3>1. \A d \in (B \ V) \ {b} : d \in (B1 \ V1) \ {p} /\ d \in (B1 \ V1) \ {b}
      BY <2>1 DEF Kept
    <3>2. PICK A : A = (B \ V) \ {b}
      OBVIOUS
    <3>3. Kept(g, z, t, B1, z1, V1, A)
      BY <2>1, <3>2 DEF Kept
    <3>4. Kept(t, z1, c, B1, z1, V1, A)
      BY <2>12, <3>1, <3>2 DEF Kept
    <3>5. Kept(c, z1, f, B2, z2, V2, A)
      BY <2>14, <3>1, <3>2 DEF Kept
    <3>6. Kept(g, z, c, B1, z1, V1, A)
      BY <3>3, <3>4, KeptTwice
    <3>7. Kept(g, z, f, B2, z2, V2, A)
      BY <3>5, <3>6, KeptTwice
    <3>8. QED
      BY <3>2, <3>7
  <2>19. SameData(g, b, f, p, n)
    <3>1. SUFFICES ASSUME NEW j \in 0 .. n - 1
                   PROVE  f.m[p + j] = g.m[b + j]
      BY DEF SameData
    <3>2. j \in Nat /\ j < k
      BY <1>1, <2>5
    <3>3. p + j \in Own(z1, p) /\ b + j \in Own(z, b)
      BY <1>1, <1>2, <2>2, <2>5, <3>1, <3>2 DEF Own
    <3>4. p + j \in Memory
      BY <2>2, <3>3, Owns
    <3>5. PICK w : w = p + j
      OBVIOUS
    <3>6. w \in p .. p + k - 1 /\ w - p + b = b + j
      BY <1>2, <2>2, <2>5, <3>2, <3>5
    <3>7. c.m[w] = t.m[b + j]
      <4>1. w \in Memory
        BY <3>4, <3>5
      <4>2. c.m[w] = IF w \in p .. p + k - 1 THEN t.m[w - p + b] ELSE t.m[w]
        BY <2>8, <4>1 DEF Copied
      <4>3. QED
        BY <3>6, <4>2
    <3>8. QED
      BY <2>3, <2>16, <3>3, <3>5, <3>7
  <2>20. QED
    BY <2>7, <2>14, <2>17, <2>18, <2>19 DEF Reallocated
<1>8. QED
  BY <1>5, <1>6, <1>7 DEF Mallocs

\* Words that stay.
SameWords(g, r, S) == \A w \in S : r.m[w] = g.m[w]
\* Tagging a block leaves its data.
LEMMA TagKeepsData ==
  ASSUME NEW g \in Heaps, NEW C, NEW y, NEW brk, Grid(C, y, brk), NEW b \in C, NEW size, size = y[b],
         NEW alloc \in {0, 1}, NEW r, r = TAG(g, b, size, alloc)
  PROVE  SameWords(g, r, DataWords(y, b))
<1>1. b \in Nat /\ y[b] \in Nat /\ 2 <= y[b] /\ 14 <= b
  BY DEF Grid, Cell
<1>2. PICK v, u, w : v = PACK(size, alloc) /\ u = b - 1 /\ w = b + size - 2
  OBVIOUS
<1>3. v \in Nat
  BY <1>1, <1>2 DEF PACK
<1>4. u \in Memory /\ w \in Memory /\ \A x \in Own(y, b) : x \in Memory
  <2>1. b - 1 \in Own(y, b) /\ b + y[b] - 2 \in Own(y, b) /\ \A x \in Own(y, b) : x \in Memory
    BY Owns
  <2>2. QED
    BY <1>2, <2>1
<1>5. WroteBoth(g, r, u, w, v)
  BY <1>2, <1>3, <1>4, TagWrites
<1>6. \A x \in DataWords(y, b) : x \in Own(y, b) /\ x # u /\ x # w
  BY <1>1, <1>2 DEF DataWords, Own
<1>7. QED
  BY <1>4, <1>5, <1>6 DEF WroteBoth, SameWords

\* A block that is large enough stays, what is left of it is freed.
LEMMA ShrinksBlock ==
  ASSUME NEW g, NEW B, NEW z, NEW V, Sound(g, B, z, V), NEW b, Owned(B, V, b), NEW size, NEW a, NEW n,
         Asked(z, b, size, a, n), AtLeast(a, z, b), NEW r, r = Shrink(g, b, a)
  PROVE  Reallocated(g, B, z, V, b, a, n, r)
<1>1. PICK X : X = {}
  OBVIOUS
<1>2. /\ State(g, B, z, V, V, X) /\ Apart(z, V) /\ b \in B \ V /\ b # 14 /\ Grid(B, z, g.brk) /\ Parts(B, V, V, X)
      /\ g \in Heaps
  BY <1>1 DEF Sound, State, Owned
<1>3. /\ size \in Nat /\ n \in Nat /\ n <= size /\ n + 2 <= z[b]
      /\ a \in Nat /\ a % 2 = 0 /\ 4 <= a /\ size + 2 <= a /\ a <= z[b]
  BY RoundsUp DEF Asked, AtLeast
<1>4. SIZE(g, b) = z[b] /\ b \in Nat /\ z[b] \in Nat
  <2>1. b \in B \ X
    BY <1>1, <1>2
  <2>2. SIZE(g, b) = z[b]
    BY <1>2, <2>1, Reads
  <2>3. QED
    BY <1>2, <2>2 DEF Grid, Cell
<1>5. PICK m : m = z[b] - a
  OBVIOUS
<1>6. CASE m < 4
  <2>1. Answer(r, g, b)
    BY <1>4, <1>5, <1>6, Places DEF Shrink, Answer
  <2>2. \A c \in (B \ V) \ {b} : c \in B \ V /\ z[c] = z[c]
    OBVIOUS
  <2>3. Kept(g, z, g, B, z, V, (B \ V) \ {b})
    BY <2>2, KeptRegrid
  <2>4. SameData(g, b, g, b, n)
    BY DEF SameData
  <2>5. QED
    BY <2>1, <2>3, <2>4 DEF Reallocated
<1>7. CASE 4 <= m
  <2>1. PICK e, C, y : e = b + a /\ C = B \cup {e} /\ y = Halved(B, z, b, a)
    OBVIOUS
  <2>2. Grid(C, y, g.brk) /\ e \notin B /\ e # b /\ y[b] = a /\ y[e] = m /\ \A c \in B : c # b => y[c] = z[c]
    <3>1. HalvedInto(B, z, g.brk, b, a, C, y, e)
      BY <1>2, <1>3, <1>5, <1>7, <2>1 DEF HalvedInto
    <3>2. QED
      BY <1>5, <3>1, HalvedGrid DEF Halves
  <2>3. PICK Y, Y1 : Y = {b, e} /\ Y1 = {e}
    OBVIOUS
  <2>4. e # 14 /\ b \notin V /\ e \notin V /\ V \subseteq B
    BY <1>2, <2>2 DEF Grid, Parts
  <2>5. State(g, C, y, V, V, Y)
    <3>1. Parts(C, V, V, Y)
      BY <1>2, <2>1, <2>3, <2>4 DEF Parts
    <3>2. \A c \in C \ Y : c \in B \ X /\ y[c] = z[c] /\ (c \in V <=> c \in V)
      BY <1>1, <2>1, <2>2, <2>3
    <3>3. QED
      BY <1>2, <2>2, <3>1, <3>2, Regrid
  <2>6. PICK g1 : g1 = TAG(g, b, a, 1)
    OBVIOUS
  <2>7. State(g1, C, y, V, V, Y1) /\ Kept(g, y, g1, C, y, V, (C \ V) \ {b})
    <3>1. b \in C /\ b # 14 /\ b \notin V /\ a = y[b] /\ 1 = IF b \in V THEN 0 ELSE 1
      BY <1>2, <2>1, <2>2
    <3>2. State(g1, C, y, V, V, Y \ {b}) /\ Kept(g, y, g1, C, y, V, (C \ V) \ {b})
      BY <2>5, <2>6, <3>1, TagBlock
    <3>3. Y \ {b} = Y1
      BY <2>2, <2>3
    <3>4. QED
      BY <3>2, <3>3
  <2>8. PICK g2 : g2 = TAG(g1, e, m, 1)
    OBVIOUS
  <2>9. State(g2, C, y, V, V, X) /\ Kept(g1, y, g2, C, y, V, (C \ V) \ {e})
    <3>1. e \in C /\ e # 14 /\ e \notin V /\ m = y[e] /\ 1 = IF e \in V THEN 0 ELSE 1
      BY <2>1, <2>2, <2>4
    <3>2. State(g2, C, y, V, V, Y1 \ {e}) /\ Kept(g1, y, g2, C, y, V, (C \ V) \ {e})
      BY <2>7, <2>8, <3>1, TagBlock
    <3>3. Y1 \ {e} = X
      BY <1>1, <2>3
    <3>4. QED
      BY <3>2, <3>3
  <2>10. Sound(g2, C, y, V)
    <3>1. \A c \in V : y[c] = z[c]
      BY <2>2, <2>4
    <3>2. Apart(y, V)
      BY <1>2, <3>1 DEF Apart
    <3>3. QED
      BY <1>1, <2>9, <3>2 DEF Sound
  <2>11. PICK t : t = mm_free(g2, e)
    OBVIOUS
  <2>12. Answer(r, t, b)
    <3>1. ~(z[b] - a < MIN_BLOCK)
      BY <1>3, <1>4, <1>5, <1>7, Places
    <3>2. QED
      BY <1>4, <1>5, <2>1, <2>6, <2>8, <2>11, <3>1 DEF Shrink, Answer
  <2>13. Frees(g2, C, y, V, e, t)
    <3>1. Owned(C, V, e)
      BY <2>1, <2>4 DEF Owned
    <3>2. QED
      BY <2>10, <2>11, <3>1, FreesBlock
  <2>14. PICK B1, z1, V1 : Sound(t, B1, z1, V1) /\ Kept(g2, y, t, B1, z1, V1, (C \ V) \ {e})
    BY <2>13 DEF Frees
  <2>15. b \in (C \ V) \ {e}
    BY <1>2, <2>1, <2>2
  <2>16. Owned(B1, V1, b) /\ z1[b] = a /\ \A w \in Own(y, b) : t.m[w] = g1.m[w]
    <3>1. b \in B1 \ V1 /\ z1[b] = y[b] /\ \A w \in Own(y, b) : t.m[w] = g2.m[w] /\ g2.m[w] = g1.m[w]
      BY <2>9, <2>14, <2>15 DEF Kept
    <3>2. QED
      BY <1>2, <2>2, <3>1 DEF Owned
  <2>17. AtLeast(a, z1, b)
    BY <1>3, <2>16 DEF AtLeast
  <2>18. Kept(g, z, t, B1, z1, V1, (B \ V) \ {b})
    <3>1. PICK A : A = (B \ V) \ {b}
      OBVIOUS
    <3>2. \A c \in A : c \in C \ V /\ y[c] = z[c] /\ c \in (C \ V) \ {b} /\ c \in (C \ V) \ {e}
      BY <2>1, <2>2, <3>1
    <3>3. Kept(g, z, g, C, y, V, A)
      BY <3>2, KeptRegrid
    <3>4. Kept(g, y, g1, C, y, V, A)
      BY <2>7, <3>2 DEF Kept
    <3>5. Kept(g1, y, g2, C, y, V, A)
      BY <2>9, <3>2 DEF Kept
    <3>6. Kept(g2, y, t, B1, z1, V1, A)
      BY <2>14, <3>2 DEF Kept
    <3>7. Kept(g, z, g1, C, y, V, A)
      BY <3>3, <3>4, KeptTwice
    <3>8. Kept(g, z, g2, C, y, V, A)
      BY <3>5, <3>7, KeptTwice
    <3>9. Kept(g, z, t, B1, z1, V1, A)
      BY <3>6, <3>8, KeptTwice
    <3>10. QED
      BY <3>1, <3>9
  <2>19. SameData(g, b, t, b, n)
    <3>1. SameWords(g, g1, DataWords(y, b))
      <4>1. b \in C /\ a = y[b] /\ 1 \in {0, 1}
        BY <1>2, <2>1, <2>2
      <4>2. QED
        BY <1>2, <2>2, <2>6, <4>1, TagKeepsData
    <3>2. \A j \in 0 .. n - 1 : b + j \in DataWords(y, b) /\ b + j \in Own(y, b)
      BY <1>3, <1>4, <2>2 DEF DataWords, Own
    <3>3. QED
      BY <2>16, <3>1, <3>2 DEF SameData, SameWords
  <2>20. QED
    BY <2>12, <2>14, <2>16, <2>17, <2>18, <2>19 DEF Reallocated
<1>8. QED
  BY <1>3, <1>4, <1>5, <1>6, <1>7

\* The block takes the free block p behind it.
Taking(t, B, z, V, b, p, nsize) ==
  Sound(t, B, z, V) /\ Owned(B, V, b) /\ p = b + z[b] /\ p \in V /\ nsize = z[b] + z[p]
Taken(t, B, z, V, b, nsize, n, s) ==
  \E B1, z1, V1 : /\ Sound(s, B1, z1, V1) /\ Owned(B1, V1, b) /\ z1[b] = nsize
                  /\ Kept(t, z, s, B1, z1, V1, (B \ V) \ {b}) /\ SameData(t, b, s, b, n)
\* The block takes the free block p behind it, which leaves its list, and keeps its data.
LEMMA TakesNext ==
  ASSUME NEW t, NEW B, NEW z, NEW V, NEW b, NEW p, NEW nsize, Taking(t, B, z, V, b, p, nsize),
         NEW n \in Nat, n + 2 <= z[b], NEW s, s = TAG(delete_node(t, p), b, nsize, 1)
  PROVE  Taken(t, B, z, V, b, nsize, n, s)
<1>1. PICK X, Y, F : X = {} /\ Y = {b} /\ F = V \ {p}
  OBVIOUS
<1>2. /\ State(t, B, z, V, V, X) /\ Apart(z, V) /\ b \in B \ V /\ b # 14 /\ p \in V
      /\ p = b + z[b] /\ nsize = z[b] + z[p]
      /\ Grid(B, z, t.brk) /\ Parts(B, V, V, X)
  BY <1>1 DEF Taking, Sound, State, Owned
<1>3. b \in Nat /\ z[b] \in Nat /\ p \in B /\ p # b /\ p \in Nat /\ z[p] \in Nat /\ 4 <= z[p]
  BY <1>2 DEF Grid, Cell, Parts
<1>4. PICK g1 : g1 = delete_node(t, p)
  OBVIOUS
<1>5. State(g1, B, z, V, F, X) /\ Kept(t, z, g1, B, z, V, B \ V) /\ SameBrk(t, g1)
  BY <1>1, <1>2, <1>4, DeleteNode
<1>6. PICK B1, z1 : B1 = B \ {p} /\ z1 = Merged(B, z, b, p)
  OBVIOUS
<1>7. Grid(B1, z1, t.brk) /\ z1[b] = nsize /\ \A c \in B1 : c # b => z1[c] = z[c]
  <2>1. Grid(B1, z1, t.brk)
    BY <1>2, <1>3, <1>6, MergedGrid
  <2>2. b \in B1
    BY <1>2, <1>3, <1>6
  <2>3. QED
    BY <1>2, <1>6, <2>1, <2>2 DEF Merged
<1>8. State(g1, B1, z1, F, F, Y)
  <2>1. Parts(B1, F, F, Y)
    BY <1>1, <1>2, <1>3, <1>6 DEF Parts
  <2>2. \A c \in B1 \ Y : c \in B \ X /\ z1[c] = z[c] /\ (c \in F <=> c \in V)
    BY <1>1, <1>6, <1>7
  <2>3. Grid(B1, z1, g1.brk)
    BY <1>5, <1>7 DEF SameBrk
  <2>4. QED
    BY <1>5, <2>1, <2>2, <2>3, Regrid
<1>9. State(s, B1, z1, F, F, {}) /\ Kept(g1, z1, s, B1, z1, F, (B1 \ F) \ {b})
  <2>1. b \in B1 /\ b # 14 /\ b \notin F /\ nsize = z1[b] /\ 1 = IF b \in F THEN 0 ELSE 1
    BY <1>1, <1>2, <1>3, <1>6, <1>7
  <2>2. s = TAG(g1, b, nsize, 1)
    BY <1>4
  <2>3. State(s, B1, z1, F, F, Y \ {b}) /\ Kept(g1, z1, s, B1, z1, F, (B1 \ F) \ {b})
    BY <1>8, <2>1, <2>2, TagBlock
  <2>4. Y \ {b} = {}
    BY <1>1
  <2>5. QED
    BY <2>3, <2>4
<1>10. Sound(s, B1, z1, F)
  <2>1. \A c \in F : c \in V /\ z1[c] = z[c]
    BY <1>1, <1>2, <1>6, <1>7 DEF Parts
  <2>2. Apart(z1, F)
    BY <1>1, <1>2, <2>1 DEF Apart
  <2>3. QED
    BY <1>9, <2>2 DEF Sound
<1>11. Owned(B1, F, b)
  BY <1>1, <1>2, <1>3, <1>6 DEF Owned
<1>12. Kept(t, z, s, B1, z1, F, (B \ V) \ {b})
  <2>1. PICK A : A = (B \ V) \ {b}
    OBVIOUS
  <2>2. \A c \in A : c \in B \ V /\ c \in B1 \ F /\ z1[c] = z[c] /\ c \in (B1 \ F) \ {b}
    BY <1>1, <1>2, <1>6, <1>7, <2>1
  <2>3. Kept(t, z, g1, B, z, V, A)
    BY <1>5, <2>2 DEF Kept
  <2>4. Kept(g1, z, g1, B1, z1, F, A)
    BY <2>2, KeptRegrid
  <2>5. Kept(g1, z1, s, B1, z1, F, A)
    BY <1>9, <2>2 DEF Kept
  <2>6. Kept(t, z, g1, B1, z1, F, A)
    BY <2>3, <2>4, KeptTwice
  <2>7. Kept(t, z, s, B1, z1, F, A)
    BY <2>5, <2>6, KeptTwice
  <2>8. QED
    BY <2>1, <2>7
<1>13. SameData(t, b, s, b, n)
  <2>1. SameWords(g1, s, DataWords(z1, b))
    <3>1. b \in B1 /\ nsize = z1[b] /\ 1 \in {0, 1} /\ g1 \in Heaps /\ s = TAG(g1, b, nsize, 1)
      BY <1>2, <1>3, <1>4, <1>5, <1>6, <1>7 DEF State
    <3>2. QED
      BY <1>7, <3>1, TagKeepsData
  <2>2. \A w \in Own(z, b) : g1.m[w] = t.m[w]
    BY <1>2, <1>5 DEF Kept
  <2>3. \A j \in 0 .. n - 1 : b + j \in DataWords(z1, b) /\ b + j \in Own(z, b)
    <3>1. z1[b] = z[b] + z[p]
      BY <1>2, <1>7
    <3>2. QED
      BY <1>3, <3>1 DEF DataWords, Own
  <2>4. QED
    BY <2>1, <2>2, <2>3 DEF SameData, SameWords
<1>14. QED
  BY <1>7, <1>10, <1>11, <1>12, <1>13 DEF Taken

\* What mm_realloc promises.
Serves(g, B, z, V, b, a, n, r) == Unserved(g, B, z, V, b, a, r) \/ Reallocated(g, B, z, V, b, a, n, r)

\* The block takes what is behind it, or moves.
LEMMA JoinsOrMoves ==
  ASSUME NEW t, NEW B, NEW z, NEW V, NEW b, NEW p, NEW nsize, Taking(t, B, z, V, b, p, nsize),
         NEW size, NEW a, NEW n, Asked(z, b, size, a, n), NEW x, Answer(x, t, p), NEW r, r = Joined(x, b, size, nsize)
  PROVE  Serves(t, B, z, V, b, a, n, r)
<1>1. PICK X : X = {}
  OBVIOUS
<1>2. /\ Sound(t, B, z, V) /\ State(t, B, z, V, V, X) /\ Owned(B, V, b) /\ b \in B \ X /\ Grid(B, z, t.brk)
      /\ Parts(B, V, V, X) /\ nsize = z[b] + z[p] /\ p \in V
  BY <1>1 DEF Taking, Sound, State, Owned
<1>3. p # NULL /\ nsize \in Nat
  <2>1. b \in B /\ p \in B
    BY <1>2 DEF Parts
  <2>2. b \in Nat /\ z[b] \in Nat /\ p \in Nat /\ z[p] \in Nat /\ 14 <= p
    BY <1>2, <2>1 DEF Grid, Cell
  <2>3. QED
    BY <1>2, <2>2, Places
<1>4. n \in Nat /\ n + 2 <= z[b] /\ a \in Nat /\ a = asize(size)
  BY RoundsUp DEF Asked
<1>5. x.h = t /\ x.p = p
  BY DEF Answer
<1>6. CASE nsize > a
  <2>1. PICK s : s = TAG(delete_node(t, p), b, nsize, 1)
    OBVIOUS
  <2>2. Answer(r, s, b)
    BY <1>3, <1>4, <1>5, <1>6, <2>1 DEF Joined, Answer
  <2>3. Taken(t, B, z, V, b, nsize, n, s)
    BY <1>4, <2>1, TakesNext
  <2>4. PICK B1, z1, V1 : /\ Sound(s, B1, z1, V1) /\ Owned(B1, V1, b) /\ z1[b] = nsize
                          /\ Kept(t, z, s, B1, z1, V1, (B \ V) \ {b}) /\ SameData(t, b, s, b, n)
    BY <2>3 DEF Taken
  <2>5. AtLeast(a, z1, b) /\ b \notin (B \ V) \ {b}
    BY <1>3, <1>4, <1>6, <2>4 DEF AtLeast
  <2>6. QED
    BY <2>2, <2>4, <2>5 DEF Reallocated, Serves
<1>7. CASE ~(nsize > a)
  <2>1. PICK old : old = z[b]
    OBVIOUS
  <2>2. SIZE(t, b) = z[b]
    BY <1>2, Reads
  <2>3. r = Moved(mm_malloc(t, size), b, size, old)
    BY <1>3, <1>4, <1>5, <1>7, <2>1, <2>2 DEF Joined, MoveBlock
  <2>4. QED
    BY <1>2, <2>1, <2>3, MovesBlock DEF Serves
<1>8. QED
  BY <1>6, <1>7

\* So does a heap that has grown before.
LEMMA ServesAfter ==
  ASSUME NEW g, NEW B, NEW z, NEW V, NEW t, NEW B1, NEW z1, NEW V1, Kept(g, z, t, B1, z1, V1, B \ V),
         NEW b \in B \ V, z[b] \in Nat, b \in Nat, NEW a, NEW n \in Nat, n + 2 <= z[b], NEW r, Serves(t, B1, z1, V1, b, a, n, r)
  PROVE  Serves(g, B, z, V, b, a, n, r)
<1>1. \A c \in B \ V : c \in B1 \ V1 /\ z1[c] = z[c] /\ \A w \in Own(z, c) : t.m[w] = g.m[w]
  BY DEF Kept
<1>2. CASE Unserved(t, B1, z1, V1, b, a, r)
  <2>1. PICK s, B2, z2, V2 : /\ Answer(r, s, 0) /\ Sound(s, B2, z2, V2) /\ Kept(t, z1, s, B2, z2, V2, B1 \ V1)
                             /\ Refusal(s, b, a)
    BY <1>2 DEF Unserved
  <2>2. Kept(t, z1, s, B2, z2, V2, B \ V)
    BY <1>1, <2>1 DEF Kept
  <2>3. Kept(g, z, s, B2, z2, V2, B \ V)
    BY <2>2, KeptTwice
  <2>4. QED
    BY <2>1, <2>3 DEF Unserved, Serves
<1>3. CASE Reallocated(t, B1, z1, V1, b, a, n, r)
  <2>1. PICK s, p, B2, z2, V2 :
               /\ Answer(r, s, p) /\ Sound(s, B2, z2, V2) /\ Owned(B2, V2, p) /\ p \notin (B1 \ V1) \ {b}
               /\ AtLeast(a, z2, p) /\ Kept(t, z1, s, B2, z2, V2, (B1 \ V1) \ {b})
               /\ SameData(t, b, s, p, n)
    BY <1>3 DEF Reallocated
  <2>2. PICK A : A = (B \ V) \ {b}
    OBVIOUS
  <2>3. \A c \in A : c \in B \ V /\ c \in (B1 \ V1) \ {b}
    BY <1>1, <2>2
  <2>4. Kept(g, z, t, B1, z1, V1, A)
    BY <2>3 DEF Kept
  <2>5. Kept(t, z1, s, B2, z2, V2, A)
    BY <2>1, <2>3 DEF Kept
  <2>6. Kept(g, z, s, B2, z2, V2, A)
    BY <2>4, <2>5, KeptTwice
  <2>7. p \notin A
    BY <2>1, <2>3
  <2>8. SameData(g, b, s, p, n)
    <3>1. \A j \in 0 .. n - 1 : b + j \in Own(z, b)
      BY DEF Own
    <3>2. QED
      BY <1>1, <2>1, <3>1 DEF SameData
  <2>9. QED
    BY <2>1, <2>2, <2>6, <2>7, <2>8 DEF Reallocated, Serves
<1>4. QED
  BY <1>2, <1>3 DEF Serves

\* A block that is too small grows into the next one, grows with the heap, or moves.
LEMMA GrowsBlock ==
  ASSUME NEW g, NEW B, NEW z, NEW V, Sound(g, B, z, V), NEW b, Owned(B, V, b), NEW size, NEW a, NEW n,
         Asked(z, b, size, a, n), ~AtLeast(a, z, b), NEW r, r = Grow(g, b, size)
  PROVE  Serves(g, B, z, V, b, a, n, r)
<1>1. PICK X : X = {}
  OBVIOUS
<1>2. /\ State(g, B, z, V, V, X) /\ b \in B \ V /\ b # 14 /\ Grid(B, z, g.brk) /\ Parts(B, V, V, X)
  BY <1>1 DEF Sound, State, Owned
<1>3. /\ b \in Nat /\ z[b] \in Nat /\ z[b] % 2 = 0 /\ b + z[b] \in B \cup {g.brk} /\ z[b] >= 4 /\ g.brk \in Nat
      /\ \A c \in B : c < g.brk
  BY <1>2 DEF Grid, Cell
<1>4. /\ n \in Nat /\ n + 2 <= z[b] /\ a \in Nat /\ a % 2 = 0 /\ a = asize(size) /\ z[b] < a
  <2>1. n \in Nat /\ n + 2 <= z[b] /\ a \in Nat /\ a % 2 = 0 /\ a = asize(size)
    BY RoundsUp DEF Asked
  <2>2. z[b] < a
    BY <1>3, <2>1 DEF AtLeast
  <2>3. QED
    BY <2>1, <2>2
<1>5. PICK e : e = b + z[b]
  OBVIOUS
<1>6. SIZE(g, b) = z[b] /\ NEXT_BLKP(g, b) = e
  <2>1. b \in B \ X
    BY <1>1, <1>2
  <2>2. QED
    BY <1>2, <1>5, <2>1, Reads
<1>7. PICK old : old = z[b]
  OBVIOUS
<1>8. CASE e = g.brk
  <2>1. SIZE(g, e) = 0
    BY <1>2, <1>8, ReadsEnd
  <2>2. PICK words, x, nsize : words = Larger(a - z[b], CHUNKSIZE) /\ x = extend_heap(g, words) /\ nsize = z[b] + words
    OBVIOUS
  <2>3. r = Joined(x, b, size, nsize)
    BY <1>4, <1>6, <2>1, <2>2 DEF Grow
  <2>4. words \in Nat /\ 4 <= words /\ words % 2 = 0
    <3>1. a - z[b] \in Nat /\ (a - z[b]) % 2 = 0
      BY <1>3, <1>4
    <3>2. QED
      BY <2>2, <3>1, HeapAssumption DEF Larger
  <2>5. Extends(g, B, z, V, e, words, x)
    BY <1>8, <2>2, <2>4, ExtendsHeap
  <2>6. CASE Answer(x, g, NULL) /\ NoRoom(e, words)
    <3>1. Answer(r, g, 0)
      BY <2>3, <2>6, Places DEF Joined, Answer
    <3>5. Refusal(g, b, a)
      <4>1. NoMore(g, a - z[b])
        BY <1>3, <1>8, <2>2, <2>4, <2>6 DEF NoRoom, NoMore
      <4>2. QED
        BY <1>6, <2>1, <4>1 DEF Stuck, Refusal
    <3>2. \A c \in B \ V : c \in B \ V /\ z[c] = z[c]
      OBVIOUS
    <3>3. Kept(g, z, g, B, z, V, B \ V)
      BY <3>2, KeptRegrid
    <3>4. QED
      BY <3>1, <3>3, <3>5 DEF Unserved, Serves
  <2>7. CASE ~(Answer(x, g, NULL) /\ NoRoom(e, words))
    <3>1. PICK t, p, B1, z1, V1 :
                 /\ Answer(x, t, p) /\ Served(g, B, z, V, words, t, p, B1, z1, V1)
                 /\ NoneBefore(z, V, e) => p = e /\ (words % 2 = 0 => z1[p] = words)
      BY <2>5, <2>7 DEF Extends
    <3>2. Sound(t, B1, z1, V1) /\ p \in V1 /\ Kept(g, z, t, B1, z1, V1, B \ V)
      BY <3>1 DEF Served
    <3>3. NoneBefore(z, V, e)
      BY <1>2, <1>5, Neighbours DEF NoneBefore, Parts
    <3>4. p = e /\ z1[p] = words
      BY <2>4, <3>1, <3>3
    <3>5. b \in B1 \ V1 /\ z1[b] = z[b]
      BY <1>2, <3>2 DEF Kept
    <3>6. Taking(t, B1, z1, V1, b, p, nsize)
      BY <1>2, <1>5, <2>2, <3>2, <3>4, <3>5 DEF Taking, Owned
    <3>7. Asked(z1, b, size, a, n)
      BY <3>5 DEF Asked
    <3>8. Serves(t, B1, z1, V1, b, a, n, r)
      BY <2>3, <3>1, <3>6, <3>7, JoinsOrMoves
    <3>9. QED
      BY <1>2, <1>3, <1>4, <3>2, <3>8, ServesAfter
  <2>8. QED
    BY <2>6, <2>7
<1>9. CASE e # g.brk
  <2>1. e \in B \ X /\ e # 14
    BY <1>1, <1>2, <1>3, <1>5, <1>9 DEF Grid, Cell
  <2>2. SIZE(g, e) = z[e] /\ (IS_FREE(g, HDRP(e)) <=> e \in V) /\ z[e] \in Nat /\ z[e] # 0
    <3>1. SIZE(g, e) = z[e] /\ (IS_FREE(g, HDRP(e)) <=> e \in V)
      BY <1>2, <2>1, Reads
    <3>2. z[e] \in Nat /\ 4 <= z[e]
      BY <1>2, <2>1 DEF Grid, Cell
    <3>3. QED
      BY <3>1, <3>2
  <2>3. CASE e \in V
    <3>1. PICK x, nsize : x = [h |-> g, p |-> e] /\ nsize = z[b] + z[e]
      OBVIOUS
    <3>2. r = Joined(x, b, size, nsize)
      BY <1>6, <2>2, <2>3, <3>1 DEF Grow
    <3>3. Taking(g, B, z, V, b, e, nsize)
      BY <1>5, <2>3, <3>1 DEF Taking
    <3>4. Answer(x, g, e)
      BY <3>1 DEF Answer
    <3>5. QED
      BY <3>2, <3>3, <3>4, JoinsOrMoves
  <2>4. CASE e \notin V
    <3>1. r = Moved(mm_malloc(g, size), b, size, old)
      BY <1>6, <1>7, <2>2, <2>4 DEF Grow, MoveBlock
    <3>2. QED
      BY <1>7, <3>1, MovesBlock DEF Serves
  <2>5. QED
    BY <2>3, <2>4
<1>10. QED
  BY <1>8, <1>9

\* mm_realloc does what it promises.
LEMMA ReallocsBlock ==
  ASSUME NEW g, NEW B, NEW z, NEW V, Sound(g, B, z, V), NEW b, Owned(B, V, b), NEW size, NEW a, NEW n,
         Asked(z, b, size, a, n), NEW r, r = mm_realloc(g, b, size)
  PROVE  Serves(g, B, z, V, b, a, n, r)
<1>1. PICK X : X = {}
  OBVIOUS
<1>2. State(g, B, z, V, V, X) /\ b \in B \ X /\ b # NULL /\ size # 0 /\ a = asize(size)
  <2>1. State(g, B, z, V, V, X) /\ b \in B \ X /\ size # 0 /\ a = asize(size) /\ Grid(B, z, g.brk)
    BY <1>1 DEF Sound, State, Owned, Asked
  <2>2. b # NULL
    BY <2>1, Places DEF Grid, Cell
  <2>3. QED
    BY <2>1, <2>2
<1>3. SIZE(g, b) = z[b]
  BY <1>2, Reads
<1>4. r = IF a <= z[b] THEN Shrink(g, b, a) ELSE Grow(g, b, size)
  BY <1>2, <1>3 DEF mm_realloc
<1>5. CASE AtLeast(a, z, b)
  <2>1. r = Shrink(g, b, a)
    BY <1>4, <1>5 DEF AtLeast
  <2>2. QED
    BY <1>5, <2>1, ShrinksBlock DEF Serves
<1>6. CASE ~AtLeast(a, z, b)
  <2>1. r = Grow(g, b, size)
    BY <1>4, <1>6 DEF AtLeast
  <2>2. QED
    BY <1>6, <2>1, GrowsBlock
<1>7. QED
  BY <1>5, <1>6

(***************************************************************************)
(* The start of a heap.                                                    *)
(***************************************************************************)
\* After mem_reset_brk; the memory holds a first chunk; mm_init succeeds, unless it does not.
Emptied(g) == g \in Heaps /\ g.brk = 2
Roomy == 14 + CHUNKSIZE <= MAX_HEAP
Starts(r) ==
  \/ r.p = 0 /\ r.h \in Heaps /\ ~Roomy
  \/ \E t, p, B, z, V : Answer(r, t, p) /\ p # 0 /\ Sound(t, B, z, V)

\* mem_sbrk that fails changes nothing.
Refused(g, b, size, s) == b + size > MAX_HEAP + 2 => s.h = g
\* mem_sbrk that fails changes nothing.
LEMMA SbrkRefuses ==
  ASSUME NEW g \in Heaps, NEW size \in Nat, NEW b, b = g.brk, NEW s, s = mem_sbrk(g, size)
  PROVE  Refused(g, b, size, s)
<1>1. mem_max_addr = MAX_HEAP + 2 /\ b \in Nat /\ Failed = -1
  BY Places DEF Heaps, Failed
<1>2. QED
  BY <1>1, Places DEF mem_sbrk, Refused

\* The prologue is tagged as a block, the heads of the lists are empty.
Founded(t) ==
  /\ t \in Heaps /\ t.brk = 16 /\ 14 <= MAX_HEAP
  /\ \A i \in 0 .. 9 : t.m[2 + i] = 0
  /\ t.m[13] = 3 /\ t.m[14] = 3 /\ t.m[15] = 1
\* Such a heap is sound, with the prologue its only block.
LEMMA FoundedIsSound ==
  ASSUME NEW t, Founded(t), NEW B, B = {14}, NEW z, z = [b \in B |-> 2], NEW V, V = {}
  PROVE  Sound(t, B, z, V)
<1>1. /\ t \in Heaps /\ t.brk = 16 /\ 14 <= MAX_HEAP /\ MAX_HEAP \in Nat
  BY Places DEF Founded
<1>2. z[14] = 2 /\ z \in [B -> Nat] /\ \A b : b \in B <=> b = 14
  OBVIOUS
<1>3. Grid(B, z, t.brk)
  <2>1. \A b \in B : Cell(B, z, 16, b)
    BY <1>2 DEF Cell
  <2>2. \A b, c \in B : b < c => b + z[b] <= c
    BY <1>2
  <2>3. \A c \in B \cup {16} : c # 14 => \E b \in B : b + z[b] = c
    BY <1>2
  <2>4. QED
    BY <1>1, <1>2, <2>1, <2>2, <2>3 DEF Grid
<1>4. PICK X : X = {}
  OBVIOUS
<1>5. Parts(B, V, V, X)
  BY <1>4 DEF Parts
<1>6. Cells(t, B \ X, z, V)
  BY <1>2, <1>4 DEF Cells, Word, Founded
<1>7. Epilogue(t)
  BY <1>1 DEF Epilogue, Founded
<1>8. \E rank : Linked(t, V, z, rank)
  <2>1. \A i \in Lists : First(t, i) = 0
    BY Places DEF Founded, First, Lists
  <2>2. PICK rank : rank = [b \in V |-> 0]
    OBVIOUS
  <2>3. rank \in [V -> Nat]
    BY <2>2
  <2>4. Linked(t, V, z, rank)
    BY <2>1, <2>3 DEF Linked, First1
  <2>5. QED
    BY <2>4
<1>9. Apart(z, V)
  BY DEF Apart
<1>10. State(t, B, z, V, V, X)
  BY <1>1, <1>3, <1>5, <1>6, <1>7, <1>8 DEF State
<1>11. QED
  BY <1>4, <1>9, <1>10 DEF Sound

Founds(r) ==
  \/ r.p = 0 /\ r.h \in Heaps /\ ~(14 <= MAX_HEAP)
  \/ \E t : Founded(t) /\ r = extend_heap(t, CHUNKSIZE)

\* mm_init lays the foundation and asks for a chunk, or the memory is too small for one.
LEMMA InitsFound ==
  ASSUME NEW g, Emptied(g), NEW r, r = mm_init(g)
  PROVE  Founds(r)
<1>1. g \in Heaps /\ g.brk = 2 /\ MAX_HEAP \in Nat
  BY Places DEF Emptied
<1>2. PICK lists, b : lists = mem_sbrk(g, 10) /\ b = g.brk
  OBVIOUS
<1>3. Sbrked(g, b, 10, lists) /\ b = 2
  <2>1. 10 \in Nat
    OBVIOUS
  <2>2. Sbrked(g, b, 10, lists)
    BY <1>1, <1>2, <2>1, Sbrks
  <2>3. QED
    BY <1>1, <1>2, <2>2
<1>4. PICK mid : mid = [lists.h EXCEPT !.m = [w \in Memory |->
                 IF w \in HEAD(0) .. HEAD(9) THEN NULL ELSE @[w]]]
  OBVIOUS
<1>5. PICK pro : pro = mem_sbrk(mid, 4)
  OBVIOUS
<1>6. PICK g1, g2, g3, t : /\ g1 = PUT(pro.h, pro.p, 0) /\ g2 = PUT(g1, pro.p + 1, PACK(2, 1))
                           /\ g3 = PUT(g2, pro.p + 2, PACK(2, 1)) /\ t = PUT(g3, pro.p + 3, PACK(0, 1))
  OBVIOUS
<1>7. r = CASE lists.p = -1 -> [h |-> g, p |-> 0]
            [] lists.p # -1 /\ pro.p = -1 -> [h |-> pro.h, p |-> 0]
            [] OTHER -> extend_heap(t, CHUNKSIZE)
  <2>1. free_list_size = 10 /\ free_list_size - 1 = 9 /\ NULL = 0 /\ DSIZE = 2
    BY Places
  <2>2. QED
    BY <1>2, <1>4, <1>5, <1>6, <2>1 DEF mm_init, Failed
<1>8. CASE b + 10 > MAX_HEAP + 2
  <2>1. lists.p = -1
    BY <1>3, <1>8 DEF Sbrked
  <2>2. ~(14 <= MAX_HEAP)
    BY <1>1, <1>3, <1>8
  <2>3. QED
    BY <1>1, <1>7, <2>1, <2>2 DEF Founds
<1>9. CASE ~(b + 10 > MAX_HEAP + 2)
  <2>1. lists.h = Longer(g, 10) /\ lists.p = 2
    BY <1>3, <1>9 DEF Sbrked
  <2>2. lists.h.m = g.m /\ lists.h.brk = 12 /\ g.m \in [Memory -> Nat] /\ lists.h \in Heaps
    BY <1>1, <2>1 DEF Longer, Heaps
  <2>3. /\ mid \in Heaps /\ mid.brk = 12 /\ \A w \in Memory : w \in 2 .. 11 => mid.m[w] = 0
    <3>1. PICK m : m = [w \in Memory |-> IF w \in HEAD(0) .. HEAD(9) THEN NULL ELSE g.m[w]]
      OBVIOUS
    <3>2. HEAD(0) = 2 /\ HEAD(9) = 11
      BY Places
    <3>3. m \in [Memory -> Nat] /\ \A w \in Memory : w \in 2 .. 11 => m[w] = 0
      BY <2>2, <3>1, <3>2, Places
    <3>4. mid = [lists.h EXCEPT !.m = m]
      BY <1>4, <2>2, <3>1
    <3>5. mid.m = m /\ mid.brk = 12 /\ mid \in Heaps
      BY <2>2, <3>3, <3>4 DEF Heaps
    <3>6. QED
      BY <3>3, <3>5
  <2>4. PICK c : c = mid.brk
    OBVIOUS
  <2>5. Sbrked(mid, c, 4, pro) /\ Refused(mid, c, 4, pro) /\ c = 12
    <3>1. 4 \in Nat
      OBVIOUS
    <3>2. Sbrked(mid, c, 4, pro)
      BY <1>5, <2>3, <2>4, <3>1, Sbrks
    <3>3. Refused(mid, c, 4, pro)
      BY <1>5, <2>3, <2>4, <3>1, SbrkRefuses
    <3>4. QED
      BY <2>3, <2>4, <3>2, <3>3
  <2>6. CASE c + 4 > MAX_HEAP + 2
    <3>1. pro.p = -1 /\ pro.h = mid
      BY <2>5, <2>6 DEF Sbrked, Refused
    <3>2. ~(14 <= MAX_HEAP)
      BY <1>1, <2>5, <2>6
    <3>3. QED
      BY <1>7, <2>1, <2>3, <3>1, <3>2 DEF Founds
  <2>7. CASE ~(c + 4 > MAX_HEAP + 2)
    <3>1. pro.h = Longer(mid, 4) /\ pro.p = 12 /\ 14 <= MAX_HEAP
      BY <1>1, <2>5, <2>7 DEF Sbrked
    <3>2. PICK s : s = pro.h
      OBVIOUS
    <3>3. s \in Heaps /\ s.brk = 16 /\ s.m = mid.m
      BY <2>3, <3>1, <3>2 DEF Longer, Heaps
    <3>4. \A w \in 2 .. 15 : w \in Memory
      BY <1>1, <3>1, Places
    <3>5. Changed(s, g1, {12})
      BY <1>6, <3>1, <3>2, <3>3, <3>4, PutChanges
    <3>6. Changed(g1, g2, {13}) /\ g2.m[13] = 3
      <4>1. g1 \in Heaps /\ g2 = PUT(g1, 13, 3)
        BY <1>6, <3>1, <3>5 DEF Changed, PACK
      <4>2. QED
        BY <3>4, <4>1, PutChanges
    <3>7. Changed(g2, g3, {14}) /\ g3.m[14] = 3
      <4>1. g2 \in Heaps /\ g3 = PUT(g2, 14, 3)
        BY <1>6, <3>1, <3>6 DEF Changed, PACK
      <4>2. QED
        BY <3>4, <4>1, PutChanges
    <3>8. Changed(g3, t, {15}) /\ t.m[15] = 1
      <4>1. g3 \in Heaps /\ t = PUT(g3, 15, 1)
        BY <1>6, <3>1, <3>7 DEF Changed, PACK
      <4>2. QED
        BY <3>4, <4>1, PutChanges
    <3>9. t.m[13] = 3 /\ t.m[14] = 3 /\ t.m[15] = 1 /\ t \in Heaps /\ t.brk = 16
      <4>1. t.m[13] = g3.m[13] /\ g3.m[13] = g2.m[13] /\ t.m[14] = g3.m[14]
        BY <3>4, <3>7, <3>8 DEF Changed
      <4>2. QED
        BY <3>3, <3>5, <3>6, <3>7, <3>8, <4>1 DEF Changed
    <3>10. \A i \in 0 .. 9 : t.m[2 + i] = 0
      <4>1. \A w \in 2 .. 11 : t.m[w] = mid.m[w]
        <5>1. ASSUME NEW w \in 2 .. 11
              PROVE  t.m[w] = mid.m[w]
          <6>1. w \in Memory \ {12} /\ w \in Memory \ {13} /\ w \in Memory \ {14} /\ w \in Memory \ {15}
            BY <3>4
          <6>2. QED
            BY <3>3, <3>5, <3>6, <3>7, <3>8, <6>1 DEF Changed
        <5>2. QED
          BY <5>1
      <4>2. \A w \in 2 .. 11 : mid.m[w] = 0
        BY <2>3, <3>4
      <4>3. QED
        BY <4>1, <4>2
    <3>11. Founded(t)
      BY <3>1, <3>9, <3>10 DEF Founded
    <3>12. r = extend_heap(t, CHUNKSIZE)
      BY <1>7, <2>1, <3>1
    <3>13. QED
      BY <3>11, <3>12 DEF Founds
  <2>8. QED
    BY <2>6, <2>7
<1>10. QED
  BY <1>8, <1>9

\* mm_init makes a sound heap, and succeeds when the memory holds a first chunk.
LEMMA Inits ==
  ASSUME NEW g, Emptied(g), NEW r, r = mm_init(g)
  PROVE  Starts(r)
<1>1. Founds(r) /\ MAX_HEAP \in Nat
  BY InitsFound, Places
<1>2. CASE r.p = 0 /\ r.h \in Heaps /\ ~(14 <= MAX_HEAP)
  BY <1>1, <1>2, HeapAssumption DEF Starts, Roomy
<1>3. ASSUME NEW t, Founded(t), r = extend_heap(t, CHUNKSIZE)
      PROVE  Starts(r)
  <2>1. PICK B, z, V : B = {14} /\ z = [d \in B |-> 2] /\ V = {}
    OBVIOUS
  <2>2. Sound(t, B, z, V)
    BY <1>3, <2>1, FoundedIsSound
  <2>3. r = extend_heap(t, CHUNKSIZE)
    BY <1>3
  <2>4. PICK e, words : e = t.brk /\ words = CHUNKSIZE
    OBVIOUS
  <2>5. words \in Nat /\ 4 <= words /\ r = extend_heap(t, words)
    BY <2>3, <2>4, HeapAssumption
  <2>6. Extends(t, B, z, V, e, words, r)
    BY <2>2, <2>4, <2>5, ExtendsHeap
  <2>7. CASE Answer(r, t, NULL)
    <3>1. NoRoom(e, words)
      <4>1. ASSUME NEW u, NEW p, NEW B1, NEW z1, NEW V1, Answer(r, u, p), Served(t, B, z, V, words, u, p, B1, z1, V1)
            PROVE  FALSE
        <5>1. p # 0
          BY <4>1 DEF Served, Sound, State, Parts, Grid, Cell
        <5>2. QED
          BY <2>7, <4>1, <5>1, Places DEF Answer
      <4>2. QED
        BY <2>6, <4>1 DEF Extends
    <3>2. ~Roomy
      <4>1. e = 16 /\ words % 2 = 0 /\ words = CHUNKSIZE
        BY <1>3, <2>4, HeapAssumption DEF Founded
      <4>2. QED
        BY <1>1, <2>5, <3>1, <4>1 DEF NoRoom, Roomy
    <3>3. QED
      BY <1>3, <2>7, <3>2, Places DEF Answer, Starts, Founded
  <2>8. CASE ~Answer(r, t, NULL)
    <3>1. PICK u, p, B1, z1, V1 : Answer(r, u, p) /\ Served(t, B, z, V, words, u, p, B1, z1, V1)
      BY <2>6, <2>8 DEF Extends
    <3>2. Sound(u, B1, z1, V1) /\ p \in V1
      BY <3>1 DEF Served
    <3>3. p # 0
      BY <3>2 DEF Sound, State, Parts, Grid, Cell
    <3>4. QED
      BY <3>1, <3>2, <3>3 DEF Starts
  <2>9. QED
    BY <2>7, <2>8
<1>4. QED
  BY <1>1, <1>2, <1>3 DEF Founds

(***************************************************************************)
(* The walk over the blocks.                                               *)
(***************************************************************************)
\* f goes from block to block.
Walking(B, z, brk, f) ==
  /\ f \in [0 .. MaxBlocks -> B \cup {brk}] /\ f[0] = 14
  /\ \A k \in 1 .. MaxBlocks : f[k] = IF f[k - 1] = brk THEN brk ELSE f[k - 1] + z[f[k - 1]]

\* Walk goes from block to block until it is at the epilogue.
LEMMA Walks ==
  ASSUME NEW g, NEW B, NEW z, NEW V, Sound(g, B, z, V), NEW brk, brk = g.brk
  PROVE  Walking(B, z, brk, Walk(g))
<1> DEFINE n == MaxBlocks
           S == B \cup {brk}
           next(bp) == IF bp = brk THEN brk ELSE bp + z[bp]
           code(p) == IF SIZE(g, p) = 0 \/ NEXT_BLKP(g, p) > g.brk THEN p ELSE NEXT_BLKP(g, p)
           step == [q \in (1 .. n) \X S |-> next(q[2])]
<1>1. n \in Nat
  BY HeapAssumption, Places DEF MaxBlocks
<1>2. PICK X : X = {}
  OBVIOUS
<1>3. State(g, B, z, V, V, X) /\ Grid(B, z, brk) /\ 14 \in B /\ brk \in Nat
  BY <1>2 DEF Sound, State, Grid
<1>4. \A b \in S : next(b) \in S
  <2>1. \A b \in B : b + z[b] \in S
    BY <1>3 DEF Grid, Cell
  <2>2. QED
    BY <2>1
<1>5. step \in [(1 .. n) \X S -> S]
  <2> HIDE DEF next, S
  <2> QED BY <1>4
<1>6. PICK f : Loops(f, n, S, 14, step)
  <2>1. 14 \in S
    BY <1>3
  <2> HIDE DEF step, S, n
  <2> QED BY <1>1, <1>5, <2>1, LoopExists
<1>7. /\ f \in [0 .. n -> S] /\ f[0] = 14
      /\ \A k \in 1 .. n : f[k] = step[<<k, f[k - 1]>>]
  BY <1>6 DEF Loops
<1>8. \A k \in 1 .. n : f[k] = next(f[k - 1])
  <2>1. SUFFICES ASSUME NEW k \in 1 .. n
                 PROVE  f[k] = next(f[k - 1])
    OBVIOUS
  <2>2. PICK x \in S : x = f[k - 1]
    <3> HIDE DEF S
    <3>1. k - 1 \in 0 .. n
      BY <1>1
    <3>2. QED
      BY <1>7, <3>1
  <2>3. f[k] = step[<<k, x>>]
    BY <1>7, <2>2
  <2>4. step[<<k, x>>] = next(x)
    <3> HIDE DEF S, next
    <3> QED OBVIOUS
  <2>5. QED
    BY <2>2, <2>3, <2>4
<1> HIDE DEF step
<1>9. \A b \in S : next(b) = code(b)
  <2>1. ASSUME NEW b \in B
        PROVE  next(b) = code(b)
    <3>1. b \in B \ X
      BY <1>2
    <3>2. SIZE(g, b) = z[b] /\ NEXT_BLKP(g, b) = b + z[b]
      BY <1>3, <3>1, Reads
    <3>3. b \in Nat /\ z[b] \in Nat /\ 2 <= z[b] /\ b + z[b] <= brk /\ b # brk
      BY <1>3 DEF Grid, Cell
    <3>4. z[b] # 0 /\ ~(b + z[b] > g.brk)
      BY <1>3, <3>3
    <3>5. QED
      BY <3>2, <3>3, <3>4
  <2>2. next(brk) = code(brk)
    BY <1>3, ReadsEnd
  <2>3. QED
    BY <2>1, <2>2
<1> DEFINE Is(nd) == nd = [k \in 0 .. MaxBlocks |-> IF k = 0 THEN heap_listp
                           ELSE LET p == nd[k - 1]
                                IN  IF SIZE(g, p) = 0 \/ NEXT_BLKP(g, p) > g.brk THEN p ELSE NEXT_BLKP(g, p)]
<1>10. ASSUME NEW nd, nd \in [0 .. n -> S], nd[0] = 14, \A k \in 1 .. n : nd[k] = next(nd[k - 1])
       PROVE  Is(nd)
  <2> DEFINE body(k) == IF k = 0 THEN heap_listp ELSE code(nd[k - 1])
  <2>1. \A k \in 0 .. n : nd[k] = body(k)
    <3>1. SUFFICES ASSUME NEW k \in 0 .. n
                   PROVE  nd[k] = body(k)
      OBVIOUS
    <3>2. CASE k = 0
      BY <1>10, <3>2, Places
    <3>3. CASE k # 0
      <4>1. k \in 1 .. n /\ k - 1 \in 0 .. n
        BY <1>1, <3>3
      <4>2. PICK x \in S : x = nd[k - 1]
        <5> HIDE DEF S
        <5> QED BY <1>10, <4>1
      <4>3. nd[k] = next(x)
        BY <1>10, <4>1, <4>2
      <4>4. next(x) = code(x)
        <5> HIDE DEF S, next, code
        <5> QED BY <1>9
      <4>5. QED
        BY <3>3, <4>2, <4>3, <4>4
    <3>4. QED
      BY <3>2, <3>3
  <2> HIDE DEF body, S
  <2>2. nd = [k \in 0 .. n |-> body(k)]
    BY <1>10, <2>1
  <2>3. QED
    BY <2>2 DEF body
<1>11. Walk(g) = CHOOSE nd : Is(nd)
  BY DEF Walk
<1>12. ASSUME NEW nd, Is(nd)
       PROVE  nd = f
  <2> DEFINE Bad == {k \in 0 .. n : nd[k] # f[k]}
  <2>2. nd[0] = f[0]
    BY <1>1, <1>7, <1>12, Places
  <2>3. \A k \in 1 .. n : nd[k - 1] = f[k - 1] => nd[k] = f[k]
    <3>1. SUFFICES ASSUME NEW k \in 1 .. n, nd[k - 1] = f[k - 1]
                   PROVE  nd[k] = f[k]
      OBVIOUS
    <3>2. k \in 0 .. n /\ k # 0 /\ k - 1 \in 0 .. n
      BY <1>1
    <3>3. PICK x \in S : x = nd[k - 1] /\ x = f[k - 1]
      <4> HIDE DEF S, Is
      <4> QED BY <1>7, <3>1, <3>2
    <3>4. nd[k] = code(x)
      BY <1>12, <3>2, <3>3
    <3>5. f[k] = next(x)
      BY <1>8, <3>3
    <3>6. QED
      <4> HIDE DEF S, next, code
      <4> QED BY <1>9, <3>3, <3>4, <3>5
  <2>4. Bad = {}
    <3>1. SUFFICES ASSUME Bad # {}
                   PROVE  FALSE
      OBVIOUS
    <3>2. PICK k \in Bad : \A j \in Bad : k <= j
      <4>1. Bad \in SUBSET Nat
        BY <1>1
      <4> HIDE DEF Bad
      <4> QED BY <3>1, <4>1, SmallestExists
    <3>3. k \in 1 .. n /\ k - 1 \in 0 .. n /\ k - 1 \notin Bad
      BY <1>1, <2>2, <3>2
    <3>4. QED
      BY <2>3, <3>2, <3>3
  <2>5. QED
    <3>1. \A k \in 0 .. n : nd[k] = f[k]
      BY <2>4
    <3>2. nd = [k \in 0 .. n |-> nd[k]]
      BY <1>12
    <3> HIDE DEF Is, S
    <3>3. QED
      BY <1>7, <3>1, <3>2
<1>13. Is(f)
  <2> HIDE DEF Is, next, S
  <2> QED BY <1>7, <1>8, <1>10
<1>14. Walk(g) = f
  <2> HIDE DEF Is
  <2> QED BY <1>11, <1>12, <1>13
<1>15. QED
  BY <1>7, <1>8, <1>14 DEF Walking

\* Each step of a walk is a block of four words at least.
LEMMA WalkClimbs ==
  ASSUME NEW B, NEW z, NEW brk, Grid(B, z, brk), NEW f, Walking(B, z, brk, f), NEW k \in 0 .. MaxBlocks, f[k] # brk
  PROVE  12 + 4 * k <= f[k]
<1> DEFINE n == MaxBlocks
           Bad == {j \in 0 .. n : f[j] # brk /\ ~(12 + 4 * j <= f[j])}
<1>1. n \in Nat
  BY HeapAssumption, Places DEF MaxBlocks
<1>2. /\ f \in [0 .. n -> B \cup {brk}] /\ f[0] = 14
      /\ \A j \in 1 .. n : f[j] = IF f[j - 1] = brk THEN brk ELSE f[j - 1] + z[f[j - 1]]
  BY DEF Walking
<1>3. ASSUME NEW j \in Bad
      PROVE  \E l \in Bad : l < j
  <2>1. j # 0
    BY <1>2
  <2>2. j \in 1 .. n /\ j - 1 \in 0 .. n
    BY <1>1, <2>1
  <2>3. PICK b : b = f[j - 1]
    OBVIOUS
  <2>4. b \in B /\ b # brk /\ f[j] = b + z[b]
    BY <1>2, <1>3, <2>2, <2>3
  <2>5. b \in Nat /\ z[b] \in Nat /\ 14 <= b /\ (b # 14 => 4 <= z[b]) /\ z[14] = 2
    BY <2>4 DEF Grid, Cell
  <2>6. ~(12 + 4 * j <= b + z[b]) /\ j \in Nat /\ 1 <= j
    BY <1>3, <2>2, <2>4
  <2>7. ~(12 + 4 * (j - 1) <= b)
    <3>1. CASE b = 14
      BY <2>2, <2>5, <2>6, <3>1
    <3>2. CASE b # 14
      BY <2>5, <2>6, <3>2
    <3>3. QED
      BY <3>1, <3>2
  <2>8. j - 1 \in Bad
    BY <2>2, <2>3, <2>4, <2>7
  <2>9. QED
    BY <2>6, <2>8
<1>4. Bad = {}
  <2>1. Bad \in SUBSET Nat
    OBVIOUS
  <2>2. \A j \in Bad, l \in Bad : j \in Nat /\ l \in Nat
    OBVIOUS
  <2> HIDE DEF Bad
  <2>3. QED
    BY <1>3, <2>1, <2>2, SmallestExists
<1>5. QED
  BY <1>4

\* Blocks meets every block and the epilogue.
LEMMA BlocksAre ==
  ASSUME NEW g, NEW B, NEW z, NEW V, Sound(g, B, z, V), NEW brk, brk = g.brk
  PROVE  Blocks(g) = B \cup {brk}
<1> DEFINE n == MaxBlocks
<1>1. n \in Nat /\ MAX_HEAP \in Nat /\ n = MAX_HEAP \div 4
  BY HeapAssumption, Places DEF MaxBlocks
<1>2. PICK f : f = Walk(g)
  OBVIOUS
<1>3. Walking(B, z, brk, f) /\ Grid(B, z, brk)
  BY <1>2, Walks DEF Sound, State
<1>4. /\ f \in [0 .. n -> B \cup {brk}] /\ f[0] = 14
      /\ \A j \in 1 .. n : f[j] = IF f[j - 1] = brk THEN brk ELSE f[j - 1] + z[f[j - 1]]
  BY <1>3 DEF Walking
<1>5. brk \in Nat /\ brk <= MAX_HEAP + 2 /\ \A b \in B : b \in Nat /\ z[b] \in Nat /\ 2 <= z[b] /\ b + z[b] <= brk
  BY <1>3 DEF Grid, Cell
<1>6. Blocks(g) = {f[k] : k \in 0 .. n}
  BY <1>2 DEF Blocks
<1>7. f[n] = brk
  <2>1. SUFFICES ASSUME f[n] # brk
                 PROVE  FALSE
    OBVIOUS
  <2>2. n \in 0 .. n
    BY <1>1
  <2>3. 12 + 4 * n <= f[n]
    BY <1>3, <2>1, <2>2, WalkClimbs
  <2>4. PICK b \in B : b = f[n]
    BY <1>4, <2>1, <2>2
  <2>5. 12 + 4 * n <= b /\ b \in Nat /\ b <= MAX_HEAP
    <3>1. b \in Nat /\ z[b] \in Nat /\ 2 <= z[b] /\ b + z[b] <= brk
      BY <1>5
    <3>2. QED
      BY <1>1, <1>5, <2>3, <2>4, <3>1
  <2>6. MAX_HEAP <= 4 * (MAX_HEAP \div 4) + 3
    BY <1>1
  <2>7. QED
    BY <1>1, <2>5, <2>6
<1> DEFINE Missed == {c \in B \cup {brk} : ~\E k \in 0 .. n : f[k] = c}
<1>8. ASSUME NEW c \in Missed
      PROVE  \E b \in Missed : b < c
  <2>1. c # 14 /\ c # brk
    <3>1. 0 \in 0 .. n /\ n \in 0 .. n
      BY <1>1
    <3>2. QED
      BY <1>4, <1>7, <1>8, <3>1
  <2>2. PICK b \in B : b + z[b] = c
    BY <1>3, <1>8, <2>1 DEF Grid
  <2>3. b < c
    BY <1>5, <2>2
  <2>4. ASSUME NEW k \in 0 .. n, f[k] = b
        PROVE  FALSE
    <3>1. b # brk
      BY <1>5
    <3>2. k # n
      BY <1>7, <2>4, <3>1
    <3>3. PICK j : j = k + 1
      OBVIOUS
    <3>4. j \in 1 .. n /\ j \in 0 .. n /\ j - 1 = k
      BY <1>1, <3>2, <3>3
    <3>5. f[j] = c
      <4>1. f[j] = IF f[k] = brk THEN brk ELSE f[k] + z[f[k]]
        BY <1>4, <3>4
      <4>2. QED
        BY <2>2, <2>4, <3>1, <4>1
    <3>6. QED
      BY <1>8, <3>4, <3>5
  <2>5. QED
    BY <2>3, <2>4
<1>9. Missed = {}
  <2>1. Missed \in SUBSET Nat
    BY <1>5
  <2>2. \A b \in Missed : b \in Nat
    BY <2>1
  <2> HIDE DEF Missed
  <2>3. QED
    BY <1>8, <2>1, <2>2, SmallestExists
<1>10. \A k \in 0 .. n : f[k] \in B \cup {brk}
  BY <1>4
<1>11. QED
  BY <1>6, <1>9, <1>10

(***************************************************************************)
(* A heap that is sound is what the checker asks for.                      *)
(***************************************************************************)
\* A sound heap is tagged, coalesced and listed.
LEMMA SoundChecks ==
  ASSUME NEW g, NEW B, NEW z, NEW V, Sound(g, B, z, V)
  PROVE  Tagged(g) /\ Coalesced(g) /\ Listed(g)
<1>1. PICK X, brk : X = {} /\ brk = g.brk
  OBVIOUS
<1>2. /\ State(g, B, z, V, V, X) /\ Apart(z, V) /\ Grid(B, z, brk) /\ Cells(g, B, z, V) /\ Epilogue(g)
      /\ V \subseteq B /\ brk \in Nat
  <2>1. B \ {} = B
    OBVIOUS
  <2>2. QED
    BY <1>1, <2>1 DEF Sound, State, Parts, Grid
<1>3. Blocks(g) = B \cup {brk} /\ brk \notin B
  <2>1. Blocks(g) = B \cup {brk}
    BY <1>1, BlocksAre
  <2>2. brk \notin B
    BY <1>2 DEF Grid, Cell
  <2>3. QED
    BY <2>1, <2>2
<1>4. Blocks(g) \ {g.brk} = B
  BY <1>1, <1>3
<1>5. ASSUME NEW b \in B
      PROVE  /\ SIZE(g, b) = z[b] /\ (IS_FREE(g, HDRP(b)) <=> b \in V)
             /\ FTRP(g, b) = b + z[b] - 2 /\ NEXT_BLKP(g, b) = b + z[b]
  <2>1. b \in B \ X
    BY <1>1
  <2>2. PICK w : w = b + z[b] - 2
    OBVIOUS
  <2>3. FTRP(g, b) = w
    <3>1. PICK c : c = b + z[b]
      OBVIOUS
    <3>2. b \in Nat /\ z[b] \in Nat
      BY <1>2 DEF Grid, Cell
    <3>3. w = c - 2
      BY <2>2, <3>1, <3>2
    <3>4. QED
      BY <1>2, <2>1, <3>1, <3>3, Reads
  <2>4. SIZE(g, b) = z[b] /\ (IS_FREE(g, HDRP(b)) <=> b \in V) /\ NEXT_BLKP(g, b) = b + z[b]
    BY <1>2, <2>1, Reads
  <2>5. QED
    BY <2>2, <2>3, <2>4
<1>6. Tagged(g)
  <2>1. g.m[g.brk - 1] = PACK(0, 1) /\ g.brk \in Blocks(g)
    BY <1>1, <1>2, <1>3 DEF Epilogue, PACK
  <2>2. \A b \in B : g.m[FTRP(g, b)] = g.m[HDRP(b)]
    BY <1>2, <1>5 DEF Cells, HDRP
  <2>3. QED
    BY <1>4, <2>1, <2>2 DEF Tagged
<1>7. Coalesced(g)
  <2>1. ASSUME NEW b \in B, b \in V
        PROVE  ~IS_FREE(g, HDRP(NEXT_BLKP(g, b)))
    <3>1. PICK c : c = b + z[b]
      OBVIOUS
    <3>2. NEXT_BLKP(g, b) = c /\ c \notin V /\ c \in B \cup {brk}
      BY <1>2, <1>5, <2>1, <3>1 DEF Apart, Grid, Cell
    <3>3. CASE c \in B
      BY <1>5, <3>2, <3>3
    <3>4. CASE c = brk
      BY <1>1, <1>2, <3>2, <3>4, ReadsEnd
    <3>5. QED
      BY <3>2, <3>3, <3>4
  <2>2. QED
    BY <1>4, <1>5, <2>1 DEF Coalesced
<1>8. Listed(g)
  <2>1. ASSUME NEW i \in 0 .. 9
        PROVE  LET node == Node(g, i)
                   list == {k \in 0 .. MaxBlocks : node[k] # NULL}
               IN  /\ \A j, k \in list : node[j] = node[k] => j = k
                   /\ {node[k] : k \in list} = FreeOf(g, i)
                   /\ \A k \in list : PRED(g, node[k]) = IF k = 0 THEN NULL ELSE node[k - 1]
    <3>1. PICK nd : nd = Node(g, i)
      OBVIOUS
    <3>2. Listing(g, V, z, i, nd)
      <4>1. i \in Lists
        BY DEF Lists
      <4>2. QED
        BY <3>1, <4>1, ListsAll
    <3>3. FreeOf(g, i) = {b \in V : Idx(z, b) = i}
      <4>1. FreeOf(g, i) = {b \in B : IS_FREE(g, HDRP(b)) /\ get_free_list_idx(SIZE(g, b)) = i}
        BY <1>4 DEF FreeOf
      <4>2. \A b \in B : get_free_list_idx(SIZE(g, b)) = Idx(z, b)
        BY <1>5 DEF Idx
      <4>3. QED
        BY <1>2, <1>5, <4>1, <4>2
    <3>4. PICK list : list = {k \in 0 .. MaxBlocks : nd[k] # NULL}
      OBVIOUS
    <3>5. {nd[k] : k \in list} = {b \in V : Idx(z, b) = i}
      <4>1. \A k \in list : nd[k] \in V /\ Idx(z, nd[k]) = i
        BY <3>2, <3>4, Places DEF Listing
      <4>2. \A b \in V : Idx(z, b) = i => \E k \in list : nd[k] = b
        BY <3>2, <3>4, Places DEF Listing
      <4>3. QED
        BY <4>1, <4>2
    <3>6. \A j, k \in list : nd[j] = nd[k] => j = k
      BY <3>2, <3>4, Places DEF Listing
    <3>7. \A k \in list : PRED(g, nd[k]) = IF k = 0 THEN NULL ELSE nd[k - 1]
      BY <3>2, <3>4, Places DEF Listing
    <3>8. QED
      BY <3>1, <3>3, <3>4, <3>5, <3>6, <3>7
  <2>2. free_list_size - 1 = 9
    BY Places
  <2>3. QED
    BY <2>1, <2>2 DEF Listed
<1>9. QED
  BY <1>6, <1>7, <1>8

(***************************************************************************)
(* The caller's side: block i of the set L is at bl[i] and has sz[i] words *)
(* of data.                                                                *)
(***************************************************************************)
\* L holds blocks that are allocated, of their sizes and different.
Held(B, z, V, L, bl, sz) ==
  /\ \A i \in L : Owned(B, V, bl[i]) /\ sz[i] \in Nat /\ sz[i] # 0 /\ AtLeast(asize(sz[i]), z, bl[i])
  /\ \A i, j \in L : i # j => bl[i] # bl[j]
\* What the caller may rely on.
Good(g, L, bl, sz) == \E B, z, V : Sound(g, B, z, V) /\ Held(B, z, V, L, bl, sz)
Undisturbed(g, t, L, bl, sz) == \A j \in L : SameData(g, bl[j], t, bl[j], sz[j])
Table(I, L, bl, sz) == bl \in [I -> Nat] /\ sz \in [I -> Nat] /\ \A i \in L : i \in I

\* A range of data within the heap; two ranges apart.
Inside(g, b, n) == b \in Nat /\ n \in Nat /\ n # 0 /\ b % 2 = 0 /\ 16 <= b /\ b + n < g.brk
Clear(b, n, c, m) == b + n <= c \/ c + m <= b
\* Blocks are aligned, within the heap and apart.
GoodFor(g, L, bl, sz) ==
  /\ g \in Heaps /\ g.brk <= MAX_HEAP + 2
  /\ \A i \in L : Inside(g, bl[i], sz[i])
  /\ \A i, j \in L : i # j => Clear(bl[i], sz[i], bl[j], sz[j])
\* The blocks of a caller are aligned, within the heap and apart.
LEMMA GoodBlocks ==
  ASSUME NEW g, NEW L, NEW bl, NEW sz, Good(g, L, bl, sz)
  PROVE  GoodFor(g, L, bl, sz)
<1>1. PICK B, z, V : Sound(g, B, z, V) /\ Held(B, z, V, L, bl, sz)
  BY DEF Good
<1>2. g \in Heaps /\ Grid(B, z, g.brk) /\ g.brk \in Nat /\ g.brk <= MAX_HEAP + 2
  BY <1>1 DEF Sound, State, Grid
<1>3. ASSUME NEW i \in L
      PROVE  /\ bl[i] \in B /\ bl[i] \in Nat /\ sz[i] \in Nat /\ sz[i] # 0 /\ bl[i] % 2 = 0 /\ 16 <= bl[i]
             /\ z[bl[i]] \in Nat /\ sz[i] + 2 <= z[bl[i]] /\ bl[i] + z[bl[i]] <= g.brk
  <2>1. PICK b, n, a : b = bl[i] /\ n = sz[i] /\ a = asize(n)
    OBVIOUS
  <2>2. b \in B /\ b # 14 /\ n \in Nat /\ n # 0 /\ a <= z[b]
    BY <1>1, <1>3, <2>1 DEF Held, Owned, AtLeast
  <2>3. a \in Nat /\ n + 2 <= a
    BY <2>1, <2>2, RoundsUp
  <2>4. b \in Nat /\ b % 2 = 0 /\ 14 <= b /\ z[b] \in Nat /\ b + z[b] <= g.brk
    BY <1>2, <2>2 DEF Grid, Cell
  <2>5. 16 <= b /\ n + 2 <= z[b]
    BY <2>2, <2>3, <2>4
  <2>6. QED
    BY <2>1, <2>2, <2>4, <2>5
<1>4. ASSUME NEW i \in L
      PROVE  Inside(g, bl[i], sz[i])
  <2>1. PICK b, n : b = bl[i] /\ n = sz[i]
    OBVIOUS
  <2>2. /\ b \in Nat /\ n \in Nat /\ n # 0 /\ b % 2 = 0 /\ 16 <= b
        /\ z[b] \in Nat /\ n + 2 <= z[b] /\ b + z[b] <= g.brk
    BY <1>3, <2>1
  <2>3. b + n < g.brk
    BY <1>2, <2>2
  <2>4. QED
    BY <2>1, <2>2, <2>3 DEF Inside
<1>5. ASSUME NEW i \in L, NEW j \in L, i # j
      PROVE  Clear(bl[i], sz[i], bl[j], sz[j])
  <2>1. PICK b, n, c, m : b = bl[i] /\ n = sz[i] /\ c = bl[j] /\ m = sz[j]
    OBVIOUS
  <2>2. b # c
    BY <1>1, <1>5, <2>1 DEF Held
  <2>3. /\ b \in B /\ b \in Nat /\ n \in Nat /\ z[b] \in Nat /\ n + 2 <= z[b]
        /\ c \in B /\ c \in Nat /\ m \in Nat /\ z[c] \in Nat /\ m + 2 <= z[c]
    BY <1>3, <2>1
  <2>4. (b < c => b + z[b] <= c) /\ (c < b => c + z[c] <= b)
    BY <1>2, <2>3 DEF Grid
  <2>5. b + n <= c \/ c + m <= b
    BY <2>2, <2>3, <2>4
  <2>6. QED
    BY <2>1, <2>5 DEF Clear
<1>6. QED
  BY <1>2, <1>4, <1>5 DEF GoodFor

\* The caller keeps what an operation keeps.
LEMMA HeldStays ==
  ASSUME NEW g, NEW B, NEW z, NEW V, Sound(g, B, z, V), NEW L, NEW bl, NEW sz, Held(B, z, V, L, bl, sz),
         NEW t, NEW B1, NEW z1, NEW V1, NEW A, Kept(g, z, t, B1, z1, V1, A),
         NEW M, \A j \in M : j \in L /\ bl[j] \in A
  PROVE  Held(B1, z1, V1, M, bl, sz) /\ Undisturbed(g, t, M, bl, sz)
<1>1. ASSUME NEW j \in M
      PROVE  /\ Owned(B1, V1, bl[j]) /\ sz[j] \in Nat /\ sz[j] # 0 /\ AtLeast(asize(sz[j]), z1, bl[j])
             /\ SameData(g, bl[j], t, bl[j], sz[j])
  <2>1. PICK b, n, a : b = bl[j] /\ n = sz[j] /\ a = asize(n)
    OBVIOUS
  <2>2. b # 14 /\ n \in Nat /\ n # 0 /\ a <= z[b] /\ b \in A
    BY <1>1, <2>1 DEF Held, Owned, AtLeast
  <2>3. b \in B1 \ V1 /\ z1[b] = z[b] /\ \A w \in Own(z, b) : t.m[w] = g.m[w]
    BY <2>2 DEF Kept
  <2>4. Owned(B1, V1, b) /\ AtLeast(a, z1, b)
    BY <2>2, <2>3 DEF Owned, AtLeast
  <2>5. SameData(g, b, t, b, n)
    <3>1. b \in Nat /\ z[b] \in Nat
      <4>1. b \in B
        BY <1>1, <2>1 DEF Held, Owned
      <4>2. QED
        BY <4>1 DEF Sound, State, Grid, Cell
    <3>2. n + 2 <= z[b]
      <4>1. a \in Nat /\ n + 2 <= a
        BY <2>1, <2>2, RoundsUp
      <4>2. QED
        BY <2>2, <3>1, <4>1
    <3>3. \A k \in 0 .. n - 1 : b + k \in Own(z, b)
      BY <2>2, <3>1, <3>2 DEF Own
    <3>4. QED
      BY <2>3, <3>3 DEF SameData
  <2>6. QED
    BY <2>1, <2>2, <2>4, <2>5
<1>2. \A i, j \in M : i # j => bl[i] # bl[j]
  BY DEF Held
<1>3. QED
  BY <1>1, <1>2 DEF Held, Undisturbed

\* Block i is added or replaced.
With(L, i, bl, p, sz, n, M, bl1, sz1) ==
  M = L \cup {i} /\ bl1 = [bl EXCEPT ![i] = p] /\ sz1 = [sz EXCEPT ![i] = n]
\* A new block of n words joins the caller's.
LEMMA HeldWith ==
  ASSUME NEW B, NEW z, NEW V, NEW I, NEW i \in I, NEW L, NEW bl, NEW sz, Table(I, L, bl, sz),
         Held(B, z, V, L \ {i}, bl, sz),
         NEW p, Owned(B, V, p), \A j \in L \ {i} : bl[j] # p,
         NEW n \in Nat, n # 0, NEW a, a = asize(n), AtLeast(a, z, p),
         NEW M, NEW bl1, NEW sz1, With(L, i, bl, p, sz, n, M, bl1, sz1)
  PROVE  Held(B, z, V, M, bl1, sz1)
<1>1. M = L \cup {i} /\ bl1 = [bl EXCEPT ![i] = p] /\ sz1 = [sz EXCEPT ![i] = n]
  BY DEF With
<1>2. /\ bl1[i] = p /\ sz1[i] = n
      /\ \A j \in L \ {i} : bl1[j] = bl[j] /\ sz1[j] = sz[j]
  BY <1>1 DEF Table
<1>3. \A j \in M : j = i \/ j \in L \ {i}
  BY <1>1
<1>4. ASSUME NEW j \in M
      PROVE  Owned(B, V, bl1[j]) /\ sz1[j] \in Nat /\ sz1[j] # 0 /\ AtLeast(asize(sz1[j]), z, bl1[j])
  <2>1. CASE j = i
    BY <1>2, <2>1
  <2>2. CASE j \in L \ {i}
    BY <1>2, <2>2 DEF Held
  <2>3. QED
    BY <1>3, <2>1, <2>2
<1>5. ASSUME NEW j \in M, NEW k \in M, j # k
      PROVE  bl1[j] # bl1[k]
  BY <1>2, <1>3, <1>5 DEF Held
<1>6. QED
  BY <1>4, <1>5 DEF Held

(***************************************************************************)
(* The three requests.                                                     *)
(***************************************************************************)
\* The words that realloc copies.
Smaller(x, y) == IF x < y THEN x ELSE y
\* A request is served: block i is at p, the others are undisturbed, and it holds
\* the words it had.
Accepts(g, L, bl, sz, i, n, r) ==
  \E t, p, M, bl1, sz1 :
    /\ Answer(r, t, p) /\ p # 0 /\ n # 0
    /\ With(L, i, bl, p, sz, n, M, bl1, sz1) /\ Good(t, M, bl1, sz1)
    /\ Undisturbed(g, t, L \ {i}, bl, sz)
    /\ i \in L => SameData(g, bl[i], t, p, Smaller(n, sz[i]))
\* A request was turned down.
Turned(r) == r.p = 0 /\ r.h \in Heaps

\* mm_malloc, as the caller sees it.
LEMMA ServesMalloc ==
  ASSUME NEW g, NEW I, NEW L, NEW bl, NEW sz, Good(g, L, bl, sz), Table(I, L, bl, sz), NEW i \in I, i \notin L,
         NEW n \in Nat, NEW r, r = mm_malloc(g, n)
  PROVE  \/ Answer(r, g, 0) /\ (n # 0 => Exhausted(g, asize(n)))
         \/ Accepts(g, L, bl, sz, i, n, r)
<1>1. PICK B, z, V : Sound(g, B, z, V) /\ Held(B, z, V, L, bl, sz)
  BY DEF Good
<1>2. CASE n = 0
  BY <1>2, Places DEF mm_malloc, Answer
<1>3. CASE n # 0
  <2>1. PICK a : a = asize(n)
    OBVIOUS
  <2>2. Mallocs(g, B, z, V, a, r)
    BY <1>1, <1>3, <2>1, MallocsBlock
  <2>3. CASE Answer(r, g, 0) /\ Full(V, z, a) /\ NoMore(g, a)
    BY <1>1, <2>1, <2>3 DEF Exhausted
  <2>4. CASE Granted(g, B, z, V, a, r)
    <3>1. PICK t, p, B1, z1, V1 :
                 /\ Answer(r, t, p) /\ Sound(t, B1, z1, V1) /\ Owned(B1, V1, p) /\ p \notin B \ V
                 /\ AtLeast(a, z1, p) /\ Kept(g, z, t, B1, z1, V1, B \ V)
      BY <2>4 DEF Granted
    <3>2. PICK A, K : A = B \ V /\ K = L \ {i}
      OBVIOUS
    <3>3. \A j \in K : j \in L /\ bl[j] \in A
      BY <1>1, <3>2 DEF Held, Owned
    <3>4. Held(B1, z1, V1, K, bl, sz) /\ Undisturbed(g, t, K, bl, sz)
      BY <1>1, <3>1, <3>2, <3>3, HeldStays
    <3>5. PICK M, bl1, sz1 : With(L, i, bl, p, sz, n, M, bl1, sz1)
      BY DEF With
    <3>6. Held(B1, z1, V1, M, bl1, sz1)
      <4>1. \A j \in L \ {i} : bl[j] # p
        BY <3>1, <3>2, <3>3
      <4>2. Held(B1, z1, V1, L \ {i}, bl, sz)
        BY <3>2, <3>4
      <4>3. QED
        BY <1>3, <2>1, <3>1, <3>5, <4>1, <4>2, HeldWith
    <3>7. p # 0
      BY <3>1 DEF Sound, State, Owned, Grid, Cell
    <3>8. Good(t, M, bl1, sz1)
      BY <3>1, <3>6 DEF Good
    <3>9. Undisturbed(g, t, L \ {i}, bl, sz)
      BY <3>2, <3>4
    <3>10. QED
      BY <1>3, <3>1, <3>5, <3>7, <3>8, <3>9 DEF Accepts
  <2>5. QED
    BY <2>2, <2>3, <2>4 DEF Mallocs
<1>4. QED
  BY <1>2, <1>3

\* mm_free, as the caller sees it.
LEMMA ServesFree ==
  ASSUME NEW g, NEW L, NEW bl, NEW sz, Good(g, L, bl, sz), NEW i \in L, NEW t, t = mm_free(g, bl[i])
  PROVE  Good(t, L \ {i}, bl, sz) /\ Undisturbed(g, t, L \ {i}, bl, sz)
<1>1. PICK B, z, V : Sound(g, B, z, V) /\ Held(B, z, V, L, bl, sz)
  BY DEF Good
<1>2. PICK b : b = bl[i]
  OBVIOUS
<1>3. Owned(B, V, b)
  BY <1>1, <1>2 DEF Held
<1>4. Frees(g, B, z, V, b, t)
  BY <1>1, <1>2, <1>3, FreesBlock
<1>5. PICK A, K : A = (B \ V) \ {b} /\ K = L \ {i}
  OBVIOUS
<1>6. PICK B1, z1, V1 : Sound(t, B1, z1, V1) /\ Kept(g, z, t, B1, z1, V1, A)
  BY <1>4, <1>5 DEF Frees
<1>7. \A j \in K : j \in L /\ bl[j] \in A
  BY <1>1, <1>2, <1>5 DEF Held, Owned
<1>8. Held(B1, z1, V1, K, bl, sz) /\ Undisturbed(g, t, K, bl, sz)
  BY <1>1, <1>6, <1>7, HeldStays
<1>9. QED
  BY <1>5, <1>6, <1>8 DEF Good

\* mm_realloc, as the caller sees it.
LEMMA ServesRealloc ==
  ASSUME NEW g, NEW I, NEW L, NEW bl, NEW sz, Good(g, L, bl, sz), Table(I, L, bl, sz), NEW i \in I, i \in L,
         NEW n \in Nat, NEW r, r = mm_realloc(g, bl[i], n)
  PROVE  \/ Turned(r) /\ (n # 0 => Refusal(r.h, bl[i], asize(n)))
         \/ Accepts(g, L, bl, sz, i, n, r)
<1>1. PICK B, z, V : Sound(g, B, z, V) /\ Held(B, z, V, L, bl, sz)
  BY DEF Good
<1>2. PICK b, old : b = bl[i] /\ old = sz[i]
  OBVIOUS
<1>3. Owned(B, V, b) /\ old \in Nat /\ old # 0 /\ AtLeast(asize(old), z, b)
  BY <1>1, <1>2 DEF Held
<1>4. CASE n = 0
  <2>1. PICK t : t = mm_free(g, b)
    OBVIOUS
  <2>2. r.p = 0 /\ r.h = t
    BY <1>2, <1>4, <2>1, Places DEF mm_realloc
  <2>3. Frees(g, B, z, V, b, t)
    BY <1>1, <1>3, <2>1, FreesBlock
  <2>4. t \in Heaps
    BY <2>3 DEF Frees, Sound, State
  <2>5. QED
    BY <1>4, <2>2, <2>4 DEF Turned
<1>5. CASE n # 0
  <2>1. PICK a, m : a = asize(n) /\ m = Smaller(n, old)
    OBVIOUS
  <2>2. Asked(z, b, n, a, m)
    <3>1. b \in Nat /\ z[b] \in Nat
      BY <1>1, <1>3 DEF Sound, State, Owned, Grid, Cell
    <3>2. PICK c : c = asize(old)
      OBVIOUS
    <3>3. c \in Nat /\ old + 2 <= c /\ c <= z[b]
      BY <1>3, <3>2, RoundsUp DEF AtLeast
    <3>4. m \in Nat /\ m <= n /\ m + 2 <= z[b]
      BY <1>3, <2>1, <3>1, <3>3 DEF Smaller
    <3>5. QED
      BY <1>5, <2>1, <3>4 DEF Asked
  <2>3. r = mm_realloc(g, b, n)
    BY <1>2
  <2>4. Serves(g, B, z, V, b, a, m, r)
    BY <1>1, <1>3, <2>2, <2>3, ReallocsBlock
  <2>5. CASE Unserved(g, B, z, V, b, a, r)
    <3>1. PICK t, B1, z1, V1 : Answer(r, t, 0) /\ Sound(t, B1, z1, V1) /\ Refusal(t, b, a)
      BY <2>5 DEF Unserved
    <3>2. r.p = 0 /\ r.h = t /\ t \in Heaps
      BY <3>1 DEF Answer, Sound, State
    <3>3. QED
      BY <1>2, <2>1, <3>1, <3>2 DEF Turned
  <2>6. CASE Reallocated(g, B, z, V, b, a, m, r)
    <3>2. PICK A, K : A = (B \ V) \ {b} /\ K = L \ {i}
      OBVIOUS
    <3>1. PICK t, p, B1, z1, V1 :
                 /\ Answer(r, t, p) /\ Sound(t, B1, z1, V1) /\ Owned(B1, V1, p) /\ p \notin A
                 /\ AtLeast(a, z1, p) /\ Kept(g, z, t, B1, z1, V1, A) /\ SameData(g, b, t, p, m)
      BY <2>6, <3>2 DEF Reallocated
    <3>3. \A j \in K : j \in L /\ bl[j] \in A
      BY <1>1, <1>2, <3>2 DEF Held, Owned
    <3>4. Held(B1, z1, V1, K, bl, sz) /\ Undisturbed(g, t, K, bl, sz)
      BY <1>1, <3>1, <3>3, HeldStays
    <3>5. PICK M, bl1, sz1 : With(L, i, bl, p, sz, n, M, bl1, sz1)
      BY DEF With
    <3>6. Held(B1, z1, V1, M, bl1, sz1)
      <4>1. \A j \in L \ {i} : bl[j] # p
        BY <3>1, <3>2, <3>3
      <4>2. Held(B1, z1, V1, L \ {i}, bl, sz)
        BY <3>2, <3>4
      <4>3. QED
        BY <1>5, <2>1, <3>1, <3>5, <4>1, <4>2, HeldWith
    <3>7. p # 0
      BY <3>1 DEF Sound, State, Owned, Grid, Cell
    <3>8. Good(t, M, bl1, sz1)
      BY <3>1, <3>6 DEF Good
    <3>9. Undisturbed(g, t, L \ {i}, bl, sz)
      BY <3>2, <3>4
    <3>10. SameData(g, bl[i], t, p, Smaller(n, sz[i]))
      BY <1>2, <2>1, <3>1
    <3>11. QED
      BY <1>5, <3>1, <3>5, <3>7, <3>8, <3>9, <3>10 DEF Accepts
  <2>7. QED
    BY <2>4, <2>5, <2>6 DEF Serves
<1>6. QED
  BY <1>4, <1>5

\* Only words of data of block i are written.
LEMMA WritesData ==
  ASSUME NEW g, NEW L, NEW bl, NEW sz, Good(g, L, bl, sz), NEW i \in L, NEW t, NEW W, Changed(g, t, W),
         \A w \in W : w \in bl[i] .. bl[i] + sz[i] - 1
  PROVE  Good(t, L, bl, sz) /\ Undisturbed(g, t, L \ {i}, bl, sz)
<1>1. PICK B, z, V : Sound(g, B, z, V) /\ Held(B, z, V, L, bl, sz)
  BY DEF Good
<1>2. PICK b, n, a : b = bl[i] /\ n = sz[i] /\ a = asize(n)
  OBVIOUS
<1>3. Owned(B, V, b) /\ n \in Nat /\ n # 0 /\ AtLeast(a, z, b)
  BY <1>1, <1>2 DEF Held
<1>4. b \in Nat /\ z[b] \in Nat /\ n + 2 <= z[b]
  <2>1. b \in Nat /\ z[b] \in Nat
    BY <1>1, <1>3 DEF Sound, State, Owned, Grid, Cell
  <2>2. a \in Nat /\ n + 2 <= a /\ a <= z[b]
    BY <1>2, <1>3, RoundsUp DEF AtLeast
  <2>3. QED
    BY <1>3, <2>1, <2>2
<1>5. \A w \in W : w \in DataWords(z, b)
  BY <1>2, <1>3, <1>4 DEF DataWords
<1>6. Sound(t, B, z, V) /\ Kept(g, z, t, B, z, V, (B \ V) \ {b})
  BY <1>1, <1>3, <1>5, PayloadIsFree
<1>7. PICK A, K : A = (B \ V) \ {b} /\ K = L \ {i}
  OBVIOUS
<1>8. \A j \in K : j \in L /\ bl[j] \in A
  BY <1>1, <1>2, <1>7 DEF Held, Owned
<1>9. Kept(g, z, t, B, z, V, A)
  BY <1>6, <1>7
<1>10. Undisturbed(g, t, K, bl, sz)
  BY <1>1, <1>8, <1>9, HeldStays
<1>11. QED
  BY <1>1, <1>6, <1>7, <1>10 DEF Good

(***************************************************************************)
(* Requests and what they leave allocated.                                 *)
(***************************************************************************)
\* The ids a trace leaves allocated, with how many words, and what may come next.
LiveIn(t, i) == Last(t, i).type \in {"ALLOC", "REALLOC"}
LiveSet(t) == {i \in Ids : LiveIn(t, i)}
Amounts(t) == [i \in Ids |-> Last(t, i).size]
Legal(t, op) == (op.type = "ALLOC") # LiveIn(t, op.id)

\* Requests, by their parts.
LEMMA OpTypes ==
  ASSUME NEW op \in Ops
  PROVE  /\ op.type \in {"ALLOC", "REALLOC", "FREE"} /\ op.id \in Ids /\ op.id \in Nat /\ op.size \in Nat
         /\ (op.type = "FREE" => op.size = 0)
<1>1. CASE op \in [type : {"ALLOC", "REALLOC"}, id : Ids, size : Sizes]
  <2>1. op.type \in {"ALLOC", "REALLOC"} /\ op.id \in Ids /\ op.size \in Sizes
    BY <1>1
  <2>2. op.id \in Nat /\ op.size \in Nat
    BY <2>1, DriverAssumption
  <2>3. QED
    BY <2>1, <2>2
<1>2. CASE op \in [type : {"FREE"}, id : Ids, size : {0}]
  <2>1. op.type = "FREE" /\ op.id \in Ids /\ op.size = 0
    BY <1>2
  <2>2. op.id \in Nat
    BY <2>1, DriverAssumption
  <2>3. QED
    BY <2>1, <2>2
<1>3. QED
  BY <1>1, <1>2 DEF Ops

\* The last request of an id.
LastIs(t, t1, op, i) == Last(t1, i) = IF i = op.id THEN op ELSE Last(t, i)
\* One more request is the last of its id, and of no other.
LEMMA LastAppend ==
  ASSUME NEW t \in Seq(Ops), NEW op \in Ops, NEW t1, t1 = Append(t, op), NEW i \in Ids
  PROVE  LastIs(t, t1, op, i)
<1> DEFINE own == {k \in DOMAIN t : t[k].id = i}
           own1 == {k \in DOMAIN t1 : t1[k].id = i}
           n == Len(t) + 1
<1>1. /\ Len(t) \in Nat /\ DOMAIN t = 1 .. Len(t) /\ DOMAIN t1 = 1 .. n /\ t1[n] = op
      /\ \A k \in 1 .. Len(t) : t1[k] = t[k]
  OBVIOUS
<1>2. CASE i = op.id
  <2>1. n \in own1 /\ \A j \in own1 : j <= n /\ j \in Nat
    BY <1>1, <1>2
  <2>2. own1 # {}
    BY <2>1
  <2>3. Last(t1, i) = t1[CHOOSE k \in own1 : \A j \in own1 : j <= k]
    BY <2>2 DEF Last
  <2> HIDE DEF own1
  <2>4. PICK k : k = CHOOSE m \in own1 : \A j \in own1 : j <= m
    OBVIOUS
  <2>5. k \in own1 /\ \A j \in own1 : j <= k
    BY <2>1, <2>4
  <2>6. k = n
    <3>1. k <= n /\ n <= k /\ k \in Nat /\ n \in Nat
      BY <1>1, <2>1, <2>5
    <3>2. QED
      BY <3>1
  <2>7. QED
    BY <1>1, <1>2, <2>3, <2>4, <2>6 DEF LastIs
<1>3. CASE i # op.id
  <2>1. own1 = own
    <3>1. n \notin own1
      BY <1>1, <1>3
    <3>2. \A k : k \in 1 .. n <=> k \in 1 .. Len(t) \/ k = n
      BY <1>1
    <3>3. \A k : k \in own1 <=> k \in own
      BY <1>1, <3>1, <3>2
    <3>4. QED
      BY <3>3
  <2>2. CASE own = {}
    BY <1>3, <2>1, <2>2 DEF Last, LastIs
  <2>3. CASE own # {}
    <3>1. \E k \in own : \A j \in own : j <= k
      <4>1. own \in SUBSET Nat
        BY <1>1
      <4>2. IsFiniteSet(own)
        <5>1. IsFiniteSet(1 .. Len(t))
          BY <1>1, FS_Interval
        <5>2. own \subseteq 1 .. Len(t)
          BY <1>1
        <5> HIDE DEF own
        <5>3. QED
          BY <5>1, <5>2, FS_Subset
      <4> HIDE DEF own
      <4>3. QED
        BY <2>3, <4>1, <4>2, LargestExists
    <3>2. Last(t, i) = t[CHOOSE k \in own : \A j \in own : j <= k]
      BY <2>3 DEF Last
    <3>3. Last(t1, i) = t1[CHOOSE k \in own1 : \A j \in own1 : j <= k]
      BY <2>1, <2>3 DEF Last
    <3>4. \A k \in own : t1[k] = t[k]
      BY <1>1
    <3> HIDE DEF own, own1
    <3>5. PICK k : k = CHOOSE m \in own : \A j \in own : j <= m
      OBVIOUS
    <3>6. k \in own
      BY <3>1, <3>5
    <3>7. Last(t1, i) = t1[k] /\ Last(t, i) = t[k]
      BY <2>1, <3>2, <3>3, <3>5
    <3>8. QED
      BY <1>3, <3>4, <3>6, <3>7 DEF LastIs
  <2>4. QED
    BY <2>2, <2>3
<1>4. QED
  BY <1>2, <1>3

\* The last request is a request, or there is none.
LEMMA LastIsOp ==
  ASSUME NEW t \in Seq(Ops), NEW i \in Ids
  PROVE  Last(t, i) \in Ops \cup {None} /\ Last(t, i).size \in Nat
<1> DEFINE own == {k \in DOMAIN t : t[k].id = i}
<1>1. Len(t) \in Nat /\ DOMAIN t = 1 .. Len(t) /\ \A k \in 1 .. Len(t) : t[k] \in Ops
  OBVIOUS
<1>2. CASE own = {}
  BY <1>2 DEF Last, None
<1>3. CASE own # {}
  <2>1. \E k \in own : \A j \in own : j <= k
    <3>1. own \in SUBSET Nat
      BY <1>1
    <3>2. IsFiniteSet(own)
      <4>1. IsFiniteSet(1 .. Len(t))
        BY <1>1, FS_Interval
      <4>2. own \subseteq 1 .. Len(t)
        BY <1>1
      <4> HIDE DEF own
      <4>3. QED
        BY <4>1, <4>2, FS_Subset
    <3> HIDE DEF own
    <3>3. QED
      BY <1>3, <3>1, <3>2, LargestExists
  <2>2. Last(t, i) = t[CHOOSE k \in own : \A j \in own : j <= k]
    BY <1>3 DEF Last
  <2>3. \A k \in own : t[k] \in Ops
    BY <1>1
  <2> HIDE DEF own
  <2>4. Last(t, i) \in Ops
    BY <2>1, <2>2, <2>3
  <2>5. QED
    BY <2>4, OpTypes
<1>4. QED
  BY <1>2, <1>3

\* One more request.
Further(t, op, t1) ==
  /\ Amounts(t1) = [Amounts(t) EXCEPT ![op.id] = op.size]
  /\ LiveSet(t1) = IF op.type = "FREE" THEN LiveSet(t) \ {op.id} ELSE LiveSet(t) \cup {op.id}
\* What one more request changes of the live ids.
LEMMA GoesFurther ==
  ASSUME NEW t \in Seq(Ops), NEW op \in Ops, NEW t1, t1 = Append(t, op)
  PROVE  Further(t, op, t1)
<1>1. \A i \in Ids : Last(t1, i) = IF i = op.id THEN op ELSE Last(t, i)
  <2>1. \A i \in Ids : LastIs(t, t1, op, i)
    BY LastAppend
  <2>2. QED
    BY <2>1 DEF LastIs
<1>2. op.type \in {"ALLOC", "REALLOC", "FREE"} /\ op.id \in Ids
  BY OpTypes
<1>3. Amounts(t1) = [Amounts(t) EXCEPT ![op.id] = op.size]
  BY <1>1, <1>2 DEF Amounts
<1>4. \A i \in Ids : LiveIn(t1, i) <=> IF i = op.id THEN op.type # "FREE" ELSE LiveIn(t, i)
  <2>1. SUFFICES ASSUME NEW i \in Ids
                 PROVE  LiveIn(t1, i) <=> IF i = op.id THEN op.type # "FREE" ELSE LiveIn(t, i)
    OBVIOUS
  <2>2. CASE i = op.id
    BY <1>1, <1>2, <2>2 DEF LiveIn
  <2>3. CASE i # op.id
    BY <1>1, <2>3 DEF LiveIn
  <2>4. QED
    BY <2>2, <2>3
<1>5. LiveSet(t1) = IF op.type = "FREE" THEN LiveSet(t) \ {op.id} ELSE LiveSet(t) \cup {op.id}
  <2>1. CASE op.type = "FREE"
    BY <1>2, <1>4, <2>1 DEF LiveSet
  <2>2. CASE op.type # "FREE"
    BY <1>2, <1>4, <2>2 DEF LiveSet
  <2>3. QED
    BY <2>1, <2>2
<1>6. QED
  BY <1>3, <1>5 DEF Further

\* ALLOC is legal where the id is not live, the others where it is.
LEMMA LegalIsLive ==
  ASSUME NEW t, NEW op \in Ops, Legal(t, op)
  PROVE  op.type = "ALLOC" <=> op.id \notin LiveSet(t)
<1>1. op.id \in LiveSet(t) <=> LiveIn(t, op.id)
  BY OpTypes DEF LiveSet
<1>2. (op.type = "ALLOC") # LiveIn(t, op.id)
  BY DEF Legal
<1>3. LiveIn(t, op.id) \in BOOLEAN
  BY DEF LiveIn
<1>4. QED
  BY <1>1, <1>2, <1>3

\* Nothing is live before the first request.
LEMMA NothingLive ==
  ASSUME NEW t, t = << >>
  PROVE  LiveSet(t) = {}
<1>1. DOMAIN t = {}
  OBVIOUS
<1>2. \A i : Last(t, i) = None
  BY <1>1 DEF Last
<1>3. QED
  BY <1>2 DEF LiveSet, LiveIn, None

\* Amounts are numbers.
LEMMA AmountsType ==
  ASSUME NEW t \in Seq(Ops), NEW bl \in [Ids -> Nat]
  PROVE  Table(Ids, LiveSet(t), bl, Amounts(t))
BY LastIsOp DEF Table, LiveSet, Amounts

(***************************************************************************)
(* A request is answered.                                                  *)
(***************************************************************************)
\* The heap holds what the trace t left allocated.
GoodIn(g, t, bl) == Good(g, LiveSet(t), bl, Amounts(t))
\* The three answers to a request: freed, declined, accepted.
Gone(g, t, bl, op, t1, r) ==
  \E s : /\ Answer(r, s, bl[op.id]) /\ bl[op.id] # 0
         /\ GoodIn(s, t1, bl) /\ Undisturbed(g, s, LiveSet(t1), bl, Amounts(t1))
Denied(g, bl, op) ==
  \/ Exhausted(g, asize(op.size))
  \/ op.type = "REALLOC" /\ Stuck(g, bl[op.id], asize(op.size))
Declined(bl, op, r) == Turned(r) /\ (op.size # 0 => Denied(r.h, bl, op))
Accepted(g, t, bl, op, t1, r) ==
  \E s, p, bl1 :
    /\ Answer(r, s, p) /\ p # 0 /\ op.size # 0
    /\ bl1 = [bl EXCEPT ![op.id] = p] /\ GoodIn(s, t1, bl1)
    /\ Undisturbed(g, s, LiveSet(t) \ {op.id}, bl, Amounts(t))
    /\ op.type = "REALLOC" => SameData(g, bl[op.id], s, p, Smaller(op.size, Amounts(t)[op.id]))
Answered(g, t, bl, op, t1, r) ==
  IF op.type = "FREE" THEN Gone(g, t, bl, op, t1, r)
  ELSE Declined(bl, op, r) \/ Accepted(g, t, bl, op, t1, r)

\* The call for a request.
CallOn(g, bl, op) ==
  CASE op.type = "ALLOC"   -> mm_malloc(g, op.size)
    [] op.type = "REALLOC" -> mm_realloc(g, bl[op.id], op.size)
    [] op.type = "FREE"    -> [h |-> mm_free(g, bl[op.id]), p |-> bl[op.id]]

\* Only sizes of live ids matter.
LEMMA SameTables ==
  ASSUME NEW g, NEW L, NEW bl, NEW sz, Good(g, L, bl, sz), NEW sz1, \A j \in L : sz1[j] = sz[j]
  PROVE  Good(g, L, bl, sz1)
<1>1. PICK B, z, V : Sound(g, B, z, V) /\ Held(B, z, V, L, bl, sz)
  BY DEF Good
<1>2. Held(B, z, V, L, bl, sz1)
  BY <1>1 DEF Held
<1>3. QED
  BY <1>1, <1>2 DEF Good

\* Every legal request is answered in one of these ways.
LEMMA AnswersCall ==
  ASSUME NEW g, NEW t \in Seq(Ops), NEW bl \in [Ids -> Nat], GoodIn(g, t, bl), NEW op \in Ops, Legal(t, op),
         NEW t1, t1 = Append(t, op), NEW r, r = CallOn(g, bl, op)
  PROVE  Answered(g, t, bl, op, t1, r)
<1>1. PICK L, sz, i, n : L = LiveSet(t) /\ sz = Amounts(t) /\ i = op.id /\ n = op.size
  OBVIOUS
<1>2. Good(g, L, bl, sz) /\ Table(Ids, L, bl, sz)
  BY <1>1, AmountsType DEF GoodIn
<1>3. /\ op.type \in {"ALLOC", "REALLOC", "FREE"} /\ i \in Ids /\ n \in Nat
      /\ (op.type = "ALLOC" <=> i \notin L)
  BY <1>1, OpTypes, LegalIsLive
<1>4. /\ Amounts(t1) = [sz EXCEPT ![i] = n]
      /\ LiveSet(t1) = IF op.type = "FREE" THEN L \ {i} ELSE L \cup {i}
  BY <1>1, GoesFurther DEF Further
<1>5. CASE op.type = "FREE"
  <2>1. PICK s : s = mm_free(g, bl[i])
    OBVIOUS
  <2>2. Answer(r, s, bl[op.id])
    BY <1>1, <1>5, <2>1 DEF CallOn, Answer
  <2>3. i \in L
    BY <1>3, <1>5
  <2>4. Good(s, L \ {i}, bl, sz) /\ Undisturbed(g, s, L \ {i}, bl, sz)
    BY <1>2, <2>1, <2>3, ServesFree
  <2>5. \A j \in L \ {i} : Amounts(t1)[j] = sz[j]
    BY <1>2, <1>4 DEF Table
  <2>6. PICK K, sz1 : K = L \ {i} /\ sz1 = Amounts(t1)
    OBVIOUS
  <2>7. Good(s, K, bl, sz1)
    BY <2>4, <2>5, <2>6, SameTables
  <2>8. Undisturbed(g, s, K, bl, sz1)
    BY <2>4, <2>5, <2>6 DEF Undisturbed
  <2>9. bl[i] # 0
    BY <1>2, <2>3, GoodBlocks DEF GoodFor, Inside
  <2>10. LiveSet(t1) = K
    BY <1>4, <1>5, <2>6
  <2>11. Gone(g, t, bl, op, t1, r)
    BY <1>1, <2>2, <2>6, <2>7, <2>8, <2>9, <2>10 DEF Gone, GoodIn
  <2>12. QED
    BY <1>5, <2>11 DEF Answered
<1>6. ASSUME Accepts(g, L, bl, sz, i, n, r), op.type # "FREE"
      PROVE  Accepted(g, t, bl, op, t1, r)
  <2>1. PICK s, p, M, bl1, sz1 :
               /\ Answer(r, s, p) /\ p # 0 /\ n # 0
               /\ With(L, i, bl, p, sz, n, M, bl1, sz1) /\ Good(s, M, bl1, sz1)
               /\ Undisturbed(g, s, L \ {i}, bl, sz)
               /\ i \in L => SameData(g, bl[i], s, p, Smaller(n, sz[i]))
    BY <1>6 DEF Accepts
  <2>2. M = LiveSet(t1) /\ sz1 = Amounts(t1) /\ bl1 = [bl EXCEPT ![op.id] = p]
    BY <1>1, <1>4, <1>6, <2>1 DEF With
  <2>3. GoodIn(s, t1, bl1)
    BY <2>1, <2>2 DEF GoodIn
  <2>4. op.type = "REALLOC" => SameData(g, bl[op.id], s, p, Smaller(op.size, Amounts(t)[op.id]))
    BY <1>1, <1>3, <2>1
  <2>5. Undisturbed(g, s, LiveSet(t) \ {op.id}, bl, Amounts(t)) /\ op.size # 0
    BY <1>1, <2>1
  <2>6. QED
    BY <2>1, <2>2, <2>3, <2>4, <2>5 DEF Accepted
<1>7. CASE op.type = "ALLOC"
  <2>1. r = mm_malloc(g, n) /\ i \notin L
    BY <1>1, <1>3, <1>7 DEF CallOn
  <2>2. (Answer(r, g, 0) /\ (n # 0 => Exhausted(g, asize(n)))) \/ Accepts(g, L, bl, sz, i, n, r)
    BY <1>2, <1>3, <2>1, ServesMalloc
  <2>3. CASE Answer(r, g, 0) /\ (n # 0 => Exhausted(g, asize(n)))
    <3>1. g \in Heaps
      BY <1>2 DEF Good, Sound, State
    <3>2. Declined(bl, op, r)
      BY <1>1, <2>3, <3>1 DEF Declined, Denied, Turned, Answer
    <3>3. QED
      BY <1>7, <3>2 DEF Answered
  <2>4. QED
    BY <1>6, <1>7, <2>2, <2>3 DEF Answered
<1>8. CASE op.type = "REALLOC"
  <2>1. r = mm_realloc(g, bl[i], n) /\ i \in L
    BY <1>1, <1>3, <1>8 DEF CallOn
  <2>2. \/ Turned(r) /\ (n # 0 => Refusal(r.h, bl[i], asize(n)))
        \/ Accepts(g, L, bl, sz, i, n, r)
    BY <1>2, <1>3, <2>1, ServesRealloc
  <2>3. CASE Turned(r) /\ (n # 0 => Refusal(r.h, bl[i], asize(n)))
    BY <1>1, <1>8, <2>3 DEF Declined, Denied, Refusal, Answered
  <2>4. QED
    BY <1>6, <1>8, <2>2, <2>3 DEF Answered
<1>9. QED
  BY <1>3, <1>5, <1>7, <1>8

(***************************************************************************)
(* Traces: every request is legal after those before it.                   *)
(***************************************************************************)
\* The requests before a place; every request is legal after those before it.
Prefix(t, p) == SubSeq(t, 1, p)
LegalTrace(t) == \A k \in 1 .. Len(t) : Legal(Prefix(t, k - 1), t[k])

\* A prefix is a trace.
LEMMA PrefixType ==
  ASSUME NEW t \in Seq(Ops), NEW p \in 0 .. Len(t)
  PROVE  /\ Prefix(t, p) \in Seq(Ops) /\ Len(Prefix(t, p)) = p
         /\ \A k \in 1 .. p : Prefix(t, p)[k] = t[k]
<1>1. p \in Nat /\ p <= Len(t) /\ Len(t) \in Nat
  OBVIOUS
<1>2. QED
  BY <1>1 DEF Prefix

\* The longest and the shortest prefix.
LEMMA WholePrefix ==
  ASSUME NEW t \in Seq(Ops), NEW n, n = Len(t)
  PROVE  Prefix(t, n) = t /\ Prefix(t, 0) = << >>
<1>1. n \in Nat /\ n \in 0 .. Len(t) /\ 0 \in 0 .. Len(t)
  OBVIOUS
<1>2. Prefix(t, n) \in Seq(Ops) /\ Len(Prefix(t, n)) = Len(t) /\ \A k \in 1 .. n : Prefix(t, n)[k] = t[k]
  BY <1>1, PrefixType
<1>3. Prefix(t, n) = t
  BY <1>2
<1>4. Prefix(t, 0) \in Seq(Ops) /\ Len(Prefix(t, 0)) = 0
  BY <1>1, PrefixType
<1>5. Prefix(t, 0) = << >>
  BY <1>4
<1>6. QED
  BY <1>3, <1>5

\* The next prefix has one request more.
LEMMA PrefixGrows ==
  ASSUME NEW t \in Seq(Ops), NEW p \in 0 .. Len(t), p < Len(t), NEW q, q = p + 1
  PROVE  Prefix(t, q) = Append(Prefix(t, p), t[q]) /\ t[q] \in Ops
<1>1. p \in Nat /\ Len(t) \in Nat /\ q \in Nat /\ q \in 0 .. Len(t) /\ q \in 1 .. Len(t)
  OBVIOUS
<1>2. t[q] \in Ops
  BY <1>1
<1>3. PICK u, v : u = Prefix(t, p) /\ v = Prefix(t, q)
  OBVIOUS
<1>4. /\ u \in Seq(Ops) /\ Len(u) = p /\ \A k \in 1 .. p : u[k] = t[k]
      /\ v \in Seq(Ops) /\ Len(v) = q /\ \A k \in 1 .. q : v[k] = t[k]
  BY <1>1, <1>3, PrefixType
<1>5. PICK w : w = Append(u, t[q])
  OBVIOUS
<1>6. w \in Seq(Ops) /\ Len(w) = q /\ w[q] = t[q] /\ \A k \in 1 .. p : w[k] = t[k]
  BY <1>1, <1>2, <1>4, <1>5
<1>7. \A k \in 1 .. q : w[k] = v[k]
  BY <1>1, <1>4, <1>6
<1>8. w = v
  BY <1>4, <1>6, <1>7
<1>9. QED
  BY <1>2, <1>3, <1>5, <1>8

\* A legal trace with a legal request is legal.
LEMMA LegalLonger ==
  ASSUME NEW t \in Seq(Ops), LegalTrace(t), NEW op \in Ops, Legal(t, op), NEW t1, t1 = Append(t, op)
  PROVE  LegalTrace(t1)
<1>1. PICK n : n = Len(t)
  OBVIOUS
<1>2. /\ n \in Nat /\ t1 \in Seq(Ops) /\ Len(t1) = n + 1 /\ t1[n + 1] = op
      /\ \A k \in 1 .. n : t1[k] = t[k]
  BY <1>1
<1>3. ASSUME NEW k \in 1 .. n + 1
      PROVE  Prefix(t1, k - 1) = Prefix(t, k - 1)
  <2>1. PICK p : p = k - 1
    OBVIOUS
  <2>2. p \in Nat /\ p <= n /\ p \in 0 .. Len(t) /\ p \in 0 .. Len(t1)
    BY <1>1, <1>2, <2>1
  <2>3. PICK u, v : u = Prefix(t, p) /\ v = Prefix(t1, p)
    OBVIOUS
  <2>4. /\ u \in Seq(Ops) /\ Len(u) = p /\ \A j \in 1 .. p : u[j] = t[j]
        /\ v \in Seq(Ops) /\ Len(v) = p /\ \A j \in 1 .. p : v[j] = t1[j]
    BY <1>2, <2>2, <2>3, PrefixType
  <2>5. \A j \in 1 .. p : u[j] = v[j]
    <3>1. \A j \in 1 .. p : j \in 1 .. n
      BY <1>2, <2>2
    <3>2. \A j \in 1 .. p : u[j] = t[j] /\ v[j] = t1[j] /\ t1[j] = t[j]
      BY <1>2, <2>4, <3>1
    <3>3. QED
      BY <3>2
  <2>6. u = v
    BY <2>4, <2>5
  <2>7. QED
    BY <2>1, <2>3, <2>6
<1>4. ASSUME NEW k \in 1 .. n + 1
      PROVE  Legal(Prefix(t1, k - 1), t1[k])
  <2>1. CASE k \in 1 .. n
    BY <1>1, <1>2, <1>3, <2>1 DEF LegalTrace
  <2>2. CASE k = n + 1
    <3>1. k - 1 = n
      BY <1>2, <2>2
    <3>2. Prefix(t, k - 1) = t
      BY <1>1, <3>1, WholePrefix
    <3>3. QED
      BY <1>2, <1>3, <2>2, <3>2
  <2>3. QED
    BY <1>2, <2>1, <2>2
<1>5. QED
  BY <1>2, <1>4 DEF LegalTrace

(***************************************************************************)
(* The state of mdriver between two steps.                                 *)
(***************************************************************************)
\* memset left v in the block; the ranges of the live blocks; mdriver's records are true.
Filled(g, b, n, v) == \A j \in 0 .. n - 1 : g.m[b + j] = v
RangesOf(L, bl, sz) == {[lo |-> bl[i], hi |-> bl[i] + sz[i] - 1] : i \in L}
Recorded(g, t, bl, sz, rs) ==
  /\ \A i \in LiveSet(t) : sz[i] = Amounts(t)[i] /\ Filled(g, bl[i], sz[i], i)
  /\ rs = RangesOf(LiveSet(t), bl, sz)

\* The types, and that the trace is legal.
DriverType ==
  /\ h \in Heaps /\ trace \in Seq(Ops) /\ pos \in 0 .. Len(trace) /\ LegalTrace(trace)
  /\ blocks \in [Ids -> Nat] /\ sizes \in [Ids -> Nat]
\* The invariant: while requests are replayed the heap is good for those done, and
\* in the first pass the records and the fill of each block are right.
DriverInv ==
  /\ DriverType
  /\ Replaying => GoodIn(h, Done, blocks)
  /\ pass = "valid" => pos = Len(trace) /\ Recorded(h, trace, blocks, sizes, ranges)

\* A pass begins on a good heap, or mm_init failed for want of memory.
LEMMA Begins ==
  ASSUME NEW g \in Heaps, NEW r, r = Started(g), NEW bl
  PROVE  r.h \in Heaps /\ (r.p # 0 => GoodIn(r.h, << >>, bl)) /\ (r.p = 0 => ~Roomy)
<1>1. PICK e : e = mem_reset_brk(g)
  OBVIOUS
<1>2. Emptied(e)
  BY <1>1, Places DEF Emptied, Heaps, mem_reset_brk
<1>3. Starts(r)
  BY <1>1, <1>2, Inits DEF Started
<1>4. PICK t, L : t = << >> /\ L = LiveSet(t)
  OBVIOUS
<1>5. L = {}
  BY <1>4, NothingLive
<1>6. CASE r.p = 0 /\ r.h \in Heaps /\ ~Roomy
  BY <1>6
<1>7. ASSUME NEW s, NEW p, NEW B, NEW z, NEW V, Answer(r, s, p), p # 0, Sound(s, B, z, V)
      PROVE  r.p # 0 /\ r.h \in Heaps /\ GoodIn(r.h, << >>, bl)
  <2>1. r.h = s /\ r.p = p
    BY <1>7 DEF Answer
  <2>2. Held(B, z, V, L, bl, Amounts(t))
    BY <1>5 DEF Held
  <2>3. GoodIn(s, t, bl)
    BY <1>4, <1>7, <2>2 DEF Good, GoodIn
  <2>4. QED
    BY <1>4, <1>7, <2>1, <2>3 DEF Sound, State
<1>8. QED
  BY <1>3, <1>6, <1>7 DEF Starts

(***************************************************************************)
(* eval_mm_valid keeps its records true.                                   *)
(***************************************************************************)
\* Different blocks are at different places.
Distinct(L, bl) == \A i, j \in L : i # j => bl[i] # bl[j]

\* Live blocks are at different places.
LEMMA GoodIsDistinct ==
  ASSUME NEW g, NEW t, NEW bl, GoodIn(g, t, bl), NEW L, L = LiveSet(t)
  PROVE  Distinct(L, bl) /\ g \in Heaps
<1>1. PICK B, z, V : Sound(g, B, z, V) /\ Held(B, z, V, L, bl, Amounts(t))
  BY DEF Good, GoodIn
<1>2. QED
  BY <1>1 DEF Held, Distinct, Sound, State

\* remove_range.
Forgotten(rs, lo) == {r \in rs : r.lo # lo}
\* remove_range.
Without(L, bl, sz, i, rs, b, rs1) ==
  Distinct(L, bl) /\ i \in L /\ rs = RangesOf(L, bl, sz) /\ b = bl[i] /\ rs1 = Forgotten(rs, b)
\* The ranges that are left are those of the other blocks.
RangesLeft(L, bl, sz, i, rs1) == rs1 = RangesOf(L \ {i}, bl, sz)
\* remove_range leaves the ranges of the other blocks.
LEMMA RangesWithout ==
  ASSUME NEW L, NEW bl, NEW sz, NEW i, NEW rs, NEW b, NEW rs1, Without(L, bl, sz, i, rs, b, rs1)
  PROVE  RangesLeft(L, bl, sz, i, rs1)
<1> DEFINE R(j) == [lo |-> bl[j], hi |-> bl[j] + sz[j] - 1]
<1>1. \A j : R(j).lo = bl[j]
  OBVIOUS
<1>2. PICK K : K = L \ {i}
  OBVIOUS
<1>3. rs = {R(j) : j \in L} /\ RangesOf(K, bl, sz) = {R(j) : j \in K}
  BY DEF RangesOf, Without
<1> HIDE DEF R
<1>4. \A j \in L : j \in K <=> bl[j] # b
  BY <1>2 DEF Distinct, Without
<1>5. \A j \in K : j \in L
  BY <1>2
<1>6. rs1 = {r \in rs : r.lo # b}
  BY DEF Forgotten, Without
<1>7. rs1 = RangesOf(K, bl, sz)
  BY <1>1, <1>3, <1>4, <1>5, <1>6
<1>8. QED
  BY <1>2, <1>7 DEF RangesLeft

\* What stays is still filled.
LEMMA FilledStays ==
  ASSUME NEW g, NEW b, NEW n, NEW v, Filled(g, b, n, v), NEW t, SameData(g, b, t, b, n)
  PROVE  Filled(t, b, n, v)
BY DEF Filled, SameData

\* A block is freed: the records of the others are still true.
LEMMA FreeIsRecorded ==
  ASSUME NEW g, NEW t \in Seq(Ops), NEW bl \in [Ids -> Nat], NEW sz, NEW rs, GoodIn(g, t, bl),
         Recorded(g, t, bl, sz, rs), NEW op \in Ops, op.type = "FREE", Legal(t, op),
         NEW t1, t1 = Append(t, op), NEW s, NEW b, b = bl[op.id], NEW K, K = LiveSet(t1), NEW am, am = Amounts(t1),
         Undisturbed(g, s, K, bl, am)
  PROVE  Recorded(s, t1, bl, sz, Forgotten(rs, b))
<1>1. PICK L, i : L = LiveSet(t) /\ i = op.id
  OBVIOUS
<1>2. op.id \in Ids /\ i \in Ids
  BY <1>1, OpTypes
<1>3. i \in L
  BY <1>1, LegalIsLive
<1>4. am = [Amounts(t) EXCEPT ![op.id] = op.size] /\ K = L \ {i}
  BY <1>1, GoesFurther DEF Further
<1>5. Distinct(L, bl)
  BY <1>1, GoodIsDistinct
<1>6. rs = RangesOf(L, bl, sz)
  BY <1>1 DEF Recorded
<1>7. Forgotten(rs, b) = RangesOf(K, bl, sz)
  <2>1. PICK rs1 : rs1 = Forgotten(rs, b)
    OBVIOUS
  <2>2. Without(L, bl, sz, i, rs, b, rs1)
    BY <1>1, <1>3, <1>5, <1>6, <2>1 DEF Without
  <2>3. RangesLeft(L, bl, sz, i, rs1)
    BY <2>2, RangesWithout
  <2>4. QED
    BY <1>4, <2>1, <2>3 DEF RangesLeft
<1>8. ASSUME NEW j \in K
      PROVE  sz[j] = am[j] /\ Filled(s, bl[j], sz[j], j)
  <2>1. j \in L /\ j # i /\ j \in Ids
    BY <1>1, <1>4 DEF LiveSet
  <2>2. sz[j] = Amounts(t)[j] /\ Filled(g, bl[j], sz[j], j)
    BY <1>1, <2>1 DEF Recorded
  <2>3. am[j] = Amounts(t)[j]
    BY <1>1, <1>4, <2>1 DEF Amounts
  <2>4. SameData(g, bl[j], s, bl[j], sz[j])
    BY <2>2, <2>3 DEF Undisturbed
  <2>5. QED
    BY <2>2, <2>3, <2>4, FilledStays
<1>9. QED
  BY <1>7, <1>8 DEF Recorded

\* A block is filled.
Written(s, p, n, v, u) ==
  /\ Changed(s, u, p .. p + n - 1) /\ Filled(u, p, n, v)
\* memset fills the block and disturbs no other.
LEMMA FillsBlock ==
  ASSUME NEW s, NEW t1, NEW bl1, GoodIn(s, t1, bl1), NEW op \in Ops, NEW i, i = op.id, NEW n, n = op.size,
         i \in LiveSet(t1), Amounts(t1)[i] = n, NEW p, p = bl1[i], NEW u, u = memset(s, op, p)
  PROVE  Written(s, p, n, i, u)
<1>1. PICK L, am : L = LiveSet(t1) /\ am = Amounts(t1)
  OBVIOUS
<1>2. GoodFor(s, L, bl1, am)
  BY <1>1, GoodBlocks DEF GoodIn
<1>3. Inside(s, p, n) /\ s \in Heaps /\ s.brk <= MAX_HEAP + 2
  BY <1>1, <1>2 DEF GoodFor
<1>4. p \in Nat /\ n \in Nat /\ 16 <= p /\ p + n < s.brk /\ s.brk \in Nat
  BY <1>3 DEF Inside, Heaps
<1>5. i \in Nat
  BY OpTypes
<1>6. PICK W : W = p .. p + n - 1
  OBVIOUS
<1>7. u = [s EXCEPT !.m = [w \in Memory |-> IF w \in W THEN i ELSE s.m[w]]]
  BY <1>6 DEF memset
<1>8. /\ u.m = [w \in Memory |-> IF w \in W THEN i ELSE s.m[w]]
      /\ u.brk = s.brk /\ u \in Heaps
  BY <1>3, <1>5, <1>7 DEF Heaps
<1>9. Changed(s, u, p .. p + n - 1)
  BY <1>6, <1>8 DEF Changed
<1>10. ASSUME NEW j \in 0 .. n - 1
       PROVE  u.m[p + j] = i
  <2>1. p + j \in W /\ p + j \in Memory
    <3>1. j \in Nat /\ j <= n - 1
      BY <1>4
    <3>2. p + j \in Nat /\ p <= p + j /\ p + j <= p + n - 1
      BY <1>4, <3>1
    <3>3. p + j \in 2 .. MAX_HEAP + 1
      <4>1. s.brk <= MAX_HEAP + 2 /\ MAX_HEAP \in Nat
        BY <1>3, Places
      <4>2. PICK e : e = s.brk
        OBVIOUS
      <4>3. QED
        BY <1>4, <3>2, <4>1, <4>2
    <3>4. QED
      BY <1>4, <1>6, <3>2, <3>3, Places
  <2>2. QED
    BY <1>8, <2>1
<1>11. QED
  BY <1>9, <1>10 DEF Written, Filled

\* The other live blocks keep their words, and the block itself those both sizes have.
Kept1(g, L, bl, am, i, u, p, n) ==
  /\ Undisturbed(g, u, L \ {i}, bl, am)
  /\ i \in L => SameData(g, bl[i], u, p, Smaller(n, am[i]))
\* A block is allocated or reallocated, recorded and filled.
Filling(t, bl, sz, rs, op, t1, s, p, bl1, sz1, rs1, u) ==
  /\ bl1 = [bl EXCEPT ![op.id] = p] /\ sz1 = [sz EXCEPT ![op.id] = op.size] /\ GoodIn(s, t1, bl1)
  /\ rs1 = RangesOf(LiveSet(t) \ {op.id}, bl, sz) \cup {[lo |-> p, hi |-> p + op.size - 1]}
  /\ u = memset(s, op, p)
\* Its records are true afterwards.
LEMMA FillIsRecorded ==
  ASSUME NEW g, NEW t \in Seq(Ops), NEW bl \in [Ids -> Nat], NEW sz \in [Ids -> Nat], NEW rs,
         Recorded(g, t, bl, sz, rs), NEW op \in Ops, op.type # "FREE", Legal(t, op), NEW t1, t1 = Append(t, op),
         NEW s, NEW p, NEW L, L = LiveSet(t), NEW i, i = op.id, NEW am, am = Amounts(t),
         Undisturbed(g, s, L \ {i}, bl, am),
         NEW bl1, NEW sz1, NEW rs1, NEW u, Filling(t, bl, sz, rs, op, t1, s, p, bl1, sz1, rs1, u)
  PROVE  GoodIn(u, t1, bl1) /\ Recorded(u, t1, bl1, sz1, rs1) /\ Kept1(g, L, bl, am, i, u, p, op.size)
<1>1. PICK n, M, am1 : n = op.size /\ M = LiveSet(t1) /\ am1 = Amounts(t1)
  OBVIOUS
<1>2. i \in Ids /\ n \in Nat
  BY <1>1, OpTypes
<1>3. bl1 = [bl EXCEPT ![i] = p] /\ sz1 = [sz EXCEPT ![i] = n] /\ GoodIn(s, t1, bl1) /\ u = memset(s, op, p)
  BY <1>1 DEF Filling
<1>4. am1 = [am EXCEPT ![i] = n] /\ M = L \cup {i}
  BY <1>1, GoesFurther DEF Further
<1>5. /\ bl1[i] = p /\ sz1[i] = n /\ am1[i] = n /\ i \in M
      /\ \A j \in L \ {i} : bl1[j] = bl[j] /\ sz1[j] = sz[j] /\ am1[j] = am[j]
  <2>1. am = [j \in Ids |-> Last(t, j).size]
    BY DEF Amounts
  <2>2. \A j \in L : j \in Ids
    BY DEF LiveSet
  <2>3. QED
    BY <1>2, <1>3, <1>4, <2>1, <2>2
<1>6. Written(s, p, n, i, u)
  <2>1. GoodIn(s, t1, bl1) /\ u = memset(s, op, p) /\ i \in LiveSet(t1) /\ Amounts(t1)[i] = n /\ p = bl1[i]
    BY <1>1, <1>3, <1>5
  <2>2. QED
    BY <1>1, <2>1, FillsBlock
<1>7. GoodIn(u, t1, bl1) /\ Undisturbed(s, u, M \ {i}, bl1, am1)
  <2>1. PICK W : W = p .. p + n - 1
    OBVIOUS
  <2>2. Changed(s, u, W) /\ \A w \in W : w \in bl1[i] .. bl1[i] + am1[i] - 1
    BY <1>5, <1>6, <2>1 DEF Written
  <2>3. Good(s, M, bl1, am1)
    BY <1>1, <1>3 DEF GoodIn
  <2>4. Good(u, M, bl1, am1) /\ Undisturbed(s, u, M \ {i}, bl1, am1)
    BY <1>5, <2>2, <2>3, WritesData
  <2>5. QED
    BY <1>1, <2>4 DEF GoodIn
<1>8. ASSUME NEW j \in L \ {i}
      PROVE  SameData(g, bl[j], u, bl[j], am[j])
  <2>1. SameData(g, bl[j], s, bl[j], am[j])
    BY DEF Undisturbed
  <2>2. SameData(s, bl1[j], u, bl1[j], am1[j])
    BY <1>4, <1>7 DEF Undisturbed
  <2>3. bl1[j] = bl[j] /\ am1[j] = am[j]
    BY <1>5
  <2>4. SameData(s, bl[j], u, bl[j], am[j])
    BY <2>2, <2>3
  <2>5. QED
    BY <2>1, <2>4 DEF SameData
<1>9. \A j \in L : sz[j] = am[j] /\ Filled(g, bl[j], sz[j], j)
  BY DEF Recorded
<1>10. ASSUME NEW j \in M
       PROVE  sz1[j] = am1[j] /\ Filled(u, bl1[j], sz1[j], j)
  <2>1. CASE j = i
    BY <1>5, <1>6, <2>1 DEF Written
  <2>2. ASSUME j \in L \ {i}
        PROVE  sz1[j] = am1[j] /\ Filled(u, bl1[j], sz1[j], j)
    <3>1. Filled(u, bl[j], sz[j], j)
      BY <1>8, <1>9, <2>2, FilledStays
    <3>2. QED
      BY <1>5, <1>9, <2>2, <3>1
  <2>3. QED
    BY <1>4, <2>1, <2>2
<1>11. rs1 = RangesOf(M, bl1, sz1)
  <2>1. PICK K : K = L \ {i}
    OBVIOUS
  <2>2. RangesOf(K, bl, sz) = RangesOf(K, bl1, sz1)
    <3>1. \A j \in K : [lo |-> bl[j], hi |-> bl[j] + sz[j] - 1] = [lo |-> bl1[j], hi |-> bl1[j] + sz1[j] - 1]
      BY <1>5, <2>1
    <3>2. QED
      BY <3>1 DEF RangesOf
  <2>3. PICK x : x = [lo |-> bl1[i], hi |-> bl1[i] + sz1[i] - 1]
    OBVIOUS
  <2>4. rs1 = RangesOf(K, bl, sz) \cup {x}
    BY <1>1, <1>5, <2>1, <2>3 DEF Filling
  <2>5. RangesOf(M, bl1, sz1) = RangesOf(K, bl1, sz1) \cup {x}
    <3>1. \A j : j \in M <=> j \in K \/ j = i
      BY <1>4, <2>1
    <3>2. QED
      BY <2>3, <3>1 DEF RangesOf
  <2>6. QED
    BY <2>2, <2>4, <2>5
<1>12. Recorded(u, t1, bl1, sz1, rs1)
  BY <1>1, <1>10, <1>11 DEF Recorded
<1>13. ASSUME i \in L
       PROVE  SameData(g, bl[i], u, p, Smaller(n, am[i]))
  <2>1. PICK b, k : b = bl[i] /\ k = am[i]
    OBVIOUS
  <2>2. Filled(g, b, k, i) /\ Filled(u, p, n, i)
    BY <1>6, <1>9, <1>13, <2>1 DEF Written
  <2>3. k \in Nat
    BY <1>2, <1>9, <1>13, <2>1
  <2>4. \A j \in 0 .. Smaller(n, k) - 1 : j \in 0 .. n - 1 /\ j \in 0 .. k - 1
    BY <1>2, <2>3 DEF Smaller
  <2>5. SameData(g, b, u, p, Smaller(n, k))
    BY <2>2, <2>4 DEF Filled, SameData
  <2>6. QED
    BY <2>1, <2>5
<1>14. Kept1(g, L, bl, am, i, u, p, op.size)
  BY <1>1, <1>8, <1>13 DEF Kept1, Undisturbed
<1>15. QED
  BY <1>7, <1>12, <1>14

(***************************************************************************)
(* The checks of eval_mm_valid find no fault with an answer.               *)
(***************************************************************************)
\* add_range accepts a block that is inside the heap and apart from the others.
LEMMA RangeIsFine ==
  ASSUME NEW s, NEW M, NEW bl1, NEW am1, Good(s, M, bl1, am1), NEW i \in M, NEW p, p = bl1[i], NEW n, n = am1[i],
         NEW rs, rs = RangesOf(M \ {i}, bl1, am1)
  PROVE  ~add_rangeFails(s, rs, p, p + n - 1)
<1>1. GoodFor(s, M, bl1, am1)
  BY GoodBlocks
<1>2. Inside(s, p, n) /\ s \in Heaps
  BY <1>1 DEF GoodFor
<1>3. p \in Nat /\ n \in Nat /\ n # 0 /\ p % 2 = 0 /\ 16 <= p /\ p + n < s.brk /\ s.brk \in Nat
  BY <1>2 DEF Inside, Heaps
<1>4. PICK hi : hi = p + n - 1
  OBVIOUS
<1>5. hi \in Nat /\ p <= hi /\ hi < s.brk - 1
  BY <1>3, <1>4
<1>6. ASSUME NEW r \in rs
      PROVE  ~Overlaps(p, hi, r)
  <2>1. PICK j \in M : j # i /\ r = [lo |-> bl1[j], hi |-> bl1[j] + am1[j] - 1]
    BY DEF RangesOf
  <2>2. PICK b, m : b = bl1[j] /\ m = am1[j]
    OBVIOUS
  <2>3. r.lo = b /\ r.hi = b + m - 1
    BY <2>1, <2>2
  <2>4. Inside(s, b, m) /\ Clear(p, n, b, m)
    BY <1>1, <2>1, <2>2 DEF GoodFor
  <2>5. b \in Nat /\ m \in Nat /\ m # 0
    BY <2>4 DEF Inside
  <2>6. p + n <= b \/ b + m <= p
    BY <2>4 DEF Clear
  <2>7. PICK lo1, hi1 : lo1 = r.lo /\ hi1 = r.hi
    OBVIOUS
  <2>8. ~((p >= lo1 /\ p <= hi1) \/ (hi >= lo1 /\ hi <= hi1))
    BY <1>3, <1>4, <2>3, <2>5, <2>6, <2>7
  <2>9. QED
    BY <2>7, <2>8 DEF Overlaps
<1>7. p % DSIZE = 0 /\ mem_start_brk = 2
  BY <1>3, Places
<1>8. mem_heap_hi(s) = s.brk - 1
  BY DEF mem_heap_hi
<1>9. /\ ~(p < mem_start_brk) /\ ~(p > mem_heap_hi(s))
      /\ ~(hi < mem_start_brk) /\ ~(hi > mem_heap_hi(s))
  BY <1>3, <1>5, <1>7, <1>8
<1>10. ~add_rangeFails(s, rs, p, hi)
  BY <1>6, <1>7, <1>9 DEF add_rangeFails
<1>11. QED
  BY <1>4, <1>10

\* The check of a reallocated block finds its bytes, if its id is one a byte can tell.
LEMMA NothingIsLost ==
  ASSUME NEW g, NEW op \in Ops, NEW b, NEW k \in Nat, k = sizes[op.id], Filled(g, b, k, op.id),
         NEW s, NEW p, SameData(g, b, s, p, Smaller(op.size, k)), op.id \notin HighIds
  PROVE  ~Lost(s, op, p)
<1>1. PICK n, i : n = op.size /\ i = op.id
  OBVIOUS
<1>2. n \in Nat
  BY <1>1, OpTypes
<1>3. PICK m : m = Smaller(n, k)
  OBVIOUS
<1>4. \A j \in 0 .. m - 1 : j \in 0 .. k - 1
  BY <1>2, <1>3 DEF Smaller
<1>5. \A j \in 0 .. m - 1 : s.m[p + j] = i
  BY <1>1, <1>3, <1>4 DEF Filled, SameData
<1>6. m = IF op.size < sizes[op.id] THEN op.size ELSE sizes[op.id]
  BY <1>1, <1>3 DEF Smaller
<1>7. QED
  BY <1>1, <1>5, <1>6 DEF Lost

(***************************************************************************)
(* What a step of eval_mm_valid comes to.                                  *)
(***************************************************************************)
\* The request is answered with s and a block at p.
AnswersWith(op, s, p) == Answer(Call(op), s, p) /\ p # 0
\* A block is freed; allocated or reallocated and filled; a fault is found.
FreeStep(op) ==
  /\ op.type = "FREE" /\ pass' = "valid" /\ UNCHANGED <<blocks, sizes, message, tracenum>>
  /\ AnswersWith(op, h', blocks[op.id])
  /\ GoodIn(h', trace', blocks) /\ Undisturbed(h, h', LiveSet(trace'), blocks, Amounts(trace'))
  /\ ranges' = Forgotten(ranges, blocks[op.id])
FillStep(op) ==
  /\ op.type # "FREE" /\ pass' = "valid" /\ UNCHANGED <<message, tracenum>>
  /\ \E s, p : /\ AnswersWith(op, s, p)
               /\ Undisturbed(h, s, LiveSet(trace) \ {op.id}, blocks, Amounts(trace)) /\ p \in Nat
               /\ Filling(trace, blocks, sizes, ranges, op, trace', s, p, blocks', sizes', ranges', h')
FaultStep(op) ==
  /\ pass' = "next" /\ tracenum' = tracenum + 1 /\ h' \in Heaps /\ UNCHANGED <<blocks, sizes>>
  /\ \E m : /\ message' = [says |-> m, of |-> op, trace |-> tracenum + 1]
            /\ \/ /\ m = "returned NULL"
                  /\ op.size # 0 => Denied(h', blocks', op)
               \/ m = "lost data" /\ op.type = "REALLOC" /\ op.id \in HighIds

\* A step of eval_mm_valid is one of these.
LEMMA ValidSteps ==
  ASSUME DriverInv, NEW op \in Ops, ValidOp(op)
  PROVE  FreeStep(op) \/ FillStep(op) \/ FaultStep(op)
<1>1. /\ h \in Heaps /\ trace \in Seq(Ops) /\ blocks \in [Ids -> Nat] /\ sizes \in [Ids -> Nat]
      /\ pass = "valid" /\ pos = Len(trace) /\ Recorded(h, trace, blocks, sizes, ranges)
      /\ GoodIn(h, Done, blocks)
  BY DEF DriverInv, DriverType, ValidOp, Replaying
<1>2. Done = trace
  BY <1>1, WholePrefix DEF Done, Prefix
<1>3. GoodIn(h, trace, blocks) /\ Legal(trace, op)
  BY <1>1, <1>2 DEF ValidOp, LegalOp, Legal, Live, LiveIn
<1>4. PICK known : known = IF op.type = "ALLOC" THEN ranges ELSE remove_range(blocks[op.id])
  OBVIOUS
<1>5. PICK r, fault : /\ r = Call(op)
                      /\ fault = IF op.type = "FREE" THEN "none" ELSE Fault(op, r, known)
                      /\ Judge(op, r, known, fault)
  BY <1>4 DEF ValidOp
<1>6. trace' = Append(trace, op)
  BY DEF ValidOp
<1>7. PICK t1 : t1 = Append(trace, op)
  OBVIOUS
<1>8. Answered(h, trace, blocks, op, t1, r)
  <2>1. r = CallOn(h, blocks, op)
    BY <1>5 DEF Call, CallOn
  <2>2. QED
    BY <1>1, <1>3, <1>7, <2>1, AnswersCall
<1>9. PICK L, i, n : L = LiveSet(trace) /\ i = op.id /\ n = op.size
  OBVIOUS
<1>10. op.type \in {"ALLOC", "REALLOC", "FREE"} /\ i \in Ids /\ n \in Nat /\ (op.type = "ALLOC" <=> i \notin L)
  BY <1>3, <1>9, OpTypes, LegalIsLive
<1>11. CASE op.type = "FREE"
  <2>1. PICK s : /\ Answer(r, s, blocks[op.id]) /\ blocks[op.id] # 0
                 /\ GoodIn(s, t1, blocks) /\ Undisturbed(h, s, LiveSet(t1), blocks, Amounts(t1))
    BY <1>8, <1>11 DEF Answered, Gone
  <2>2. fault = "none"
    BY <1>5, <1>11
  <2>3. h' = r.h /\ UNCHANGED <<blocks, sizes>> /\ UNCHANGED <<tracenum, pass, message>>
    BY <1>5, <1>11, <2>2 DEF Judge
  <2>4. h' = s
    BY <2>1, <2>3 DEF Answer
  <2>5. ranges' = known
    <3>1. ranges' = known \cup {}
      BY <1>5, <1>11, <2>2 DEF Judge
    <3>2. QED
      BY <3>1
  <2>6. known = Forgotten(ranges, blocks[op.id])
    BY <1>4, <1>11 DEF remove_range, Forgotten
  <2>7. FreeStep(op)
    <3>1. AnswersWith(op, h', blocks[op.id])
      BY <1>5, <2>1, <2>4 DEF AnswersWith
    <3>2. QED
      BY <1>1, <1>6, <1>7, <1>11, <2>1, <2>3, <2>4, <2>5, <2>6, <3>1 DEF FreeStep
  <2>8. QED
    BY <2>7
<1>12. ASSUME op.type # "FREE", Declined(blocks, op, r)
       PROVE  FaultStep(op)
  <2>1. r.p = NULL /\ r.h \in Heaps /\ (op.size # 0 => Denied(r.h, blocks, op))
    BY <1>12, Places DEF Declined, Turned
  <2>2. fault = "returned NULL"
    BY <1>5, <1>12, <2>1 DEF Fault
  <2>3. /\ h' = r.h /\ UNCHANGED <<blocks, sizes>> /\ pass' = "next" /\ tracenum' = tracenum + 1
        /\ message' = [says |-> fault, of |-> op, trace |-> tracenum + 1]
    BY <1>5, <2>2 DEF Judge, NextTrace
  <2>4. QED
    BY <2>1, <2>2, <2>3 DEF FaultStep
<1>13. ASSUME op.type # "FREE", Accepted(h, trace, blocks, op, t1, r)
       PROVE  FillStep(op) \/ FaultStep(op)
  <2>1. PICK s, p, bl1 :
               /\ Answer(r, s, p) /\ p # 0 /\ op.size # 0
               /\ bl1 = [blocks EXCEPT ![op.id] = p] /\ GoodIn(s, t1, bl1)
               /\ Undisturbed(h, s, LiveSet(trace) \ {op.id}, blocks, Amounts(trace))
               /\ op.type = "REALLOC" =>
                    SameData(h, blocks[op.id], s, p, Smaller(op.size, Amounts(trace)[op.id]))
    BY <1>13 DEF Accepted
  <2>2. r.p = p /\ r.h = s /\ r.p # NULL
    BY <2>1, Places DEF Answer
  <2>3. PICK M, am, am1 : M = LiveSet(t1) /\ am = Amounts(trace) /\ am1 = Amounts(t1)
    OBVIOUS
  <2>4. am1 = [am EXCEPT ![i] = n] /\ M = L \cup {i}
    BY <1>1, <1>7, <1>9, <1>13, <2>3, GoesFurther DEF Further
  <2>5. GoodFor(s, M, bl1, am1) /\ Good(s, M, bl1, am1) /\ s \in Heaps
    <3>1. Good(s, M, bl1, am1)
      BY <2>1, <2>3 DEF GoodIn
    <3>2. QED
      BY <3>1, GoodBlocks DEF GoodFor
  <2>6. /\ bl1[i] = p /\ am1[i] = n /\ i \in M
        /\ \A j \in L \ {i} : bl1[j] = blocks[j] /\ am1[j] = am[j]
    <3>1. am = [j \in Ids |-> Last(trace, j).size]
      BY <2>3 DEF Amounts
    <3>2. \A j \in L : j \in Ids
      BY <1>9 DEF LiveSet
    <3>3. QED
      BY <1>1, <1>9, <1>10, <2>1, <2>4, <3>1, <3>2
  <2>7. known = RangesOf(L \ {i}, blocks, sizes)
    <3>1. CASE op.type = "ALLOC"
      <4>1. L \ {i} = L
        BY <1>10, <3>1
      <4>2. ranges = RangesOf(L, blocks, sizes)
        BY <1>1, <1>9 DEF Recorded
      <4>3. QED
        BY <1>4, <3>1, <4>1, <4>2
    <3>2. CASE op.type = "REALLOC"
      <4>1. PICK b : b = blocks[i]
        OBVIOUS
      <4>2. Distinct(L, blocks)
        BY <1>3, <1>9, GoodIsDistinct
      <4>3. known = Forgotten(ranges, b)
        BY <1>4, <1>9, <3>2, <4>1 DEF remove_range, Forgotten
      <4>4. Without(L, blocks, sizes, i, ranges, b, known)
        BY <1>1, <1>9, <1>10, <3>2, <4>1, <4>2, <4>3 DEF Without, Recorded
      <4>5. QED
        BY <4>4, RangesWithout DEF RangesLeft
    <3>3. QED
      BY <1>10, <1>13, <3>1, <3>2
  <2>8. \A j \in L : sizes[j] = am[j] /\ Filled(h, blocks[j], sizes[j], j)
    BY <1>1, <1>9, <2>3 DEF Recorded
  <2>9. ~add_rangeFails(s, known, p, p + n - 1)
    <3>1. known = RangesOf(M \ {i}, bl1, am1)
      <4>1. M \ {i} = L \ {i}
        BY <2>4
      <4>2. PICK K : K = L \ {i}
        OBVIOUS
      <4>3. \A j \in K : bl1[j] = blocks[j] /\ am1[j] = sizes[j]
        BY <2>6, <2>8, <4>2
      <4>4. RangesOf(K, blocks, sizes) = RangesOf(K, bl1, am1)
        BY <4>3 DEF RangesOf
      <4>5. QED
        BY <2>7, <4>1, <4>2, <4>4
    <3>2. QED
      BY <2>5, <2>6, <3>1, RangeIsFine
  <2>10. fault = IF op.type = "REALLOC" /\ Lost(s, op, p) THEN "lost data" ELSE "none"
    BY <1>5, <1>9, <1>13, <2>2, <2>9 DEF Fault
  <2>11. CASE fault = "lost data"
    <3>1. op.type = "REALLOC" /\ Lost(s, op, p)
      BY <2>10, <2>11
    <3>2. op.id \in HighIds
      <4>1. PICK k, b : k = sizes[i] /\ b = blocks[i]
        OBVIOUS
      <4>2. i \in L
        BY <1>10, <3>1
      <4>3. k \in Nat /\ Filled(h, b, k, op.id) /\ k = am[i]
        BY <1>1, <1>9, <1>10, <2>8, <4>1, <4>2
      <4>4. SameData(h, b, s, p, Smaller(op.size, k))
        BY <1>9, <2>1, <2>3, <3>1, <4>1, <4>3
      <4>5. k = sizes[op.id]
        BY <1>9, <4>1
      <4>6. QED
        BY <3>1, <4>3, <4>4, <4>5, NothingIsLost
    <3>3. /\ h' = r.h /\ UNCHANGED <<blocks, sizes>> /\ pass' = "next" /\ tracenum' = tracenum + 1
          /\ message' = [says |-> fault, of |-> op, trace |-> tracenum + 1]
      BY <1>5, <2>11 DEF Judge, NextTrace
    <3>4. FaultStep(op)
      BY <2>2, <2>5, <2>11, <3>1, <3>2, <3>3 DEF FaultStep
    <3>5. QED
      BY <3>4
  <2>12. CASE fault = "none"
    <3>1. /\ h' = memset(s, op, p) /\ Remember(op, p) /\ UNCHANGED <<tracenum, pass, message>>
      BY <1>5, <1>13, <2>2, <2>12 DEF Judge
    <3>2. blocks' = bl1 /\ sizes' = [sizes EXCEPT ![op.id] = op.size]
      BY <2>1, <3>1 DEF Remember
    <3>3. ranges' = known \cup {[lo |-> p, hi |-> p + op.size - 1]}
      <4>1. ranges' = known \cup IF op.type = "FREE" \/ fault = "bad range" THEN {}
                                 ELSE {[lo |-> r.p, hi |-> r.p + op.size - 1]}
        BY <1>5, <2>12 DEF Judge
      <4>2. QED
        BY <1>13, <2>2, <2>12, <4>1
    <3>4. Filling(trace, blocks, sizes, ranges, op, trace', s, p, blocks', sizes', ranges', h')
      BY <1>6, <1>7, <1>9, <2>1, <2>7, <3>1, <3>2, <3>3 DEF Filling
    <3>5. p \in Nat
      BY <2>5, <2>6 DEF GoodFor, Inside
    <3>6. FillStep(op)
      <4>1. AnswersWith(op, s, p)
        BY <1>5, <2>1 DEF AnswersWith
      <4>2. QED
        BY <1>1, <1>13, <2>1, <3>1, <3>4, <3>5, <4>1 DEF FillStep
    <3>7. QED
      BY <3>6
  <2>13. QED
    BY <2>10, <2>11, <2>12
<1>14. QED
  BY <1>8, <1>11, <1>12, <1>13 DEF Answered

(***************************************************************************)
(* The steps of the passes, by what they do to the allocated blocks.       *)
(***************************************************************************)
\* A block is freed; one is allocated or reallocated; the pass stops.
FreesOne(op) ==
  /\ op.type = "FREE" /\ Replaying /\ Replaying' /\ Done' = Append(Done, op) /\ blocks' = blocks
  /\ GoodIn(h', Done', blocks) /\ Undisturbed(h, h', LiveSet(Done'), blocks, Amounts(Done'))
ServesOne(op, p) ==
  /\ op.type # "FREE" /\ Replaying /\ Replaying' /\ Done' = Append(Done, op) /\ p \in Nat
  /\ blocks' = [blocks EXCEPT ![op.id] = p] /\ GoodIn(h', Done', blocks')
  /\ Kept1(h, LiveSet(Done), blocks, Amounts(Done), op.id, h', p, op.size)
Stops == ~Replaying' /\ h' \in Heaps /\ blocks' \in [Ids -> Nat]
OnOps == \E op \in Ops : Legal(Done, op) /\ (FreesOne(op) \/ \E p : ServesOne(op, p))

\* What a step of the two other passes does to the tables.
ReplayTables(op) ==
  /\ pass \in {"util", "speed"} /\ UNCHANGED <<trace, ranges, message, tracenum>> /\ pos' = pos + 1 /\ pos' \in 0 .. Len(trace)
  /\ sizes' \in [Ids -> Nat] /\ op \in Ops /\ Legal(Done, op) /\ (pass' = pass \/ pass' = "exit")

\* A step of eval_mm_util or eval_mm_speed is one of these.
LEMMA ReplaySteps ==
  ASSUME DriverInv, ReplayOp
  PROVE  \E op : ReplayTables(op) /\ (FreesOne(op) \/ (\E p : ServesOne(op, p)) \/ Stops)
<1>1. /\ h \in Heaps /\ trace \in Seq(Ops) /\ blocks \in [Ids -> Nat] /\ sizes \in [Ids -> Nat]
      /\ pos \in 0 .. Len(trace) /\ pos < Len(trace) /\ pass \in {"util", "speed"} /\ LegalTrace(trace)
      /\ GoodIn(h, Done, blocks) /\ Replaying
  BY DEF DriverInv, DriverType, ReplayOp, Replaying
<1>2. PICK t, q : t = Done /\ q = pos + 1
  OBVIOUS
<1>3. q \in 1 .. Len(trace) /\ q \in 0 .. Len(trace) /\ q - 1 = pos /\ Len(trace) \in Nat
  BY <1>1, <1>2
<1>4. t = Prefix(trace, pos) /\ t \in Seq(Ops)
  BY <1>1, <1>2, PrefixType DEF Done, Prefix
<1>5. PICK op, r : op = trace[q] /\ r = Call(op) /\ Trust(op, r)
  BY <1>2 DEF ReplayOp
<1>6. Prefix(trace, q) = Append(t, op) /\ op \in Ops
  BY <1>1, <1>2, <1>4, <1>5, PrefixGrows
<1>7. Legal(t, op)
  BY <1>1, <1>3, <1>4, <1>5 DEF LegalTrace
<1>8. PICK t1 : t1 = Append(t, op)
  OBVIOUS
<1>9. Answered(h, t, blocks, op, t1, r)
  <2>1. r = CallOn(h, blocks, op) /\ GoodIn(h, t, blocks)
    BY <1>1, <1>2, <1>5 DEF Call, CallOn
  <2>2. QED
    BY <1>1, <1>4, <1>6, <1>7, <1>8, <2>1, AnswersCall
<1>10. /\ h' = r.h /\ pos' = q /\ trace' = trace /\ UNCHANGED <<ranges, message, tracenum>>
       /\ pass' = IF r.p = NULL THEN "exit" ELSE pass
       /\ blocks' = IF op.type = "FREE" THEN blocks ELSE [blocks EXCEPT ![op.id] = r.p]
  BY <1>2, <1>5 DEF Trust
<1>11. Done' = t1
  <2>1. Done' = SubSeq(trace', 1, pos')
    BY DEF Done
  <2>2. QED
    BY <1>6, <1>8, <1>10, <2>1 DEF Prefix
<1>12. op.id \in Ids /\ op.size \in Nat
  BY <1>6, OpTypes
<1>13. ReplayTables(op)
  <2>1. CASE pass = "speed"
    <3>1. sizes' = sizes
      BY <1>5, <2>1 DEF Trust
    <3>2. QED
      BY <1>1, <1>2, <1>3, <1>6, <1>7, <1>10, <3>1 DEF ReplayTables
  <2>2. CASE pass # "speed"
    <3>1. sizes' = IF op.type = "FREE" THEN sizes ELSE [sizes EXCEPT ![op.id] = op.size]
      BY <1>5, <2>2 DEF Trust
    <3>2. sizes' \in [Ids -> Nat]
      BY <1>1, <1>12, <3>1
    <3>3. QED
      BY <1>1, <1>2, <1>3, <1>6, <1>7, <1>10, <3>2 DEF ReplayTables
  <2>3. QED
    BY <2>1, <2>2
<1>14. CASE op.type = "FREE"
  <2>1. PICK s : /\ Answer(r, s, blocks[op.id]) /\ blocks[op.id] # 0
                 /\ GoodIn(s, t1, blocks) /\ Undisturbed(h, s, LiveSet(t1), blocks, Amounts(t1))
    BY <1>9, <1>14 DEF Answered, Gone
  <2>2. h' = s /\ r.p # NULL
    BY <1>10, <2>1, Places DEF Answer
  <2>3. pass' = pass /\ blocks' = blocks
    BY <1>10, <1>14, <2>2
  <2>4. Replaying'
    BY <1>1, <2>3 DEF Replaying
  <2>5. FreesOne(op)
    BY <1>1, <1>2, <1>8, <1>11, <1>14, <2>1, <2>2, <2>3, <2>4 DEF FreesOne
  <2>6. QED
    BY <1>13, <2>5
<1>15. ASSUME op.type # "FREE", Declined(blocks, op, r)
       PROVE  Stops
  <2>1. r.p = NULL /\ r.p = 0 /\ r.h \in Heaps
    BY <1>15, Places DEF Declined, Turned
  <2>2. pass' = "exit" /\ h' \in Heaps /\ blocks' = [blocks EXCEPT ![op.id] = 0]
    BY <1>10, <1>15, <2>1
  <2>3. blocks' \in [Ids -> Nat]
    BY <1>1, <1>12, <2>2
  <2>4. QED
    BY <2>2, <2>3 DEF Stops, Replaying
<1>16. ASSUME op.type # "FREE", Accepted(h, t, blocks, op, t1, r)
       PROVE  \E p : ServesOne(op, p)
  <2>1. PICK s, p, bl1 :
               /\ Answer(r, s, p) /\ p # 0 /\ op.size # 0
               /\ bl1 = [blocks EXCEPT ![op.id] = p] /\ GoodIn(s, t1, bl1)
               /\ Undisturbed(h, s, LiveSet(t) \ {op.id}, blocks, Amounts(t))
               /\ op.type = "REALLOC" => SameData(h, blocks[op.id], s, p, Smaller(op.size, Amounts(t)[op.id]))
    BY <1>16 DEF Accepted
  <2>2. r.p = p /\ r.h = s /\ r.p # NULL
    BY <2>1, Places DEF Answer
  <2>3. h' = s /\ pass' = pass /\ blocks' = bl1
    BY <1>10, <1>16, <2>1, <2>2
  <2>4. Kept1(h, LiveSet(t), blocks, Amounts(t), op.id, s, p, op.size)
    <3>1. op.id \in LiveSet(t) => op.type = "REALLOC"
      BY <1>6, <1>7, <1>16, LegalIsLive, OpTypes
    <3>2. QED
      BY <2>1, <3>1 DEF Kept1
  <2>5. p \in Nat
    <3>1. GoodFor(s, LiveSet(t1), bl1, Amounts(t1))
      BY <2>1, GoodBlocks DEF GoodIn
    <3>2. op.id \in LiveSet(t1)
      <4>1. LiveSet(t1) = LiveSet(t) \cup {op.id}
        BY <1>4, <1>6, <1>8, <1>16, GoesFurther DEF Further
      <4>2. QED
        BY <4>1
    <3>3. bl1[op.id] = p
      BY <1>1, <1>12, <2>1
    <3>4. QED
      BY <3>1, <3>2, <3>3 DEF GoodFor, Inside
  <2>6. Replaying'
    BY <1>1, <2>3 DEF Replaying
  <2>7. ServesOne(op, p)
    BY <1>1, <1>2, <1>8, <1>11, <1>16, <2>1, <2>3, <2>4, <2>5, <2>6 DEF ServesOne
  <2>8. QED
    BY <2>7
<1>17. QED
  BY <1>9, <1>13, <1>14, <1>15, <1>16 DEF Answered

(***************************************************************************)
(* A step of eval_mm_valid that finds no fault.                            *)
(***************************************************************************)
\* The trace of eval_mm_valid grows by the request.
LEMMA ValidTables ==
  ASSUME DriverInv, NEW op \in Ops, ValidOp(op)
  PROVE  /\ Done = trace /\ pass = "valid" /\ Legal(trace, op) /\ trace' = Append(trace, op) /\ Done' = trace'
         /\ trace' \in Seq(Ops) /\ LegalTrace(trace') /\ pos' = Len(trace') /\ pos' \in 0 .. Len(trace')
<1>1. trace \in Seq(Ops) /\ LegalTrace(trace) /\ pass = "valid" /\ pos = Len(trace)
  BY DEF DriverInv, DriverType, ValidOp
<1>2. Done = trace
  BY <1>1, WholePrefix DEF Done, Prefix
<1>3. Legal(trace, op)
  BY <1>2 DEF ValidOp, LegalOp, Legal, Live, LiveIn
<1>4. trace' = Append(trace, op) /\ pos' = pos + 1
  BY DEF ValidOp
<1>5. LegalTrace(trace')
  BY <1>1, <1>3, <1>4, LegalLonger
<1>6. trace' \in Seq(Ops) /\ pos' = Len(trace') /\ pos' \in 0 .. Len(trace')
  BY <1>1, <1>4
<1>7. Done' = SubSeq(trace', 1, pos')
  BY DEF Done
<1>8. Done' = trace'
  BY <1>6, <1>7, WholePrefix DEF Prefix
<1>9. QED
  BY <1>1, <1>2, <1>3, <1>4, <1>5, <1>6, <1>8

\* Freeing keeps the invariant.
LEMMA FreeStepWorks ==
  ASSUME DriverInv, NEW op \in Ops, ValidOp(op), FreeStep(op)
  PROVE  DriverInv' /\ FreesOne(op)
<1>1. /\ Done = trace /\ pass = "valid" /\ Legal(trace, op) /\ trace' = Append(trace, op) /\ Done' = trace'
      /\ trace' \in Seq(Ops) /\ LegalTrace(trace') /\ pos' = Len(trace') /\ pos' \in 0 .. Len(trace')
  BY ValidTables
<1>2. /\ trace \in Seq(Ops) /\ blocks \in [Ids -> Nat] /\ sizes \in [Ids -> Nat]
      /\ Recorded(h, trace, blocks, sizes, ranges) /\ GoodIn(h, trace, blocks)
  BY <1>1 DEF DriverInv, DriverType, Replaying
<1>3. /\ op.type = "FREE" /\ pass' = "valid" /\ blocks' = blocks /\ sizes' = sizes
      /\ GoodIn(h', trace', blocks) /\ Undisturbed(h, h', LiveSet(trace'), blocks, Amounts(trace'))
      /\ ranges' = Forgotten(ranges, blocks[op.id])
  BY DEF FreeStep
<1>4. PICK t1, s : t1 = Append(trace, op) /\ s = h'
  OBVIOUS
<1>5. Recorded(s, t1, blocks, sizes, Forgotten(ranges, blocks[op.id]))
  BY <1>1, <1>2, <1>3, <1>4, FreeIsRecorded
<1>6. h' \in Heaps
  BY <1>3, GoodIsDistinct
<1>7. DriverType'
  BY <1>1, <1>2, <1>3, <1>6 DEF DriverType
<1>8. Replaying /\ Replaying'
  BY <1>1, <1>3 DEF Replaying
<1>9. Recorded(h', trace', blocks', sizes', ranges')
  BY <1>1, <1>3, <1>4, <1>5
<1>10. GoodIn(h', Done', blocks')
  BY <1>1, <1>3
<1>11. FreesOne(op)
  BY <1>1, <1>3, <1>8 DEF FreesOne
<1>12. QED
  BY <1>1, <1>7, <1>9, <1>10, <1>11 DEF DriverInv

\* Allocating and reallocating keep the invariant.
LEMMA FillStepWorks ==
  ASSUME DriverInv, NEW op \in Ops, ValidOp(op), FillStep(op)
  PROVE  DriverInv' /\ \E p : ServesOne(op, p)
<1>1. /\ Done = trace /\ pass = "valid" /\ Legal(trace, op) /\ trace' = Append(trace, op) /\ Done' = trace'
      /\ trace' \in Seq(Ops) /\ LegalTrace(trace') /\ pos' = Len(trace') /\ pos' \in 0 .. Len(trace')
  BY ValidTables
<1>2. /\ trace \in Seq(Ops) /\ blocks \in [Ids -> Nat] /\ sizes \in [Ids -> Nat]
      /\ Recorded(h, trace, blocks, sizes, ranges)
  BY <1>1 DEF DriverInv, DriverType
<1>3. PICK s, p :
        /\ Undisturbed(h, s, LiveSet(trace) \ {op.id}, blocks, Amounts(trace)) /\ p \in Nat
        /\ Filling(trace, blocks, sizes, ranges, op, trace', s, p, blocks', sizes', ranges', h')
        /\ op.type # "FREE" /\ pass' = "valid"
  BY DEF FillStep
<1>4. PICK g, t, bl, sz, rs, L, i, am, t1, bl1, sz1, rs1, u :
        /\ g = h /\ t = trace /\ bl = blocks /\ sz = sizes /\ rs = ranges /\ L = LiveSet(trace) /\ i = op.id
        /\ am = Amounts(trace) /\ t1 = trace' /\ bl1 = blocks' /\ sz1 = sizes' /\ rs1 = ranges' /\ u = h'
  OBVIOUS
<1>5. /\ t \in Seq(Ops) /\ bl \in [Ids -> Nat] /\ sz \in [Ids -> Nat] /\ Recorded(g, t, bl, sz, rs)
      /\ Legal(t, op) /\ t1 = Append(t, op) /\ L = LiveSet(t) /\ am = Amounts(t)
      /\ Undisturbed(g, s, L \ {i}, bl, am) /\ Filling(t, bl, sz, rs, op, t1, s, p, bl1, sz1, rs1, u)
  BY <1>1, <1>2, <1>3, <1>4
<1>6. GoodIn(u, t1, bl1) /\ Recorded(u, t1, bl1, sz1, rs1) /\ Kept1(g, L, bl, am, i, u, p, op.size)
  BY <1>3, <1>4, <1>5, FillIsRecorded
<1>7. op.id \in Ids /\ op.size \in Nat
  BY OpTypes
<1>8. blocks' = [blocks EXCEPT ![op.id] = p] /\ sizes' = [sizes EXCEPT ![op.id] = op.size]
  BY <1>3 DEF Filling
<1>9. blocks' \in [Ids -> Nat] /\ sizes' \in [Ids -> Nat]
  BY <1>2, <1>3, <1>7, <1>8
<1>10. h' \in Heaps
  BY <1>4, <1>6, GoodIsDistinct
<1>11. DriverType'
  BY <1>1, <1>9, <1>10 DEF DriverType
<1>12. Replaying /\ Replaying'
  BY <1>1, <1>3 DEF Replaying
<1>13. GoodIn(h', Done', blocks') /\ Recorded(h', trace', blocks', sizes', ranges')
  BY <1>1, <1>4, <1>6
<1>14. DriverInv'
  BY <1>1, <1>11, <1>13 DEF DriverInv
<1>15. ServesOne(op, p)
  BY <1>1, <1>3, <1>4, <1>6, <1>8, <1>12, <1>13 DEF ServesOne
<1>16. QED
  BY <1>14, <1>15

(***************************************************************************)
(* The invariant of mdriver.                                               *)
(***************************************************************************)
\* The invariant holds at first.
LEMMA DriverStarts == Init => DriverInv
<1> SUFFICES ASSUME Init
             PROVE  DriverInv
  OBVIOUS
<1>1. h \in Heaps
  <2>1. h = [m |-> [w \in Memory |-> Uninit], brk |-> 2] /\ Uninit \in Nat
    BY HeapAssumption, Places DEF Init, mem_init
  <2>2. QED
    BY <2>1 DEF Heaps
<1>2. trace = << >> /\ pos = 0 /\ pass = "next"
  BY DEF Init
<1>3. trace \in Seq(Ops) /\ Len(trace) = 0 /\ pos \in 0 .. Len(trace)
  BY <1>2
<1>4. LegalTrace(trace)
  BY <1>3 DEF LegalTrace
<1>5. blocks \in [Ids -> Nat] /\ sizes \in [Ids -> Nat]
  BY Places DEF Init
<1>6. DriverType
  BY <1>1, <1>3, <1>4, <1>5 DEF DriverType
<1>7. QED
  BY <1>2, <1>6 DEF DriverInv, Replaying

\* A pass begins on a heap that has been reset.
Restarts == Replaying' /\ Done' = << >> /\ h' \in Heaps
\* A pass that starts has the invariant.
LEMMA PassStarts ==
  ASSUME DriverInv, NEW p \in {"util", "speed"}, StartPass(p), UNCHANGED sizes
  PROVE  DriverInv' /\ (Restarts \/ Stops)
<1>1. /\ h \in Heaps /\ trace \in Seq(Ops) /\ blocks \in [Ids -> Nat] /\ sizes \in [Ids -> Nat]
      /\ LegalTrace(trace)
  BY DEF DriverInv, DriverType
<1>2. PICK r : r = Started(h) /\ h' = r.h /\ pass' = IF r.p = NULL THEN "exit" ELSE p
  BY DEF StartPass
<1>3. pos' = 0 /\ trace' = trace /\ blocks' = blocks /\ sizes' = sizes
  BY DEF StartPass
<1>4. r.h \in Heaps /\ (r.p # 0 => GoodIn(r.h, << >>, blocks))
  BY <1>1, <1>2, Begins
<1>5. pos' \in 0 .. Len(trace')
  BY <1>1, <1>3
<1>6. DriverType'
  BY <1>1, <1>2, <1>3, <1>4, <1>5 DEF DriverType
<1>7. Done' = << >>
  <2>1. Done' = SubSeq(trace', 1, pos')
    BY DEF Done
  <2>2. QED
    BY <1>1, <1>3, <2>1, WholePrefix DEF Prefix
<1>8. pass' # "valid"
  BY <1>2
<1>9. CASE r.p = NULL
  <2>1. pass' = "exit"
    BY <1>2, <1>9
  <2>2. DriverInv'
    BY <1>6, <2>1 DEF DriverInv, Replaying
  <2>3. Stops
    BY <1>1, <1>2, <1>3, <1>4, <2>1 DEF Stops, Replaying
  <2>4. QED
    BY <2>2, <2>3
<1>10. CASE r.p # NULL
  <2>1. GoodIn(h', Done', blocks')
    BY <1>2, <1>3, <1>4, <1>7, <1>10, Places
  <2>2. DriverInv'
    BY <1>6, <1>8, <2>1 DEF DriverInv
  <2>3. Replaying'
    BY <1>2, <1>10 DEF Replaying
  <2>4. Restarts
    BY <1>2, <1>4, <1>7, <2>3 DEF Restarts
  <2>5. QED
    BY <2>2, <2>4
<1>11. QED
  BY <1>9, <1>10

\* No pass is under way; every step is one of these.
Idles == UNCHANGED <<h, blocks, trace, pos>> /\ ~Replaying /\ ~Replaying'
Moves == OnOps \/ Restarts \/ Stops \/ Idles

\* Reading a trace starts its first pass.
LEMMA ReadWorks ==
  ASSUME DriverInv, ReadTrace
  PROVE  /\ DriverInv' /\ (Restarts \/ Stops)
         /\ \/ pass' = "valid" /\ UNCHANGED <<message, tracenum>>
            \/ /\ ~Roomy /\ tracenum' = tracenum + 1
               /\ message' = [says |-> "mm_init failed", of |-> None, trace |-> tracenum + 1]
<1>1. h \in Heaps /\ blocks \in [Ids -> Nat] /\ sizes \in [Ids -> Nat]
  BY DEF DriverInv, DriverType
<1>2. PICK r : /\ r = Started(h) /\ h' = r.h
               /\ IF r.p = NULL THEN NextTrace("mm_init failed", None)
                  ELSE pass' = "valid" /\ UNCHANGED <<times, total, hwm, tracenum, correct, message>>
  BY DEF ReadTrace
<1>3. ranges' = {} /\ trace' = << >> /\ pos' = 0 /\ blocks' = blocks /\ sizes' = sizes
  BY DEF ReadTrace
<1>4. r.h \in Heaps /\ (r.p # 0 => GoodIn(r.h, << >>, blocks)) /\ (r.p = 0 => ~Roomy)
  BY <1>1, <1>2, Begins
<1>5. trace' \in Seq(Ops) /\ Len(trace') = 0 /\ pos' \in 0 .. Len(trace') /\ LegalTrace(trace')
  BY <1>3 DEF LegalTrace
<1>6. DriverType'
  BY <1>1, <1>2, <1>3, <1>4, <1>5 DEF DriverType
<1>7. Done' = << >>
  <2>1. Done' = SubSeq(trace', 1, pos')
    BY DEF Done
  <2>2. QED
    BY <1>3, <1>5, <2>1, WholePrefix DEF Prefix
<1>8. CASE r.p = NULL
  <2>1. /\ pass' = "next" /\ ~Roomy /\ tracenum' = tracenum + 1
        /\ message' = [says |-> "mm_init failed", of |-> None, trace |-> tracenum + 1]
    BY <1>2, <1>4, <1>8, Places DEF NextTrace
  <2>2. DriverInv'
    BY <1>6, <2>1 DEF DriverInv, Replaying
  <2>3. Stops
    BY <1>1, <1>2, <1>3, <1>4, <2>1 DEF Stops, Replaying
  <2>4. QED
    BY <2>1, <2>2, <2>3
<1>9. CASE r.p # NULL
  <2>1. pass' = "valid" /\ UNCHANGED <<message, tracenum>>
    BY <1>2, <1>9
  <2>2. GoodIn(h', Done', blocks')
    BY <1>2, <1>3, <1>4, <1>7, <1>9, Places
  <2>3. Recorded(h', trace', blocks', sizes', ranges')
    <3>1. PICK t, L : t = trace' /\ L = LiveSet(t)
      OBVIOUS
    <3>2. L = {}
      BY <1>3, <3>1, NothingLive
    <3>3. RangesOf(L, blocks', sizes') = {}
      BY <3>2 DEF RangesOf
    <3>4. Recorded(h', t, blocks', sizes', ranges')
      BY <1>3, <3>1, <3>2, <3>3 DEF Recorded
    <3>5. QED
      BY <3>1, <3>4
  <2>4. DriverInv'
    BY <1>3, <1>5, <1>6, <2>2, <2>3 DEF DriverInv
  <2>5. Restarts
    BY <1>2, <1>4, <1>7, <2>1 DEF Restarts, Replaying
  <2>6. QED
    BY <2>1, <2>4, <2>5
<1>10. QED
  BY <1>8, <1>9

\* A step of the second or third pass keeps the invariant.
LEMMA ReplayWorks ==
  ASSUME DriverInv, ReplayOp
  PROVE  DriverInv' /\ (OnOps \/ Stops) /\ UNCHANGED <<message, tracenum>> /\ pass' # "next"
<1>1. PICK op : ReplayTables(op) /\ (FreesOne(op) \/ (\E p : ServesOne(op, p)) \/ Stops)
  BY ReplaySteps
<1>2. /\ trace \in Seq(Ops) /\ LegalTrace(trace) /\ blocks \in [Ids -> Nat]
  BY DEF DriverInv, DriverType
<1>3. /\ pass \in {"util", "speed"} /\ UNCHANGED <<trace, ranges, message, tracenum>> /\ pos' \in 0 .. Len(trace)
      /\ sizes' \in [Ids -> Nat] /\ op \in Ops /\ Legal(Done, op) /\ (pass' = pass \/ pass' = "exit")
  BY <1>1 DEF ReplayTables
<1>4. pass' # "valid" /\ pass' # "next"
  BY <1>3
<1>5. op.id \in Ids
  BY <1>3, OpTypes
<1>6. ASSUME h' \in Heaps, blocks' \in [Ids -> Nat], Replaying' => GoodIn(h', Done', blocks')
      PROVE  DriverInv'
  <2>1. DriverType'
    BY <1>2, <1>3, <1>6 DEF DriverType
  <2>2. QED
    BY <1>4, <1>6, <2>1 DEF DriverInv
<1>7. CASE FreesOne(op)
  <2>1. GoodIn(h', Done', blocks') /\ blocks' = blocks
    BY <1>7 DEF FreesOne
  <2>2. h' \in Heaps
    BY <2>1, GoodIsDistinct
  <2>3. QED
    BY <1>2, <1>3, <1>4, <1>6, <1>7, <2>1, <2>2 DEF OnOps
<1>8. ASSUME NEW p, ServesOne(op, p)
      PROVE  DriverInv' /\ OnOps
  <2>1. GoodIn(h', Done', blocks') /\ p \in Nat /\ blocks' = [blocks EXCEPT ![op.id] = p]
    BY <1>8 DEF ServesOne
  <2>2. h' \in Heaps
    BY <2>1, GoodIsDistinct
  <2>3. blocks' \in [Ids -> Nat]
    BY <1>2, <1>5, <2>1
  <2>4. QED
    BY <1>3, <1>6, <1>8, <2>1, <2>2, <2>3 DEF OnOps
<1>9. CASE Stops
  BY <1>3, <1>4, <1>6, <1>9 DEF Stops
<1>10. QED
  BY <1>1, <1>3, <1>4, <1>7, <1>8, <1>9

\* A step of the first pass keeps the invariant.
LEMMA ValidWorks ==
  ASSUME DriverInv, NEW op \in Ops, ValidOp(op)
  PROVE  /\ DriverInv' /\ (OnOps \/ Stops)
         /\ \/ pass' = "valid" /\ UNCHANGED <<message, tracenum>>
            \/ FaultStep(op)
<1>1. Done = trace /\ Legal(Done, op)
  BY ValidTables
<1>2. CASE FreeStep(op)
  <2>1. DriverInv' /\ FreesOne(op)
    BY <1>2, FreeStepWorks
  <2>2. QED
    BY <1>1, <1>2, <2>1 DEF OnOps, FreeStep
<1>3. CASE FillStep(op)
  <2>1. DriverInv' /\ \E p : ServesOne(op, p)
    BY <1>3, FillStepWorks
  <2>2. QED
    BY <1>1, <1>3, <2>1 DEF OnOps, FillStep
<1>4. CASE FaultStep(op)
  <2>1. pass' = "next" /\ h' \in Heaps /\ blocks' = blocks /\ sizes' = sizes
    BY <1>4 DEF FaultStep
  <2>2. blocks \in [Ids -> Nat] /\ sizes \in [Ids -> Nat]
    BY DEF DriverInv, DriverType
  <2>3. trace' \in Seq(Ops) /\ LegalTrace(trace') /\ pos' \in 0 .. Len(trace')
    BY ValidTables
  <2>4. DriverType'
    BY <2>1, <2>2, <2>3 DEF DriverType
  <2>5. ~Replaying'
    BY <2>1 DEF Replaying
  <2>6. DriverInv'
    BY <2>1, <2>4, <2>5 DEF DriverInv
  <2>7. Stops
    BY <2>1, <2>2, <2>5 DEF Stops
  <2>8. QED
    BY <1>4, <2>6, <2>7
<1>5. QED
  BY <1>2, <1>3, <1>4, ValidSteps

\* The end of a pass keeps the invariant.
LEMMA Rests ==
  ASSUME DriverInv, UNCHANGED <<h, trace, pos, blocks, sizes, ranges>>, pass' = pass \/ ~Replaying'
  PROVE  DriverInv'
<1>1. DriverType'
  BY DEF DriverInv, DriverType
<1>2. Done' = Done
  BY DEF Done
<1>3. CASE ~Replaying'
  BY <1>1, <1>3 DEF DriverInv, Replaying
<1>4. CASE pass' = pass
  BY <1>1, <1>2, <1>4 DEF DriverInv, Replaying
<1>5. QED
  BY <1>3, <1>4

\* Every step keeps the invariant.
LEMMA DriverSteps == DriverInv /\ [Next]_vars => DriverInv' /\ (Moves \/ UNCHANGED vars)
<1> SUFFICES ASSUME DriverInv, [Next]_vars
             PROVE  DriverInv' /\ (Moves \/ UNCHANGED vars)
  OBVIOUS
<1>1. CASE ReadTrace
  BY <1>1, ReadWorks DEF Moves
<1>2. CASE ValidEnds
  <2>1. StartPass("util") /\ UNCHANGED sizes
    BY <1>2 DEF ValidEnds, StartPass
  <2>2. DriverInv' /\ (Restarts \/ Stops)
    BY <2>1, PassStarts
  <2>3. QED
    BY <2>2 DEF Moves
<1>3. CASE ReplayOp
  BY <1>3, ReplayWorks DEF Moves
<1>4. CASE UtilEnds
  <2>1. StartPass("speed") /\ UNCHANGED sizes
    BY <1>4 DEF UtilEnds, StartPass
  <2>2. DriverInv' /\ (Restarts \/ Stops)
    BY <2>1, PassStarts
  <2>3. QED
    BY <2>2 DEF Moves
<1>5. CASE SpeedEnds
  <2>1. CASE times > 1
    <3>1. StartPass("speed") /\ UNCHANGED sizes
      BY <1>5, <2>1 DEF SpeedEnds, StartPass
    <3>2. DriverInv' /\ (Restarts \/ Stops)
      BY <3>1, PassStarts
    <3>3. QED
      BY <3>2 DEF Moves
  <2>2. CASE ~(times > 1)
    <3>1. pass' = "next" /\ UNCHANGED <<h, trace, pos, blocks, sizes, ranges>>
      BY <1>5, <2>2 DEF SpeedEnds
    <3>2. ~Replaying' /\ h' \in Heaps /\ blocks' \in [Ids -> Nat]
      BY <3>1 DEF Replaying, DriverInv, DriverType
    <3>3. QED
      BY <3>1, <3>2, Rests DEF Moves, Stops
  <2>3. QED
    BY <2>1, <2>2
<1>6. CASE Results
  <2>1. pass = "next" /\ pass' = "results" /\ UNCHANGED <<h, trace, pos, blocks, sizes, ranges>>
    BY <1>6 DEF Results
  <2>2. ~Replaying /\ ~Replaying'
    BY <2>1 DEF Replaying
  <2>3. QED
    BY <2>1, <2>2, Rests DEF Moves, Idles
<1>7. CASE \E op \in Ops : ValidOp(op)
  BY <1>7, ValidWorks DEF Moves
<1>8. CASE UNCHANGED vars
  <2>1. pass' = pass /\ UNCHANGED <<h, trace, pos, blocks, sizes, ranges>>
    BY <1>8 DEF vars
  <2>2. QED
    BY <1>8, <2>1, Rests
<1>9. QED
  BY <1>1, <1>2, <1>3, <1>4, <1>5, <1>6, <1>7, <1>8 DEF Next

\* The invariant of mdriver holds.
LEMMA DriverInvHolds == Spec => []DriverInv
<1>1. Init => DriverInv
  BY DriverStarts
<1>2. DriverInv /\ [Next]_vars => DriverInv'
  BY DriverSteps
<1>3. QED
  BY <1>1, <1>2, PTL DEF Spec

\* Whatever requests come in whatever order, and whatever the caller writes into
\* its blocks: between two calls boundary tags agree, no two free blocks are
\* neighbours, and each free block is in the list of its size exactly once.
THEOREM HeapStaysSound == Spec => []HeapIsSound
<1>1. DriverInv => HeapIsSound
  <2>1. SUFFICES ASSUME DriverInv, Replaying
                 PROVE  Tagged(h) /\ Coalesced(h) /\ Listed(h)
    BY DEF HeapIsSound
  <2>2. PICK B, z, V : Sound(h, B, z, V)
    BY <2>1 DEF DriverInv, GoodIn, Good
  <2>3. QED
    BY <2>2, SoundChecks
<1>2. QED
  BY <1>1, DriverInvHolds, PTL

\* mdriver's list of ranges is that of the blocks the trace left allocated, so its
\* overlap check sees all of them and nothing that is gone.
THEOREM RangesStayLive == Spec => []RangesAreLive
<1>1. DriverInv => RangesAreLive
  <2>1. SUFFICES ASSUME DriverInv, pass = "valid"
                 PROVE  ranges = {[lo |-> blocks[i], hi |-> blocks[i] + sizes[i] - 1] : i \in {j \in Ids : Live(j)}}
    BY DEF RangesAreLive
  <2>2. Done = trace
    BY <2>1, WholePrefix DEF DriverInv, DriverType, Done, Prefix
  <2>3. LiveSet(trace) = {j \in Ids : Live(j)}
    BY <2>2 DEF LiveSet, Live, LiveIn
  <2>4. ranges = RangesOf(LiveSet(trace), blocks, sizes)
    BY <2>1 DEF DriverInv, Recorded
  <2>5. QED
    BY <2>3, <2>4 DEF RangesOf
<1>2. QED
  BY <1>1, DriverInvHolds, PTL

(***************************************************************************)
(* What mdriver says, and why.                                             *)
(***************************************************************************)
\* A heap that is exhausted has no free block of the size.
LEMMA NoFreeBlockFits ==
  ASSUME NEW g, NEW a \in Nat, Exhausted(g, a)
  PROVE  \A bp \in Blocks(g) \ {g.brk} : IS_FREE(g, HDRP(bp)) => SIZE(g, bp) < a
<1>1. PICK B, z, V : Sound(g, B, z, V) /\ Full(V, z, a)
  BY DEF Exhausted
<1>2. PICK brk, X : brk = g.brk /\ X = {}
  OBVIOUS
<1>3. Blocks(g) = B \cup {brk}
  BY <1>1, <1>2, BlocksAre
<1>4. State(g, B, z, V, V, X) /\ Grid(B, z, brk)
  BY <1>1, <1>2 DEF Sound, State
<1>6. ASSUME NEW b \in B, IS_FREE(g, HDRP(b))
      PROVE  SIZE(g, b) < a
  <2>1. b \in B \ X
    BY <1>2
  <2>2. SIZE(g, b) = z[b] /\ b \in V
    BY <1>4, <1>6, <2>1, Reads
  <2>3. z[b] \in Nat /\ ~(a <= z[b])
    BY <1>1, <1>2, <1>4, <2>2 DEF Grid, Cell, Full, AtLeast
  <2>4. QED
    BY <2>2, <2>3
<1>7. QED
  BY <1>2, <1>3, <1>6

\* The message, and what it rests on; a NULL was denied by the heap that is there.
MessageInv ==
  /\ tracenum \in Nat /\ message.trace \in Nat /\ message.trace <= tracenum
  /\ message.says \in {"nothing", "mm_init failed", "returned NULL", "lost data"}
  /\ message.says = "mm_init failed" => ~Roomy
  /\ message.says = "lost data" => message.of.type = "REALLOC" /\ message.of.id \in HighIds
  /\ message.says = "returned NULL" /\ Answering /\ message.of.size # 0
       => message.of.size \in Nat /\ Denied(h, blocks, message.of)

\* There is no message at first.
LEMMA MessageStarts == Init => MessageInv
BY DEF Init, MessageInv, None

\* Messages stay.
LEMMA MessageStays ==
  ASSUME MessageInv, UNCHANGED <<message, tracenum>>, pass' # "next" \/ UNCHANGED <<pass, h, blocks>>
  PROVE  MessageInv'
BY DEF MessageInv, Answering

\* Every step keeps it.
LEMMA MessageSteps ==
  DriverInv /\ MessageInv /\ [Next]_vars => MessageInv'
<1> SUFFICES ASSUME DriverInv, MessageInv, [Next]_vars
             PROVE  MessageInv'
  OBVIOUS
<1>1. CASE ReadTrace
  <2>1. CASE pass' = "valid" /\ UNCHANGED <<message, tracenum>>
    BY <2>1, MessageStays
  <2>2. CASE /\ ~Roomy /\ tracenum' = tracenum + 1
             /\ message' = [says |-> "mm_init failed", of |-> None, trace |-> tracenum + 1]
    <3>1. PICK n : n = tracenum + 1
      OBVIOUS
    <3>2. tracenum \in Nat
      BY DEF MessageInv
    <3>3. n \in Nat /\ n <= n
      BY <3>1, <3>2
    <3>4. message'.says = "mm_init failed" /\ message'.trace = n /\ tracenum' = n
      BY <2>2, <3>1
    <3>5. QED
      BY <2>2, <3>3, <3>4 DEF MessageInv
  <2>3. QED
    BY <1>1, <2>1, <2>2, ReadWorks
<1>2. CASE ValidEnds
  <2>1. pass' # "next" /\ UNCHANGED <<message, tracenum>>
    BY <1>2 DEF ValidEnds, StartPass
  <2>2. QED
    BY <2>1, MessageStays
<1>3. CASE ReplayOp
  <2>1. UNCHANGED <<message, tracenum>> /\ pass' # "next"
    BY <1>3, ReplayWorks
  <2>2. QED
    BY <2>1, MessageStays
<1>4. CASE UtilEnds
  <2>1. pass' # "next" /\ UNCHANGED <<message, tracenum>>
    BY <1>4 DEF UtilEnds, StartPass
  <2>2. QED
    BY <2>1, MessageStays
<1>5. CASE SpeedEnds
  <2>1. CASE times > 1
    <3>1. pass' # "next" /\ UNCHANGED <<message, tracenum>>
      BY <1>5, <2>1 DEF SpeedEnds, StartPass
    <3>2. QED
      BY <3>1, MessageStays
  <2>2. CASE ~(times > 1)
    <3>1. message' = message /\ tracenum' = tracenum + 1
      BY <1>5, <2>2 DEF SpeedEnds
    <3>2. /\ tracenum \in Nat /\ message.trace \in Nat /\ message.trace <= tracenum
          /\ message.says \in {"nothing", "mm_init failed", "returned NULL", "lost data"}
          /\ message.says = "mm_init failed" => ~Roomy
          /\ message.says = "lost data" => message.of.type = "REALLOC" /\ message.of.id \in HighIds
      BY DEF MessageInv
    <3>3. tracenum' \in Nat /\ message'.trace <= tracenum' /\ message'.trace # tracenum'
      <4>1. PICK n, k, n1 : n = tracenum /\ k = message.trace /\ n1 = tracenum'
        OBVIOUS
      <4>2. n \in Nat /\ k \in Nat /\ k <= n
        BY <3>2, <4>1
      <4>9. n1 = n + 1
        BY <3>1, <4>1
      <4>6. n1 \in Nat /\ k <= n1 /\ k # n1
        BY <4>2, <4>9
      <4>3. message'.trace = k
        BY <3>1, <4>1
      <4>4. QED
        BY <4>1, <4>3, <4>6
    <3>4. QED
      BY <3>1, <3>2, <3>3 DEF MessageInv, Answering
  <2>3. QED
    BY <2>1, <2>2
<1>6. CASE Results
  <2>1. pass' # "next" /\ UNCHANGED <<message, tracenum>>
    BY <1>6 DEF Results
  <2>2. QED
    BY <2>1, MessageStays
<1>7. ASSUME NEW op \in Ops, ValidOp(op)
      PROVE  MessageInv'
  <2>1. CASE pass' = "valid" /\ UNCHANGED <<message, tracenum>>
    BY <2>1, MessageStays
  <2>2. CASE FaultStep(op)
    <3>1. op.size \in Nat /\ tracenum \in Nat
      BY OpTypes DEF MessageInv
    <3>2. PICK m : /\ message' = [says |-> m, of |-> op, trace |-> tracenum + 1]
                   /\ \/ m = "returned NULL" /\ (op.size # 0 => Denied(h', blocks', op))
                      \/ m = "lost data" /\ op.type = "REALLOC" /\ op.id \in HighIds
      BY <2>2 DEF FaultStep
    <3>3. message'.says = m /\ message'.of = op /\ message'.trace = tracenum + 1 /\ tracenum' = tracenum + 1
      BY <2>2, <3>2 DEF FaultStep
    <3>4. tracenum' \in Nat /\ message'.trace \in Nat /\ message'.trace <= tracenum'
      <4>1. PICK n : n = tracenum + 1
        OBVIOUS
      <4>2. n \in Nat /\ n <= n
        BY <3>1, <4>1
      <4>3. QED
        BY <3>3, <4>1, <4>2
    <3>5. QED
      BY <3>1, <3>2, <3>3, <3>4 DEF MessageInv
  <2>3. QED
    BY <1>7, <2>1, <2>2, ValidWorks
<1>8. CASE UNCHANGED vars
  <2>1. UNCHANGED <<message, tracenum, pass, h, blocks>>
    BY <1>8 DEF vars
  <2>2. QED
    BY <2>1, MessageStays
<1>9. QED
  BY <1>1, <1>2, <1>3, <1>4, <1>5, <1>6, <1>7, <1>8 DEF Next

(***************************************************************************)
(* Each fault that mdriver can report has one of the causes FaultHasCause  *)
(* names, for any memory, chunk and traces: no first chunk, an id above    *)
(* 127, a size 0, or a memory used up.                                     *)
(***************************************************************************)
THEOREM EveryFaultHasCause == Spec => []FaultHasCause
<1>1. MessageInv => FaultHasCause
  <2> SUFFICES ASSUME MessageInv
               PROVE  FaultHasCause
    OBVIOUS
  <2> DEFINE op == message.of
             need == asize(op.size)
  <2>1. MAX_HEAP \in Nat /\ CHUNKSIZE \in Nat /\ mem_max_addr = MAX_HEAP + 2
    BY HeapAssumption, Places
  <2>2. message.says = "mm_init failed" => MAX_HEAP < free_list_size + 4 + CHUNKSIZE
    <3>1. ~Roomy => MAX_HEAP < free_list_size + 4 + CHUNKSIZE
      BY <2>1 DEF Roomy, free_list_size
    <3>2. QED
      BY <3>1 DEF MessageInv
  <2>3. ASSUME message.says = "returned NULL", Answering, op.size # 0
        PROVE  \/ UsedUp(need) /\ NoneFits(need)
               \/ /\ op.type = "REALLOC" /\ SIZE(h, NEXT_BLKP(h, blocks[op.id])) = 0
                  /\ UsedUp(need - SIZE(h, blocks[op.id]))
    <3>1. op.size \in Nat /\ Denied(h, blocks, op)
      BY <2>3 DEF MessageInv
    <3>2. PICK a : a = need /\ a \in Nat
      BY <2>3, <3>1, RoundsUp
    <3>3. CASE Exhausted(h, a)
      <4>1. UsedUp(a)
        BY <2>1, <3>3 DEF Exhausted, NoMore, UsedUp
      <4>2. NoneFits(a)
        BY <3>2, <3>3, NoFreeBlockFits DEF NoneFits
      <4>3. QED
        BY <3>2, <4>1, <4>2
    <3>4. CASE op.type = "REALLOC" /\ Stuck(h, blocks[op.id], a)
      BY <2>1, <3>2, <3>4 DEF Stuck, NoMore, UsedUp
    <3>5. QED
      BY <3>1, <3>2, <3>3, <3>4 DEF Denied
  <2> HIDE DEF op, need
  <2>4. QED
    BY <2>2, <2>3 DEF MessageInv, FaultHasCause, op, need
<1>2. QED
  BY <1>1, MessageStarts, MessageSteps, DriverInvHolds, PTL DEF Spec

(***************************************************************************)
(* mdriver's blocks are those of the abstract allocator.                   *)
(***************************************************************************)
\* A block as the abstract allocator has it, and all of them.
PayloadOf(g, b, n) == [lo |-> b, data |-> [k \in 1 .. n |-> g.m[b + k - 1]]]
LiveOf(g, t, bl) == [i \in LiveSet(t) |-> PayloadOf(g, bl[i], Amounts(t)[i])]
LiveIds == {i \in Ids : Replaying /\ Live(i)}
LiveMap == [i \in LiveIds |-> Payload(i)]

\* The refinement mapping, while requests are replayed.
LEMMA MapWhileReplaying == Replaying => LiveMap = LiveOf(h, Done, blocks)
<1> SUFFICES ASSUME Replaying
             PROVE  LiveMap = LiveOf(h, Done, blocks)
  OBVIOUS
<1>1. LiveIds = LiveSet(Done)
  BY DEF LiveIds, LiveSet, Live, LiveIn
<1>2. \A i \in LiveSet(Done) : Payload(i) = PayloadOf(h, blocks[i], Amounts(Done)[i])
  BY DEF Payload, PayloadOf, Amounts, LiveSet
<1>3. QED
  BY <1>1, <1>2 DEF LiveMap, LiveOf

\* The refinement mapping, otherwise.
LEMMA NoMap == ~Replaying => LiveMap = << >>
BY DEF LiveMap, LiveIds

\* The words of a payload.
LEMMA WordsOf ==
  ASSUME NEW g \in Heaps, NEW b, NEW n, Inside(g, b, n), g.brk <= MAX_HEAP + 2, NEW x, x = PayloadOf(g, b, n)
  PROVE  Abstract!Words(x) = b .. b + n - 1
<1>1. b \in Nat /\ n \in Nat /\ 16 <= b /\ b + n < g.brk /\ g.brk \in Nat
  BY DEF Inside, Heaps
<1>2. ASSUME NEW k \in 1 .. n
      PROVE  g.m[b + k - 1] \in Nat
  <2>1. b + k - 1 \in 2 .. MAX_HEAP + 1
    BY <1>1, Places
  <2>2. QED
    BY <2>1, Places DEF Heaps
<1>3. PICK d : d = [k \in 1 .. n |-> g.m[b + k - 1]]
  OBVIOUS
<1>4. d \in [1 .. n -> Nat]
  BY <1>2, <1>3
<1>5. d \in Seq(Nat) /\ Len(d) = n
  BY <1>1, <1>4
<1>6. x.lo = b /\ x.data = d
  BY <1>3 DEF PayloadOf
<1>7. QED
  BY <1>5, <1>6 DEF Abstract!Words

\* A good heap places payloads well.
LEMMA PlacedWell ==
  ASSUME NEW g, NEW t, NEW bl, GoodIn(g, t, bl), NEW i \in LiveSet(t), NEW m, m = LiveOf(g, t, bl)
  PROVE  Abstract!WellPlaced(m, i)
<1>1. PICK L, am : L = LiveSet(t) /\ am = Amounts(t)
  OBVIOUS
<1>2. GoodFor(g, L, bl, am)
  BY <1>1, GoodBlocks DEF GoodIn
<1>3. g \in Heaps /\ g.brk <= MAX_HEAP + 2 /\ g.brk \in Nat
  BY <1>2 DEF GoodFor, Heaps
<1>4. DOMAIN m = L /\ \A j \in L : m[j] = PayloadOf(g, bl[j], am[j])
  BY <1>1 DEF LiveOf
<1>5. \A j \in L : Inside(g, bl[j], am[j])
  BY <1>2 DEF GoodFor
<1>6. \A j \in L : Abstract!Words(m[j]) = bl[j] .. bl[j] + am[j] - 1
  BY <1>3, <1>4, <1>5, WordsOf
<1>7. PICK b, n : b = bl[i] /\ n = am[i]
  OBVIOUS
<1>8. b \in Nat /\ n \in Nat /\ n # 0 /\ b % 2 = 0 /\ 16 <= b /\ b + n < g.brk
  BY <1>1, <1>5, <1>7 DEF Inside
<1>9. PICK W : W = b .. b + n - 1
  OBVIOUS
<1>10. Abstract!Words(m[i]) = W
  BY <1>1, <1>6, <1>7, <1>9
<1>11. W # {} /\ W \subseteq Memory
  <2>1. b \in W
    BY <1>8, <1>9
  <2>2. \A w \in W : w \in 2 .. MAX_HEAP + 1
    BY <1>3, <1>8, <1>9, Places
  <2>3. QED
    BY <2>1, <2>2, Places
<1>12. m[i].lo % DSIZE = 0
  BY <1>1, <1>4, <1>7, <1>8, Places DEF PayloadOf
<1>13. ASSUME NEW j \in L \ {i}
       PROVE  Abstract!Words(m[i]) \cap Abstract!Words(m[j]) = {}
  <2>1. PICK c, k : c = bl[j] /\ k = am[j]
    OBVIOUS
  <2>2. Clear(b, n, c, k)
    BY <1>1, <1>2, <1>7, <2>1 DEF GoodFor
  <2>3. c \in Nat /\ k \in Nat
    BY <1>5, <2>1 DEF Inside
  <2>4. (b .. b + n - 1) \cap (c .. c + k - 1) = {}
    BY <1>8, <2>2, <2>3 DEF Clear
  <2>5. Abstract!Words(m[j]) = c .. c + k - 1
    BY <1>6, <2>1
  <2>6. QED
    BY <1>9, <1>10, <2>4, <2>5
<1>14. QED
  BY <1>4, <1>10, <1>11, <1>12, <1>13 DEF Abstract!WellPlaced

\* The same words are the same payload.
LEMMA SamePayload ==
  ASSUME NEW g, NEW s, NEW b \in Nat, NEW n \in Nat, SameData(g, b, s, b, n)
  PROVE  PayloadOf(s, b, n) = PayloadOf(g, b, n)
<1>1. ASSUME NEW k \in 1 .. n
      PROVE  s.m[b + k - 1] = g.m[b + k - 1]
  <2>1. PICK j : j = k - 1
    OBVIOUS
  <2>2. j \in 0 .. n - 1 /\ b + j = b + k - 1
    BY <2>1
  <2>3. s.m[b + j] = g.m[b + j]
    BY <2>2 DEF SameData
  <2>4. QED
    BY <2>2, <2>3
<1>2. QED
  BY <1>1 DEF PayloadOf

\* Blocks that are undisturbed are the same in the abstract allocator.
LEMMA OthersStay ==
  ASSUME NEW g, NEW t, NEW bl, GoodIn(g, t, bl), NEW s, NEW t1, NEW bl1, NEW K, \A j \in K : j \in LiveSet(t) /\ j \in LiveSet(t1),
         \A j \in K : bl1[j] = bl[j] /\ Amounts(t1)[j] = Amounts(t)[j], Undisturbed(g, s, K, bl, Amounts(t)),
         NEW m, m = LiveOf(g, t, bl), NEW m1, m1 = LiveOf(s, t1, bl1)
  PROVE  \A j \in K : m1[j] = m[j]
<1>1. PICK L, am : L = LiveSet(t) /\ am = Amounts(t)
  OBVIOUS
<1>2. GoodFor(g, L, bl, am)
  BY <1>1, GoodBlocks DEF GoodIn
<1>3. ASSUME NEW j \in K
      PROVE  m1[j] = m[j]
  <2>1. PICK b, n : b = bl[j] /\ n = am[j]
    OBVIOUS
  <2>2. j \in L /\ j \in LiveSet(t1) /\ bl1[j] = b /\ Amounts(t1)[j] = n /\ SameData(g, b, s, b, n)
    BY <1>1, <2>1 DEF Undisturbed
  <2>3. b \in Nat /\ n \in Nat
    BY <1>2, <2>1, <2>2 DEF GoodFor, Inside
  <2>4. PayloadOf(s, b, n) = PayloadOf(g, b, n)
    BY <2>2, <2>3, SamePayload
  <2>5. m1[j] = PayloadOf(s, b, n)
    BY <2>2 DEF LiveOf
  <2>6. m[j] = PayloadOf(g, b, n)
    BY <1>1, <2>1, <2>2 DEF LiveOf
  <2>7. QED
    BY <2>4, <2>5, <2>6
<1>4. QED
  BY <1>3

\* What one more request changes.
OneFurther(op, t, t1, L, i) ==
  /\ i \in Ids /\ op.size \in Nat
  /\ LiveSet(t1) = IF op.type = "FREE" THEN L \ {i} ELSE L \cup {i}
  /\ Amounts(t1)[i] = op.size /\ \A j \in L \ {i} : Amounts(t1)[j] = Amounts(t)[j]
\* One more request changes its own id only.
LEMMA OpGoesFurther ==
  ASSUME NEW t \in Seq(Ops), NEW op \in Ops, NEW t1, t1 = Append(t, op), NEW L, L = LiveSet(t), NEW i, i = op.id
  PROVE  OneFurther(op, t, t1, L, i)
<1>1. /\ Amounts(t1) = [Amounts(t) EXCEPT ![op.id] = op.size]
      /\ LiveSet(t1) = IF op.type = "FREE" THEN LiveSet(t) \ {op.id} ELSE LiveSet(t) \cup {op.id}
  BY GoesFurther DEF Further
<1>2. i \in Ids /\ op.size \in Nat
  BY OpTypes
<1>3. Amounts(t) = [j \in Ids |-> Last(t, j).size] /\ \A j \in L : j \in Ids
  BY DEF Amounts, LiveSet
<1>4. QED
  BY <1>1, <1>2, <1>3 DEF OneFurther

\* A free is the abstract Free.
LEMMA FreeIsAbstract ==
  ASSUME DriverInv, NEW op \in Ops, Legal(Done, op), FreesOne(op)
  PROVE  Abstract!Free(op.id)
<1>1. /\ op.type = "FREE" /\ Replaying /\ Replaying' /\ Done' = Append(Done, op) /\ blocks' = blocks
      /\ Undisturbed(h, h', LiveSet(Done'), blocks, Amounts(Done')) /\ GoodIn(h, Done, blocks)
  BY DEF FreesOne, DriverInv
<1>2. PICK t, t1, L, i : t = Done /\ t1 = Done' /\ L = LiveSet(t) /\ i = op.id
  OBVIOUS
<1>3. t \in Seq(Ops)
  BY <1>2, PrefixType DEF DriverInv, DriverType, Done, Prefix
<1>4. PICK m, m1 : m = LiveMap /\ m1 = LiveMap'
  OBVIOUS
<1>5. m = LiveOf(h, t, blocks)
  BY <1>1, <1>2, <1>4, MapWhileReplaying
<1>6. m1 = LiveOf(h', t1, blocks')
  <2>1. (Replaying => LiveMap = LiveOf(h, Done, blocks))'
    BY MapWhileReplaying, PTL
  <2>2. QED
    BY <1>1, <1>2, <1>4, <2>1
<1>7. i \in L
  BY <1>1, <1>2, LegalIsLive
<1>8. t1 = Append(t, op)
  BY <1>1, <1>2
<1>9. LiveSet(t1) = L \ {i} /\ \A j \in L \ {i} : Amounts(t1)[j] = Amounts(t)[j]
  <2>1. OneFurther(op, t, t1, L, i)
    BY <1>2, <1>3, <1>8, OpGoesFurther
  <2>2. QED
    BY <1>1, <2>1 DEF OneFurther
<1>10. DOMAIN m = L /\ DOMAIN m1 = L \ {i}
  BY <1>2, <1>5, <1>6, <1>9 DEF LiveOf
<1>11. \A j \in L \ {i} : m1[j] = m[j]
  <2>1. PICK K, s, bl1 : K = L \ {i} /\ s = h' /\ bl1 = blocks'
    OBVIOUS
  <2>2. \A j \in K : j \in LiveSet(t) /\ j \in LiveSet(t1)
    BY <1>2, <1>9, <2>1
  <2>3. \A j \in K : bl1[j] = blocks[j] /\ Amounts(t1)[j] = Amounts(t)[j]
    BY <1>1, <1>9, <2>1
  <2>4. Undisturbed(h, s, K, blocks, Amounts(t))
    BY <1>1, <1>2, <1>9, <2>1 DEF Undisturbed
  <2>5. GoodIn(h, t, blocks) /\ m1 = LiveOf(s, t1, bl1)
    BY <1>1, <1>2, <1>6, <2>1
  <2>6. \A j \in K : m1[j] = m[j]
    BY <1>5, <2>2, <2>3, <2>4, <2>5, OthersStay
  <2>7. QED
    BY <2>1, <2>6
<1>12. /\ i \in DOMAIN LiveMap /\ DOMAIN LiveMap' = DOMAIN LiveMap \ {i}
       /\ \A j \in DOMAIN LiveMap \ {i} : LiveMap'[j] = LiveMap[j]
  BY <1>4, <1>7, <1>10, <1>11
<1>13. Abstract!Free(i)
  BY <1>12 DEF Abstract!Free, Abstract!Others, LiveMap, LiveIds
<1>14. QED
  BY <1>2, <1>13

\* An allocation is the abstract Malloc, a reallocation the abstract Realloc.
LEMMA ServeIsAbstract ==
  ASSUME DriverInv, NEW op \in Ops, Legal(Done, op), NEW p, ServesOne(op, p)
  PROVE  Abstract!Malloc(op.id) \/ Abstract!Realloc(op.id)
<1>1. /\ op.type # "FREE" /\ Replaying /\ Replaying' /\ Done' = Append(Done, op) /\ p \in Nat
      /\ blocks' = [blocks EXCEPT ![op.id] = p] /\ GoodIn(h', Done', blocks')
      /\ Kept1(h, LiveSet(Done), blocks, Amounts(Done), op.id, h', p, op.size)
      /\ GoodIn(h, Done, blocks) /\ blocks \in [Ids -> Nat]
  BY DEF ServesOne, DriverInv, DriverType
<1>2. PICK t, t1, L, i, n, am, bl1, s :
        /\ t = Done /\ t1 = Done' /\ L = LiveSet(t) /\ i = op.id /\ n = op.size /\ am = Amounts(t)
        /\ bl1 = blocks' /\ s = h'
  OBVIOUS
<1>3. t \in Seq(Ops)
  BY <1>2, PrefixType DEF DriverInv, DriverType, Done, Prefix
<1>4. PICK m, m1 : m = LiveMap /\ m1 = LiveMap'
  OBVIOUS
<1>5. m = LiveOf(h, t, blocks)
  BY <1>1, <1>2, <1>4, MapWhileReplaying
<1>6. m1 = LiveOf(s, t1, bl1)
  <2>1. (Replaying => LiveMap = LiveOf(h, Done, blocks))'
    BY MapWhileReplaying, PTL
  <2>2. QED
    BY <1>1, <1>2, <1>4, <2>1
<1>7. t1 = Append(t, op)
  BY <1>1, <1>2
<1>8. /\ i \in Ids /\ n \in Nat /\ LiveSet(t1) = L \cup {i}
      /\ Amounts(t1)[i] = n /\ \A j \in L \ {i} : Amounts(t1)[j] = am[j]
  <2>1. OneFurther(op, t, t1, L, i)
    BY <1>2, <1>3, <1>7, OpGoesFurther
  <2>2. QED
    BY <1>1, <1>2, <2>1 DEF OneFurther
<1>9. bl1[i] = p /\ \A j \in L \ {i} : bl1[j] = blocks[j]
  <2>1. \A j \in L : j \in Ids
    BY <1>2 DEF LiveSet
  <2>2. QED
    BY <1>1, <1>2, <1>8, <2>1
<1>10. DOMAIN m = L /\ DOMAIN m1 = L \cup {i}
  BY <1>2, <1>5, <1>6, <1>8 DEF LiveOf
<1>11. Abstract!WellPlaced(m1, i)
  <2>1. GoodIn(s, t1, bl1) /\ i \in LiveSet(t1)
    BY <1>1, <1>2, <1>8
  <2>2. QED
    BY <1>6, <2>1, PlacedWell
<1>12. Kept1(h, L, blocks, am, i, s, p, n)
  BY <1>1, <1>2
<1>13. \A j \in L \ {i} : m1[j] = m[j]
  <2>1. PICK K : K = L \ {i}
    OBVIOUS
  <2>2. \A j \in K : j \in LiveSet(t) /\ j \in LiveSet(t1)
    BY <1>2, <1>8, <2>1
  <2>3. \A j \in K : bl1[j] = blocks[j] /\ Amounts(t1)[j] = Amounts(t)[j]
    BY <1>2, <1>8, <1>9, <2>1
  <2>4. Undisturbed(h, s, K, blocks, Amounts(t)) /\ GoodIn(h, t, blocks)
    BY <1>1, <1>2, <1>12, <2>1 DEF Kept1
  <2>5. \A j \in K : m1[j] = m[j]
    BY <1>5, <1>6, <2>2, <2>3, <2>4, OthersStay
  <2>6. QED
    BY <2>1, <2>5
<1>14. \A j \in DOMAIN LiveMap \ {i} : LiveMap'[j] = LiveMap[j]
  BY <1>4, <1>10, <1>13
<1>15. CASE i \notin L
  <2>1. i \notin DOMAIN LiveMap /\ DOMAIN LiveMap' = DOMAIN LiveMap \cup {i} /\ Abstract!WellPlaced(LiveMap', i)
    BY <1>4, <1>10, <1>11, <1>15
  <2>2. Abstract!Malloc(i)
    BY <1>14, <2>1 DEF Abstract!Malloc, Abstract!Others, LiveMap, LiveIds
  <2>3. QED
    BY <1>2, <2>2
<1>16. CASE i \in L
  <2>1. DOMAIN m1 = L
    BY <1>10, <1>16
  <2>2. PICK b, k : b = blocks[i] /\ k = am[i]
    OBVIOUS
  <2>3. m[i].data = [x \in 1 .. k |-> h.m[b + x - 1]]
    BY <1>2, <1>5, <1>16, <2>2 DEF LiveOf, PayloadOf
  <2>4. m1[i].data = [x \in 1 .. n |-> s.m[p + x - 1]]
    BY <1>6, <1>8, <1>9 DEF LiveOf, PayloadOf
  <2>5. SameData(h, b, s, p, Smaller(n, k))
    BY <1>12, <1>16, <2>2 DEF Kept1
  <2>6. b \in Nat /\ k \in Nat
    BY <1>1, <1>2, <1>3, <1>8, <2>2, LastIsOp DEF Amounts
  <2>7. ASSUME NEW x \in (1 .. k) \cap (1 .. n)
        PROVE  s.m[p + x - 1] = h.m[b + x - 1]
    <3>1. PICK j : j = x - 1
      OBVIOUS
    <3>2. p + x - 1 = p + j /\ b + x - 1 = b + j
      BY <1>1, <2>6, <3>1
    <3>3. j \in 0 .. Smaller(n, k) - 1
      BY <1>8, <2>6, <3>1 DEF Smaller
    <3>4. s.m[p + j] = h.m[b + j]
      BY <2>5, <3>3 DEF SameData
    <3>5. QED
      BY <3>2, <3>4
  <2>8. \A x \in DOMAIN m[i].data \cap DOMAIN m1[i].data : m1[i].data[x] = m[i].data[x]
    BY <2>3, <2>4, <2>7
  <2>9. /\ i \in DOMAIN LiveMap /\ DOMAIN LiveMap' = DOMAIN LiveMap /\ Abstract!WellPlaced(LiveMap', i)
        /\ \A x \in DOMAIN LiveMap[i].data \cap DOMAIN LiveMap'[i].data : LiveMap'[i].data[x] = LiveMap[i].data[x]
    BY <1>4, <1>10, <1>11, <1>16, <2>1, <2>8
  <2>10. Abstract!Realloc(i)
    BY <1>14, <2>9 DEF Abstract!Realloc, Abstract!Others, LiveMap, LiveIds
  <2>11. QED
    BY <1>2, <2>10
<1>17. QED
  BY <1>15, <1>16

\* Every step of the driver is one of the abstract allocator, or none.
LEMMA MovesAreAbstract ==
  ASSUME DriverInv, Moves
  PROVE  Abstract!ANext
<1>1. CASE OnOps
  <2>1. PICK op \in Ops : Legal(Done, op) /\ (FreesOne(op) \/ \E p : ServesOne(op, p))
    BY <1>1 DEF OnOps
  <2>2. op.id \in Ids
    BY OpTypes
  <2>3. Abstract!Free(op.id) \/ Abstract!Malloc(op.id) \/ Abstract!Realloc(op.id)
    BY <2>1, FreeIsAbstract, ServeIsAbstract
  <2>4. QED
    BY <2>2, <2>3 DEF Abstract!ANext
<1>2. ASSUME LiveMap' = << >>
      PROVE  Abstract!ANext
  <2>1. Abstract!Reset
    BY <1>2 DEF Abstract!Reset, LiveMap, LiveIds
  <2>2. QED
    BY <2>1 DEF Abstract!ANext
<1>3. CASE Restarts
  <2>1. Replaying' /\ Done' = << >>
    BY <1>3 DEF Restarts
  <2>2. (Replaying => LiveMap = LiveOf(h, Done, blocks))'
    BY MapWhileReplaying, PTL
  <2>3. LiveSet(Done') = {}
    BY <2>1, NothingLive
  <2>4. LiveMap' = << >>
    BY <2>1, <2>2, <2>3 DEF LiveOf
  <2>5. QED
    BY <1>2, <2>4
<1>4. ASSUME ~Replaying'
      PROVE  Abstract!ANext
  <2>1. (~Replaying => LiveMap = << >>)'
    BY NoMap, PTL
  <2>2. QED
    BY <1>2, <1>4, <2>1
<1>5. QED
  BY <1>1, <1>3, <1>4 DEF Moves, Stops, Idles

\* The package implements the abstract allocator: live payloads never overlap, keep
\* their contents until they are freed, and realloc keeps the smaller size of them.
THEOREM MallocImplementsAllocator == Spec => ImplementsAllocator
<1>1. Init => Abstract!AInit
  <2>1. SUFFICES ASSUME Init
                 PROVE  Abstract!AInit
    OBVIOUS
  <2>2. ~Replaying
    BY <2>1 DEF Init, Replaying
  <2>3. LiveMap = << >>
    BY <2>2, NoMap
  <2>4. QED
    BY <2>3 DEF Abstract!AInit, LiveMap, LiveIds
<1>2. DriverInv /\ [Next]_vars => [Abstract!ANext]_LiveMap
  <2>1. SUFFICES ASSUME DriverInv, [Next]_vars
                 PROVE  Abstract!ANext \/ LiveMap' = LiveMap
    OBVIOUS
  <2>2. Moves \/ UNCHANGED vars
    BY <2>1, DriverSteps
  <2>3. CASE UNCHANGED vars
    BY <2>3 DEF vars, LiveMap, LiveIds, Replaying, Live, Payload, Done
  <2>4. QED
    BY <2>1, <2>2, <2>3, MovesAreAbstract
<1>3. DriverInv /\ [Next]_vars => [Abstract!ANext]_[i \in {j \in Ids : Replaying /\ Live(j)} |-> Payload(i)]
  BY <1>2 DEF LiveMap, LiveIds
<1>4. QED
  BY <1>1, <1>3, DriverInvHolds, PTL DEF Spec, ImplementsAllocator, Abstract!ASpec

(***************************************************************************)
(* The break never goes down in a pass.                                    *)
(***************************************************************************)
\* A heap by its parts; one that comes from another and is as long; or longer.
Parted(g) == g = [m |-> g.m, brk |-> g.brk] /\ g.brk \in Nat
Even(g, r) == Parted(r) /\ r.brk = g.brk
Risen(g, r) == Parted(r) /\ g.brk <= r.brk
EvenIn(g, r) == \E t, p : Answer(r, t, p) /\ Even(g, t)
RisenIn(g, r) == \E t, p : Answer(r, t, p) /\ Risen(g, t)

\* PUT leaves the break.
LEMMA PutStays ==
  ASSUME NEW g, Parted(g), NEW p, NEW v, NEW r, r = PUT(g, p, v)
  PROVE  Even(g, r)
<1>1. PICK m, k : g = [m |-> m, brk |-> k] /\ k \in Nat
  BY DEF Parted
<1>2. PICK m1 : m1 = [m EXCEPT ![p] = v]
  OBVIOUS
<1>3. r = [m |-> m1, brk |-> k]
  BY <1>1, <1>2 DEF PUT
<1>4. QED
  BY <1>1, <1>3 DEF Even, Parted

\* So do two steps that do.
LEMMA EvenTwice ==
  ASSUME NEW g, NEW r, NEW s, Even(g, r), Even(r, s)
  PROVE  Even(g, s)
BY DEF Even

\* What comes from a heap is one.
LEMMA EvenIsParted ==
  ASSUME NEW g, NEW r, Even(g, r)
  PROVE  Parted(r)
BY DEF Even

\* TAG leaves the break.
LEMMA TagStays ==
  ASSUME NEW g, Parted(g), NEW b, NEW size, NEW alloc, NEW r, r = TAG(g, b, size, alloc)
  PROVE  Even(g, r)
<1>1. PICK v, s : v = PACK(size, alloc) /\ s = PUT(g, HDRP(b), v)
  OBVIOUS
<1>2. r = PUT(s, b + size - DSIZE, v)
  BY <1>1 DEF TAG
<1>3. Even(g, s)
  BY <1>1, PutStays
<1>4. Even(s, r)
  BY <1>2, <1>3, EvenIsParted, PutStays
<1>5. QED
  BY <1>3, <1>4, EvenTwice

\* delete_node leaves the break.
LEMMA DeleteStays ==
  ASSUME NEW g, Parted(g), NEW b, NEW r, r = delete_node(g, b)
  PROVE  Even(g, r)
<1>1. PICK s : s = IF SUCC(g, b) = NULL THEN g ELSE PUT(g, SUCC(g, b) + 1, PRED(g, b))
  OBVIOUS
<1>2. PICK w : w = IF PRED(g, b) = NULL THEN HEAD(get_free_list_idx(SIZE(g, b))) ELSE PRED(g, b)
  OBVIOUS
<1>3. r = PUT(s, w, SUCC(g, b))
  BY <1>1, <1>2 DEF delete_node
<1>4. Even(g, s)
  <2>1. CASE SUCC(g, b) = NULL
    BY <1>1, <2>1 DEF Even
  <2>2. CASE SUCC(g, b) # NULL
    <3>1. s = PUT(g, SUCC(g, b) + 1, PRED(g, b))
      BY <1>1, <2>2
    <3>2. QED
      BY <3>1, PutStays
  <2>3. QED
    BY <2>1, <2>2
<1>5. Even(s, r)
  BY <1>3, <1>4, EvenIsParted, PutStays
<1>6. QED
  BY <1>4, <1>5, EvenTwice

\* insert_node leaves the break.
LEMMA InsertStays ==
  ASSUME NEW g, Parted(g), NEW b, NEW r, r = insert_node(g, b)
  PROVE  Even(g, r)
<1>1. PICK head, first : head = HEAD(get_free_list_idx(SIZE(g, b))) /\ first = g.m[head]
  OBVIOUS
<1>2. PICK s : s = IF first = NULL THEN g ELSE PUT(g, first + 1, b)
  OBVIOUS
<1>3. PICK t, u : t = PUT(s, b + 1, NULL) /\ u = PUT(t, b, first)
  OBVIOUS
<1>4. r = PUT(u, head, b)
  BY <1>1, <1>2, <1>3 DEF insert_node
<1>5. Even(g, s)
  <2>1. CASE first = NULL
    BY <1>2, <2>1 DEF Even
  <2>2. CASE first # NULL
    <3>1. s = PUT(g, first + 1, b)
      BY <1>2, <2>2
    <3>2. QED
      BY <3>1, PutStays
  <2>3. QED
    BY <2>1, <2>2
<1>6. Even(s, t)
  BY <1>3, <1>5, EvenIsParted, PutStays
<1>7. Even(t, u)
  BY <1>3, <1>6, EvenIsParted, PutStays
<1>8. Even(u, r)
  BY <1>4, <1>7, EvenIsParted, PutStays
<1>9. QED
  BY <1>5, <1>6, <1>7, <1>8, EvenTwice

\* Join leaves the break.
LEMMA JoinStays ==
  ASSUME NEW g, Parted(g), NEW b, NEW size, NEW r, r = Join(g, b, size)
  PROVE  EvenIn(g, r)
<1>1. PICK s, t : s = TAG(g, b, size, 0) /\ t = insert_node(s, b)
  OBVIOUS
<1>2. r = [h |-> t, p |-> b]
  BY <1>1 DEF Join
<1>3. Even(g, s)
  BY <1>1, TagStays
<1>4. Even(s, t)
  BY <1>1, <1>3, EvenIsParted, InsertStays
<1>5. Even(g, t)
  BY <1>3, <1>4, EvenTwice
<1>6. QED
  BY <1>2, <1>5 DEF EvenIn, Answer

\* An answer to a heap that came from another.
LEMMA EvenInTwice ==
  ASSUME NEW g, NEW s, NEW r, Even(g, s), EvenIn(s, r)
  PROVE  EvenIn(g, r)
<1>1. PICK t, p : Answer(r, t, p) /\ Even(s, t)
  BY DEF EvenIn
<1>2. Even(g, t)
  BY <1>1, EvenTwice
<1>3. QED
  BY <1>1, <1>2 DEF EvenIn

\* JoinNext leaves the break.
LEMMA JoinNextStays ==
  ASSUME NEW g, Parted(g), NEW b, NEW size, NEW n, NEW r, r = JoinNext(g, b, size, n)
  PROVE  EvenIn(g, r)
<1>1. CASE IS_FREE(g, HDRP(n))
  <2>1. PICK s, k : s = delete_node(g, n) /\ k = size + SIZE(g, n)
    OBVIOUS
  <2>2. r = Join(s, b, k)
    BY <1>1, <2>1 DEF JoinNext
  <2>3. Even(g, s)
    BY <2>1, DeleteStays
  <2>4. EvenIn(s, r)
    BY <2>2, <2>3, EvenIsParted, JoinStays
  <2>5. QED
    BY <2>3, <2>4, EvenInTwice
<1>2. CASE ~IS_FREE(g, HDRP(n))
  <2>1. r = Join(g, b, size)
    BY <1>2 DEF JoinNext
  <2>2. QED
    BY <2>1, JoinStays
<1>3. QED
  BY <1>1, <1>2

\* coalesce leaves the break.
LEMMA CoalesceStays ==
  ASSUME NEW g, Parted(g), NEW b, NEW r, r = coalesce(g, b)
  PROVE  EvenIn(g, r)
<1>1. PICK prev, n : prev = PREV_BLKP(g, b) /\ n = NEXT_BLKP(g, b)
  OBVIOUS
<1>2. r = JoinBoth(g, b, prev)
  BY <1>1 DEF coalesce
<1>3. CASE IS_FREE(g, FTRP(g, prev))
  <2>1. PICK s, k : s = delete_node(g, prev) /\ k = SIZE(g, b) + SIZE(g, prev)
    OBVIOUS
  <2>2. r = JoinNext(s, prev, k, n)
    BY <1>1, <1>2, <1>3, <2>1 DEF JoinBoth
  <2>3. Even(g, s)
    BY <2>1, DeleteStays
  <2>4. EvenIn(s, r)
    BY <2>2, <2>3, EvenIsParted, JoinNextStays
  <2>5. QED
    BY <2>3, <2>4, EvenInTwice
<1>4. CASE ~IS_FREE(g, FTRP(g, prev))
  <2>1. PICK k : k = SIZE(g, b)
    OBVIOUS
  <2>2. r = JoinNext(g, b, k, n)
    BY <1>1, <1>2, <1>4, <2>1 DEF JoinBoth
  <2>3. QED
    BY <2>2, JoinNextStays
<1>5. QED
  BY <1>3, <1>4

\* Steps that leave the break or raise it, one after the other.
LEMMA RisenTwice ==
  ASSUME NEW g, Parted(g), NEW r, NEW s, Risen(g, r), Risen(r, s)
  PROVE  Risen(g, s)
<1>1. PICK a, b, c : a = g.brk /\ b = r.brk /\ c = s.brk
  OBVIOUS
<1>2. a \in Nat /\ b \in Nat /\ c \in Nat /\ a <= b /\ b <= c /\ Parted(s)
  BY <1>1 DEF Risen, Parted
<1>3. a <= c
  BY <1>2
<1>4. QED
  BY <1>1, <1>2, <1>3 DEF Risen

\* A heap that stays has risen.
LEMMA EvenIsRisen ==
  ASSUME NEW g, Parted(g), NEW r, Even(g, r)
  PROVE  Risen(g, r)
BY DEF Even, Risen, Parted

\* What has risen is a heap.
LEMMA RisenIsParted ==
  ASSUME NEW g, NEW r, Risen(g, r)
  PROVE  Parted(r)
BY DEF Risen

\* mem_sbrk raises the break or leaves it.
LEMMA SbrkRises ==
  ASSUME NEW g, Parted(g), NEW incr \in Nat, NEW s, s = mem_sbrk(g, incr)
  PROVE  Risen(g, s.h)
<1>1. PICK m, k : g = [m |-> m, brk |-> k] /\ k \in Nat
  BY DEF Parted
<1>2. CASE s = [h |-> g, p |-> Failed]
  <2>1. s.h = g
    BY <1>2
  <2>2. QED
    BY <1>1, <2>1 DEF Risen, Parted
<1>3. CASE s = [h |-> [g EXCEPT !.brk = @ + incr], p |-> g.brk]
  <2>1. s.h = [m |-> m, brk |-> k + incr]
    BY <1>1, <1>3
  <2>2. k + incr \in Nat /\ k <= k + incr
    BY <1>1
  <2>3. QED
    BY <1>1, <2>1, <2>2 DEF Risen, Parted
<1>4. QED
  BY <1>2, <1>3 DEF mem_sbrk

\* An answer whose heap is the one asked.
LEMMA SameIsRisen ==
  ASSUME NEW g, Parted(g), NEW p, NEW r, Answer(r, g, p)
  PROVE  RisenIn(g, r)
<1>1. Risen(g, g)
  BY DEF Risen, Parted
<1>2. QED
  BY <1>1 DEF RisenIn

\* An answer to a heap that came from another.
LEMMA RisenInTwice ==
  ASSUME NEW g, Parted(g), NEW s, NEW r, Risen(g, s), RisenIn(s, r)
  PROVE  RisenIn(g, r)
<1>1. PICK t, p : Answer(r, t, p) /\ Risen(s, t)
  BY DEF RisenIn
<1>2. Risen(g, t)
  BY <1>1, RisenTwice
<1>3. QED
  BY <1>1, <1>2 DEF RisenIn

\* extend_heap raises the break or leaves it.
LEMMA ExtendRises ==
  ASSUME NEW g, Parted(g), NEW words \in Nat, NEW r, r = extend_heap(g, words)
  PROVE  RisenIn(g, r)
<1>1. PICK size, s : size = words + (words % 2) /\ s = mem_sbrk(g, size)
  OBVIOUS
<1>2. size \in Nat
  BY <1>1
<1>3. Risen(g, s.h)
  BY <1>1, <1>2, SbrkRises
<1>4. CASE s.p = Failed
  <2>1. r = [h |-> g, p |-> NULL]
    BY <1>1, <1>4 DEF extend_heap
  <2>2. Answer(r, g, NULL)
    BY <2>1 DEF Answer
  <2>3. QED
    BY <2>2, SameIsRisen
<1>5. CASE s.p # Failed
  <2>1. PICK t, u : t = TAG(s.h, s.p, size, 0) /\ u = PUT(t, s.p + size - 1, PACK(0, 1))
    OBVIOUS
  <2>2. r = coalesce(u, s.p)
    BY <1>1, <1>5, <2>1 DEF extend_heap
  <2>3. Even(s.h, t)
    BY <1>3, <2>1, RisenIsParted, TagStays
  <2>4. Even(t, u)
    BY <2>1, <2>3, EvenIsParted, PutStays
  <2>5. EvenIn(u, r)
    BY <2>2, <2>4, EvenIsParted, CoalesceStays
  <2>6. EvenIn(s.h, r)
    BY <2>3, <2>4, <2>5, EvenTwice, EvenInTwice
  <2>7. PICK x, p : Answer(r, x, p) /\ Even(s.h, x)
    BY <2>6 DEF EvenIn
  <2>8. Risen(s.h, x)
    BY <1>3, <2>7, RisenIsParted, EvenIsRisen
  <2>9. Risen(g, x)
    BY <1>3, <2>8, RisenTwice
  <2>10. QED
    BY <2>7, <2>9 DEF RisenIn
<1>6. QED
  BY <1>4, <1>5

\* place leaves the break.
LEMMA PlaceStays ==
  ASSUME NEW g, Parted(g), NEW b, NEW a, NEW t, t = place(g, b, a)
  PROVE  Even(g, t)
<1>1. PICK c, s : c = SIZE(g, b) /\ s = delete_node(g, b)
  OBVIOUS
<1>2. Even(g, s)
  BY <1>1, DeleteStays
<1>3. CASE c - a >= MIN_BLOCK
  <2>1. PICK u, v : u = TAG(s, b, a, 1) /\ v = TAG(u, b + a, c - a, 0)
    OBVIOUS
  <2>2. PICK r : r = coalesce(v, b + a)
    OBVIOUS
  <2>3. t = r.h
    BY <1>1, <1>3, <2>1, <2>2 DEF place
  <2>4. Even(s, u)
    BY <1>2, <2>1, EvenIsParted, TagStays
  <2>5. Even(u, v)
    BY <2>1, <2>4, EvenIsParted, TagStays
  <2>6. Even(v, t)
    <3>1. EvenIn(v, r)
      BY <2>2, <2>5, EvenIsParted, CoalesceStays
    <3>2. QED
      BY <2>3, <3>1 DEF EvenIn, Answer
  <2>7. QED
    BY <1>2, <2>4, <2>5, <2>6, EvenTwice
<1>4. CASE ~(c - a >= MIN_BLOCK)
  <2>1. t = TAG(s, b, c, 1)
    BY <1>1, <1>4 DEF place
  <2>2. Even(s, t)
    BY <1>2, <2>1, EvenIsParted, TagStays
  <2>3. QED
    BY <1>2, <2>2, EvenTwice
<1>5. QED
  BY <1>3, <1>4

\* mm_free leaves the break.
LEMMA FreeStays ==
  ASSUME NEW g, Parted(g), NEW b, NEW t, t = mm_free(g, b)
  PROVE  Even(g, t)
<1>1. CASE b = NULL
  <2>1. t = g
    BY <1>1 DEF mm_free
  <2>2. QED
    BY <2>1 DEF Even
<1>2. CASE b # NULL
  <2>1. PICK size, s, r : size = SIZE(g, b) /\ s = TAG(g, b, size, 0) /\ r = coalesce(s, b)
    OBVIOUS
  <2>2. t = r.h
    BY <1>2, <2>1 DEF mm_free
  <2>3. Even(g, s)
    BY <2>1, TagStays
  <2>4. Even(s, t)
    <3>1. EvenIn(s, r)
      BY <2>1, <2>3, EvenIsParted, CoalesceStays
    <3>2. QED
      BY <2>2, <3>1 DEF EvenIn, Answer
  <2>5. QED
    BY <2>3, <2>4, EvenTwice
<1>3. QED
  BY <1>1, <1>2

\* The larger of two numbers is one.
LEMMA LargerIsNat ==
  ASSUME NEW x \in Int, NEW y \in Nat, NEW v, v = Larger(x, y)
  PROVE  v \in Nat
BY DEF Larger

\* Placing a block in the answer leaves the break.
LEMMA PlacedRises ==
  ASSUME NEW g, Parted(g), NEW x, RisenIn(g, x), NEW a, NEW r, r = Placed(x, a)
  PROVE  RisenIn(g, r)
<1>1. PICK t, p : Answer(x, t, p) /\ Risen(g, t)
  BY DEF RisenIn
<1>2. x = [h |-> t, p |-> p]
  BY <1>1 DEF Answer
<1>3. CASE p = NULL
  <2>1. r = x
    BY <1>2, <1>3 DEF Placed
  <2>2. QED
    BY <2>1
<1>4. CASE p # NULL
  <2>1. PICK u : u = place(t, p, a)
    OBVIOUS
  <2>2. r = [h |-> u, p |-> p]
    BY <1>2, <1>4, <2>1 DEF Placed
  <2>3. Even(t, u)
    BY <1>1, <2>1, RisenIsParted, PlaceStays
  <2>4. Risen(t, u)
    BY <1>1, <2>3, RisenIsParted, EvenIsRisen
  <2>5. Risen(g, u)
    BY <1>1, <2>4, RisenTwice
  <2>6. QED
    BY <2>2, <2>5 DEF RisenIn, Answer
<1>5. QED
  BY <1>3, <1>4

\* mm_malloc raises the break or leaves it.
LEMMA MallocRises ==
  ASSUME NEW g, Parted(g), NEW size \in Nat, NEW r, r = mm_malloc(g, size)
  PROVE  RisenIn(g, r)
<1>1. CASE size = 0
  <2>1. r = [h |-> g, p |-> NULL]
    BY <1>1 DEF mm_malloc
  <2>2. Answer(r, g, NULL)
    BY <2>1 DEF Answer
  <2>3. QED
    BY <2>2, SameIsRisen
<1>2. CASE size # 0
  <2>1. PICK a, fit, words : a = asize(size) /\ fit = find_fit(g, a) /\ words = Larger(a, CHUNKSIZE)
    OBVIOUS
  <2>2. PICK x : x = IF fit # NULL THEN [h |-> g, p |-> fit] ELSE extend_heap(g, words)
    OBVIOUS
  <2>3. r = Placed(x, a)
    BY <1>2, <2>1, <2>2 DEF mm_malloc
  <2>4. words \in Nat
    <3>1. a \in Nat /\ CHUNKSIZE \in Nat
      BY <1>2, <2>1, RoundsUp, HeapAssumption
    <3>2. QED
      BY <2>1, <3>1, LargerIsNat
  <2>5. RisenIn(g, x)
    <3>1. CASE fit # NULL
      <4>1. Answer(x, g, fit)
        BY <2>2, <3>1 DEF Answer
      <4>2. QED
        BY <4>1, SameIsRisen
    <3>2. CASE fit = NULL
      <4>1. x = extend_heap(g, words)
        BY <2>2, <3>2
      <4>2. QED
        BY <2>4, <4>1, ExtendRises
    <3>3. QED
      BY <3>1, <3>2
  <2>6. QED
    BY <2>3, <2>5, PlacedRises
<1>3. QED
  BY <1>1, <1>2

\* Copying leaves the break.
LEMMA CopyStays ==
  ASSUME NEW g, Parted(g), NEW from, NEW to, NEW n, NEW r, r = Copy(g, from, to, n)
  PROVE  Even(g, r)
<1>1. PICK m, k : g = [m |-> m, brk |-> k] /\ k \in Nat
  BY DEF Parted
<1>2. PICK f : f = [w \in Memory |-> IF w \in to .. to + n - 1 THEN m[w - to + from] ELSE m[w]]
  OBVIOUS
<1>3. r = [m |-> f, brk |-> k]
  BY <1>1, <1>2 DEF Copy
<1>4. QED
  BY <1>1, <1>3 DEF Even, Parted

\* Moving a block raises the break or leaves it.
LEMMA MoveRises ==
  ASSUME NEW g, Parted(g), NEW b, NEW size \in Nat, NEW r, r = MoveBlock(g, b, size)
  PROVE  RisenIn(g, r)
<1>1. PICK x, old, n : x = mm_malloc(g, size) /\ old = SIZE(g, b) /\ n = IF size < old THEN size ELSE old
  OBVIOUS
<1>2. r = Moved(x, b, size, old)
  BY <1>1 DEF MoveBlock
<1>3. RisenIn(g, x)
  BY <1>1, MallocRises
<1>4. PICK t, p : Answer(x, t, p) /\ Risen(g, t)
  BY <1>3 DEF RisenIn
<1>5. x = [h |-> t, p |-> p]
  BY <1>4 DEF Answer
<1>6. CASE p = NULL
  <2>1. r = x
    BY <1>2, <1>5, <1>6 DEF Moved
  <2>2. QED
    BY <1>3, <2>1
<1>7. CASE p # NULL
  <2>1. PICK c, u : c = Copy(t, b, p, n) /\ u = mm_free(c, b)
    OBVIOUS
  <2>2. r = [h |-> u, p |-> p]
    BY <1>1, <1>2, <1>5, <1>7, <2>1 DEF Moved
  <2>3. Even(t, c)
    BY <1>4, <2>1, RisenIsParted, CopyStays
  <2>4. Even(c, u)
    BY <2>1, <2>3, EvenIsParted, FreeStays
  <2>5. Even(t, u)
    BY <2>3, <2>4, EvenTwice
  <2>6. Risen(t, u)
    BY <1>4, <2>5, RisenIsParted, EvenIsRisen
  <2>7. Risen(g, u)
    BY <1>4, <2>6, RisenTwice
  <2>8. QED
    BY <2>2, <2>7 DEF RisenIn, Answer
<1>8. QED
  BY <1>6, <1>7

\* A block that is large enough leaves the break.
LEMMA ShrinkRises ==
  ASSUME NEW g, Parted(g), NEW b, NEW a, NEW r, r = Shrink(g, b, a)
  PROVE  RisenIn(g, r)
<1>1. PICK rest : rest = SIZE(g, b) - a
  OBVIOUS
<1>2. CASE rest < MIN_BLOCK
  <2>1. r = [h |-> g, p |-> b]
    BY <1>1, <1>2 DEF Shrink
  <2>2. Answer(r, g, b)
    BY <2>1 DEF Answer
  <2>3. QED
    BY <2>2, SameIsRisen
<1>3. CASE ~(rest < MIN_BLOCK)
  <2>1. PICK s, t, u : s = TAG(g, b, a, 1) /\ t = TAG(s, b + a, rest, 1) /\ u = mm_free(t, b + a)
    OBVIOUS
  <2>2. r = [h |-> u, p |-> b]
    BY <1>1, <1>3, <2>1 DEF Shrink
  <2>3. Even(g, s)
    BY <2>1, TagStays
  <2>4. Even(s, t)
    BY <2>1, <2>3, EvenIsParted, TagStays
  <2>5. Even(t, u)
    BY <2>1, <2>4, EvenIsParted, FreeStays
  <2>6. Even(g, u)
    BY <2>3, <2>4, <2>5, EvenTwice
  <2>7. Risen(g, u)
    BY <2>6, EvenIsRisen
  <2>8. QED
    BY <2>2, <2>7 DEF RisenIn, Answer
<1>4. QED
  BY <1>2, <1>3

\* Joining the block behind raises the break or leaves it.
LEMMA JoinedRises ==
  ASSUME NEW g, Parted(g), NEW x, RisenIn(g, x), NEW b, NEW size \in Nat, NEW nsize, NEW r, r = Joined(x, b, size, nsize)
  PROVE  RisenIn(g, r)
<1>1. PICK t, p : Answer(x, t, p) /\ Risen(g, t)
  BY DEF RisenIn
<1>2. x = [h |-> t, p |-> p] /\ x.h = t /\ x.p = p
  BY <1>1 DEF Answer
<1>3. CASE p = NULL
  <2>1. r = x
    BY <1>2, <1>3 DEF Joined
  <2>2. QED
    BY <2>1
<1>4. CASE p # NULL /\ nsize > asize(size)
  <2>1. PICK s, u : s = delete_node(t, p) /\ u = TAG(s, b, nsize, 1)
    OBVIOUS
  <2>2. r = [h |-> u, p |-> b]
    BY <1>2, <1>4, <2>1 DEF Joined
  <2>3. Even(t, s)
    BY <1>1, <2>1, RisenIsParted, DeleteStays
  <2>4. Even(s, u)
    BY <2>1, <2>3, EvenIsParted, TagStays
  <2>5. Even(t, u)
    BY <2>3, <2>4, EvenTwice
  <2>6. Risen(t, u)
    BY <1>1, <2>5, RisenIsParted, EvenIsRisen
  <2>7. Risen(g, u)
    BY <1>1, <2>6, RisenTwice
  <2>8. QED
    BY <2>2, <2>7 DEF RisenIn, Answer
<1>5. CASE p # NULL /\ ~(nsize > asize(size))
  <2>1. r = MoveBlock(t, b, size)
    BY <1>2, <1>5 DEF Joined
  <2>2. RisenIn(t, r)
    BY <1>1, <2>1, RisenIsParted, MoveRises
  <2>3. QED
    BY <1>1, <2>2, RisenInTwice
<1>6. QED
  BY <1>3, <1>4, <1>5

\* A block that is too small raises the break or leaves it.
LEMMA GrowRises ==
  ASSUME NEW g, Parted(g), NEW b, SIZE(g, b) \in Nat, NEW size \in Nat, size # 0, NEW r, r = Grow(g, b, size)
  PROVE  RisenIn(g, r)
<1>1. PICK n, old, words : n = NEXT_BLKP(g, b) /\ old = SIZE(g, b) /\ words = Larger(asize(size) - old, CHUNKSIZE)
  OBVIOUS
<1>2. words \in Nat
  <2>1. PICK a : a = asize(size)
    OBVIOUS
  <2>2. a \in Nat /\ CHUNKSIZE \in Nat /\ old \in Nat
    BY <1>1, <2>1, RoundsUp, HeapAssumption
  <2>3. a - old \in Int
    BY <2>2
  <2>4. QED
    BY <1>1, <2>1, <2>2, <2>3, LargerIsNat
<1>3. CASE SIZE(g, n) = 0
  <2>1. PICK x, k : x = extend_heap(g, words) /\ k = old + words
    OBVIOUS
  <2>2. r = Joined(x, b, size, k)
    BY <1>1, <1>3, <2>1 DEF Grow
  <2>3. RisenIn(g, x)
    BY <1>2, <2>1, ExtendRises
  <2>4. QED
    BY <2>2, <2>3, JoinedRises
<1>4. CASE SIZE(g, n) # 0 /\ IS_FREE(g, HDRP(n))
  <2>1. PICK x, k : x = [h |-> g, p |-> n] /\ k = old + SIZE(g, n)
    OBVIOUS
  <2>2. r = Joined(x, b, size, k)
    BY <1>1, <1>4, <2>1 DEF Grow
  <2>3. Answer(x, g, n)
    BY <2>1 DEF Answer
  <2>4. RisenIn(g, x)
    BY <2>3, SameIsRisen
  <2>5. QED
    BY <2>2, <2>4, JoinedRises
<1>5. CASE SIZE(g, n) # 0 /\ ~IS_FREE(g, HDRP(n))
  <2>1. r = MoveBlock(g, b, size)
    BY <1>1, <1>5 DEF Grow
  <2>2. QED
    BY <2>1, MoveRises
<1>6. QED
  BY <1>3, <1>4, <1>5

\* mm_realloc raises the break or leaves it.
LEMMA ReallocRises ==
  ASSUME NEW g, Parted(g), NEW b, SIZE(g, b) \in Nat, NEW size \in Nat, NEW r, r = mm_realloc(g, b, size)
  PROVE  RisenIn(g, r)
<1>1. CASE size = 0
  <2>1. PICK t : t = mm_free(g, b)
    OBVIOUS
  <2>2. r = [h |-> t, p |-> NULL]
    BY <1>1, <2>1 DEF mm_realloc
  <2>3. Even(g, t)
    BY <2>1, FreeStays
  <2>4. Risen(g, t)
    BY <2>3, EvenIsRisen
  <2>5. QED
    BY <2>2, <2>4 DEF RisenIn, Answer
<1>2. CASE size # 0 /\ b = NULL
  <2>1. r = mm_malloc(g, size)
    BY <1>2 DEF mm_realloc
  <2>2. QED
    BY <2>1, MallocRises
<1>3. CASE size # 0 /\ b # NULL
  <2>1. PICK a : a = asize(size)
    OBVIOUS
  <2>2. r = IF a <= SIZE(g, b) THEN Shrink(g, b, a) ELSE Grow(g, b, size)
    BY <1>3, <2>1 DEF mm_realloc
  <2>3. CASE a <= SIZE(g, b)
    <3>1. r = Shrink(g, b, a)
      BY <2>2, <2>3
    <3>2. QED
      BY <3>1, ShrinkRises
  <2>4. CASE ~(a <= SIZE(g, b))
    <3>1. r = Grow(g, b, size)
      BY <2>2, <2>4
    <3>2. QED
      BY <1>3, <3>1, GrowRises
  <2>5. QED
    BY <2>3, <2>4
<1>4. QED
  BY <1>1, <1>2, <1>3

\* Every request leaves the break or raises it.
LEMMA CallRises ==
  ASSUME NEW g, NEW t \in Seq(Ops), NEW bl \in [Ids -> Nat], GoodIn(g, t, bl), NEW op \in Ops, Legal(t, op),
         NEW r, r = CallOn(g, bl, op)
  PROVE  RisenIn(g, r)
<1>1. Parted(g)
  <2>1. g \in Heaps
    BY GoodIsDistinct
  <2>2. QED
    BY <2>1 DEF Heaps, Parted
<1>2. op.size \in Nat /\ op.type \in {"ALLOC", "REALLOC", "FREE"} /\ op.id \in Ids
  BY OpTypes
<1>3. PICK b, n : b = bl[op.id] /\ n = op.size
  OBVIOUS
<1>4. CASE op.type = "ALLOC"
  <2>1. r = mm_malloc(g, n)
    BY <1>3, <1>4 DEF CallOn
  <2>2. QED
    BY <1>1, <1>2, <1>3, <2>1, MallocRises
<1>5. CASE op.type = "REALLOC"
  <2>1. r = mm_realloc(g, b, n)
    BY <1>3, <1>5 DEF CallOn
  <2>2. op.id \in LiveSet(t)
    BY <1>5, LegalIsLive
  <2>3. PICK B, z, V : Sound(g, B, z, V) /\ Held(B, z, V, LiveSet(t), bl, Amounts(t))
    BY DEF GoodIn, Good
  <2>4. PICK X : X = {}
    OBVIOUS
  <2>5. Owned(B, V, b)
    BY <1>3, <2>2, <2>3 DEF Held
  <2>6. State(g, B, z, V, V, X) /\ b \in B \ X /\ z[b] \in Nat
    BY <2>3, <2>4, <2>5 DEF Sound, State, Owned, Grid
  <2>7. SIZE(g, b) = z[b]
    BY <2>6, Reads
  <2>8. SIZE(g, b) \in Nat
    BY <2>6, <2>7
  <2>9. QED
    BY <1>1, <1>2, <1>3, <2>1, <2>8, ReallocRises
<1>6. CASE op.type = "FREE"
  <2>1. PICK s : s = mm_free(g, b)
    OBVIOUS
  <2>2. r = [h |-> s, p |-> b]
    BY <1>3, <1>6, <2>1 DEF CallOn
  <2>3. Even(g, s)
    BY <1>1, <2>1, FreeStays
  <2>4. Risen(g, s)
    BY <1>1, <2>3, EvenIsRisen
  <2>5. QED
    BY <2>2, <2>4 DEF RisenIn, Answer
<1>7. QED
  BY <1>2, <1>4, <1>5, <1>6

(***************************************************************************)
(* The words of the live blocks are counted.                               *)
(***************************************************************************)
\* The words of the blocks L; what their number says.
Payloads(L, bl, sz) == UNION {bl[i] .. bl[i] + sz[i] - 1 : i \in L}
Numbered(g, L, W) ==
  /\ IsFiniteSet(W) /\ Cardinality(W) \in Nat /\ Cardinality(W) <= g.brk - 2
  /\ Cardinality(W) = 0 <=> L = {}

\* Live blocks have words, and all of them lie between the start of the heap and
\* its break.
LEMMA PayloadsFit ==
  ASSUME NEW g, NEW L, NEW bl, NEW sz, Good(g, L, bl, sz), NEW W, W = Payloads(L, bl, sz)
  PROVE  Numbered(g, L, W)
<1>1. PICK k : k = g.brk
  OBVIOUS
<1>0. GoodFor(g, L, bl, sz)
  BY GoodBlocks
<1>2. k \in Nat /\ 2 <= k
  <2>1. PICK B, z, V : Sound(g, B, z, V)
    BY DEF Good
  <2>2. Grid(B, z, k)
    BY <1>1, <2>1 DEF Sound, State
  <2>3. k \in Nat /\ z[14] = 2 /\ 14 + z[14] <= k
    BY <2>2 DEF Grid, Cell
  <2>4. QED
    BY <2>3
<1>3. ASSUME NEW i \in L
      PROVE  /\ bl[i] .. bl[i] + sz[i] - 1 \subseteq 2 .. k - 1
             /\ bl[i] \in bl[i] .. bl[i] + sz[i] - 1
             /\ 16 <= bl[i] /\ bl[i] < k /\ bl[i] \in Nat
  <2>1. PICK b, n : b = bl[i] /\ n = sz[i]
    OBVIOUS
  <2>2. b \in Nat /\ n \in Nat /\ n # 0 /\ 16 <= b /\ b + n < k
    BY <1>0, <1>1, <1>3, <2>1 DEF GoodFor, Inside
  <2>3. b .. b + n - 1 \subseteq 2 .. k - 1 /\ b \in b .. b + n - 1 /\ b < k
    BY <1>2, <2>2
  <2>4. QED
    BY <2>1, <2>2, <2>3
<1>4. PICK U : U = 2 .. k - 1
  OBVIOUS
<1>5. W \subseteq U
  BY <1>3, <1>4 DEF Payloads
<1>6. IsFiniteSet(U) /\ Cardinality(U) = IF 2 > k - 1 THEN 0 ELSE k - 1 - 2 + 1
  <2>1. 2 \in Int /\ k - 1 \in Int
    BY <1>2
  <2>2. QED
    BY <1>4, <2>1, FS_Interval
<1>7. IsFiniteSet(W) /\ Cardinality(W) \in Nat /\ Cardinality(W) <= Cardinality(U) /\ (Cardinality(W) = 0 <=> W = {})
  BY <1>5, <1>6, FS_Subset, FS_CardinalityType, FS_EmptySet
<1>8. W = {} <=> L = {}
  <2>1. ASSUME NEW i \in L
        PROVE  bl[i] \in W
    BY <1>3, <2>1 DEF Payloads
  <2>2. L = {} => W = {}
    BY DEF Payloads
  <2>3. QED
    BY <2>1, <2>2
<1>9. Cardinality(U) <= k - 2
  BY <1>2, <1>6
<1>10. PICK c, d : c = Cardinality(W) /\ d = Cardinality(U)
  OBVIOUS
<1>11. d \in Nat
  BY <1>6, <1>10, FS_CardinalityType
<1>12. c \in Nat /\ c <= k - 2
  BY <1>2, <1>7, <1>9, <1>10, <1>11
<1>13. QED
  BY <1>1, <1>7, <1>8, <1>10, <1>12 DEF Numbered

\* X has n words more than Y.
Differs(X, Y, n) == Cardinality(X) = Cardinality(Y) + n /\ Cardinality(Y) \in Nat
\* A block that comes or goes changes the number by its words.
LEMMA OneBlockMore ==
  ASSUME NEW g, NEW L, NEW bl, NEW sz, GoodFor(g, L, bl, sz), NEW i \in L, NEW K, K = L \ {i},
         NEW X, X = Payloads(L, bl, sz), IsFiniteSet(X), NEW Y, Y = Payloads(K, bl, sz)
  PROVE  Differs(X, Y, sz[i])
<1>1. PICK b, n : b = bl[i] /\ n = sz[i]
  OBVIOUS
<1>2. b \in Nat /\ n \in Nat
  BY <1>1 DEF GoodFor, Inside
<1>3. PICK I : I = b .. b + n - 1
  OBVIOUS
<1>4. X = Y \cup I
  BY <1>1, <1>3 DEF Payloads
<1>5. Y \cap I = {}
  <2>1. SUFFICES ASSUME NEW w \in Y, w \in I
                 PROVE  FALSE
    OBVIOUS
  <2>2. PICK j \in K : w \in bl[j] .. bl[j] + sz[j] - 1
    BY <2>1 DEF Payloads
  <2>3. PICK c, m : c = bl[j] /\ m = sz[j]
    OBVIOUS
  <2>4. c \in Nat /\ m \in Nat /\ Clear(c, m, b, n)
    BY <1>1, <2>2, <2>3 DEF GoodFor, Inside
  <2>5. w \in c .. c + m - 1 /\ w \in b .. b + n - 1
    BY <1>3, <2>1, <2>2, <2>3
  <2>6. QED
    BY <1>2, <2>4, <2>5 DEF Clear
<1>6. IsFiniteSet(Y) /\ IsFiniteSet(I)
  BY <1>4, FS_Subset
<1>7. Cardinality(I) = n
  <2>1. PICK e : e = b + n - 1
    OBVIOUS
  <2>2. b \in Int /\ e \in Int
    BY <1>2, <2>1
  <2>3. Cardinality(I) = IF b > e THEN 0 ELSE e - b + 1
    BY <1>3, <2>1, <2>2, FS_Interval
  <2>4. QED
    BY <1>2, <2>1, <2>2, <2>3
<1>8. Cardinality(X) = Cardinality(Y) + Cardinality(I) - Cardinality({})
  BY <1>4, <1>5, <1>6, FS_Union
<1>9. Cardinality(Y) \in Nat /\ Cardinality({}) = 0
  BY <1>6, FS_CardinalityType, FS_EmptySet
<1>10. PICK c, d, e : c = Cardinality(X) /\ d = Cardinality(Y) /\ e = Cardinality({})
  OBVIOUS
<1>11. c = d + n
  BY <1>2, <1>7, <1>8, <1>9, <1>10
<1>12. QED
  BY <1>1, <1>9, <1>10, <1>11 DEF Differs

\* Only the places and sizes of those blocks matter.
LEMMA SamePayloads ==
  ASSUME NEW K, NEW bl, NEW sz, NEW bl1, NEW sz1, \A j \in K : bl1[j] = bl[j] /\ sz1[j] = sz[j]
  PROVE  Payloads(K, bl1, sz1) = Payloads(K, bl, sz)
<1>1. \A j \in K : bl1[j] .. bl1[j] + sz1[j] - 1 = bl[j] .. bl[j] + sz[j] - 1
  OBVIOUS
<1>2. QED
  BY <1>1 DEF Payloads

\* The number of words in use after the requests t, and its change by one more.
InUse(t, bl) == Cardinality(Payloads(LiveSet(t), bl, Amounts(t)))
Growth(t, op) == op.size - (IF op.type = "ALLOC" THEN 0 ELSE Amounts(t)[op.id])
SumChanges(t, bl, op, t1, bl1) == InUse(t1, bl1) = InUse(t, bl) + Growth(t, op) /\ InUse(t, bl) \in Nat

\* What eval_mm_util adds is what the words in use change by.
LEMMA SumFollows ==
  ASSUME NEW g, NEW t \in Seq(Ops), NEW bl \in [Ids -> Nat], GoodIn(g, t, bl), NEW op \in Ops, Legal(t, op),
         NEW t1, t1 = Append(t, op), NEW g1, NEW bl1, GoodIn(g1, t1, bl1),
         \A j \in Ids \ {op.id} : bl1[j] = bl[j]
  PROVE  SumChanges(t, bl, op, t1, bl1)
<1>1. PICK L, L1, am, am1, i, n : /\ L = LiveSet(t) /\ L1 = LiveSet(t1) /\ am = Amounts(t) /\ am1 = Amounts(t1)
                                  /\ i = op.id /\ n = op.size
  OBVIOUS
<1>2. PICK K, X, Y, X1, Y1 : /\ K = L \ {i} /\ X = Payloads(L, bl, am) /\ Y = Payloads(K, bl, am)
                             /\ X1 = Payloads(L1, bl1, am1) /\ Y1 = Payloads(K, bl1, am1)
  OBVIOUS
<1>3. OneFurther(op, t, t1, L, i)
  BY <1>1, OpGoesFurther
<1>4. /\ i \in Ids /\ n \in Nat /\ L1 = (IF op.type = "FREE" THEN K ELSE L \cup {i})
      /\ am1[i] = n /\ \A j \in K : am1[j] = am[j]
  BY <1>1, <1>2, <1>3 DEF OneFurther
<1>5. /\ op.type \in {"ALLOC", "REALLOC", "FREE"} /\ (op.type = "FREE" => n = 0)
      /\ (op.type = "ALLOC" <=> i \notin L)
  BY <1>1, OpTypes, LegalIsLive
<1>6. Y1 = Y
  <2>1. \A j \in K : bl1[j] = bl[j] /\ am1[j] = am[j]
    <3>1. \A j \in K : j \in Ids \ {op.id}
      BY <1>1, <1>2 DEF LiveSet
    <3>2. QED
      BY <1>4, <3>1
  <2>2. QED
    BY <1>2, <2>1, SamePayloads
<1>7. Good(g, L, bl, am) /\ Good(g1, L1, bl1, am1)
  BY <1>1 DEF GoodIn
<1>8. GoodFor(g, L, bl, am) /\ GoodFor(g1, L1, bl1, am1)
  BY <1>7, GoodBlocks
<1>9. Numbered(g, L, X) /\ Numbered(g1, L1, X1)
  BY <1>2, <1>7, PayloadsFit
<1>10. IsFiniteSet(X) /\ IsFiniteSet(X1) /\ Cardinality(X) \in Nat
  BY <1>9 DEF Numbered
<1>11. PICK x, y, x1 : x = Cardinality(X) /\ y = Cardinality(Y) /\ x1 = Cardinality(X1)
  OBVIOUS
<1>12. x \in Nat
  BY <1>10, <1>11
<1>13. i \in L => x = y + am[i] /\ y \in Nat /\ am[i] \in Nat
  <2>1. SUFFICES ASSUME i \in L
                 PROVE  x = y + am[i] /\ y \in Nat /\ am[i] \in Nat
    OBVIOUS
  <2>2. Differs(X, Y, am[i])
    BY <1>2, <1>8, <1>10, <2>1, OneBlockMore
  <2>3. am[i] \in Nat
    BY <1>8, <2>1 DEF GoodFor, Inside
  <2>4. QED
    BY <1>11, <2>2, <2>3 DEF Differs
<1>14. i \notin L => x = y
  BY <1>2, <1>11
<1>15. op.type # "FREE" => x1 = y + n /\ y \in Nat
  <2>1. SUFFICES ASSUME op.type # "FREE"
                 PROVE  x1 = y + n /\ y \in Nat
    OBVIOUS
  <2>2. i \in L1 /\ K = L1 \ {i}
    BY <1>2, <1>4, <2>1
  <2>3. Differs(X1, Y1, am1[i])
    BY <1>2, <1>8, <1>10, <2>2, OneBlockMore
  <2>4. QED
    BY <1>4, <1>6, <1>11, <2>3 DEF Differs
<1>16. op.type = "FREE" => x1 = y
  BY <1>2, <1>4, <1>6, <1>11
<1>17. PICK e : e = n - (IF op.type = "ALLOC" THEN 0 ELSE am[i])
  OBVIOUS
<1>18. x1 = x + e
  <2>1. CASE op.type = "ALLOC"
    <3>1. e = n - 0 /\ x = y /\ x1 = y + n
      BY <1>5, <1>14, <1>15, <1>17, <2>1
    <3>2. QED
      BY <1>4, <1>12, <3>1
  <2>2. CASE op.type = "REALLOC"
    <3>1. e = n - am[i] /\ x = y + am[i] /\ x1 = y + n /\ y \in Nat /\ am[i] \in Nat
      BY <1>5, <1>13, <1>15, <1>17, <2>2
    <3>2. QED
      BY <1>4, <3>1
  <2>3. CASE op.type = "FREE"
    <3>1. e = 0 - am[i] /\ x = y + am[i] /\ x1 = y /\ y \in Nat /\ am[i] \in Nat
      BY <1>5, <1>13, <1>16, <1>17, <2>3
    <3>2. QED
      BY <3>1
  <2>4. QED
    BY <1>5, <2>1, <2>2, <2>3
<1>19. InUse(t, bl) = x /\ InUse(t1, bl1) = x1 /\ Growth(t, op) = e
  BY <1>1, <1>2, <1>11, <1>17 DEF InUse, Growth
<1>20. QED
  BY <1>12, <1>18, <1>19 DEF SumChanges

\* eval_mm_util's sizes are those of the live blocks, and its sum is the number
\* of their words, at most hwm and never beyond the break.
UtilInv ==
  pass = "util" => /\ \A i \in LiveSet(Done) : sizes[i] = Amounts(Done)[i]
                   /\ total = InUse(Done, blocks)
                   /\ hwm \in Nat /\ total <= hwm /\ hwm <= h.brk - 2

\* The pass starts with no block and a sum of 0.
LEMMA UtilStarts ==
  ASSUME DriverInv, ValidEnds, DriverInv', pass' = "util"
  PROVE  UtilInv'
<1>1. Done' = << >> /\ total' = 0 /\ hwm' = 0
  BY DEF ValidEnds, StartPass, Done
<1>2. PICK g, t, bl : g = h' /\ t = Done' /\ bl = blocks'
  OBVIOUS
<1>3. GoodIn(g, t, bl)
  BY <1>2 DEF DriverInv, Replaying
<1>4. LiveSet(t) = {}
  BY <1>1, <1>2, NothingLive
<1>5. PICK L, am, W : L = LiveSet(t) /\ am = Amounts(t) /\ W = Payloads(L, bl, am)
  OBVIOUS
<1>6. Numbered(g, L, W)
  BY <1>3, <1>5, PayloadsFit DEF GoodIn
<1>7. Cardinality(W) = 0 /\ Cardinality(W) <= g.brk - 2
  BY <1>4, <1>5, <1>6 DEF Numbered
<1>8. InUse(t, bl) = 0
  BY <1>5, <1>7 DEF InUse
<1>9. 0 <= g.brk - 2
  BY <1>7
<1>10. /\ \A i \in LiveSet(Done') : sizes'[i] = Amounts(Done')[i]
       /\ total' = InUse(Done', blocks') /\ hwm' \in Nat /\ total' <= hwm' /\ hwm' <= h'.brk - 2
  BY <1>1, <1>2, <1>4, <1>8, <1>9
<1>11. QED
  BY <1>10 DEF UtilInv

\* A request is served: the invariant goes on.
LEMMA SumsGoOn ==
  ASSUME DriverInv, UtilInv, ReplayOp, pass = "util", pass' = "util"
  PROVE  UtilInv'
<1>1. /\ trace \in Seq(Ops) /\ blocks \in [Ids -> Nat] /\ sizes \in [Ids -> Nat] /\ GoodIn(h, Done, blocks)
      /\ pos \in 0 .. Len(trace) /\ h \in Heaps /\ \A i \in LiveSet(Done) : sizes[i] = Amounts(Done)[i]
      /\ total = InUse(Done, blocks) /\ hwm \in Nat /\ total <= hwm /\ hwm <= h.brk - 2
  BY DEF DriverInv, DriverType, UtilInv, Replaying
<1>2. DriverInv' /\ OnOps
  BY ReplayWorks DEF Stops, Replaying
<1>3. PICK op \in Ops : Legal(Done, op) /\ (FreesOne(op) \/ \E p : ServesOne(op, p))
  BY <1>2 DEF OnOps
<1>4. PICK g, g1, t, t1, bl, bl1 : /\ g = h /\ g1 = h' /\ t = Done /\ t1 = Done' /\ bl = blocks /\ bl1 = blocks'
  OBVIOUS
<1>5. t1 = Append(t, op) /\ GoodIn(g1, t1, bl1)
  BY <1>3, <1>4 DEF FreesOne, ServesOne
<1>6. t \in Seq(Ops)
  BY <1>1, <1>4, PrefixType DEF Done, Prefix
<1>7. PICK k, r : k = trace[pos + 1] /\ r = Call(k) /\ Trust(k, r)
  BY DEF ReplayOp
<1>8. k = op
  <2>1. PICK q : q = pos + 1
    OBVIOUS
  <2>2. pos < Len(trace) /\ pos' = q /\ trace' = trace
    BY <1>7, <2>1 DEF ReplayOp, Trust
  <2>3. t = Prefix(trace, pos) /\ t1 = Prefix(trace, q)
    BY <1>4, <2>2 DEF Done, Prefix
  <2>4. t1 = Append(t, k)
    BY <1>1, <1>7, <2>1, <2>2, <2>3, PrefixGrows
  <2>5. Append(t, k)[Len(t) + 1] = k /\ Append(t, op)[Len(t) + 1] = op
    BY <1>6
  <2>6. QED
    BY <1>5, <2>4, <2>5
<1>9. /\ sizes' = (IF op.type = "FREE" THEN sizes ELSE [sizes EXCEPT ![op.id] = op.size])
      /\ total' = total + Grown(op) /\ hwm' = Larger(total + Grown(op), hwm) /\ g1 = r.h
      /\ bl1 = (IF op.type = "FREE" THEN bl ELSE [bl EXCEPT ![op.id] = r.p])
  BY <1>4, <1>7, <1>8 DEF Trust
<1>10. SumChanges(t, bl, op, t1, bl1)
  <2>1. \A j \in Ids \ {op.id} : bl1[j] = bl[j]
    BY <1>1, <1>4, <1>9
  <2>2. GoodIn(g, t, bl) /\ Legal(t, op) /\ bl \in [Ids -> Nat]
    BY <1>1, <1>3, <1>4
  <2>3. QED
    BY <1>5, <1>6, <2>1, <2>2, SumFollows
<1>11. op.id \in Ids /\ op.size \in Nat
  BY OpTypes
<1>12. Grown(op) = Growth(t, op)
  <2>1. op.type # "ALLOC" => sizes[op.id] = Amounts(t)[op.id]
    BY <1>1, <1>3, <1>4, LegalIsLive
  <2>2. QED
    BY <2>1 DEF Grown, Growth
<1>13. total' = InUse(t1, bl1)
  BY <1>1, <1>4, <1>9, <1>10, <1>12 DEF SumChanges
<1>14. RisenIn(g, r)
  <2>1. r = CallOn(g, bl, op)
    BY <1>4, <1>7, <1>8 DEF Call, CallOn
  <2>2. GoodIn(g, t, bl) /\ Legal(t, op) /\ bl \in [Ids -> Nat]
    BY <1>1, <1>3, <1>4
  <2>3. QED
    BY <1>6, <2>1, <2>2, CallRises
<1>15. PICK a, b : a = g.brk /\ b = g1.brk
  OBVIOUS
<1>16. a \in Nat /\ b \in Nat /\ a <= b
  BY <1>1, <1>4, <1>9, <1>14, <1>15 DEF RisenIn, Risen, Answer, Parted, Heaps
<1>17. Numbered(g1, LiveSet(t1), Payloads(LiveSet(t1), bl1, Amounts(t1)))
  BY <1>5, PayloadsFit DEF GoodIn
<1>18. PICK x : x = InUse(t1, bl1)
  OBVIOUS
<1>19. x \in Nat /\ x <= b - 2
  BY <1>15, <1>17, <1>18 DEF Numbered, InUse
<1>20. hwm' \in Nat /\ total' <= hwm' /\ hwm' <= h'.brk - 2
  <2>1. total' = x /\ hwm' = Larger(x, hwm)
    BY <1>9, <1>13, <1>18
  <2>2. hwm \in Nat /\ hwm <= a - 2
    BY <1>1, <1>4, <1>15
  <2>3. PICK y, u : y = hwm /\ u = Larger(x, y)
    OBVIOUS
  <2>4. u \in Nat /\ x <= u /\ u <= b - 2
    BY <1>16, <1>19, <2>2, <2>3 DEF Larger
  <2>5. QED
    BY <1>4, <1>15, <2>1, <2>3, <2>4
<1>21. \A i \in LiveSet(t1) : sizes'[i] = Amounts(t1)[i]
  <2>1. PICK L, i : L = LiveSet(t) /\ i = op.id
    OBVIOUS
  <2>2. OneFurther(op, t, t1, L, i)
    BY <1>5, <1>6, <2>1, OpGoesFurther
  <2>3. /\ LiveSet(t1) = IF op.type = "FREE" THEN L \ {i} ELSE L \cup {i}
        /\ Amounts(t1)[i] = op.size /\ \A j \in L \ {i} : Amounts(t1)[j] = Amounts(t)[j]
    BY <2>2 DEF OneFurther
  <2>4. \A j \in L : sizes[j] = Amounts(t)[j] /\ j \in Ids
    BY <1>1, <1>4, <2>1 DEF LiveSet
  <2>5. QED
    BY <1>1, <1>9, <1>11, <2>1, <2>3, <2>4
<1>22. QED
  BY <1>4, <1>13, <1>20, <1>21 DEF UtilInv

\* Every step keeps it.
LEMMA UtilSteps == DriverInv /\ UtilInv /\ [Next]_vars => UtilInv'
<1> SUFFICES ASSUME DriverInv, UtilInv, [Next]_vars
             PROVE  UtilInv'
  OBVIOUS
<1>1. CASE ValidEnds
  <2>1. DriverInv'
    BY DriverSteps
  <2>2. QED
    BY <1>1, <2>1, UtilStarts DEF UtilInv
<1>2. CASE ReplayOp
  <2>1. pass' = "util" => pass = "util"
    BY <1>2 DEF ReplayOp, Trust
  <2>2. QED
    BY <1>2, <2>1, SumsGoOn DEF UtilInv
<1>3. CASE UNCHANGED vars
  BY <1>3 DEF vars, UtilInv, Done
<1>4. CASE ReadTrace \/ UtilEnds \/ SpeedEnds \/ Results \/ \E op \in Ops : ValidOp(op)
  <2>1. ReadTrace \/ Results => pass' # "util"
    BY DEF ReadTrace, NextTrace, Results
  <2>2. UtilEnds \/ SpeedEnds => pass' # "util"
    BY DEF UtilEnds, SpeedEnds, NextTrace, StartPass
  <2>3. ASSUME NEW op \in Ops, ValidOp(op)
        PROVE  pass' # "util"
    <3>1. PICK answer, known, fault : Judge(op, answer, known, fault)
      BY <2>3 DEF ValidOp
    <3>2. /\ pass = "valid"
          /\ pass' = pass \/ NextTrace(fault, op)
      BY <2>3, <3>1 DEF ValidOp, Judge
    <3>3. QED
      BY <3>2 DEF NextTrace
  <2>4. QED
    BY <1>4, <2>1, <2>2, <2>3 DEF UtilInv
<1>5. QED
  BY <1>1, <1>2, <1>3, <1>4 DEF Next

\* The utilization is a share: what eval_mm_util adds and subtracts is never
\* negative, is 0 exactly when nothing is allocated, and its maximum fits the heap.
THEOREM UtilizationStaysShare == Spec => []UtilizationIsShare
<1>1. Init => UtilInv
  BY DEF Init, UtilInv
<1>2. DriverInv /\ UtilInv => UtilizationIsShare
  <2>1. SUFFICES ASSUME DriverInv, UtilInv, pass = "util"
                 PROVE  /\ 0 <= total /\ total <= hwm /\ hwm <= mem_heapsize(h)
                        /\ total = 0 <=> \A i \in Ids : ~Live(i)
    BY DEF UtilizationIsShare
  <2>2. PICK L, am, W : L = LiveSet(Done) /\ am = Amounts(Done) /\ W = Payloads(L, blocks, am)
    OBVIOUS
  <2>3. Numbered(h, L, W)
    BY <2>1, <2>2, PayloadsFit DEF DriverInv, Replaying, GoodIn
  <2>4. total = Cardinality(W) /\ total <= hwm /\ hwm <= h.brk - 2
    BY <2>1, <2>2 DEF UtilInv, InUse
  <2>5. total \in Nat /\ (total = 0 <=> L = {})
    BY <2>3, <2>4 DEF Numbered
  <2>6. L = {} <=> \A i \in Ids : ~Live(i)
    BY <2>2 DEF LiveSet, LiveIn, Live
  <2>7. mem_heapsize(h) = h.brk - 2
    BY Places DEF mem_heapsize
  <2>8. QED
    BY <2>4, <2>5, <2>6, <2>7
<1>3. QED
  BY <1>1, <1>2, UtilSteps, DriverInvHolds, PTL DEF Spec

----------------------------------------------------------------------------
(* Two heaps that tell the package the same.  A replay starts on a heap     *)
(* where earlier passes left their words, and the later passes do not fill  *)
(* blocks: words of the data and words that nobody links any more differ.   *)
(* Alike says that two heaps agree on the words S; a call that reads only   *)
(* such words writes the same to both.                                      *)

Shaped(g) == \E m : g = [m |-> m, brk |-> g.brk] /\ m = [w \in Memory |-> m[w]]
Alike(g, r, S) == Shaped(g) /\ Shaped(r) /\ SameBrk(g, r) /\ SameWords(g, r, S)

\* A heap of numbers has the shape of one.
LEMMA HeapsAreShaped ==
  ASSUME NEW g \in Heaps
  PROVE  Shaped(g)
<1>1. g = [m |-> g.m, brk |-> g.brk] /\ g.m = [w \in Memory |-> g.m[w]]
  BY DEF Heaps
<1>2. QED
  BY <1>1 DEF Shaped

\* PUT keeps the shape and writes a word.
LEMMA PutShapes ==
  ASSUME NEW g, Shaped(g), NEW p, NEW v, NEW r, r = PUT(g, p, v)
  PROVE  Shaped(r) /\ SameBrk(g, r) /\ \A w \in Memory : r.m[w] = IF w = p THEN v ELSE g.m[w]
<1>1. PICK m : g = [m |-> m, brk |-> g.brk] /\ m = [w \in Memory |-> m[w]]
  BY DEF Shaped
<1>2. PICK k : k = [m EXCEPT ![p] = v]
  OBVIOUS
<1>3. r = [m |-> k, brk |-> g.brk]
  BY <1>1, <1>2 DEF PUT
<1>4. k = [w \in Memory |-> k[w]] /\ \A w \in Memory : k[w] = IF w = p THEN v ELSE m[w]
  BY <1>1, <1>2
<1>5. g.m = m /\ r.m = k /\ r.brk = g.brk
  BY <1>1, <1>3
<1>6. QED
  BY <1>3, <1>4, <1>5 DEF Shaped, SameBrk

\* The same PUT on both leaves them alike, and in one word more.
LEMMA PutsAlike ==
  ASSUME NEW g, NEW r, NEW S, S \subseteq Memory, Alike(g, r, S), NEW p, NEW v, NEW T,
         T \subseteq S \cup (Memory \cap {p}), NEW g1, g1 = PUT(g, p, v), NEW r1, r1 = PUT(r, p, v)
  PROVE  Alike(g1, r1, T)
<1>1. Shaped(g1) /\ SameBrk(g, g1) /\ \A w \in Memory : g1.m[w] = IF w = p THEN v ELSE g.m[w]
  BY PutShapes DEF Alike
<1>2. Shaped(r1) /\ SameBrk(r, r1) /\ \A w \in Memory : r1.m[w] = IF w = p THEN v ELSE r.m[w]
  BY PutShapes DEF Alike
<1>3. SameWords(g1, r1, T)
  BY <1>1, <1>2 DEF Alike, SameWords
<1>4. QED
  BY <1>1, <1>2, <1>3 DEF Alike, SameBrk

\* The same tags on both.
LEMMA TagsAlike ==
  ASSUME NEW g, NEW r, NEW S, S \subseteq Memory, Alike(g, r, S), NEW b, NEW size, NEW alloc,
         NEW g1, g1 = TAG(g, b, size, alloc), NEW r1, r1 = TAG(r, b, size, alloc)
  PROVE  Alike(g1, r1, S)
<1>1. PICK v, u, w : v = PACK(size, alloc) /\ u = HDRP(b) /\ w = b + size - DSIZE
  OBVIOUS
<1>2. PICK g2, r2 : g2 = PUT(g, u, v) /\ r2 = PUT(r, u, v)
  OBVIOUS
<1>3. g1 = PUT(g2, w, v) /\ r1 = PUT(r2, w, v)
  BY <1>1, <1>2 DEF TAG
<1>4. Alike(g2, r2, S)
  BY <1>2, PutsAlike
<1>5. QED
  BY <1>3, <1>4, PutsAlike

\* b leaves the same list of both.
LEMMA DeletesAlike ==
  ASSUME NEW g, NEW r, NEW S, S \subseteq Memory, Alike(g, r, S), NEW b, b \in S, b + 1 \in S, SIZE(r, b) = SIZE(g, b),
         NEW g1, g1 = delete_node(g, b), NEW r1, r1 = delete_node(r, b)
  PROVE  Alike(g1, r1, S)
<1>1. SUCC(r, b) = SUCC(g, b) /\ PRED(r, b) = PRED(g, b)
  BY DEF Alike, SameWords, SUCC, PRED
<1>2. PICK s, p, t : /\ s = SUCC(g, b) /\ p = PRED(g, b)
                     /\ t = IF p = NULL THEN HEAD(get_free_list_idx(SIZE(g, b))) ELSE p
  OBVIOUS
<1>3. PICK g2, r2 : /\ g2 = IF s = NULL THEN g ELSE PUT(g, s + 1, p)
                    /\ r2 = IF s = NULL THEN r ELSE PUT(r, s + 1, p)
  OBVIOUS
<1>4. g1 = PUT(g2, t, s) /\ r1 = PUT(r2, t, s)
  BY <1>1, <1>2, <1>3 DEF delete_node
<1>5. Alike(g2, r2, S)
  BY <1>3, PutsAlike
<1>6. QED
  BY <1>4, <1>5, PutsAlike

\* b joins the same list of both: its links are alike then.
LEMMA InsertsAlike ==
  ASSUME NEW g, NEW r, NEW S, S \subseteq Memory, Alike(g, r, S), NEW b, b \in Memory, b + 1 \in Memory,
         NEW size, SIZE(g, b) = size, SIZE(r, b) = size, HEAD(get_free_list_idx(size)) \in S,
         NEW T, T = S \cup {b, b + 1}, NEW g1, g1 = insert_node(g, b), NEW r1, r1 = insert_node(r, b)
  PROVE  Alike(g1, r1, T)
<1>1. PICK t : t = HEAD(get_free_list_idx(size))
  OBVIOUS
<1>2. PICK f : f = g.m[t]
  OBVIOUS
<1>3. r.m[t] = f
  BY <1>1, <1>2 DEF Alike, SameWords
<1>4. PICK g2, r2 : /\ g2 = IF f = NULL THEN g ELSE PUT(g, f + 1, b)
                    /\ r2 = IF f = NULL THEN r ELSE PUT(r, f + 1, b)
  OBVIOUS
<1>5. PICK g3, r3 : g3 = PUT(g2, b + 1, NULL) /\ r3 = PUT(r2, b + 1, NULL)
  OBVIOUS
<1>6. PICK g4, r4 : g4 = PUT(g3, b, f) /\ r4 = PUT(r3, b, f)
  OBVIOUS
<1>7. g1 = PUT(g4, t, b) /\ r1 = PUT(r4, t, b)
  BY <1>1, <1>2, <1>3, <1>4, <1>5, <1>6 DEF insert_node
<1>8. Alike(g2, r2, S)
  BY <1>4, PutsAlike
<1>9. PICK U : U = S \cup {b + 1}
  OBVIOUS
<1>10. U \subseteq Memory /\ T \subseteq Memory
  BY <1>9
<1>11. Alike(g3, r3, U)
  BY <1>5, <1>8, <1>9, PutsAlike
<1>12. Alike(g4, r4, T)
  BY <1>6, <1>9, <1>10, <1>11, PutsAlike
<1>13. QED
  BY <1>7, <1>10, <1>12, PutsAlike

\* Two heaps of the same blocks, with the same free lists.
Twin(g, r, B, z, V, F, X) == State(g, B, z, V, F, X) /\ State(r, B, z, V, F, X) /\ Alike(g, r, LinkWords(F))

\* They are alike on fewer words, too.
LEMMA AlikeOnLess ==
  ASSUME NEW g, NEW r, NEW S, NEW T, Alike(g, r, S), T \subseteq S
  PROVE  Alike(g, r, T)
BY DEF Alike, SameWords

\* The links of listed blocks are words of the memory.
LEMMA LinksInMemory ==
  ASSUME NEW g, NEW B, NEW z, NEW V, NEW F, NEW X, State(g, B, z, V, F, X)
  PROVE  /\ LinkWords(F) \subseteq Memory /\ Grid(B, z, g.brk) /\ Parts(B, V, F, X) /\ F \subseteq B \ {14}
         /\ \A b \in V : b \in B /\ b # 14 /\ b \in Memory /\ b + 1 \in Memory
<1>1. Grid(B, z, g.brk) /\ Parts(B, V, F, X) /\ F \subseteq B \ {14} /\ V \subseteq B \ {14}
  BY DEF State, Parts
<1>2. \A w \in LinkWords(F) : w \in Memory
  BY <1>1, ListWords
<1>3. \A b \in V : b \in Memory /\ b + 1 \in Memory
  BY <1>1, ListWords
<1>4. QED
  BY <1>1, <1>2, <1>3

\* A block of both that is being written is tagged.
LEMMA TwinsTag ==
  ASSUME NEW g, NEW r, NEW B, NEW z, NEW V, NEW F, NEW X, Twin(g, r, B, z, V, F, X),
         NEW b \in B, b # 14, b \notin F, NEW size, size = z[b], NEW alloc, alloc = IF b \in V THEN 0 ELSE 1,
         NEW g1, g1 = TAG(g, b, size, alloc), NEW r1, r1 = TAG(r, b, size, alloc), NEW Y, Y = X \ {b}
  PROVE  Twin(g1, r1, B, z, V, F, Y)
<1>1. State(g, B, z, V, F, X) /\ State(r, B, z, V, F, X) /\ Alike(g, r, LinkWords(F))
  BY DEF Twin
<1>2. State(g1, B, z, V, F, Y) /\ State(r1, B, z, V, F, Y)
  BY <1>1, TagBlock
<1>3. Alike(g1, r1, LinkWords(F))
  BY <1>1, LinksInMemory, TagsAlike
<1>4. QED
  BY <1>2, <1>3 DEF Twin

\* A block of both is tagged as free, or as allocated.
LEMMA TwinsRetag ==
  ASSUME NEW g, NEW r, NEW B, NEW z, NEW V, NEW F, NEW X, X = {}, Twin(g, r, B, z, V, F, X),
         NEW b \in B, b # 14, b \notin F, NEW size, size = z[b], NEW alloc \in {0, 1},
         NEW V1, V1 = IF alloc = 0 THEN V \cup {b} ELSE V \ {b},
         NEW g1, g1 = TAG(g, b, size, alloc), NEW r1, r1 = TAG(r, b, size, alloc)
  PROVE  Twin(g1, r1, B, z, V1, F, X)
<1>1. State(g, B, z, V, F, X) /\ State(r, B, z, V, F, X) /\ Alike(g, r, LinkWords(F))
  BY DEF Twin
<1>2. Retagging(g, B, z, V, F, b, size, alloc, V1) /\ Retagging(r, B, z, V, F, b, size, alloc, V1)
  BY <1>1 DEF Retagging
<1>3. State(g1, B, z, V1, F, X) /\ State(r1, B, z, V1, F, X)
  BY <1>2, Retags
<1>4. Alike(g1, r1, LinkWords(F))
  BY <1>1, LinksInMemory, TagsAlike
<1>5. QED
  BY <1>3, <1>4 DEF Twin

\* A free block leaves its list.
LEMMA TwinsDelete ==
  ASSUME NEW g, NEW r, NEW B, NEW z, NEW V, NEW F, NEW X, Twin(g, r, B, z, V, F, X), NEW b \in F,
         NEW g1, g1 = delete_node(g, b), NEW r1, r1 = delete_node(r, b), NEW G, G = F \ {b}
  PROVE  Twin(g1, r1, B, z, V, G, X)
<1>1. State(g, B, z, V, F, X) /\ State(r, B, z, V, F, X) /\ Alike(g, r, LinkWords(F))
  BY DEF Twin
<1>2. State(g1, B, z, V, G, X) /\ State(r1, B, z, V, G, X)
  BY <1>1, DeleteNode
<1>3. b \in LinkWords(F) /\ b + 1 \in LinkWords(F) /\ LinkWords(G) \subseteq LinkWords(F)
  BY DEF LinkWords
<1>4. b \in B \ X
  BY <1>1, LinksInMemory DEF Parts
<1>5. SIZE(g, b) = z[b] /\ SIZE(r, b) = z[b]
  BY <1>1, <1>4, Reads
<1>6. Alike(g1, r1, LinkWords(F))
  BY <1>1, <1>3, <1>5, LinksInMemory, DeletesAlike
<1>7. QED
  BY <1>2, <1>3, <1>6, AlikeOnLess DEF Twin

\* A free block joins its list.
LEMMA TwinsInsert ==
  ASSUME NEW g, NEW r, NEW B, NEW z, NEW V, NEW F, NEW X, Twin(g, r, B, z, V, F, X), NEW b \in V, b \notin F, b \notin X,
         NEW g1, g1 = insert_node(g, b), NEW r1, r1 = insert_node(r, b), NEW G, G = F \cup {b}
  PROVE  Twin(g1, r1, B, z, V, G, X)
<1>1. State(g, B, z, V, F, X) /\ State(r, B, z, V, F, X) /\ Alike(g, r, LinkWords(F))
  BY DEF Twin
<1>2. State(g1, B, z, V, G, X) /\ State(r1, B, z, V, G, X)
  BY <1>1, InsertNode
<1>3. LinkWords(F) \subseteq Memory /\ Grid(B, z, g.brk) /\ b \in B \ X /\ b # 14 /\ b \in Memory /\ b + 1 \in Memory
  BY <1>1, LinksInMemory
<1>4. PICK size : size = z[b]
  OBVIOUS
<1>5. SIZE(g, b) = size /\ SIZE(r, b) = size
  BY <1>1, <1>3, <1>4, Reads
<1>6. HEAD(get_free_list_idx(size)) \in LinkWords(F)
  BY <1>3, <1>4, IdxInLists DEF Idx, LinkWords
<1>7. PICK T : T = LinkWords(F) \cup {b, b + 1}
  OBVIOUS
<1>8. Alike(g1, r1, T)
  BY <1>1, <1>3, <1>5, <1>6, <1>7, InsertsAlike
<1>9. LinkWords(G) \subseteq T
  BY <1>7 DEF LinkWords
<1>10. QED
  BY <1>2, <1>8, <1>9, AlikeOnLess DEF Twin

\* The same blocks seen in another way.
LEMMA TwinsRegrid ==
  ASSUME NEW g, NEW r, NEW B, NEW z, NEW V, NEW F, NEW X, Twin(g, r, B, z, V, F, X),
         NEW B1, NEW z1, NEW V1, NEW X1, Grid(B1, z1, g.brk), Parts(B1, V1, F, X1),
         \A c \in B1 \ X1 : c \in B \ X /\ z1[c] = z[c] /\ (c \in V1 <=> c \in V)
  PROVE  Twin(g, r, B1, z1, V1, F, X1)
<1>1. State(g, B, z, V, F, X) /\ State(r, B, z, V, F, X) /\ Alike(g, r, LinkWords(F))
  BY DEF Twin
<1>2. Grid(B1, z1, r.brk)
  BY <1>1 DEF Alike, SameBrk
<1>3. State(g, B1, z1, V1, F, X1)
  BY <1>1, Regrid
<1>4. State(r, B1, z1, V1, F, X1)
  BY <1>1, <1>2, Regrid
<1>5. QED
  BY <1>1, <1>3, <1>4 DEF Twin

\* Both grow by a block.
LEMMA TwinsGrow ==
  ASSUME NEW g, NEW r, NEW B, NEW z, NEW V, NEW F, NEW X, X = {}, Twin(g, r, B, z, V, F, X), NEW b, b = g.brk, NEW k,
         NEW B1, NEW z1, NEW n, GrownGrid(B, z, b, k, B1, z1, n), NEW V1, V1 = V \cup {b},
         NEW g1, g1 = PUT(TAG(Longer(g, k), b, k, 0), b + k - 1, PACK(0, 1)),
         NEW r1, r1 = PUT(TAG(Longer(r, k), b, k, 0), b + k - 1, PACK(0, 1))
  PROVE  Twin(g1, r1, B1, z1, V1, F, X)
<1>1. State(g, B, z, V, F, X) /\ State(r, B, z, V, F, X) /\ Alike(g, r, LinkWords(F)) /\ b = r.brk
  BY DEF Twin, Alike, SameBrk
<1>2. GrownHeap(g, B, z, V, F, b, k, B1, z1, V1, n, g1) /\ GrownHeap(r, B, z, V, F, b, k, B1, z1, V1, n, r1)
  BY <1>1 DEF GrownHeap
<1>3. State(g1, B1, z1, V1, F, X) /\ State(r1, B1, z1, V1, F, X)
  BY <1>2, ExtendTags
<1>4. PICK g2, r2 : g2 = Longer(g, k) /\ r2 = Longer(r, k)
  OBVIOUS
<1>5. Alike(g2, r2, LinkWords(F))
  <2>1. g \in Heaps /\ r \in Heaps /\ k \in Nat
    BY <1>1 DEF State, GrownGrid, Fitting
  <2>2. g2 \in Heaps /\ r2 \in Heaps /\ g2.m = g.m /\ r2.m = r.m /\ g2.brk = g.brk + k /\ r2.brk = r.brk + k
    BY <1>4, <2>1 DEF Longer, Heaps
  <2>3. QED
    BY <1>1, <2>2, HeapsAreShaped DEF Alike, SameWords, SameBrk
<1>6. PICK g3, r3 : g3 = TAG(g2, b, k, 0) /\ r3 = TAG(r2, b, k, 0)
  OBVIOUS
<1>7. Alike(g3, r3, LinkWords(F))
  BY <1>1, <1>5, <1>6, LinksInMemory, TagsAlike
<1>8. PICK p, v : p = b + k - 1 /\ v = PACK(0, 1)
  OBVIOUS
<1>9. g1 = PUT(g3, p, v) /\ r1 = PUT(r3, p, v)
  BY <1>4, <1>6, <1>8
<1>10. Alike(g1, r1, LinkWords(F))
  BY <1>1, <1>7, <1>9, LinksInMemory, PutsAlike
<1>11. QED
  BY <1>3, <1>10 DEF Twin

\* Words of a heap tell its blocks: the smallest block of one reading that the
\* other does not have would follow a block that both have.
LEMMA OneReading ==
  ASSUME NEW g, NEW X, X = {}, NEW B, NEW z, NEW V, NEW F, State(g, B, z, V, F, X),
         NEW C, NEW y, NEW U, NEW G, State(g, C, y, U, G, X)
  PROVE  \A b \in B : b \in C /\ z[b] = y[b] /\ (b \in V <=> b \in U)
<1>1. Grid(B, z, g.brk) /\ Grid(C, y, g.brk)
  BY DEF State
<1>2. /\ \A b \in B : SIZE(g, b) = z[b] /\ (IS_FREE(g, HDRP(b)) <=> b \in V)
      /\ \A b \in C : SIZE(g, b) = y[b] /\ (IS_FREE(g, HDRP(b)) <=> b \in U)
  BY Reads
<1>3. PICK Missed : Missed = {b \in B : b \notin C}
  OBVIOUS
<1>4. ASSUME NEW c \in Missed
      PROVE  \E b \in Missed : b < c
  <2>1. c \in B /\ c # 14 /\ c # g.brk /\ c \notin C
    BY <1>1, <1>3, <1>4 DEF Grid, Cell
  <2>2. PICK b \in B : b + z[b] = c
    BY <1>1, <2>1 DEF Grid
  <2>3. b < c
    BY <1>1, <2>2 DEF Grid, Cell
  <2>4. CASE b \in C
    <3>1. y[b] = z[b]
      BY <1>2, <2>4
    <3>2. b + y[b] \in C \cup {g.brk}
      BY <1>1, <2>4 DEF Grid, Cell
    <3>3. QED
      BY <2>1, <2>2, <3>1, <3>2
  <2>5. QED
    BY <1>3, <2>3, <2>4
<1>5. Missed \in SUBSET Nat
  BY <1>1, <1>3 DEF Grid, Cell
<1>6. Missed = {}
  BY <1>4, <1>5, SmallestExists
<1>7. QED
  BY <1>2, <1>3, <1>6

\* So there is only one reading.
LEMMA OneShape ==
  ASSUME NEW g, NEW X, X = {}, NEW B, NEW z, NEW V, State(g, B, z, V, V, X), NEW C, NEW y, NEW U, State(g, C, y, U, U, X)
  PROVE  C = B /\ y = z /\ U = V
<1>1. \A b \in B : b \in C /\ z[b] = y[b] /\ (b \in V <=> b \in U)
  BY OneReading
<1>2. \A b \in C : b \in B /\ z[b] = y[b] /\ (b \in V <=> b \in U)
  BY OneReading
<1>3. z \in [B -> Nat] /\ y \in [C -> Nat] /\ V \subseteq B /\ U \subseteq C
  BY DEF State, Grid, Parts
<1>4. QED
  BY <1>1, <1>2, <1>3

\* Between two calls.
Twins(g, r) == \E B, z, V : Twin(g, r, B, z, V, V, {})
\* Two answers that a caller cannot tell apart.
SameAnswers(x, y) == \E t, u, p : Answer(x, t, p) /\ Answer(y, u, p) /\ Twins(t, u)

\* The twin of a sound heap is sound, with the same blocks.
LEMMA TwinsRead ==
  ASSUME NEW g, NEW r, Twins(g, r), NEW B, NEW z, NEW V, Sound(g, B, z, V)
  PROVE  Twin(g, r, B, z, V, V, {}) /\ Sound(r, B, z, V)
<1>1. PICK X : X = {}
  OBVIOUS
<1>2. PICK C, y, U : Twin(g, r, C, y, U, U, X)
  BY <1>1 DEF Twins
<1>3. State(g, C, y, U, U, X) /\ State(g, B, z, V, V, X)
  BY <1>1, <1>2 DEF Twin, Sound
<1>4. C = B /\ y = z /\ U = V
  BY <1>1, <1>3, OneShape
<1>5. QED
  BY <1>1, <1>2, <1>4 DEF Twin, Sound

\* Twins of one heap are twins.
LEMMA TwinsTwice ==
  ASSUME NEW g, NEW r, NEW s, Twins(g, r), Twins(r, s)
  PROVE  Twins(g, s)
<1>1. PICK X : X = {}
  OBVIOUS
<1>2. PICK B, z, V : Twin(g, r, B, z, V, V, X)
  BY <1>1 DEF Twins
<1>3. PICK C, y, U : Twin(r, s, C, y, U, U, X)
  BY <1>1 DEF Twins
<1>4. State(r, C, y, U, U, X) /\ State(r, B, z, V, V, X)
  BY <1>2, <1>3 DEF Twin
<1>5. C = B /\ y = z /\ U = V
  BY <1>1, <1>4, OneShape
<1>6. State(g, B, z, V, V, X) /\ State(s, B, z, V, V, X) /\ Alike(g, r, LinkWords(V)) /\ Alike(r, s, LinkWords(V))
  BY <1>2, <1>3, <1>5 DEF Twin
<1>7. Alike(g, s, LinkWords(V))
  BY <1>6 DEF Alike, SameBrk, SameWords
<1>8. QED
  BY <1>1, <1>6, <1>7 DEF Twin, Twins

\* And each is a twin of the other.
LEMMA TwinsTurn ==
  ASSUME NEW g, NEW r, Twins(g, r)
  PROVE  Twins(r, g)
BY DEF Twins, Twin, Alike, SameBrk, SameWords

\* A heap is its own twin.
LEMMA OwnTwin ==
  ASSUME NEW g, NEW B, NEW z, NEW V, Sound(g, B, z, V)
  PROVE  Twins(g, g)
<1>1. State(g, B, z, V, V, {}) /\ g \in Heaps
  BY DEF Sound, State
<1>2. Alike(g, g, LinkWords(V))
  BY <1>1, HeapsAreShaped DEF Alike, SameBrk, SameWords
<1>3. QED
  BY <1>1, <1>2 DEF Twins, Twin

\* The free block b of both is tagged and listed.
LEMMA JoinsAlike ==
  ASSUME NEW g, NEW r, NEW B, NEW z, NEW V, NEW F, NEW X, Twin(g, r, B, z, V, F, X), NEW b, X = {b},
         V = F \cup {b}, b \notin F, NEW size, size = z[b], NEW x, x = Join(g, b, size), NEW y, y = Join(r, b, size)
  PROVE  SameAnswers(x, y)
<1>1. b \in B /\ b # 14 /\ b \in V
  BY LinksInMemory DEF Twin
<1>2. PICK g1, r1 : g1 = TAG(g, b, size, 0) /\ r1 = TAG(r, b, size, 0)
  OBVIOUS
<1>3. PICK Y : Y = X \ {b}
  OBVIOUS
<1>4. Twin(g1, r1, B, z, V, F, Y)
  BY <1>1, <1>2, <1>3, TwinsTag
<1>5. PICK g2, r2 : g2 = insert_node(g1, b) /\ r2 = insert_node(r1, b)
  OBVIOUS
<1>6. Y = {} /\ b \notin Y
  BY <1>3
<1>7. Twin(g2, r2, B, z, V, V, Y)
  BY <1>1, <1>4, <1>5, <1>6, TwinsInsert
<1>8. Answer(x, g2, b) /\ Answer(y, r2, b)
  BY <1>2, <1>5 DEF Join, Answer
<1>9. QED
  BY <1>6, <1>7, <1>8 DEF SameAnswers, Twins

\* The header behind b tells whether a listed block follows.
LEMMA NextIsListed ==
  ASSUME NEW g, NEW B, NEW z, NEW V, NEW F, NEW X, State(g, B, z, V, F, X), NEW b, X = {b}, b \in B, V = F \cup {b}, b \notin F,
         NEW n, n = b + z[b]
  PROVE  (IS_FREE(g, HDRP(n)) <=> n \in F) /\ n # b /\ (n \in F => SIZE(g, n) = z[n])
<1>1. Grid(B, z, g.brk) /\ F \subseteq B
  BY DEF State, Parts
<1>2. b \in Nat /\ z[b] \in Nat /\ 2 <= z[b] /\ n \in B \cup {g.brk} /\ n # b /\ g.brk \notin B
  BY <1>1 DEF Grid, Cell
<1>3. CASE n = g.brk
  BY <1>1, <1>2, <1>3, ReadsEnd
<1>4. CASE n \in B
  <2>1. n \in B \ X
    BY <1>2, <1>4
  <2>2. (IS_FREE(g, HDRP(n)) <=> n \in V) /\ SIZE(g, n) = z[n]
    BY <2>1, Reads
  <2>3. QED
    BY <1>2, <2>2
<1>5. QED
  BY <1>2, <1>3, <1>4

\* The block behind b joins it in both, or in none.
LEMMA JoinsNextAlike ==
  ASSUME NEW g, NEW r, NEW B, NEW z, NEW V, NEW F, NEW X, Twin(g, r, B, z, V, F, X), NEW b, X = {b},
         V = F \cup {b}, b \notin F, NEW size, size = z[b], NEW n, n = b + z[b],
         NEW x, x = JoinNext(g, b, size, n), NEW y, y = JoinNext(r, b, size, n)
  PROVE  SameAnswers(x, y)
<1>1. State(g, B, z, V, F, X) /\ State(r, B, z, V, F, X)
  BY DEF Twin
<1>2. Grid(B, z, g.brk) /\ Parts(B, V, F, X) /\ b \in B /\ b # 14 /\ F \subseteq B \ {14}
  BY <1>1, LinksInMemory
<1>3. /\ IS_FREE(g, HDRP(n)) <=> n \in F
      /\ IS_FREE(r, HDRP(n)) <=> n \in F
      /\ n # b /\ (n \in F => SIZE(g, n) = z[n] /\ SIZE(r, n) = z[n])
  BY <1>1, <1>2, NextIsListed
<1>4. CASE n \notin F
  <2>1. x = Join(g, b, size) /\ y = Join(r, b, size)
    BY <1>3, <1>4 DEF JoinNext
  <2>2. QED
    BY <2>1, JoinsAlike
<1>5. CASE n \in F
  <2>1. PICK g1, r1 : g1 = delete_node(g, n) /\ r1 = delete_node(r, n)
    OBVIOUS
  <2>2. PICK F1 : F1 = F \ {n}
    OBVIOUS
  <2>3. Twin(g1, r1, B, z, V, F1, X)
    BY <1>5, <2>1, <2>2, TwinsDelete
  <2>4. PICK B1, z1, V1 : B1 = B \ {n} /\ z1 = Merged(B, z, b, n) /\ V1 = V \ {n}
    OBVIOUS
  <2>5. n \in B /\ n # b
    BY <1>1, <1>2, <1>5, NextIsListed
  <2>6. Grid(B1, z1, g.brk)
    BY <1>2, <2>4, <2>5, MergedGrid
  <2>7. z1[b] = z[b] + z[n] /\ \A c \in B1 : c # b => z1[c] = z[c]
    BY <1>2, <2>4, <2>5 DEF Merged
  <2>8. Twin(g1, r1, B1, z1, V1, F1, X)
    <3>1. SameBrk(g, g1)
      BY <1>1, <1>5, <2>1, <2>2, DeleteNode
    <3>2. Grid(B1, z1, g1.brk)
      BY <2>6, <3>1 DEF SameBrk
    <3>3. Parts(B1, V1, F1, X)
      <4>1. V \subseteq B \ {14} /\ X \subseteq B
        BY <1>2 DEF Parts
      <4>2. V1 \subseteq B1 \ {14} /\ X \subseteq B1 /\ F1 \subseteq V1 \ X
        BY <1>2, <2>2, <2>4, <2>5, <4>1
      <4>3. QED
        BY <1>2, <2>2, <2>4, <2>5, <4>1, <4>2 DEF Parts
    <3>4. \A c \in B1 \ X : c \in B \ X /\ z1[c] = z[c] /\ (c \in V1 <=> c \in V)
      BY <2>4, <2>7
    <3>5. QED
      BY <2>3, <3>2, <3>3, <3>4, TwinsRegrid
  <2>9. PICK size1 : size1 = z1[b]
    OBVIOUS
  <2>10. x = Join(g1, b, size1) /\ y = Join(r1, b, size1)
    BY <1>3, <1>5, <2>1, <2>5, <2>7, <2>9 DEF JoinNext
  <2>11. V1 = F1 \cup {b} /\ b \notin F1
    BY <2>2, <2>4, <2>5
  <2>12. QED
    BY <2>8, <2>9, <2>10, <2>11, JoinsAlike
<1>6. QED
  BY <1>4, <1>5

\* coalesce does the same to both.
LEMMA CoalescesAlike ==
  ASSUME NEW g, NEW r, NEW B, NEW z, NEW V, NEW F, NEW X, X = {}, Twin(g, r, B, z, V, F, X), NEW b,
         V = F \cup {b}, b \notin F, NEW x, x = coalesce(g, b), NEW y, y = coalesce(r, b)
  PROVE  SameAnswers(x, y)
<1>1. State(g, B, z, V, F, X) /\ State(r, B, z, V, F, X)
  BY DEF Twin
<1>2. Grid(B, z, g.brk) /\ Parts(B, V, F, X) /\ b \in B /\ b # 14 /\ F \subseteq B \ {14}
  BY <1>1, LinksInMemory
<1>3. PICK q \in B : q + z[q] = b
  BY <1>2 DEF Grid
<1>4. b \in Nat /\ z[b] \in Nat /\ 2 <= z[b] /\ q \in Nat /\ z[q] \in Nat /\ 2 <= z[q] /\ q # b
  BY <1>2, <1>3 DEF Grid, Cell
<1>5. PICK w, n, Y : w = b - 2 /\ n = b + z[b] /\ Y = {b}
  OBVIOUS
<1>6. ASSUME NEW s, State(s, B, z, V, F, X)
      PROVE  /\ PREV_BLKP(s, b) = q /\ FTRP(s, q) = w /\ SIZE(s, q) = z[q] /\ (IS_FREE(s, w) <=> q \in F)
             /\ SIZE(s, b) = z[b] /\ NEXT_BLKP(s, b) = n
  <2>1. q \in B \ X /\ b \in B \ X
    BY <1>2
  <2>2. PREV_BLKP(s, b) = q /\ FTRP(s, q) = w /\ SIZE(s, q) = z[q] /\ (IS_FREE(s, w) <=> q \in V)
    BY <1>3, <1>5, <1>6, <2>1, Reads
  <2>3. SIZE(s, b) = z[b] /\ NEXT_BLKP(s, b) = n
    BY <1>5, <1>6, <2>1, Reads
  <2>4. QED
    BY <1>4, <2>2, <2>3
<1>7. /\ PREV_BLKP(g, b) = q /\ FTRP(g, q) = w /\ SIZE(g, q) = z[q] /\ (IS_FREE(g, w) <=> q \in F)
      /\ SIZE(g, b) = z[b] /\ NEXT_BLKP(g, b) = n
  BY <1>1, <1>6
<1>8. /\ PREV_BLKP(r, b) = q /\ FTRP(r, q) = w /\ SIZE(r, q) = z[q] /\ (IS_FREE(r, w) <=> q \in F)
      /\ SIZE(r, b) = z[b] /\ NEXT_BLKP(r, b) = n
  BY <1>1, <1>6
<1>9. CASE q \notin F
  <2>1. PICK size : size = z[b]
    OBVIOUS
  <2>2. x = JoinNext(g, b, size, n) /\ y = JoinNext(r, b, size, n)
    BY <1>7, <1>8, <1>9, <2>1 DEF coalesce, JoinBoth
  <2>3. Twin(g, r, B, z, V, F, Y)
    <3>1. Parts(B, V, F, Y)
      BY <1>2, <1>5 DEF Parts
    <3>2. \A c \in B \ Y : c \in B \ X /\ z[c] = z[c] /\ (c \in V <=> c \in V)
      OBVIOUS
    <3>3. QED
      BY <1>2, <3>1, <3>2, TwinsRegrid
  <2>4. QED
    BY <1>5, <2>1, <2>2, <2>3, JoinsNextAlike
<1>10. CASE q \in F
  <2>1. PICK g1, r1, F2 : g1 = delete_node(g, q) /\ r1 = delete_node(r, q) /\ F2 = F \ {q}
    OBVIOUS
  <2>2. Twin(g1, r1, B, z, V, F2, X)
    BY <1>10, <2>1, TwinsDelete
  <2>3. PICK B2, z2, V2, Z : B2 = B \ {b} /\ z2 = Merged(B, z, q, b) /\ V2 = V \ {b} /\ Z = {q}
    OBVIOUS
  <2>4. Grid(B2, z2, g.brk)
    <3>1. q # 14 /\ b = q + z[q]
      BY <1>2, <1>3, <1>10
    <3>2. QED
      BY <1>2, <2>3, <3>1, MergedGrid
  <2>5. z2[q] = z[q] + z[b] /\ \A c \in B2 : c # q => z2[c] = z[c]
    BY <1>4, <2>3 DEF Merged
  <2>6. Twin(g1, r1, B2, z2, V2, F2, Z)
    <3>1. SameBrk(g, g1)
      BY <1>1, <1>10, <2>1, DeleteNode
    <3>2. Grid(B2, z2, g1.brk)
      BY <2>4, <3>1 DEF SameBrk
    <3>3. Parts(B2, V2, F2, Z)
      BY <1>2, <1>4, <1>10, <2>1, <2>3 DEF Parts
    <3>4. \A c \in B2 \ Z : c \in B \ X /\ z2[c] = z[c] /\ (c \in V2 <=> c \in V)
      BY <2>3, <2>5
    <3>5. QED
      BY <2>2, <3>2, <3>3, <3>4, TwinsRegrid
  <2>7. PICK size : size = z2[q]
    OBVIOUS
  <2>8. z[b] + z[q] = size /\ n = q + z2[q]
    BY <1>3, <1>4, <1>5, <2>5, <2>7
  <2>9. x = JoinNext(g1, q, size, n) /\ y = JoinNext(r1, q, size, n)
    BY <1>7, <1>8, <1>10, <2>1, <2>8 DEF coalesce, JoinBoth
  <2>10. V2 = F2 \cup {q} /\ q \notin F2
    BY <1>10, <2>1, <2>3
  <2>11. QED
    BY <2>3, <2>6, <2>7, <2>8, <2>9, <2>10, JoinsNextAlike
<1>11. QED
  BY <1>9, <1>10

\* The heap of both grows, or of none.
LEMMA ExtendsAlike ==
  ASSUME NEW g, NEW r, Twins(g, r), NEW B, NEW z, NEW V, Sound(g, B, z, V), NEW words \in Nat, 4 <= words,
         NEW x, x = extend_heap(g, words), NEW y, y = extend_heap(r, words)
  PROVE  SameAnswers(x, y)
<1>1. PICK X : X = {}
  OBVIOUS
<1>2. Twin(g, r, B, z, V, V, X) /\ Sound(r, B, z, V)
  BY <1>1, TwinsRead
<1>3. State(g, B, z, V, V, X) /\ State(r, B, z, V, V, X) /\ Alike(g, r, LinkWords(V))
  BY <1>2 DEF Twin
<1>4. PICK b : b = g.brk
  OBVIOUS
<1>5. g \in Heaps /\ r \in Heaps /\ Grid(B, z, b) /\ Parts(B, V, V, X) /\ b \in Nat /\ b = r.brk
  BY <1>3, <1>4 DEF State, Grid, Alike, SameBrk
<1>6. PICK k : k = words + (words % 2)
  OBVIOUS
<1>7. k \in Nat /\ k % 2 = 0 /\ 4 <= k
  BY <1>6
<1>8. PICK s, u : s = mem_sbrk(g, k) /\ u = mem_sbrk(r, k)
  OBVIOUS
<1>9. Sbrked(g, b, k, s) /\ Sbrked(r, b, k, u)
  BY <1>4, <1>5, <1>7, <1>8, Sbrks
<1>10. /\ x = IF s.p = -1 THEN [h |-> g, p |-> NULL]
              ELSE coalesce(PUT(TAG(s.h, s.p, k, 0), s.p + k - 1, PACK(0, 1)), s.p)
       /\ y = IF u.p = -1 THEN [h |-> r, p |-> NULL]
              ELSE coalesce(PUT(TAG(u.h, u.p, k, 0), u.p + k - 1, PACK(0, 1)), u.p)
  BY <1>6, <1>8 DEF extend_heap, Failed
<1>11. CASE b + k > MAX_HEAP + 2
  <2>1. s.p = -1 /\ u.p = -1
    BY <1>9, <1>11 DEF Sbrked
  <2>2. Answer(x, g, NULL) /\ Answer(y, r, NULL)
    BY <1>10, <2>1 DEF Answer
  <2>3. QED
    BY <2>2 DEF SameAnswers
<1>12. CASE ~(b + k > MAX_HEAP + 2)
  <2>1. s.h = Longer(g, k) /\ s.p = b /\ u.h = Longer(r, k) /\ u.p = b
    BY <1>9, <1>12 DEF Sbrked
  <2>2. s.p # -1 /\ u.p # -1
    BY <1>5, <2>1
  <2>3. PICK g1, r1 : /\ g1 = PUT(TAG(Longer(g, k), b, k, 0), b + k - 1, PACK(0, 1))
                      /\ r1 = PUT(TAG(Longer(r, k), b, k, 0), b + k - 1, PACK(0, 1))
    OBVIOUS
  <2>4. x = coalesce(g1, b) /\ y = coalesce(r1, b)
    <3>1. /\ x = coalesce(PUT(TAG(s.h, s.p, k, 0), s.p + k - 1, PACK(0, 1)), s.p)
          /\ y = coalesce(PUT(TAG(u.h, u.p, k, 0), u.p + k - 1, PACK(0, 1)), u.p)
      BY <1>10, <2>2
    <3>2. QED
      BY <2>1, <2>3, <3>1
  <2>5. PICK C, v, U, n : C = B \cup {b} /\ v = Extended(B, z, b, k) /\ U = V \cup {b} /\ n = b + k
    OBVIOUS
  <2>6. Fitting(b, k)
    <3>1. b + k <= MAX_HEAP + 2
      BY <1>5, <1>7, <1>12, Places
    <3>2. QED
      BY <1>7, <3>1 DEF Fitting
  <2>7. GrownGrid(B, z, b, k, C, v, n)
    BY <1>5, <2>5, <2>6 DEF GrownGrid
  <2>8. b \notin V
    BY <1>5 DEF Parts, Grid, Cell
  <2>9. Twin(g1, r1, C, v, U, V, X)
    BY <1>1, <1>2, <1>4, <2>3, <2>5, <2>7, TwinsGrow
  <2>10. QED
    BY <1>1, <2>4, <2>5, <2>8, <2>9, CoalescesAlike
<1>13. QED
  BY <1>11, <1>12

\* The same block of both is freed.
LEMMA FreesAlike ==
  ASSUME NEW g, NEW r, Twins(g, r), NEW B, NEW z, NEW V, Sound(g, B, z, V), NEW b, Owned(B, V, b),
         NEW x, x = mm_free(g, b), NEW y, y = mm_free(r, b)
  PROVE  Twins(x, y)
<1>1. PICK X : X = {}
  OBVIOUS
<1>2. Twin(g, r, B, z, V, V, X)
  BY <1>1, TwinsRead
<1>3. State(g, B, z, V, V, X) /\ State(r, B, z, V, V, X) /\ b \in B \ X /\ b # 14 /\ b \notin V /\ Grid(B, z, g.brk)
  BY <1>1, <1>2 DEF Twin, Owned, State
<1>4. b # NULL
  BY <1>3, Places DEF Grid, Cell
<1>5. PICK size : size = z[b]
  OBVIOUS
<1>6. SIZE(g, b) = size /\ SIZE(r, b) = size
  BY <1>3, <1>5, Reads
<1>7. PICK g1, r1, U : g1 = TAG(g, b, size, 0) /\ r1 = TAG(r, b, size, 0) /\ U = V \cup {b}
  OBVIOUS
<1>8. PICK c, d : c = coalesce(g1, b) /\ d = coalesce(r1, b)
  OBVIOUS
<1>9. x = c.h /\ y = d.h
  BY <1>4, <1>6, <1>7, <1>8 DEF mm_free
<1>10. 0 \in {0, 1} /\ U = IF 0 = 0 THEN V \cup {b} ELSE V \ {b}
  BY <1>7
<1>11. Twin(g1, r1, B, z, U, V, X)
  BY <1>1, <1>2, <1>3, <1>5, <1>7, <1>10, TwinsRetag
<1>12. SameAnswers(c, d)
  BY <1>1, <1>3, <1>7, <1>8, <1>11, CoalescesAlike
<1>13. PICK t, u, p : Answer(c, t, p) /\ Answer(d, u, p) /\ Twins(t, u)
  BY <1>12 DEF SameAnswers
<1>14. QED
  BY <1>9, <1>13 DEF Answer

\* The same free block of both is placed.
LEMMA PlacesAlike ==
  ASSUME NEW g, NEW r, Twins(g, r), NEW B, NEW z, NEW V, Sound(g, B, z, V), NEW b, b \in V, NEW a, Room(z, b, a),
         NEW x, x = place(g, b, a), NEW y, y = place(r, b, a)
  PROVE  Twins(x, y)
<1>1. PICK X, F : X = {} /\ F = V \ {b}
  OBVIOUS
<1>2. Twin(g, r, B, z, V, V, X)
  BY <1>1, TwinsRead
<1>3. /\ State(g, B, z, V, V, X) /\ State(r, B, z, V, V, X) /\ b \in B \ X /\ b # 14
      /\ Grid(B, z, g.brk) /\ Parts(B, V, V, X)
  BY <1>1, <1>2 DEF Twin, State, Parts
<1>4. /\ a \in Nat /\ a % 2 = 0 /\ 4 <= a /\ a <= z[b] /\ b \in Nat /\ z[b] \in Nat
  BY <1>3 DEF Room, AtLeast, Grid, Cell
<1>5. SIZE(g, b) = z[b] /\ SIZE(r, b) = z[b]
  BY <1>3, Reads
<1>6. PICK g1, r1 : g1 = delete_node(g, b) /\ r1 = delete_node(r, b)
  OBVIOUS
<1>7. Twin(g1, r1, B, z, V, F, X)
  BY <1>1, <1>2, <1>6, TwinsDelete
<1>8. SameBrk(g, g1)
  BY <1>1, <1>3, <1>6, DeleteNode
<1>9. PICK m, n : m = z[b] - a /\ n = b + a
  OBVIOUS
<1>10. CASE m < 4
  <2>1. PICK size : size = z[b]
    OBVIOUS
  <2>2. x = TAG(g1, b, size, 1) /\ y = TAG(r1, b, size, 1)
    <3>1. ~(z[b] - a >= 4)
      BY <1>4, <1>9, <1>10
    <3>2. QED
      BY <1>5, <1>6, <2>1, <3>1, Places DEF place
  <2>3. 1 \in {0, 1} /\ F = IF 1 = 0 THEN V \cup {b} ELSE V \ {b}
    BY <1>1
  <2>4. b \notin F
    BY <1>1
  <2>5. Twin(x, y, B, z, F, F, X)
    BY <1>1, <1>3, <1>7, <2>1, <2>2, <2>3, <2>4, TwinsRetag
  <2>6. QED
    BY <1>1, <2>5 DEF Twins
<1>11. CASE 4 <= m
  <2>1. PICK C, v, U, Y, Y1 : C = B \cup {n} /\ v = Halved(B, z, b, a) /\ U = F \cup {n} /\ Y = {b, n} /\ Y1 = {n}
    OBVIOUS
  <2>2. Grid(C, v, g.brk) /\ n \notin B /\ n # b /\ v[b] = a /\ v[n] = m /\ \A c \in B : c # b => v[c] = z[c]
    <3>1. HalvedInto(B, z, g.brk, b, a, C, v, n)
      BY <1>3, <1>4, <1>9, <1>11, <2>1 DEF HalvedInto
    <3>2. QED
      BY <1>9, <3>1, HalvedGrid DEF Halves
  <2>3. n # 14
    BY <1>3, <2>2 DEF Grid
  <2>4. Twin(g1, r1, C, v, U, F, Y)
    <3>1. Parts(C, U, F, Y)
      BY <1>1, <1>3, <2>1, <2>2, <2>3 DEF Parts
    <3>2. Grid(C, v, g1.brk)
      BY <1>8, <2>2 DEF SameBrk
    <3>3. \A c \in C \ Y : c \in B \ X /\ v[c] = z[c] /\ (c \in U <=> c \in V)
      BY <1>1, <2>1, <2>2
    <3>4. QED
      BY <1>7, <3>1, <3>2, <3>3, TwinsRegrid
  <2>5. PICK g2, r2 : g2 = TAG(g1, b, a, 1) /\ r2 = TAG(r1, b, a, 1)
    OBVIOUS
  <2>6. Twin(g2, r2, C, v, U, F, Y1)
    <3>1. b \in C /\ b # 14 /\ b \notin F /\ a = v[b] /\ 1 = (IF b \in U THEN 0 ELSE 1) /\ Y1 = Y \ {b}
      BY <1>1, <1>3, <2>1, <2>2
    <3>2. QED
      BY <2>4, <2>5, <3>1, TwinsTag
  <2>7. PICK g3, r3 : g3 = TAG(g2, n, m, 0) /\ r3 = TAG(r2, n, m, 0)
    OBVIOUS
  <2>8. n \notin F
    BY <1>1, <1>3, <2>2 DEF Parts
  <2>9. Twin(g3, r3, C, v, U, F, X)
    <3>1. n \in C /\ n # 14 /\ n \notin F /\ m = v[n] /\ 0 = (IF n \in U THEN 0 ELSE 1) /\ X = Y1 \ {n}
      BY <1>1, <2>1, <2>2, <2>3, <2>8
    <3>2. QED
      BY <2>6, <2>7, <3>1, TwinsTag
  <2>10. PICK c, d : c = coalesce(g3, n) /\ d = coalesce(r3, n)
    OBVIOUS
  <2>11. x = c.h /\ y = d.h
    <3>1. z[b] - a >= 4
      BY <1>4, <1>9, <1>11
    <3>2. /\ x = coalesce(TAG(TAG(g1, b, a, 1), b + a, z[b] - a, 0), b + a).h
          /\ y = coalesce(TAG(TAG(r1, b, a, 1), b + a, z[b] - a, 0), b + a).h
      BY <1>5, <1>6, <3>1, Places DEF place
    <3>3. QED
      BY <1>9, <2>5, <2>7, <2>10, <3>2
  <2>12. SameAnswers(c, d)
    BY <1>1, <2>1, <2>8, <2>9, <2>10, CoalescesAlike
  <2>13. PICK t, u, p : Answer(c, t, p) /\ Answer(d, u, p) /\ Twins(t, u)
    BY <2>12 DEF SameAnswers
  <2>14. QED
    BY <2>11, <2>13 DEF Answer
<1>12. QED
  BY <1>4, <1>9, <1>10, <1>11

\* The lists of both hold the same blocks, in the same order.
LEMMA NodesAlike ==
  ASSUME NEW g, NEW r, NEW B, NEW z, NEW V, Sound(g, B, z, V), Sound(r, B, z, V), Alike(g, r, LinkWords(V)), NEW i \in Lists,
         NEW nd, nd = Node(g, i), NEW ne, ne = Node(r, i)
  PROVE  nd = ne
<1>1. Follows(g, V, i, nd) /\ Follows(r, V, i, ne)
  BY Nodes
<1>2. MaxBlocks \in Nat
  BY HeapAssumption, Places DEF MaxBlocks
<1>3. /\ nd \in [0 .. MaxBlocks -> V \cup {0}] /\ nd[0] = First(g, i)
      /\ \A k \in 1 .. MaxBlocks : nd[k] = IF nd[k - 1] = 0 THEN 0 ELSE SUCC(g, nd[k - 1])
  BY <1>1 DEF Follows
<1>4. /\ ne \in [0 .. MaxBlocks -> V \cup {0}] /\ ne[0] = First(r, i)
      /\ \A k \in 1 .. MaxBlocks : ne[k] = IF ne[k - 1] = 0 THEN 0 ELSE SUCC(r, ne[k - 1])
  BY <1>1 DEF Follows
<1>5. First(r, i) = First(g, i) /\ \A b \in V : SUCC(r, b) = SUCC(g, b)
  BY DEF Alike, SameWords, LinkWords, First, SUCC
<1>6. PICK Bad : Bad = {k \in 0 .. MaxBlocks : nd[k] # ne[k]}
  OBVIOUS
<1>7. ASSUME NEW k \in Bad
      PROVE  \E j \in Bad : j < k
  <2>1. k \in 0 .. MaxBlocks /\ nd[k] # ne[k]
    BY <1>6, <1>7
  <2>2. k # 0
    BY <1>3, <1>4, <1>5, <2>1
  <2>3. PICK j : j = k - 1
    OBVIOUS
  <2>4. k \in 1 .. MaxBlocks /\ j \in 0 .. MaxBlocks /\ j < k
    BY <1>2, <2>1, <2>2, <2>3
  <2>5. nd[k] = (IF nd[j] = 0 THEN 0 ELSE SUCC(g, nd[j])) /\ ne[k] = (IF ne[j] = 0 THEN 0 ELSE SUCC(r, ne[j]))
    BY <1>3, <1>4, <2>3, <2>4
  <2>6. nd[j] \in V \cup {0}
    BY <1>3, <2>4
  <2>7. nd[j] # ne[j]
    BY <1>5, <2>1, <2>5, <2>6
  <2>8. QED
    BY <1>6, <2>4, <2>7
<1>8. Bad \in SUBSET Nat
  BY <1>2, <1>6
<1>9. Bad = {}
  BY <1>7, <1>8, SmallestExists
<1>10. \A k \in 0 .. MaxBlocks : nd[k] = ne[k]
  BY <1>6, <1>9
<1>11. PICK D : D = 0 .. MaxBlocks
  OBVIOUS
<1>12. nd = [k \in D |-> nd[k]] /\ ne = [k \in D |-> ne[k]] /\ \A k \in D : nd[k] = ne[k]
  BY <1>3, <1>4, <1>10, <1>11
<1>13. QED
  BY <1>12

\* The same places of each list have room.
LEMMA FitsAlike ==
  ASSUME NEW g, NEW r, NEW B, NEW z, NEW V, Sound(g, B, z, V), Sound(r, B, z, V), Alike(g, r, LinkWords(V)), NEW i \in Lists,
         NEW a, NEW S, S = Fits(g, i, a), NEW T, T = Fits(r, i, a)
  PROVE  S = T /\ S \in SUBSET Nat
<1>1. PICK nd, ne : nd = Node(g, i) /\ ne = Node(r, i)
  OBVIOUS
<1>2. nd = ne
  BY <1>1, NodesAlike
<1>3. FitsIn(V, z, a, nd, S) /\ FitsIn(V, z, a, ne, T)
  BY <1>1, FitsAreNodes
<1>4. (\A k : k \in S <=> k \in T) /\ \A k : k \in S => k \in 0 .. MaxBlocks
  BY <1>2, <1>3 DEF FitsIn
<1>5. S \in SUBSET (0 .. MaxBlocks)
  BY <1>4, Places DEF Fits
<1>6. T \in SUBSET (0 .. MaxBlocks)
  BY Places DEF Fits
<1>7. QED
  BY <1>4, <1>5, <1>6

\* So the search finds the same block in both.
LEMMA FindsAlike ==
  ASSUME NEW g, NEW r, NEW B, NEW z, NEW V, Sound(g, B, z, V), Sound(r, B, z, V), Alike(g, r, LinkWords(V)),
         NEW a \in Nat, 4 <= a, NEW x, x = find_fit(g, a), NEW y, y = find_fit(r, a)
  PROVE  x = y
<1>1. PICK lists : lists = get_free_list_idx(a) .. 9
  OBVIOUS
<1>2. \A i \in lists : i \in Lists /\ i \in Nat
  <2>1. get_free_list_idx(a) \in 1 .. 6
    BY SizeLists
  <2>2. QED
    BY <1>1, <2>1 DEF Lists
<1>3. PICK found, seen : found = {i \in lists : Fits(g, i, a) # {}} /\ seen = {i \in lists : Fits(r, i, a) # {}}
  OBVIOUS
<1>4. /\ x = IF found = {} THEN NULL ELSE Node(g, Min(found))[Min(Fits(g, Min(found), a))]
      /\ y = IF seen = {} THEN NULL ELSE Node(r, Min(seen))[Min(Fits(r, Min(seen), a))]
  <2>1. free_list_size - 1 = 9
    BY Places
  <2>2. QED
    BY <1>1, <1>3, <2>1 DEF find_fit, FirstFit
<1>5. \A i \in lists : Fits(g, i, a) = Fits(r, i, a)
  BY <1>2, FitsAlike
<1>6. found = seen
  BY <1>3, <1>5
<1>7. CASE found = {}
  BY <1>4, <1>6, <1>7
<1>8. CASE found # {}
  <2>1. PICK i : i = Min(found)
    OBVIOUS
  <2>2. found \in SUBSET Nat
    BY <1>2, <1>3
  <2>3. i \in lists /\ i \in Lists
    BY <1>2, <1>3, <1>8, <2>1, <2>2, MinIsIn
  <2>4. PICK nd, ne, S, T : nd = Node(g, i) /\ ne = Node(r, i) /\ S = Fits(g, i, a) /\ T = Fits(r, i, a)
    OBVIOUS
  <2>5. nd = ne
    BY <2>3, <2>4, NodesAlike
  <2>6. S = T
    BY <2>3, <2>4, FitsAlike
  <2>7. x = nd[Min(S)] /\ y = ne[Min(T)]
    BY <1>4, <1>6, <1>8, <2>1, <2>4
  <2>8. QED
    BY <2>5, <2>6, <2>7
<1>9. QED
  BY <1>7, <1>8

\* The same request has the same answer.
LEMMA MallocsAlike ==
  ASSUME NEW g, NEW r, Twins(g, r), NEW B, NEW z, NEW V, Sound(g, B, z, V), NEW size \in Nat, size # 0,
         NEW x, x = mm_malloc(g, size), NEW y, y = mm_malloc(r, size)
  PROVE  SameAnswers(x, y)
<1>1. PICK a : a = asize(size)
  OBVIOUS
<1>2. a \in Nat /\ a % 2 = 0 /\ 4 <= a
  BY <1>1, RoundsUp
<1>3. PICK X : X = {}
  OBVIOUS
<1>4. Twin(g, r, B, z, V, V, X) /\ Sound(r, B, z, V)
  BY <1>3, TwinsRead
<1>5. Alike(g, r, LinkWords(V))
  BY <1>4 DEF Twin
<1>6. PICK f : f = find_fit(g, a)
  OBVIOUS
<1>7. f = find_fit(r, a)
  BY <1>2, <1>4, <1>5, <1>6, FindsAlike
<1>8. Found(V, z, a, f)
  BY <1>2, <1>6, FindsFit
<1>9. /\ x = Placed(IF f # NULL THEN [h |-> g, p |-> f] ELSE extend_heap(g, Larger(a, CHUNKSIZE)), a)
      /\ y = Placed(IF f # NULL THEN [h |-> r, p |-> f] ELSE extend_heap(r, Larger(a, CHUNKSIZE)), a)
  BY <1>1, <1>6, <1>7 DEF mm_malloc, Placed
<1>10. CASE f # 0
  <2>1. f \in V /\ AtLeast(a, z, f)
    BY <1>8, <1>10 DEF Found
  <2>2. PICK t, u : t = place(g, f, a) /\ u = place(r, f, a)
    OBVIOUS
  <2>3. Answer(x, t, f) /\ Answer(y, u, f)
    BY <1>9, <1>10, <2>2, Places DEF Placed, Answer
  <2>4. Room(z, f, a)
    BY <1>2, <2>1 DEF Room
  <2>5. Twins(t, u)
    BY <2>1, <2>2, <2>4, PlacesAlike
  <2>6. QED
    BY <2>3, <2>5 DEF SameAnswers
<1>11. CASE f = 0
  <2>1. PICK words, b, d, e : /\ words = Larger(a, CHUNKSIZE) /\ b = g.brk
                              /\ d = extend_heap(g, words) /\ e = extend_heap(r, words)
    OBVIOUS
  <2>2. words \in Nat /\ 4 <= words /\ a <= words
    BY <1>2, <2>1, HeapAssumption DEF Larger
  <2>3. SameAnswers(d, e)
    BY <2>1, <2>2, ExtendsAlike
  <2>4. PICK t, u, p : Answer(d, t, p) /\ Answer(e, u, p) /\ Twins(t, u)
    BY <2>3 DEF SameAnswers
  <2>5. x = Placed(d, a) /\ y = Placed(e, a)
    BY <1>9, <1>11, <2>1, Places
  <2>6. CASE p = 0
    <3>1. Answer(x, t, p) /\ Answer(y, u, p)
      BY <2>4, <2>5, <2>6, Places DEF Placed, Answer
    <3>2. QED
      BY <2>4, <3>1 DEF SameAnswers
  <2>7. CASE p # 0
    <3>1. Extends(g, B, z, V, b, words, d)
      BY <2>1, <2>2, ExtendsHeap
    <3>2. PICK q, p1, B1, z1, V1 : Answer(d, q, p1) /\ Served(g, B, z, V, words, q, p1, B1, z1, V1)
      BY <2>4, <2>7, <3>1, Places DEF Extends, Answer
    <3>3. q = t /\ p1 = p
      BY <2>4, <3>2 DEF Answer
    <3>4. Sound(t, B1, z1, V1) /\ p \in V1 /\ AtLeast(words, z1, p)
      BY <3>2, <3>3 DEF Served
    <3>5. z1[p] \in Nat
      BY <3>4 DEF Sound, State, Parts, Grid, Cell
    <3>6. Room(z1, p, a)
      BY <1>2, <2>2, <3>4, <3>5 DEF Room, AtLeast
    <3>7. PICK c, v : c = place(t, p, a) /\ v = place(u, p, a)
      OBVIOUS
    <3>8. Twins(c, v)
      BY <2>4, <3>4, <3>6, <3>7, PlacesAlike
    <3>9. Answer(x, c, p) /\ Answer(y, v, p)
      BY <2>4, <2>5, <2>7, <3>7, Places DEF Placed, Answer
    <3>10. QED
      BY <3>8, <3>9 DEF SameAnswers
  <2>8. QED
    BY <2>6, <2>7
<1>12. QED
  BY <1>10, <1>11

\* What is in the payload of a block does not matter.
LEMMA PayloadsDiffer ==
  ASSUME NEW g, NEW r, Twins(g, r), NEW B, NEW z, NEW V, Sound(g, B, z, V), NEW p, Owned(B, V, p),
         NEW g1, NEW W, Changed(g, g1, W), \A w \in W : w \in DataWords(z, p)
  PROVE  Twins(g1, r) /\ Sound(g1, B, z, V)
<1>1. PICK X : X = {}
  OBVIOUS
<1>2. Twin(g, r, B, z, V, V, X)
  BY <1>1, TwinsRead
<1>3. State(g, B, z, V, V, X) /\ State(r, B, z, V, V, X) /\ Alike(g, r, LinkWords(V))
  BY <1>2 DEF Twin
<1>4. Grid(B, z, g.brk) /\ V \subseteq B \ {14} /\ p \in B \ V
  BY <1>3 DEF State, Parts, Owned
<1>5. Sound(g1, B, z, V)
  BY PayloadIsFree
<1>6. \A w \in LinkWords(V) : w \in Memory /\ w \notin Own(z, p)
  BY <1>4, ListWords
<1>7. \A w \in W : w \in Own(z, p)
  <2>1. p \in Nat /\ z[p] \in Nat
    BY <1>4 DEF Grid, Cell
  <2>2. QED
    BY <2>1 DEF DataWords, Own
<1>8. SameBrk(g, g1) /\ SameWords(g, g1, LinkWords(V)) /\ g1 \in Heaps
  BY <1>6, <1>7 DEF Changed, SameBrk, SameWords
<1>9. Shaped(g1)
  BY <1>8, HeapsAreShaped
<1>10. Alike(g1, r, LinkWords(V))
  BY <1>3, <1>8, <1>9 DEF Alike, SameBrk, SameWords
<1>11. Twin(g1, r, B, z, V, V, X)
  BY <1>1, <1>3, <1>5, <1>10 DEF Twin, Sound
<1>12. QED
  BY <1>1, <1>5, <1>11 DEF Twins

\* The same block of both is copied to the same place: what it holds differs.
LEMMA CopiesAlike ==
  ASSUME NEW g, NEW r, Twins(g, r), NEW B, NEW z, NEW V, Sound(g, B, z, V), NEW b, Owned(B, V, b), NEW p, Owned(B, V, p),
         NEW k \in Nat, k <= z[b], k + 2 <= z[p], NEW x, x = Copy(g, b, p, k), NEW y, y = Copy(r, b, p, k)
  PROVE  Twins(x, y) /\ Sound(x, B, z, V)
<1>1. Sound(r, B, z, V)
  BY TwinsRead
<1>2. /\ g \in Heaps /\ r \in Heaps /\ Grid(B, z, g.brk) /\ b \in B /\ p \in B
      /\ b \in Nat /\ z[b] \in Nat /\ p \in Nat /\ z[p] \in Nat
  BY <1>1 DEF Sound, State, Owned, Grid, Cell
<1>3. \A w \in b .. b + k - 1 : w \in Memory
  <2>1. ASSUME NEW w \in b .. b + k - 1
        PROVE  w \in Memory
    <3>1. b + z[b] <= g.brk /\ g.brk \in Nat /\ g.brk <= MAX_HEAP + 2 /\ 14 <= b
      BY <1>2 DEF Grid, Cell
    <3>2. w \in Nat /\ b <= w /\ w <= b + k - 1
      BY <1>2
    <3>3. w \in 2 .. MAX_HEAP + 1
      BY <1>2, <3>1, <3>2, Places
    <3>4. QED
      BY <3>3, Places
  <2>2. QED
    BY <2>1
<1>4. Copied(x, g, b, p, k) /\ Copied(y, r, b, p, k)
  BY <1>2, <1>3, CopyWrites
<1>5. PICK W : W = p .. p + k - 1
  OBVIOUS
<1>6. \A w \in W : w \in DataWords(z, p)
  BY <1>2, <1>5 DEF DataWords
<1>7. Changed(g, x, W) /\ Changed(r, y, W)
  BY <1>4, <1>5 DEF Copied, Changed
<1>8. Twins(x, r) /\ Sound(x, B, z, V)
  BY <1>6, <1>7, PayloadsDiffer
<1>9. Twins(r, x)
  BY <1>8, TwinsTurn
<1>10. Twins(y, x)
  BY <1>1, <1>6, <1>7, <1>9, PayloadsDiffer
<1>11. QED
  BY <1>8, <1>10, TwinsTurn

\* The same block of both moves.
LEMMA MovesAlike ==
  ASSUME NEW g, NEW r, Twins(g, r), NEW B, NEW z, NEW V, Sound(g, B, z, V), NEW b, Owned(B, V, b), NEW size \in Nat, size # 0,
         NEW old, old = z[b], NEW x, x = Moved(mm_malloc(g, size), b, size, old), NEW y, y = Moved(mm_malloc(r, size), b, size, old)
  PROVE  SameAnswers(x, y)
<1>1. PICK a, c, d : a = asize(size) /\ c = mm_malloc(g, size) /\ d = mm_malloc(r, size)
  OBVIOUS
<1>2. a \in Nat /\ size + 2 <= a
  BY <1>1, RoundsUp
<1>3. SameAnswers(c, d)
  BY <1>1, MallocsAlike
<1>4. PICK t, u, p : Answer(c, t, p) /\ Answer(d, u, p) /\ Twins(t, u)
  BY <1>3 DEF SameAnswers
<1>5. x = Moved(c, b, size, old) /\ y = Moved(d, b, size, old)
  BY <1>1
<1>6. CASE p = 0
  <2>1. Answer(x, t, p) /\ Answer(y, u, p)
    BY <1>4, <1>5, <1>6, Places DEF Moved, Answer
  <2>2. QED
    BY <1>4, <2>1 DEF SameAnswers
<1>7. CASE p # 0
  <2>1. Mallocs(g, B, z, V, a, c)
    BY <1>1, MallocsBlock
  <2>2. Granted(g, B, z, V, a, c)
    BY <1>4, <1>7, <2>1 DEF Mallocs, Answer
  <2>3. PICK q, p1, B1, z1, V1 :
               /\ Answer(c, q, p1) /\ Sound(q, B1, z1, V1) /\ Owned(B1, V1, p1) /\ p1 \notin B \ V
               /\ AtLeast(a, z1, p1) /\ Kept(g, z, q, B1, z1, V1, B \ V)
    BY <2>2 DEF Granted
  <2>4. q = t /\ p1 = p
    BY <1>4, <2>3 DEF Answer
  <2>5. Sound(t, B1, z1, V1) /\ Owned(B1, V1, p) /\ AtLeast(a, z1, p)
    BY <2>3, <2>4
  <2>6. Owned(B1, V1, b) /\ z1[b] = z[b]
    BY <2>3 DEF Owned, Kept
  <2>7. z1[b] \in Nat /\ z1[p] \in Nat
    BY <2>5, <2>6 DEF Owned, Sound, State, Grid, Cell
  <2>8. PICK k : k = IF size < old THEN size ELSE old
    OBVIOUS
  <2>9. k \in Nat /\ k <= z1[b] /\ k + 2 <= z1[p]
    BY <1>2, <2>5, <2>6, <2>7, <2>8 DEF AtLeast
  <2>10. PICK e, f : e = Copy(t, b, p, k) /\ f = Copy(u, b, p, k)
    OBVIOUS
  <2>11. Twins(e, f) /\ Sound(e, B1, z1, V1)
    BY <1>4, <2>5, <2>6, <2>9, <2>10, CopiesAlike
  <2>12. PICK v, w : v = mm_free(e, b) /\ w = mm_free(f, b)
    OBVIOUS
  <2>13. Twins(v, w)
    BY <2>6, <2>11, <2>12, FreesAlike
  <2>14. Answer(x, v, p) /\ Answer(y, w, p)
    BY <1>4, <1>5, <1>7, <2>8, <2>10, <2>12, Places DEF Moved, Answer
  <2>15. QED
    BY <2>13, <2>14 DEF SameAnswers
<1>8. QED
  BY <1>6, <1>7

\* The same block of both shrinks.
LEMMA ShrinksAlike ==
  ASSUME NEW g, NEW r, Twins(g, r), NEW B, NEW z, NEW V, Sound(g, B, z, V), NEW b, Owned(B, V, b),
         NEW a \in Nat, a % 2 = 0, 4 <= a, a <= z[b], NEW x, x = Shrink(g, b, a), NEW y, y = Shrink(r, b, a)
  PROVE  SameAnswers(x, y)
<1>1. PICK X : X = {}
  OBVIOUS
<1>2. Twin(g, r, B, z, V, V, X)
  BY <1>1, TwinsRead
<1>3. /\ State(g, B, z, V, V, X) /\ State(r, B, z, V, V, X) /\ b \in B \ X /\ b \notin V /\ b # 14
      /\ Grid(B, z, g.brk) /\ Parts(B, V, V, X)
  BY <1>1, <1>2 DEF Twin, State, Owned
<1>4. b \in Nat /\ z[b] \in Nat
  BY <1>3 DEF Grid, Cell
<1>5. SIZE(g, b) = z[b] /\ SIZE(r, b) = z[b]
  BY <1>3, Reads
<1>6. PICK m, e : m = z[b] - a /\ e = b + a
  OBVIOUS
<1>7. CASE m < 4
  <2>1. Answer(x, g, b) /\ Answer(y, r, b)
    BY <1>5, <1>6, <1>7, Places DEF Shrink, Answer
  <2>2. QED
    BY <2>1 DEF SameAnswers
<1>8. CASE 4 <= m
  <2>1. PICK C, v, Y, Y1 : C = B \cup {e} /\ v = Halved(B, z, b, a) /\ Y = {b, e} /\ Y1 = {e}
    OBVIOUS
  <2>2. Grid(C, v, g.brk) /\ e \notin B /\ e # b /\ v[b] = a /\ v[e] = m /\ \A c \in B : c # b => v[c] = z[c]
    <3>1. HalvedInto(B, z, g.brk, b, a, C, v, e)
      BY <1>3, <1>6, <1>8, <2>1 DEF HalvedInto
    <3>2. QED
      BY <1>6, <3>1, HalvedGrid DEF Halves
  <2>3. e # 14 /\ e \notin V /\ V \subseteq B
    BY <1>3, <2>2 DEF Grid, Parts
  <2>4. Twin(g, r, C, v, V, V, Y)
    <3>1. Parts(C, V, V, Y)
      BY <1>3, <2>1, <2>3 DEF Parts
    <3>2. \A c \in C \ Y : c \in B \ X /\ v[c] = z[c] /\ (c \in V <=> c \in V)
      BY <1>1, <2>1, <2>2
    <3>3. QED
      BY <1>2, <2>2, <3>1, <3>2, TwinsRegrid
  <2>5. PICK g1, r1 : g1 = TAG(g, b, a, 1) /\ r1 = TAG(r, b, a, 1)
    OBVIOUS
  <2>6. Twin(g1, r1, C, v, V, V, Y1)
    <3>1. b \in C /\ b # 14 /\ b \notin V /\ a = v[b] /\ 1 = (IF b \in V THEN 0 ELSE 1) /\ Y1 = Y \ {b}
      BY <1>3, <2>1, <2>2
    <3>2. QED
      BY <2>4, <2>5, <3>1, TwinsTag
  <2>7. PICK g2, r2 : g2 = TAG(g1, e, m, 1) /\ r2 = TAG(r1, e, m, 1)
    OBVIOUS
  <2>8. Twin(g2, r2, C, v, V, V, X)
    <3>1. e \in C /\ e # 14 /\ e \notin V /\ m = v[e] /\ 1 = (IF e \in V THEN 0 ELSE 1) /\ X = Y1 \ {e}
      BY <1>1, <2>1, <2>2, <2>3
    <3>2. QED
      BY <2>6, <2>7, <3>1, TwinsTag
  <2>9. Apart(v, V)
    <3>1. \A c \in V : v[c] = z[c]
      BY <1>3, <2>2, <2>3
    <3>2. QED
      BY <3>1 DEF Sound, Apart
  <2>10. Sound(g2, C, v, V) /\ Twins(g2, r2) /\ Owned(C, V, e)
    BY <1>1, <2>1, <2>3, <2>8, <2>9 DEF Sound, Twins, Twin, Owned
  <2>11. PICK t, u : t = mm_free(g2, e) /\ u = mm_free(r2, e)
    OBVIOUS
  <2>12. Twins(t, u)
    BY <2>10, <2>11, FreesAlike
  <2>13. Answer(x, t, b) /\ Answer(y, u, b)
    <3>1. ~(z[b] - a < MIN_BLOCK)
      BY <1>4, <1>6, <1>8, Places
    <3>2. QED
      BY <1>5, <1>6, <2>5, <2>7, <2>11, <3>1 DEF Shrink, Answer
  <2>14. QED
    BY <2>12, <2>13 DEF SameAnswers
<1>9. QED
  BY <1>4, <1>6, <1>7, <1>8

\* The block of both takes the free block behind it.
LEMMA TakesAlike ==
  ASSUME NEW t, NEW u, Twins(t, u), NEW B, NEW z, NEW V, NEW b, NEW p, NEW nsize, Taking(t, B, z, V, b, p, nsize),
         NEW x, x = TAG(delete_node(t, p), b, nsize, 1), NEW y, y = TAG(delete_node(u, p), b, nsize, 1)
  PROVE  Twins(x, y)
<1>1. PICK X, Y, F : X = {} /\ Y = {b} /\ F = V \ {p}
  OBVIOUS
<1>2. Twin(t, u, B, z, V, V, X)
  BY <1>1, TwinsRead DEF Taking
<1>3. /\ State(t, B, z, V, V, X) /\ b \in B \ V /\ b # 14 /\ p \in V
      /\ p = b + z[b] /\ nsize = z[b] + z[p]
      /\ Grid(B, z, t.brk) /\ Parts(B, V, V, X)
  BY <1>1, <1>2 DEF Taking, Twin, State, Owned
<1>4. b \in Nat /\ z[b] \in Nat /\ p \in B /\ p # b /\ p \in Nat /\ z[p] \in Nat
  BY <1>3 DEF Grid, Cell, Parts
<1>5. PICK g1, r1 : g1 = delete_node(t, p) /\ r1 = delete_node(u, p)
  OBVIOUS
<1>6. Twin(g1, r1, B, z, V, F, X)
  BY <1>1, <1>2, <1>3, <1>5, TwinsDelete
<1>7. SameBrk(t, g1)
  BY <1>1, <1>3, <1>5, DeleteNode
<1>8. PICK B1, z1 : B1 = B \ {p} /\ z1 = Merged(B, z, b, p)
  OBVIOUS
<1>9. Grid(B1, z1, t.brk) /\ z1[b] = nsize /\ \A c \in B1 : c # b => z1[c] = z[c]
  <2>1. Grid(B1, z1, t.brk)
    BY <1>3, <1>4, <1>8, MergedGrid
  <2>2. b \in B1
    BY <1>3, <1>4, <1>8
  <2>3. QED
    BY <1>3, <1>8, <2>1, <2>2 DEF Merged
<1>10. Twin(g1, r1, B1, z1, F, F, Y)
  <2>1. Parts(B1, F, F, Y)
    BY <1>1, <1>3, <1>4, <1>8 DEF Parts
  <2>2. \A c \in B1 \ Y : c \in B \ X /\ z1[c] = z[c] /\ (c \in F <=> c \in V)
    BY <1>1, <1>8, <1>9
  <2>3. Grid(B1, z1, g1.brk)
    BY <1>7, <1>9 DEF SameBrk
  <2>4. QED
    BY <1>6, <2>1, <2>2, <2>3, TwinsRegrid
<1>11. b \in B1 /\ b \notin F /\ nsize = z1[b] /\ 1 = (IF b \in F THEN 0 ELSE 1) /\ X = Y \ {b}
  BY <1>1, <1>3, <1>4, <1>8, <1>9
<1>12. x = TAG(g1, b, nsize, 1) /\ y = TAG(r1, b, nsize, 1)
  BY <1>5
<1>13. Twin(x, y, B1, z1, F, F, X)
  BY <1>3, <1>10, <1>11, <1>12, TwinsTag
<1>14. QED
  BY <1>1, <1>13 DEF Twins

\* It takes it or moves, in both.
LEMMA JoinsOrMovesAlike ==
  ASSUME NEW t, NEW u, Twins(t, u), NEW B, NEW z, NEW V, NEW b, NEW p, NEW nsize, Taking(t, B, z, V, b, p, nsize),
         NEW size \in Nat, size # 0, NEW c, Answer(c, t, p), NEW d, Answer(d, u, p),
         NEW x, x = Joined(c, b, size, nsize), NEW y, y = Joined(d, b, size, nsize)
  PROVE  SameAnswers(x, y)
<1>1. PICK X : X = {}
  OBVIOUS
<1>2. Twin(t, u, B, z, V, V, X) /\ Sound(t, B, z, V)
  BY <1>1, TwinsRead DEF Taking
<1>3. /\ State(t, B, z, V, V, X) /\ State(u, B, z, V, V, X) /\ Owned(B, V, b) /\ b \in B \ X /\ Grid(B, z, t.brk)
      /\ Parts(B, V, V, X) /\ p \in V
  BY <1>1, <1>2 DEF Taking, Twin, State, Owned
<1>4. p # NULL
  BY <1>3, Places DEF Parts, Grid, Cell
<1>5. c.h = t /\ c.p = p /\ d.h = u /\ d.p = p
  BY DEF Answer
<1>6. CASE nsize > asize(size)
  <2>1. PICK s, w : s = TAG(delete_node(t, p), b, nsize, 1) /\ w = TAG(delete_node(u, p), b, nsize, 1)
    OBVIOUS
  <2>2. Answer(x, s, b) /\ Answer(y, w, b)
    BY <1>4, <1>5, <1>6, <2>1 DEF Joined, Answer
  <2>3. Twins(s, w)
    BY <2>1, TakesAlike
  <2>4. QED
    BY <2>2, <2>3 DEF SameAnswers
<1>7. CASE ~(nsize > asize(size))
  <2>1. PICK old : old = z[b]
    OBVIOUS
  <2>2. SIZE(t, b) = old /\ SIZE(u, b) = old
    BY <1>3, <2>1, Reads
  <2>3. x = Moved(mm_malloc(t, size), b, size, old) /\ y = Moved(mm_malloc(u, size), b, size, old)
    BY <1>4, <1>5, <1>7, <2>2 DEF Joined, MoveBlock
  <2>4. QED
    BY <1>2, <1>3, <2>1, <2>3, MovesAlike
<1>8. QED
  BY <1>6, <1>7

\* The same block of both grows.
LEMMA GrowsAlike ==
  ASSUME NEW g, NEW r, Twins(g, r), NEW B, NEW z, NEW V, Sound(g, B, z, V), NEW b, Owned(B, V, b),
         NEW size \in Nat, size # 0, NEW a, a = asize(size), ~AtLeast(a, z, b), NEW x, x = Grow(g, b, size), NEW y, y = Grow(r, b, size)
  PROVE  SameAnswers(x, y)
<1>1. PICK X : X = {}
  OBVIOUS
<1>2. Twin(g, r, B, z, V, V, X)
  BY <1>1, TwinsRead
<1>3. /\ State(g, B, z, V, V, X) /\ State(r, B, z, V, V, X) /\ b \in B \ X /\ b \in B \ V /\ b # 14
      /\ Grid(B, z, g.brk) /\ Parts(B, V, V, X) /\ r.brk = g.brk
  BY <1>1, <1>2 DEF Twin, State, Owned, Alike, SameBrk
<1>4. /\ b \in Nat /\ z[b] \in Nat /\ z[b] % 2 = 0 /\ b + z[b] \in B \cup {g.brk} /\ z[b] >= 4 /\ g.brk \in Nat
      /\ \A c \in B : c < g.brk
  BY <1>3 DEF Grid, Cell
<1>5. a \in Nat /\ a % 2 = 0 /\ z[b] < a
  <2>1. a \in Nat /\ a % 2 = 0
    BY RoundsUp
  <2>2. QED
    BY <1>4, <2>1 DEF AtLeast
<1>6. PICK e, old : e = b + z[b] /\ old = z[b]
  OBVIOUS
<1>7. SIZE(g, b) = old /\ NEXT_BLKP(g, b) = e /\ SIZE(r, b) = old /\ NEXT_BLKP(r, b) = e
  BY <1>3, <1>6, Reads
<1>8. CASE e = g.brk
  <2>1. SIZE(g, e) = 0 /\ SIZE(r, e) = 0
    BY <1>3, <1>8, ReadsEnd
  <2>2. PICK words, c, d, nsize : /\ words = Larger(a - old, CHUNKSIZE) /\ nsize = old + words
                                  /\ c = extend_heap(g, words) /\ d = extend_heap(r, words)
    OBVIOUS
  <2>3. x = Joined(c, b, size, nsize) /\ y = Joined(d, b, size, nsize)
    BY <1>7, <2>1, <2>2 DEF Grow
  <2>4. words \in Nat /\ 4 <= words /\ words % 2 = 0
    <3>1. a - old \in Nat /\ (a - old) % 2 = 0
      BY <1>4, <1>5, <1>6
    <3>2. QED
      BY <2>2, <3>1, HeapAssumption DEF Larger
  <2>5. SameAnswers(c, d)
    BY <2>2, <2>4, ExtendsAlike
  <2>6. PICK t, u, p : Answer(c, t, p) /\ Answer(d, u, p) /\ Twins(t, u)
    BY <2>5 DEF SameAnswers
  <2>7. CASE p = 0
    <3>1. Answer(x, t, p) /\ Answer(y, u, p)
      BY <2>3, <2>6, <2>7, Places DEF Joined, Answer
    <3>2. QED
      BY <2>6, <3>1 DEF SameAnswers
  <2>8. CASE p # 0
    <3>1. Extends(g, B, z, V, e, words, c)
      BY <1>8, <2>2, <2>4, ExtendsHeap
    <3>2. PICK q, p1, B1, z1, V1 :
                 /\ Answer(c, q, p1) /\ Served(g, B, z, V, words, q, p1, B1, z1, V1)
                 /\ NoneBefore(z, V, e) => p1 = e /\ (words % 2 = 0 => z1[p1] = words)
      BY <2>6, <2>8, <3>1, Places DEF Extends, Answer
    <3>3. q = t /\ p1 = p
      BY <2>6, <3>2 DEF Answer
    <3>4. Sound(t, B1, z1, V1) /\ p \in V1 /\ Kept(g, z, t, B1, z1, V1, B \ V)
      BY <3>2, <3>3 DEF Served
    <3>5. NoneBefore(z, V, e)
      BY <1>3, <1>6, Neighbours DEF NoneBefore, Parts
    <3>6. p = e /\ z1[p] = words
      BY <2>4, <3>2, <3>3, <3>5
    <3>7. b \in B1 \ V1 /\ z1[b] = z[b]
      BY <1>3, <3>4 DEF Kept
    <3>8. Taking(t, B1, z1, V1, b, p, nsize)
      BY <1>3, <1>6, <2>2, <3>4, <3>6, <3>7 DEF Taking, Owned
    <3>9. QED
      BY <2>3, <2>6, <3>8, JoinsOrMovesAlike
  <2>9. QED
    BY <2>7, <2>8
<1>9. CASE e # g.brk
  <2>1. e \in B \ X /\ e # 14
    BY <1>1, <1>3, <1>4, <1>6, <1>9 DEF Grid, Cell
  <2>2. PICK s : s = z[e]
    OBVIOUS
  <2>3. /\ SIZE(g, e) = s /\ (IS_FREE(g, HDRP(e)) <=> e \in V)
        /\ SIZE(r, e) = s /\ (IS_FREE(r, HDRP(e)) <=> e \in V)
    BY <1>3, <2>1, <2>2, Reads
  <2>4. s # 0
    BY <1>3, <2>1, <2>2 DEF Grid, Cell
  <2>5. CASE e \in V
    <3>1. PICK c, d, nsize : c = [h |-> g, p |-> e] /\ d = [h |-> r, p |-> e] /\ nsize = old + s
      OBVIOUS
    <3>2. x = Joined(c, b, size, nsize) /\ y = Joined(d, b, size, nsize)
      BY <1>7, <2>3, <2>4, <2>5, <3>1 DEF Grow
    <3>3. Taking(g, B, z, V, b, e, nsize)
      BY <1>6, <2>2, <2>5, <3>1 DEF Taking
    <3>4. Answer(c, g, e) /\ Answer(d, r, e)
      BY <3>1 DEF Answer
    <3>5. QED
      BY <3>2, <3>3, <3>4, JoinsOrMovesAlike
  <2>6. CASE e \notin V
    <3>1. x = Moved(mm_malloc(g, size), b, size, old) /\ y = Moved(mm_malloc(r, size), b, size, old)
      BY <1>7, <2>3, <2>4, <2>6 DEF Grow, MoveBlock
    <3>2. QED
      BY <1>6, <3>1, MovesAlike
  <2>7. QED
    BY <2>5, <2>6
<1>10. QED
  BY <1>8, <1>9

\* The same block of both is reallocated.
LEMMA ReallocsAlike ==
  ASSUME NEW g, NEW r, Twins(g, r), NEW B, NEW z, NEW V, Sound(g, B, z, V), NEW b, Owned(B, V, b),
         NEW size \in Nat, size # 0, NEW x, x = mm_realloc(g, b, size), NEW y, y = mm_realloc(r, b, size)
  PROVE  SameAnswers(x, y)
<1>1. PICK X, a : X = {} /\ a = asize(size)
  OBVIOUS
<1>2. Twin(g, r, B, z, V, V, X)
  BY <1>1, TwinsRead
<1>3. State(g, B, z, V, V, X) /\ State(r, B, z, V, V, X) /\ b \in B \ X /\ Grid(B, z, g.brk)
  BY <1>1, <1>2 DEF Twin, State, Owned
<1>4. b # NULL /\ z[b] \in Nat
  BY <1>3, Places DEF Grid, Cell
<1>5. SIZE(g, b) = z[b] /\ SIZE(r, b) = z[b]
  BY <1>3, Reads
<1>6. /\ x = IF a <= z[b] THEN Shrink(g, b, a) ELSE Grow(g, b, size)
      /\ y = IF a <= z[b] THEN Shrink(r, b, a) ELSE Grow(r, b, size)
  BY <1>1, <1>4, <1>5 DEF mm_realloc
<1>7. a \in Nat /\ a % 2 = 0 /\ 4 <= a
  BY <1>1, RoundsUp
<1>8. CASE AtLeast(a, z, b)
  <2>1. x = Shrink(g, b, a) /\ y = Shrink(r, b, a) /\ a <= z[b]
    BY <1>6, <1>8 DEF AtLeast
  <2>2. QED
    BY <1>7, <2>1, ShrinksAlike
<1>9. CASE ~AtLeast(a, z, b)
  <2>1. x = Grow(g, b, size) /\ y = Grow(r, b, size)
    BY <1>6, <1>9 DEF AtLeast
  <2>2. QED
    BY <1>1, <1>9, <2>1, GrowsAlike
<1>10. QED
  BY <1>8, <1>9

\* The foundation does not depend on what the memory held.
LEMMA FoundationsAlike ==
  ASSUME NEW t, Founded(t), NEW u, Founded(u), NEW B, B = {14}, NEW z, z = [d \in B |-> 2], NEW V, V = {}
  PROVE  Twins(t, u) /\ Sound(t, B, z, V)
<1>1. PICK X : X = {}
  OBVIOUS
<1>2. Sound(t, B, z, V) /\ Sound(u, B, z, V)
  BY FoundedIsSound
<1>3. State(t, B, z, V, V, X) /\ State(u, B, z, V, V, X)
  BY <1>1, <1>2 DEF Sound
<1>4. Shaped(t) /\ Shaped(u)
  BY HeapsAreShaped DEF Founded
<1>5. SameBrk(t, u)
  BY DEF Founded, SameBrk
<1>6. SameWords(t, u, LinkWords(V))
  <2>1. ASSUME NEW w \in LinkWords(V)
        PROVE  u.m[w] = t.m[w]
    <3>1. PICK i \in Lists : w = HEAD(i)
      BY DEF LinkWords
    <3>2. i \in 0 .. 9 /\ HEAD(i) = 2 + i
      BY <3>1, Places DEF Lists
    <3>3. QED
      BY <3>1, <3>2 DEF Founded
  <2>2. QED
    BY <2>1 DEF SameWords
<1>7. Twin(t, u, B, z, V, V, X)
  BY <1>3, <1>4, <1>5, <1>6 DEF Twin, Alike
<1>8. QED
  BY <1>1, <1>2, <1>7 DEF Twins

\* mm_init has the same answer on every heap that was reset.
LEMMA InitsAlike ==
  ASSUME NEW g, Emptied(g), NEW r, Emptied(r), NEW x, x = mm_init(g), NEW y, y = mm_init(r), x.p # 0
  PROVE  SameAnswers(x, y)
<1>1. Founds(x) /\ Founds(y)
  BY InitsFound
<1>2. PICK t : Founded(t) /\ x = extend_heap(t, CHUNKSIZE)
  BY <1>1 DEF Founds
<1>3. 14 <= MAX_HEAP
  BY <1>2 DEF Founded
<1>4. PICK u : Founded(u) /\ y = extend_heap(u, CHUNKSIZE)
  BY <1>1, <1>3 DEF Founds
<1>5. PICK B, z, V : B = {14} /\ z = [d \in B |-> 2] /\ V = {}
  OBVIOUS
<1>6. Twins(t, u) /\ Sound(t, B, z, V)
  BY <1>2, <1>4, <1>5, FoundationsAlike
<1>7. CHUNKSIZE \in Nat /\ 4 <= CHUNKSIZE
  BY HeapAssumption
<1>8. QED
  BY <1>2, <1>4, <1>6, <1>7, ExtendsAlike

\* Filling an allocated block of the one changes nothing that the package reads.
LEMMA FillsAlike ==
  ASSUME NEW g, NEW r, Twins(g, r), NEW L, NEW bl, NEW sz, Good(g, L, bl, sz), NEW i \in L, NEW t, NEW W, Changed(g, t, W),
         \A w \in W : w \in bl[i] .. bl[i] + sz[i] - 1
  PROVE  Twins(t, r)
<1>1. PICK B, z, V : Sound(g, B, z, V) /\ Held(B, z, V, L, bl, sz)
  BY DEF Good
<1>2. PICK b, n, a : b = bl[i] /\ n = sz[i] /\ a = asize(n)
  OBVIOUS
<1>3. Owned(B, V, b) /\ n \in Nat /\ n # 0 /\ AtLeast(a, z, b)
  BY <1>1, <1>2 DEF Held
<1>4. b \in Nat /\ z[b] \in Nat /\ n + 2 <= z[b]
  <2>1. b \in Nat /\ z[b] \in Nat
    BY <1>1, <1>3 DEF Sound, State, Owned, Grid, Cell
  <2>2. a \in Nat /\ n + 2 <= a /\ a <= z[b]
    BY <1>2, <1>3, RoundsUp DEF AtLeast
  <2>3. QED
    BY <1>3, <2>1, <2>2
<1>5. \A w \in W : w \in DataWords(z, b)
  BY <1>2, <1>3, <1>4 DEF DataWords
<1>6. QED
  BY <1>1, <1>3, <1>5, PayloadsDiffer

SameOn(bl, cl, L) == \A i \in L : bl[i] = cl[i]

\* The same request, for blocks that are where they were, has the same answer.
LEMMA CallsAlike ==
  ASSUME NEW g, NEW r, Twins(g, r), NEW t, NEW bl, NEW cl, GoodIn(g, t, bl), SameOn(bl, cl, LiveSet(t)),
         NEW op \in Ops, Legal(t, op), NEW x, x = CallOn(g, bl, op), NEW y, y = CallOn(r, cl, op)
  PROVE  SameAnswers(x, y)
<1>1. PICK L, sz, i, n : L = LiveSet(t) /\ sz = Amounts(t) /\ i = op.id /\ n = op.size
  OBVIOUS
<1>2. PICK B, z, V : Sound(g, B, z, V) /\ Held(B, z, V, L, bl, sz)
  BY <1>1 DEF GoodIn, Good
<1>3. op.type \in {"ALLOC", "REALLOC", "FREE"} /\ n \in Nat /\ (op.type = "ALLOC" <=> i \notin L)
  BY <1>1, OpTypes, LegalIsLive
<1>4. CASE op.type = "ALLOC"
  <2>1. x = mm_malloc(g, n) /\ y = mm_malloc(r, n)
    BY <1>1, <1>4 DEF CallOn
  <2>2. CASE n = 0
    <3>1. Answer(x, g, 0) /\ Answer(y, r, 0)
      BY <2>1, <2>2, Places DEF mm_malloc, Answer
    <3>2. QED
      BY <3>1 DEF SameAnswers
  <2>3. CASE n # 0
    BY <1>2, <1>3, <2>1, <2>3, MallocsAlike
  <2>4. QED
    BY <2>2, <2>3
<1>5. ASSUME op.type # "ALLOC"
      PROVE  SameAnswers(x, y)
  <2>1. PICK b : b = bl[i]
    OBVIOUS
  <2>2. Owned(B, V, b) /\ cl[i] = b
    BY <1>1, <1>2, <1>3, <1>5, <2>1 DEF Held, SameOn
  <2>3. PICK u, v : u = mm_free(g, b) /\ v = mm_free(r, b)
    OBVIOUS
  <2>4. Twins(u, v)
    BY <1>2, <2>2, <2>3, FreesAlike
  <2>5. CASE op.type = "FREE"
    <3>1. Answer(x, u, b) /\ Answer(y, v, b)
      BY <1>1, <2>1, <2>2, <2>3, <2>5 DEF CallOn, Answer
    <3>2. QED
      BY <2>4, <3>1 DEF SameAnswers
  <2>6. CASE op.type = "REALLOC"
    <3>1. x = mm_realloc(g, b, n) /\ y = mm_realloc(r, b, n)
      BY <1>1, <2>1, <2>2, <2>6 DEF CallOn
    <3>2. CASE n = 0
      <4>1. Answer(x, u, 0) /\ Answer(y, v, 0)
        BY <2>3, <3>1, <3>2, Places DEF mm_realloc, Answer
      <4>2. QED
        BY <2>4, <4>1 DEF SameAnswers
    <3>3. CASE n # 0
      BY <1>2, <1>3, <2>2, <3>1, <3>3, ReallocsAlike
    <3>4. QED
      BY <3>2, <3>3
  <2>7. QED
    BY <1>3, <1>5, <2>5, <2>6
<1>6. QED
  BY <1>4, <1>5

----------------------------------------------------------------------------
(* The replays follow the first pass.  The history of a trace holds the     *)
(* heap and the table of blocks that eval_mm_valid had before every         *)
(* request; a later pass is, at the same request, on a twin of that heap.   *)

NextBl(bl, op, p) == IF op.type = "FREE" THEN bl ELSE [bl EXCEPT ![op.id] = p]
Passed(g, bl, op, g1, bl1) ==
  \E s, p : Answer(CallOn(g, bl, op), s, p) /\ p # 0 /\ Twins(s, g1) /\ bl1 = NextBl(bl, op, p)
Opened(g) == \E e, x, s, p : Emptied(e) /\ x = mm_init(e) /\ Answer(x, s, p) /\ p # 0 /\ Twins(s, g)
History(t, H, Bl) ==
  /\ Opened(H[0])
  /\ \A k \in 1 .. Len(t) : Passed(H[k - 1], Bl[k - 1], t[k], H[k], Bl[k])
  /\ \A k \in 0 .. Len(t) : GoodIn(H[k], Prefix(t, k), Bl[k]) /\ Bl[k] \in [Ids -> Nat]

InStep(H, Bl) ==
  IF pass = "valid" THEN h = H[pos] /\ blocks = Bl[pos]
  ELSE Twins(h, H[pos]) /\ SameOn(blocks, Bl[pos], LiveSet(Done))
ReplayInv ==
  /\ ReplaysSucceed
  /\ Replaying => \E H, Bl : History(trace, H, Bl) /\ InStep(H, Bl)

\* A heap of a caller is its own twin.
LEMMA GoodIsTwin ==
  ASSUME NEW g, NEW t, NEW bl, GoodIn(g, t, bl)
  PROVE  Twins(g, g)
<1>1. PICK B, z, V : Sound(g, B, z, V)
  BY DEF GoodIn, Good
<1>2. QED
  BY <1>1, OwnTwin

Entered(t1, n, g1, bl1) == \E H1, Bl1 : History(t1, H1, Bl1) /\ H1[n + 1] = g1 /\ Bl1[n + 1] = bl1

\* A request that eval_mm_valid accepts is entered.
LEMMA HistoryGrows ==
  ASSUME NEW t \in Seq(Ops), NEW H, NEW Bl, History(t, H, Bl), NEW op \in Ops, NEW t1, t1 = Append(t, op),
         NEW n, n = Len(t), NEW g1, NEW bl1 \in [Ids -> Nat], Passed(H[n], Bl[n], op, g1, bl1), GoodIn(g1, t1, bl1)
  PROVE  Entered(t1, n, g1, bl1)
<1>1. PICK H1, Bl1 : /\ H1 = [k \in 0 .. n + 1 |-> IF k = n + 1 THEN g1 ELSE H[k]]
                     /\ Bl1 = [k \in 0 .. n + 1 |-> IF k = n + 1 THEN bl1 ELSE Bl[k]]
  OBVIOUS
<1>2. /\ n \in Nat /\ t1 \in Seq(Ops) /\ Len(t1) = n + 1 /\ t1[n + 1] = op
      /\ \A k \in 1 .. n : t1[k] = t[k]
  OBVIOUS
<1>3. /\ \A k \in 0 .. n : H1[k] = H[k] /\ Bl1[k] = Bl[k]
      /\ H1[n + 1] = g1 /\ Bl1[n + 1] = bl1
  <2>1. \A k \in 0 .. n : k \in 0 .. n + 1 /\ k # n + 1
    BY <1>2
  <2>2. n + 1 \in 0 .. n + 1
    BY <1>2
  <2>3. QED
    BY <1>1, <2>1, <2>2
<1>4. Opened(H1[0])
  BY <1>2, <1>3 DEF History
<1>5. ASSUME NEW k \in 1 .. n + 1
      PROVE  Passed(H1[k - 1], Bl1[k - 1], t1[k], H1[k], Bl1[k])
  <2>1. k - 1 \in 0 .. n
    BY <1>2
  <2>2. CASE k = n + 1
    <3>1. k - 1 = n
      BY <1>2, <2>2
    <3>2. QED
      BY <1>2, <1>3, <2>1, <2>2, <3>1
  <2>3. CASE k # n + 1
    <3>1. k \in 1 .. n /\ k \in 0 .. n
      BY <1>2, <2>3
    <3>2. Passed(H[k - 1], Bl[k - 1], t[k], H[k], Bl[k])
      BY <3>1 DEF History
    <3>3. QED
      BY <1>2, <1>3, <2>1, <3>1, <3>2
  <2>4. QED
    BY <2>2, <2>3
<1>6. ASSUME NEW k \in 0 .. n + 1
      PROVE  GoodIn(H1[k], Prefix(t1, k), Bl1[k]) /\ Bl1[k] \in [Ids -> Nat]
  <2>1. CASE k = n + 1
    <3>1. Prefix(t1, k) = t1
      BY <1>2, <2>1, WholePrefix
    <3>2. QED
      BY <1>3, <2>1, <3>1
  <2>2. CASE k # n + 1
    <3>1. k \in 0 .. n
      BY <1>2, <2>2
    <3>2. GoodIn(H[k], Prefix(t, k), Bl[k]) /\ Bl[k] \in [Ids -> Nat]
      BY <3>1 DEF History
    <3>3. Prefix(t1, k) = Prefix(t, k)
      <4>1. PICK u, v : u = Prefix(t, k) /\ v = Prefix(t1, k)
        OBVIOUS
      <4>2. k \in 0 .. Len(t) /\ k \in 0 .. Len(t1)
        BY <1>2, <3>1
      <4>3. /\ u \in Seq(Ops) /\ Len(u) = k /\ \A j \in 1 .. k : u[j] = t[j]
            /\ v \in Seq(Ops) /\ Len(v) = k /\ \A j \in 1 .. k : v[j] = t1[j]
        BY <1>2, <4>1, <4>2, PrefixType
      <4>4. \A j \in 1 .. k : j \in 1 .. n
        BY <1>2, <3>1
      <4>5. \A j \in 1 .. k : u[j] = v[j]
        BY <1>2, <4>3, <4>4
      <4>6. u = v
        BY <4>3, <4>5
      <4>7. QED
        BY <4>1, <4>6
    <3>4. QED
      BY <1>3, <3>1, <3>2, <3>3
  <2>3. QED
    BY <2>1, <2>2
<1>7. History(t1, H1, Bl1)
  BY <1>2, <1>4, <1>5, <1>6 DEF History
<1>8. QED
  BY <1>3, <1>7 DEF Entered

\* The blocks that live after the request are where they were in the first pass.
LEMMA BlocksFollow ==
  ASSUME NEW t \in Seq(Ops), NEW op \in Ops, NEW t1, t1 = Append(t, op),
         NEW bl \in [Ids -> Nat], NEW cl \in [Ids -> Nat], SameOn(bl, cl, LiveSet(t)),
         NEW p, NEW bl1, bl1 = NextBl(bl, op, p), NEW cl1, cl1 = NextBl(cl, op, p)
  PROVE  SameOn(bl1, cl1, LiveSet(t1))
<1>1. LiveSet(t1) = IF op.type = "FREE" THEN LiveSet(t) \ {op.id} ELSE LiveSet(t) \cup {op.id}
  BY GoesFurther DEF Further
<1>2. op.id \in Ids /\ \A j \in LiveSet(t) : j \in Ids
  BY OpTypes DEF LiveSet
<1>3. CASE op.type = "FREE"
  BY <1>1, <1>3 DEF SameOn, NextBl
<1>4. CASE op.type # "FREE"
  <2>1. bl1 = [bl EXCEPT ![op.id] = p] /\ cl1 = [cl EXCEPT ![op.id] = p]
    BY <1>4 DEF NextBl
  <2>2. \A j \in LiveSet(t) \cup {op.id} : bl1[j] = cl1[j]
    BY <1>2, <2>1 DEF SameOn
  <2>3. QED
    BY <1>1, <1>4, <2>2 DEF SameOn
<1>5. QED
  BY <1>3, <1>4

FollowedTo(H, Bl, q, t1, op, r, bl) ==
  \E s, p : Answer(r, s, p) /\ p # 0 /\ Twins(s, H[q]) /\ SameOn(NextBl(bl, op, p), Bl[q], LiveSet(t1))

\* A request of a later pass has the answer of the first pass.
LEMMA ReplayFollows ==
  ASSUME NEW t \in Seq(Ops), LegalTrace(t), NEW H, NEW Bl, History(t, H, Bl), NEW p \in 0 .. Len(t), p < Len(t),
         NEW q, q = p + 1, NEW op, op = t[q], NEW g, Twins(g, H[p]), NEW bl \in [Ids -> Nat],
         SameOn(bl, Bl[p], LiveSet(Prefix(t, p))), NEW r, r = CallOn(g, bl, op)
  PROVE  FollowedTo(H, Bl, q, Prefix(t, q), op, r, bl)
<1>1. q \in 1 .. Len(t) /\ q - 1 = p /\ Len(t) \in Nat
  OBVIOUS
<1>2. PICK t0, t1, g0, bl0 : t0 = Prefix(t, p) /\ t1 = Prefix(t, q) /\ g0 = H[p] /\ bl0 = Bl[p]
  OBVIOUS
<1>3. t1 = Append(t0, op) /\ op \in Ops
  BY <1>1, <1>2, PrefixGrows
<1>4. t0 \in Seq(Ops)
  BY <1>2, PrefixType
<1>5. Legal(t0, op)
  BY <1>1, <1>2 DEF LegalTrace
<1>6. GoodIn(g0, t0, bl0) /\ bl0 \in [Ids -> Nat]
  BY <1>2 DEF History
<1>7. PICK x : x = CallOn(g0, bl0, op)
  OBVIOUS
<1>8. Passed(g0, bl0, op, H[q], Bl[q])
  BY <1>1, <1>2 DEF History
<1>9. PICK s, a : Answer(x, s, a) /\ a # 0 /\ Twins(s, H[q]) /\ Bl[q] = NextBl(bl0, op, a)
  BY <1>7, <1>8 DEF Passed
<1>10. Twins(g0, g) /\ SameOn(bl0, bl, LiveSet(t0))
  <2>1. Twins(g0, g)
    BY <1>2, TwinsTurn
  <2>2. QED
    BY <1>2, <2>1 DEF SameOn
<1>11. SameAnswers(x, r)
  BY <1>3, <1>5, <1>6, <1>7, <1>10, CallsAlike
<1>12. PICK u, v, b : Answer(x, u, b) /\ Answer(r, v, b) /\ Twins(u, v)
  BY <1>11 DEF SameAnswers
<1>13. u = s /\ b = a
  BY <1>9, <1>12 DEF Answer
<1>14. Twins(v, H[q])
  <2>1. Twins(v, s)
    BY <1>12, <1>13, TwinsTurn
  <2>2. QED
    BY <1>9, <2>1, TwinsTwice
<1>15. PICK bl1, cl1 : bl1 = NextBl(bl, op, a) /\ cl1 = NextBl(bl0, op, a)
  OBVIOUS
<1>16. SameOn(bl, bl0, LiveSet(t0))
  BY <1>2
<1>17. SameOn(bl1, cl1, LiveSet(t1))
  BY <1>3, <1>4, <1>6, <1>15, <1>16, BlocksFollow
<1>18. QED
  BY <1>2, <1>9, <1>12, <1>13, <1>14, <1>15, <1>17 DEF FollowedTo

\* A later pass starts on a twin of the heap the first pass started on.
LEMMA StartFollows ==
  ASSUME NEW g \in Heaps, NEW r, r = Started(g), NEW g0, Opened(g0)
  PROVE  \E s, p : Answer(r, s, p) /\ p # 0 /\ Twins(s, g0)
<1>1. PICK e, x, s, p : Emptied(e) /\ x = mm_init(e) /\ Answer(x, s, p) /\ p # 0 /\ Twins(s, g0)
  BY DEF Opened
<1>2. PICK f : f = mem_reset_brk(g)
  OBVIOUS
<1>3. Emptied(f) /\ r = mm_init(f)
  BY <1>2, Places DEF Emptied, Heaps, mem_reset_brk, Started
<1>4. x.p # 0
  BY <1>1 DEF Answer
<1>5. SameAnswers(x, r)
  BY <1>1, <1>3, <1>4, InitsAlike
<1>6. PICK u, v, b : Answer(x, u, b) /\ Answer(r, v, b) /\ Twins(u, v)
  BY <1>5 DEF SameAnswers
<1>7. u = s /\ b = p
  BY <1>1, <1>6 DEF Answer
<1>8. Twins(v, s)
  BY <1>6, <1>7, TwinsTurn
<1>9. Twins(v, g0)
  BY <1>1, <1>8, TwinsTwice
<1>10. QED
  BY <1>1, <1>6, <1>7, <1>9

\* The first pass starts a history.
LEMMA HistoryStarts ==
  ASSUME NEW g \in Heaps, NEW r, r = Started(g), r.p # 0, NEW bl \in [Ids -> Nat], NEW t, t = << >>,
         NEW H, H = [k \in {0} |-> r.h], NEW Bl, Bl = [k \in {0} |-> bl]
  PROVE  History(t, H, Bl)
<1>1. PICK e, s : e = mem_reset_brk(g) /\ s = r.h
  OBVIOUS
<1>2. Emptied(e) /\ r = mm_init(e)
  BY <1>1, Places DEF Emptied, Heaps, mem_reset_brk, Started
<1>3. GoodIn(s, t, bl)
  BY <1>1, Begins
<1>4. Twins(s, s)
  BY <1>3, GoodIsTwin
<1>5. Founds(r)
  BY <1>2, InitsFound
<1>6. PICK a : a = r.p
  OBVIOUS
<1>7. Answer(r, s, a)
  <2>1. Starts(r)
    BY <1>2, Inits
  <2>2. PICK u, p : Answer(r, u, p)
    BY <2>1 DEF Starts
  <2>3. QED
    BY <1>1, <1>6, <2>2 DEF Answer
<1>8. Opened(s)
  BY <1>2, <1>4, <1>6, <1>7 DEF Opened
<1>9. Len(t) = 0 /\ t \in Seq(Ops)
  OBVIOUS
<1>10. Prefix(t, 0) = t
  BY <1>9, WholePrefix
<1>11. H[0] = s /\ Bl[0] = bl
  BY <1>1
<1>12. QED
  BY <1>3, <1>8, <1>9, <1>10, <1>11 DEF History

\* A step of eval_mm_valid that finds no fault, as an entry of the history.
LEMMA FreeIsPassed ==
  ASSUME NEW op \in Ops, FreeStep(op)
  PROVE  Passed(h, blocks, op, h', blocks')
<1>1. /\ op.type = "FREE" /\ blocks' = blocks /\ AnswersWith(op, h', blocks[op.id])
      /\ GoodIn(h', trace', blocks)
  BY DEF FreeStep
<1>2. PICK s, p : s = h' /\ p = blocks[op.id]
  OBVIOUS
<1>3. Answer(CallOn(h, blocks, op), s, p) /\ p # 0
  <2>1. Call(op) = CallOn(h, blocks, op)
    BY DEF Call, CallOn
  <2>2. QED
    BY <1>1, <1>2, <2>1 DEF AnswersWith
<1>4. Twins(s, s)
  BY <1>1, <1>2, GoodIsTwin
<1>5. blocks' = NextBl(blocks, op, p)
  BY <1>1 DEF NextBl
<1>6. QED
  BY <1>2, <1>3, <1>4, <1>5 DEF Passed

\* The answer that was filled is a twin of the one that the package gave.
LEMMA FillIsPassed ==
  ASSUME DriverInv, NEW op \in Ops, ValidOp(op), FillStep(op)
  PROVE  Passed(h, blocks, op, h', blocks')
<1>1. trace' = Append(trace, op) /\ trace \in Seq(Ops) /\ blocks \in [Ids -> Nat]
  BY ValidTables DEF DriverInv, DriverType
<1>2. PICK s, p : /\ AnswersWith(op, s, p)
                  /\ Filling(trace, blocks, sizes, ranges, op, trace', s, p, blocks', sizes', ranges', h')
                  /\ op.type # "FREE"
  BY DEF FillStep
<1>3. blocks' = [blocks EXCEPT ![op.id] = p] /\ GoodIn(s, trace', blocks') /\ h' = memset(s, op, p)
  BY <1>2 DEF Filling
<1>4. PICK t1, u, bl1, i, n, am, M : /\ t1 = trace' /\ u = h' /\ bl1 = blocks' /\ i = op.id /\ n = op.size
                                     /\ am = Amounts(t1) /\ M = LiveSet(t1)
  OBVIOUS
<1>5. Further(trace, op, t1)
  BY <1>1, <1>4, GoesFurther
<1>6. i \in Ids /\ i \in M /\ am[i] = n
  <2>1. am = [Amounts(trace) EXCEPT ![i] = n] /\ M = LiveSet(trace) \cup {i}
    BY <1>2, <1>4, <1>5 DEF Further
  <2>2. DOMAIN Amounts(trace) = Ids /\ i \in Ids
    BY <1>4, OpTypes DEF Amounts
  <2>3. QED
    BY <2>1, <2>2
<1>7. bl1[i] = p
  BY <1>1, <1>3, <1>4, <1>6
<1>8. Written(s, p, n, i, u)
  BY <1>3, <1>4, <1>6, <1>7, FillsBlock
<1>9. PICK W : W = p .. p + n - 1
  OBVIOUS
<1>10. Changed(s, u, W) /\ \A w \in W : w \in bl1[i] .. bl1[i] + am[i] - 1
  BY <1>6, <1>7, <1>8, <1>9 DEF Written
<1>11. Twins(s, s) /\ Good(s, M, bl1, am)
  BY <1>3, <1>4, GoodIsTwin DEF GoodIn
<1>12. Twins(u, s)
  BY <1>6, <1>10, <1>11, FillsAlike
<1>13. Twins(s, u)
  BY <1>12, TwinsTurn
<1>14. Answer(CallOn(h, blocks, op), s, p) /\ p # 0
  <2>1. Call(op) = CallOn(h, blocks, op)
    BY DEF Call, CallOn
  <2>2. QED
    BY <1>2, <2>1 DEF AnswersWith
<1>15. blocks' = NextBl(blocks, op, p)
  BY <1>2, <1>3 DEF NextBl
<1>16. QED
  BY <1>4, <1>13, <1>14, <1>15 DEF Passed

\* A replay step: the same answer as in the first pass, which was no NULL.
LEMMA ReplayGoesOn ==
  ASSUME DriverInv, ReplayInv, ReplayOp
  PROVE  ReplayInv'
<1>1. /\ h \in Heaps /\ trace \in Seq(Ops) /\ blocks \in [Ids -> Nat] /\ pos \in 0 .. Len(trace) /\ pos < Len(trace)
      /\ pass \in {"util", "speed"} /\ LegalTrace(trace)
  BY DEF DriverInv, DriverType, ReplayOp
<1>2. PICK H, Bl : History(trace, H, Bl) /\ InStep(H, Bl)
  BY <1>1 DEF ReplayInv, Replaying
<1>3. PICK p, q : p = pos /\ q = pos + 1
  OBVIOUS
<1>4. Twins(h, H[p]) /\ SameOn(blocks, Bl[p], LiveSet(Prefix(trace, p)))
  BY <1>1, <1>2, <1>3 DEF InStep, Done, Prefix
<1>5. PICK op, r : op = trace[q] /\ r = Call(op) /\ Trust(op, r)
  BY <1>3 DEF ReplayOp
<1>6. r = CallOn(h, blocks, op)
  BY <1>5 DEF Call, CallOn
<1>7. PICK t, g, bl, t1 : t = trace /\ g = h /\ bl = blocks /\ t1 = Prefix(trace, q)
  OBVIOUS
<1>8. FollowedTo(H, Bl, q, t1, op, r, bl)
  BY <1>1, <1>2, <1>3, <1>4, <1>5, <1>6, <1>7, ReplayFollows
<1>9. PICK s, a : Answer(r, s, a) /\ a # 0 /\ Twins(s, H[q]) /\ SameOn(NextBl(bl, op, a), Bl[q], LiveSet(t1))
  BY <1>8 DEF FollowedTo
<1>10. r.h = s /\ r.p = a /\ a # NULL
  BY <1>9, Places DEF Answer
<1>11. /\ h' = s /\ pos' = q /\ trace' = trace /\ pass' = pass
       /\ blocks' = IF op.type = "FREE" THEN blocks ELSE [blocks EXCEPT ![op.id] = a]
  BY <1>3, <1>5, <1>10 DEF Trust
<1>12. blocks' = NextBl(bl, op, a)
  BY <1>7, <1>11 DEF NextBl
<1>13. Done' = t1
  <2>1. Done' = SubSeq(trace', 1, pos')
    BY DEF Done
  <2>2. QED
    BY <1>3, <1>7, <1>11, <2>1 DEF Prefix
<1>14. pass' # "valid" /\ pass' # "exit"
  BY <1>1, <1>11
<1>15. InStep(H, Bl)'
  <2>1. Twins(h', H[pos']) /\ SameOn(blocks', Bl[pos'], LiveSet(Done'))
    BY <1>9, <1>11, <1>12, <1>13
  <2>2. QED
    BY <1>14, <2>1 DEF InStep
<1>16. QED
  BY <1>2, <1>11, <1>14, <1>15 DEF ReplayInv, ReplaysSucceed

\* A later pass starts as the first one did.
LEMMA PassGoesOn ==
  ASSUME DriverInv, ReplayInv, Replaying, NEW p \in {"util", "speed"}, StartPass(p)
  PROVE  ReplayInv'
<1>1. h \in Heaps /\ trace \in Seq(Ops)
  BY DEF DriverInv, DriverType
<1>2. PICK H, Bl : History(trace, H, Bl)
  BY DEF ReplayInv
<1>3. PICK g, g0, r : g = h /\ g0 = H[0] /\ r = Started(h) /\ h' = r.h /\ pass' = IF r.p = NULL THEN "exit" ELSE p
  BY DEF StartPass
<1>4. Opened(g0)
  BY <1>2, <1>3 DEF History
<1>5. PICK s, a : Answer(r, s, a) /\ a # 0 /\ Twins(s, g0)
  BY <1>1, <1>3, <1>4, StartFollows
<1>6. r.p # NULL /\ r.h = s
  BY <1>5, Places DEF Answer
<1>7. pass' = p /\ h' = s
  BY <1>3, <1>6
<1>8. trace' = trace /\ pos' = 0
  BY DEF StartPass
<1>9. Done' = << >>
  <2>1. Done' = SubSeq(trace', 1, pos')
    BY DEF Done
  <2>2. QED
    BY <1>1, <1>8, <2>1, WholePrefix DEF Prefix
<1>10. LiveSet(Done') = {}
  BY <1>9, NothingLive
<1>11. InStep(H, Bl)'
  <2>1. Twins(h', H[pos']) /\ SameOn(blocks', Bl[pos'], LiveSet(Done'))
    BY <1>3, <1>5, <1>7, <1>8, <1>10 DEF SameOn
  <2>2. pass' # "valid"
    BY <1>7
  <2>3. QED
    BY <2>1, <2>2 DEF InStep
<1>12. QED
  BY <1>2, <1>7, <1>8, <1>11 DEF ReplayInv, ReplaysSucceed

\* eval_mm_valid begins a history.
LEMMA ReadBegins ==
  ASSUME DriverInv, ReadTrace
  PROVE  ReplayInv'
<1>1. h \in Heaps /\ blocks \in [Ids -> Nat]
  BY DEF DriverInv, DriverType
<1>2. PICK r : /\ r = Started(h) /\ h' = r.h
               /\ IF r.p = NULL THEN NextTrace("mm_init failed", None)
                  ELSE pass' = "valid" /\ UNCHANGED <<times, total, hwm, tracenum, correct, message>>
  BY DEF ReadTrace
<1>3. trace' = << >> /\ pos' = 0 /\ blocks' = blocks
  BY DEF ReadTrace
<1>4. CASE r.p = NULL
  <2>1. pass' = "next"
    BY <1>2, <1>4 DEF NextTrace
  <2>2. QED
    BY <2>1 DEF ReplayInv, ReplaysSucceed, Replaying
<1>5. CASE r.p # NULL
  <2>1. PICK g, bl, t, H, Bl : /\ g = h /\ bl = blocks /\ t = << >> /\ H = [k \in {0} |-> r.h] /\ Bl = [k \in {0} |-> bl]
    OBVIOUS
  <2>2. r.p # 0 /\ pass' = "valid"
    BY <1>2, <1>5, Places
  <2>3. History(t, H, Bl)
    BY <1>1, <1>2, <2>1, <2>2, HistoryStarts
  <2>4. h' = H[pos'] /\ blocks' = Bl[pos']
    BY <1>2, <1>3, <2>1
  <2>5. InStep(H, Bl)'
    BY <2>2, <2>4 DEF InStep
  <2>6. History(trace', H, Bl)
    BY <1>3, <2>1, <2>3
  <2>7. QED
    BY <2>2, <2>5, <2>6 DEF ReplayInv, ReplaysSucceed
<1>6. QED
  BY <1>4, <1>5

\* eval_mm_valid goes on with one.
LEMMA ValidGoesOn ==
  ASSUME DriverInv, ReplayInv, NEW op \in Ops, ValidOp(op)
  PROVE  ReplayInv'
<1>1. /\ Done = trace /\ pass = "valid" /\ trace' = Append(trace, op) /\ Done' = trace' /\ pos' = Len(trace')
      /\ trace' \in Seq(Ops)
  BY ValidTables
<1>2. trace \in Seq(Ops) /\ pos = Len(trace)
  BY <1>1 DEF DriverInv, DriverType
<1>3. PICK H, Bl : History(trace, H, Bl) /\ h = H[pos] /\ blocks = Bl[pos]
  BY <1>1 DEF ReplayInv, Replaying, InStep
<1>4. ASSUME Passed(h, blocks, op, h', blocks'), DriverInv', pass' = "valid"
      PROVE  ReplayInv'
  <2>1. blocks' \in [Ids -> Nat] /\ GoodIn(h', Done', blocks')
    BY <1>4 DEF DriverInv, DriverType, Replaying
  <2>2. PICK t, t1, n, g1, bl1 : t = trace /\ t1 = trace' /\ n = Len(t) /\ g1 = h' /\ bl1 = blocks'
    OBVIOUS
  <2>3. Passed(H[n], Bl[n], op, g1, bl1) /\ GoodIn(g1, t1, bl1) /\ bl1 \in [Ids -> Nat]
    BY <1>1, <1>2, <1>3, <1>4, <2>1, <2>2
  <2>4. Entered(t1, n, g1, bl1)
    <3>1. t \in Seq(Ops) /\ History(t, H, Bl) /\ t1 = Append(t, op) /\ n = Len(t)
      BY <1>1, <1>2, <1>3, <2>2
    <3>2. QED
      BY <2>3, <3>1, HistoryGrows
  <2>5. PICK H1, Bl1 : History(t1, H1, Bl1) /\ H1[n + 1] = g1 /\ Bl1[n + 1] = bl1
    BY <2>4 DEF Entered
  <2>6. pos' = n + 1
    BY <1>1, <1>2, <2>2
  <2>7. InStep(H1, Bl1)'
    BY <1>4, <2>2, <2>5, <2>6 DEF InStep
  <2>8. QED
    BY <1>4, <2>2, <2>5, <2>7 DEF ReplayInv, ReplaysSucceed
<1>5. CASE FreeStep(op)
  <2>1. DriverInv'
    BY <1>5, FreeStepWorks
  <2>2. Passed(h, blocks, op, h', blocks')
    BY <1>5, FreeIsPassed
  <2>3. pass' = "valid"
    BY <1>5 DEF FreeStep
  <2>4. QED
    BY <1>4, <2>1, <2>2, <2>3
<1>6. CASE FillStep(op)
  <2>1. DriverInv'
    BY <1>6, FillStepWorks
  <2>2. Passed(h, blocks, op, h', blocks')
    BY <1>6, FillIsPassed
  <2>3. pass' = "valid"
    BY <1>6 DEF FillStep
  <2>4. QED
    BY <1>4, <2>1, <2>2, <2>3
<1>7. CASE FaultStep(op)
  <2>1. pass' = "next"
    BY <1>7 DEF FaultStep
  <2>2. QED
    BY <2>1 DEF ReplayInv, ReplaysSucceed, Replaying
<1>8. QED
  BY <1>5, <1>6, <1>7, ValidSteps

\* Every step.
LEMMA ReplayInvSteps == DriverInv /\ ReplayInv /\ [Next]_vars => ReplayInv'
<1> SUFFICES ASSUME DriverInv, ReplayInv, [Next]_vars
             PROVE  ReplayInv'
  OBVIOUS
<1>1. CASE ReadTrace
  BY <1>1, ReadBegins
<1>2. CASE ValidEnds
  <2>1. StartPass("util") /\ Replaying
    BY <1>2 DEF ValidEnds, Replaying
  <2>2. QED
    BY <2>1, PassGoesOn
<1>3. CASE ReplayOp
  BY <1>3, ReplayGoesOn
<1>4. CASE UtilEnds
  <2>1. StartPass("speed") /\ Replaying
    BY <1>4 DEF UtilEnds, Replaying
  <2>2. QED
    BY <2>1, PassGoesOn
<1>5. CASE SpeedEnds
  <2>1. CASE times > 1
    <3>1. StartPass("speed") /\ Replaying
      BY <1>5, <2>1 DEF SpeedEnds, Replaying
    <3>2. QED
      BY <3>1, PassGoesOn
  <2>2. CASE ~(times > 1)
    <3>1. pass' = "next"
      BY <1>5, <2>2 DEF SpeedEnds
    <3>2. QED
      BY <3>1 DEF ReplayInv, ReplaysSucceed, Replaying
  <2>3. QED
    BY <2>1, <2>2
<1>6. CASE Results
  <2>1. pass' = "results"
    BY <1>6 DEF Results
  <2>2. QED
    BY <2>1 DEF ReplayInv, ReplaysSucceed, Replaying
<1>7. CASE \E op \in Ops : ValidOp(op)
  BY <1>7, ValidGoesOn
<1>8. CASE UNCHANGED vars
  <2>1. UNCHANGED <<h, trace, pos, pass, blocks>>
    BY <1>8 DEF vars
  <2>2. Done' = Done
    BY <2>1 DEF Done
  <2>3. \A H, Bl : InStep(H, Bl)' <=> InStep(H, Bl)
    BY <2>1, <2>2 DEF InStep
  <2>4. QED
    BY <2>1, <2>3 DEF ReplayInv, ReplaysSucceed, Replaying
<1>9. QED
  BY <1>1, <1>2, <1>3, <1>4, <1>5, <1>6, <1>7, <1>8 DEF Next

\* A trace that eval_mm_valid found no fault with is served again by both
\* later passes: mm.c, on a heap that was reset, gives every request the answer
\* it gave before, whatever the memory holds, so app_error ("mm_malloc failed
\* in eval_mm_util" and the like) is out of reach.
THEOREM ReplaysAlwaysSucceed == Spec => []ReplaysSucceed
<1>1. Init => ReplayInv
  BY DEF Init, ReplayInv, ReplaysSucceed, Replaying
<1>2. DriverInv /\ ReplayInv /\ [Next]_vars => ReplayInv'
  BY ReplayInvSteps
<1>3. ReplayInv => ReplaysSucceed
  BY DEF ReplayInv
<1>4. QED
  BY <1>1, <1>2, <1>3, DriverInvHolds, PTL DEF Spec
=============================================================================

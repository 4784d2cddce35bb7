----------------------------- MODULE BtestProofs -----------------------------
(***************************************************************************)
(* Proofs about btest: its generated arguments fit into their arrays, for  *)
(* every TEST_RANGE; a call of a function that does not return always has  *)
(* an alarm on its way; and the puzzles that work on bits alone are right  *)
(* for every word.  (Literals of 32 bits are left to the SMT solver.)      *)
(***************************************************************************)
EXTENDS Btest, LeastNumber, SequenceTheorems

(***************************************************************************)
(* Parts put together are as long as the parts: n of at most b elements    *)
(* give at most n * b (the appending to test_vals in gen_vals).            *)
(***************************************************************************)
LEMMA FlattenedLength ==
  ASSUME NEW S, NEW n \in Nat, NEW seqs \in [1 .. n -> Seq(S)], NEW b \in Nat,
         \A i \in 1 .. n : Len(seqs[i]) <= b
  PROVE  /\ FlattenSeq(seqs) \in Seq(S)
         /\ Len(FlattenSeq(seqs)) <= n * b
<1> DEFINE step == [p \in (1 .. n) \X Seq(S) |-> p[2] \o seqs[p[1]]]
           Flat(g) == g = [i \in 1 .. Len(seqs) |-> IF i = 1 THEN seqs[i] ELSE g[i - 1] \o seqs[i]]
<1>1. Len(seqs) = n
  BY LenProperties
<1>2. CASE n = 0
  <2>1. FlattenSeq(seqs) = seqs
    BY <1>1, <1>2 DEF FlattenSeq
  <2>2. seqs \in Seq(S) /\ Len(seqs) = 0
    BY <1>1, <1>2
  <2>3. QED
    BY <2>1, <2>2, <1>2
<1>3. CASE n # 0
  <2>1. <<>> \in Seq(S) /\ step \in [(1 .. n) \X Seq(S) -> Seq(S)]
    OBVIOUS
  <2>2. PICK f : Loops(f, n, Seq(S), <<>>, step)
    <3> HIDE DEF step
    <3> QED BY <2>1, LoopExists
  <2>3. /\ f \in [0 .. n -> Seq(S)] /\ f[0] = <<>>
        /\ \A i \in 1 .. n : f[i] = step[<<i, f[i - 1]>>]
    BY <2>2 DEF Loops
  <2>4. \A i \in 1 .. n : f[i] = f[i - 1] \o seqs[i]
    <3>1. SUFFICES ASSUME NEW i \in 1 .. n
                   PROVE  f[i] = f[i - 1] \o seqs[i]
      OBVIOUS
    <3>2. i - 1 \in 0 .. n
      OBVIOUS
    <3>3. PICK x \in Seq(S) : x = f[i - 1]
      BY <2>3, <3>2
    <3>4. f[i] = step[<<i, x>>]
      <4> HIDE DEF step
      <4> QED BY <2>3, <3>3
    <3>5. step[<<i, x>>] = x \o seqs[i]
      OBVIOUS
    <3>6. QED
      BY <3>3, <3>4, <3>5
  <2> DEFINE h == [i \in 1 .. n |-> f[i]]
  <2>5. Flat(h)
    <3>1. ASSUME NEW i \in 1 .. n
          PROVE  h[i] = IF i = 1 THEN seqs[i] ELSE h[i - 1] \o seqs[i]
      <4>1. CASE i = 1
        <5>1. f[1] = f[0] \o seqs[1]
          BY <2>4, <4>1
        <5>2. seqs[1] \in Seq(S)
          BY <4>1
        <5>3. <<>> \o seqs[1] = seqs[1]
          BY <5>2, ConcatEmptySeq
        <5>4. QED
          BY <5>1, <5>3, <4>1, <2>3
      <4>2. CASE i # 1
        <5>1. i - 1 \in 1 .. n
          BY <4>2
        <5>2. QED
          BY <5>1, <2>4, <4>2
      <4>3. QED
        BY <4>1, <4>2
    <3>2. h = [i \in 1 .. n |-> h[i]]
      OBVIOUS
    <3> HIDE DEF h
    <3>3. QED
      BY <3>1, <3>2, <1>1, Zenon
  <2> DEFINE g == CHOOSE e : Flat(e)
  <2>6. Flat(g)
    <3> HIDE DEF Flat, h
    <3> QED BY <2>5
  <2>7. FlattenSeq(seqs) = g[n]
    <3>1. FlattenSeq(seqs) = g[Len(seqs)]
      BY <1>1, <1>3 DEF FlattenSeq
    <3>2. QED
      BY <3>1, <1>1
  <2> HIDE DEF g
  <2> DEFINE Short(i) == g[i] \in Seq(S) /\ Len(g[i]) <= i * b
             Long == {i \in 1 .. n : ~Short(i)}
  <2>8. ASSUME NEW i \in 1 .. n, i \in Long
        PROVE  \E m \in Long : m < i
    <3>1. g[i] = IF i = 1 THEN seqs[i] ELSE g[i - 1] \o seqs[i]
      BY <2>6, <1>1
    <3>2. seqs[i] \in Seq(S) /\ Len(seqs[i]) <= b
      OBVIOUS
    <3>3. CASE i = 1
      <4>1. Short(1)
        BY <3>1, <3>2, <3>3
      <4>2. QED
        BY <4>1, <3>3, <2>8
    <3>4. CASE i # 1 /\ Short(i - 1)
      <4>1. g[i] = g[i - 1] \o seqs[i] /\ g[i - 1] \in Seq(S) /\ Len(g[i - 1]) <= (i - 1) * b
        BY <3>1, <3>4
      <4>2. g[i] \in Seq(S) /\ Len(g[i]) = Len(g[i - 1]) + Len(seqs[i])
        BY <4>1, <3>2, ConcatProperties
      <4>3. (i - 1) * b + b = i * b /\ (i - 1) * b \in Int /\ i * b \in Int
        BY SMT
      <4>4. Len(g[i - 1]) \in Nat /\ Len(seqs[i]) \in Nat
        BY <4>1, <3>2, LenProperties
      <4>5. Len(g[i]) <= i * b
        BY <4>1, <4>2, <4>3, <4>4, <3>2
      <4>6. QED
        BY <4>2, <4>5, <2>8
    <3>5. CASE i # 1 /\ ~Short(i - 1)
      <4>1. i - 1 \in Long
        BY <3>5
      <4>2. QED
        BY <4>1
    <3>6. QED
      BY <3>3, <3>4, <3>5
  <2>9. Long = {}
    <3>1. Long \in SUBSET Nat /\ Long \subseteq 1 .. n
      OBVIOUS
    <3> HIDE DEF Long
    <3>2. SUFFICES ASSUME Long # {}
                   PROVE  FALSE
      OBVIOUS
    <3>3. PICK m \in Long : \A k \in Long : m <= k
      BY <3>1, <3>2, SmallestExists
    <3>4. PICK k \in Long : k < m
      BY <2>8, <3>1
    <3>5. m \in Nat /\ k \in Nat /\ m <= k
      BY <3>1, <3>3
    <3>6. QED
      BY <3>4, <3>5
  <2>10. Short(n)
    <3>1. n \in 1 .. n
      BY <1>3
    <3>2. QED
      BY <3>1, <2>9
  <2>11. QED
    BY <2>7, <2>10
<1>4. QED
  BY <1>2, <1>3

(***************************************************************************)
(* Every value comes with its negative.                                    *)
(***************************************************************************)
LEMMA BothSignsLength ==
  ASSUME NEW vs \in Seq(Int)
  PROVE  BothSigns(vs) \in Seq(Int) /\ Len(BothSigns(vs)) = 2 * Len(vs)
<1> DEFINE neg == [k \in 1 .. Len(vs) |-> Negated(vs[k])]
<1>1. Len(vs) \in Nat /\ \A k \in 1 .. Len(vs) : vs[k] \in Int
  BY LenProperties, ElementOfSeq
<1>2. \A k \in 1 .. Len(vs) : Negated(vs[k]) \in Int
  BY <1>1, SMT DEF Negated
<1>3. neg \in Seq(Int) /\ Len(neg) = Len(vs)
  BY <1>1, <1>2, SMT
<1>4. BothSigns(vs) = vs \o neg
  BY DEF BothSigns
<1>5. vs \o neg \in Seq(Int) /\ Len(vs \o neg) = Len(vs) + Len(neg)
  <2> HIDE DEF neg
  <2> QED BY <1>3, ConcatProperties
<1> HIDE DEF neg
<1>6. QED
  BY <1>1, <1>3, <1>4, <1>5

(***************************************************************************)
(* The ranges of a function of two arguments are the root of TEST_RANGE,   *)
(* rounded down, and of one argument TEST_RANGE itself (test_function:315).*)
(***************************************************************************)
LEMMA TestRangeFits == \A args : test_range(args) \in 1 .. TEST_RANGE
<1> DEFINE R == TEST_RANGE
           S == {r \in 1 .. R : r * r <= R}
<1>1. R \in Nat /\ R >= 4
  BY RangeAssumption
<1>2. \E r \in 1 .. R : r * r <= R /\ R < (r + 1) * (r + 1)
  <2>1. S \in SUBSET Nat /\ 1 \in S
    BY <1>1
  <2>2. IsFiniteSet(S)
    <3>1. S \subseteq 1 .. R /\ IsFiniteSet(1 .. R)
      BY <1>1, FS_Interval
    <3>2. QED
      BY <3>1, FS_Subset
  <2>3. PICK m \in S : \A k \in S : k <= m
    <3> HIDE DEF S
    <3> QED BY <2>1, <2>2, LargestExists
  <2>4. m \in 1 .. R /\ m * m <= R
    OBVIOUS
  <2>5. m # R
    <3> HIDE DEF R
    <3>1. ASSUME m = R
          PROVE  FALSE
      <4>1. 4 * R <= R * R
        BY <1>1, SMT
      <4>2. QED
        BY <1>1, <2>4, <3>1, <4>1
    <3>2. QED
      BY <3>1
  <2>6. m + 1 \in 1 .. R /\ m + 1 \notin S
    BY <1>1, <2>3, <2>4, <2>5
  <2>7. (m + 1) * (m + 1) \in Int /\ ~((m + 1) * (m + 1) <= R)
    BY <2>6, SMT
  <2>8. R < (m + 1) * (m + 1)
    BY <1>1, <2>7
  <2>9. QED
    BY <2>4, <2>8
<1>3. ASSUME NEW args
      PROVE  test_range(args) \in 1 .. TEST_RANGE
  <2> DEFINE Root(r) == r * r <= R /\ R < (r + 1) * (r + 1)
  <2>1. R \in 1 .. R
    BY <1>1
  <2>2. (CHOOSE r \in 1 .. R : Root(r)) \in 1 .. R
    <3> HIDE DEF R, Root
    <3>1. \E r \in 1 .. R : Root(r)
      BY <1>2 DEF Root
    <3>2. QED
      BY <3>1, Zenon
  <2>3. test_range(args) = IF args = 1 THEN R ELSE CHOOSE r \in 1 .. R : Root(r)
    BY DEF test_range
  <2> HIDE DEF R, Root
  <2>4. test_range(args) \in 1 .. R
    BY <2>1, <2>2, <2>3, Zenon
  <2>5. QED
    BY <2>4 DEF R
<1>4. QED
  BY <1>3

(***************************************************************************)
(* The values for floats: twelve for each turn of the loop and four more   *)
(* (gen_vals:142-190).                                                     *)
(***************************************************************************)
LEMMA FloatValsLength ==
  ASSUME NEW r \in Nat
  PROVE  Len(FloatVals(r)) <= 12 * r + 4
<1> DEFINE seqs == [k \in 1 .. r |-> BothSigns(Regions(k - 1))]
<1>1. ASSUME NEW i \in Int
      PROVE  Regions(i) \in Seq(Int) /\ Len(Regions(i)) = 6
  BY SMT DEF Regions, smallest_norm, one, largest_norm
<1>2. \A k \in 1 .. r : BothSigns(Regions(k - 1)) \in Seq(Int) /\ Len(BothSigns(Regions(k - 1))) = 12
  <2>1. ASSUME NEW k \in 1 .. r
        PROVE  BothSigns(Regions(k - 1)) \in Seq(Int) /\ Len(BothSigns(Regions(k - 1))) = 12
    <3>1. PICK i \in Int : i = k - 1
      OBVIOUS
    <3>2. Regions(i) \in Seq(Int) /\ Len(Regions(i)) = 6
      BY <1>1
    <3>3. PICK vs \in Seq(Int) : vs = Regions(i)
      BY <3>2
    <3>4. BothSigns(vs) \in Seq(Int) /\ Len(BothSigns(vs)) = 2 * Len(vs)
      BY BothSignsLength
    <3>5. Len(BothSigns(vs)) = 12
      BY <3>2, <3>3, <3>4
    <3>6. vs = Regions(k - 1)
      BY <3>1, <3>3, Zenon
    <3>7. QED
      BY <3>4, <3>5, <3>6, Zenon
  <2>2. QED
    BY <2>1
<1>3. seqs \in [1 .. r -> Seq(Int)] /\ \A k \in 1 .. r : Len(seqs[k]) <= 12
  <2>1. \A k \in 1 .. r : seqs[k] = BothSigns(Regions(k - 1))
    OBVIOUS
  <2>2. \A k \in 1 .. r : seqs[k] \in Seq(Int) /\ Len(seqs[k]) = 12
    <3> HIDE DEF seqs
    <3> QED BY <1>2, <2>1, Zenon
  <2>3. seqs = [k \in 1 .. r |-> seqs[k]]
    OBVIOUS
  <2> HIDE DEF seqs
  <2>4. seqs \in [1 .. r -> Seq(Int)]
    BY <2>2, <2>3
  <2>5. ASSUME NEW k \in 1 .. r
        PROVE  Len(seqs[k]) <= 12
    <3>1. Len(seqs[k]) = 12
      BY <2>2
    <3>2. QED
      BY <3>1
  <2>6. QED
    BY <2>4, <2>5
<1>4. FlattenSeq(seqs) \in Seq(Int) /\ Len(FlattenSeq(seqs)) <= r * 12
  <2> HIDE DEF seqs
  <2>1. PICK b \in Nat : b = 12
    OBVIOUS
  <2>2. QED
    BY <1>3, <2>1, FlattenedLength
<1>5. BothSigns(<<inf, nan>>) \in Seq(Int) /\ Len(BothSigns(<<inf, nan>>)) = 4
  <2>1. <<inf, nan>> \in Seq(Int) /\ Len(<<inf, nan>>) = 2
    BY SMT DEF inf, nan
  <2>2. PICK vs \in Seq(Int) : vs = <<inf, nan>>
    BY <2>1
  <2>3. BothSigns(vs) \in Seq(Int) /\ Len(BothSigns(vs)) = 2 * Len(vs)
    BY BothSignsLength
  <2>4. Len(BothSigns(vs)) = 4
    BY <2>1, <2>2, <2>3
  <2>5. QED
    BY <2>2, <2>3, <2>4, Zenon
<1>6. FloatVals(r) = FlattenSeq(seqs) \o BothSigns(<<inf, nan>>)
  BY DEF FloatVals
<1> HIDE DEF seqs
<1>7. Len(FloatVals(r)) = Len(FlattenSeq(seqs)) + 4
  <2>1. PICK x \in Seq(Int), y \in Seq(Int) : x = FlattenSeq(seqs) /\ y = BothSigns(<<inf, nan>>)
    BY <1>4, <1>5
  <2>2. Len(x \o y) = Len(x) + Len(y)
    BY ConcatProperties
  <2>3. FloatVals(r) = x \o y /\ Len(y) = 4 /\ Len(x) = Len(FlattenSeq(seqs))
    BY <2>1, <1>5, <1>6, Zenon
  <2>4. QED
    BY <2>2, <2>3
<1>8. Len(FlattenSeq(seqs)) \in Nat
  BY <1>4, LenProperties
<1>9. QED
  BY <1>4, <1>7, <1>8

(***************************************************************************)
(* The sampled values: at most five for each turn of the loop              *)
(* (gen_vals:204-222).                                                     *)
(***************************************************************************)
LEMMA SampledLength ==
  ASSUME NEW min \in Int, NEW max \in Int, NEW r \in Nat, NEW draw \in Int
  PROVE  Len(Sampled(min, max, r, draw)) <= 5 * r
<1> DEFINE Turn(i) == <<min + i - 1, max - i + 1>> \o Within(i - 1, min, max) \o Within(1 - i, min, max) \o <<draw>>
           seqs == [i \in 1 .. r |-> Turn(i)]
<1>1. ASSUME NEW v \in Int
      PROVE  Within(v, min, max) \in Seq(Int) /\ Len(Within(v, min, max)) <= 1
  <2>1. <<v>> \in Seq(Int) /\ Len(<<v>>) = 1 /\ <<>> \in Seq(Int) /\ Len(<<>>) = 0
    OBVIOUS
  <2>2. QED
    BY <2>1 DEF Within
<1>2. ASSUME NEW i \in 1 .. r
      PROVE  Turn(i) \in Seq(Int) /\ Len(Turn(i)) <= 5
  <2> DEFINE a == <<min + i - 1, max - i + 1>>
             b == Within(i - 1, min, max)
             c == Within(1 - i, min, max)
             d == <<draw>>
  <2>1. a \in Seq(Int) /\ Len(a) = 2
    OBVIOUS
  <2>2. b \in Seq(Int) /\ Len(b) <= 1 /\ c \in Seq(Int) /\ Len(c) <= 1
    <3>1. i - 1 \in Int /\ 1 - i \in Int
      OBVIOUS
    <3>2. QED
      BY <3>1, <1>1
  <2>3. d \in Seq(Int) /\ Len(d) = 1
    OBVIOUS
  <2> HIDE DEF a, b, c, d
  <2>4. a \o b \in Seq(Int) /\ Len(a \o b) = Len(a) + Len(b)
    BY <2>1, <2>2, ConcatProperties
  <2>5. a \o b \o c \in Seq(Int) /\ Len(a \o b \o c) = Len(a \o b) + Len(c)
    BY <2>2, <2>4, ConcatProperties
  <2>6. a \o b \o c \o d \in Seq(Int) /\ Len(a \o b \o c \o d) = Len(a \o b \o c) + Len(d)
    BY <2>3, <2>5, ConcatProperties
  <2>7. Len(a) \in Nat /\ Len(b) \in Nat /\ Len(c) \in Nat
    BY <2>1, <2>2, LenProperties
  <2>8. Turn(i) = a \o b \o c \o d
    BY DEF a, b, c, d
  <2>9. QED
    <3> HIDE DEF Turn
    <3> QED BY <2>1, <2>2, <2>3, <2>4, <2>5, <2>6, <2>7, <2>8
<1>3. Sampled(min, max, r, draw) = FlattenSeq(seqs)
  BY DEF Sampled
<1>4. seqs \in [1 .. r -> Seq(Int)] /\ \A i \in 1 .. r : Len(seqs[i]) <= 5
  <2> HIDE DEF Turn
  <2> QED BY <1>2
<1> HIDE DEF seqs
<1>5. PICK b \in Nat : b = 5
  OBVIOUS
<1>6. Len(FlattenSeq(seqs)) <= r * b
  BY <1>4, <1>5, FlattenedLength
<1>7. QED
  BY <1>3, <1>5, <1>6

(***************************************************************************)
(* The ranges of the table in decl.c.                                      *)
(***************************************************************************)
IntRanges == {<<TMin, TMax>>, <<1, TMax>>, <<0, 3>>, <<0, 30>>, <<0, 31>>, <<1, 32>>}

LEMMA TableRanges ==
  ASSUME NEW t \in 1 .. Len(test_set), NEW a \in 1 .. Len(test_set[t].ranges)
  PROVE  test_set[t].ranges[a] \in IntRanges \cup {Float}
<1> DEFINE W == <<TMin, TMax>>
           Listed == {<<>>, <<W>>, <<W, W>>, <<W, <<0, 3>>>>, <<W, <<0, 30>>>>, <<W, <<0, 31>>>>,
                      <<W, <<1, 32>>>>, <<<<1, TMax>>>>, <<Float>>}
<1> HIDE DEF W
<1>1. Len(test_set) = 15
  BY DEF test_set
<1>2. test_set[t].ranges \in Listed
  <2>1. /\ test_set[1].ranges = <<W, W>> /\ test_set[2].ranges = <<W, <<0, 3>>>>
        /\ test_set[3].ranges = <<W, <<0, 31>>>> /\ test_set[4].ranges = <<W>>
        /\ test_set[5].ranges = <<W>> /\ test_set[6].ranges = <<>>
        /\ test_set[7].ranges = <<W, <<1, 32>>>> /\ test_set[8].ranges = <<W, <<0, 30>>>>
    BY DEF test_set, W
  <2>2. /\ test_set[9].ranges = <<W>> /\ test_set[10].ranges = <<W>>
        /\ test_set[11].ranges = <<W, W>> /\ test_set[12].ranges = <<<<1, TMax>>>>
        /\ test_set[13].ranges = <<Float>> /\ test_set[14].ranges = <<Float>>
        /\ test_set[15].ranges = <<Float>>
    BY DEF test_set, W
  <2>3. t \in 1 .. 15
    BY <1>1
  <2>4. /\ test_set[1].ranges \in Listed /\ test_set[2].ranges \in Listed /\ test_set[3].ranges \in Listed
        /\ test_set[4].ranges \in Listed /\ test_set[5].ranges \in Listed /\ test_set[6].ranges \in Listed
        /\ test_set[7].ranges \in Listed /\ test_set[8].ranges \in Listed /\ test_set[9].ranges \in Listed
        /\ test_set[10].ranges \in Listed /\ test_set[11].ranges \in Listed /\ test_set[12].ranges \in Listed
        /\ test_set[13].ranges \in Listed /\ test_set[14].ranges \in Listed /\ test_set[15].ranges \in Listed
    BY <2>1, <2>2, Zenon
  <2>5. \/ t = 1 \/ t = 2 \/ t = 3 \/ t = 4 \/ t = 5 \/ t = 6 \/ t = 7 \/ t = 8
        \/ t = 9 \/ t = 10 \/ t = 11 \/ t = 12 \/ t = 13 \/ t = 14 \/ t = 15
    BY <2>3
  <2> HIDE DEF Listed
  <2>6. QED
    BY <2>4, <2>5
<1>3. PICK r \in Listed : r = test_set[t].ranges
  BY <1>2
<1>4. \A b \in 1 .. Len(r) : r[b] \in IntRanges \cup {Float}
  BY DEF IntRanges, W
<1>5. QED
  BY <1>3, <1>4

(***************************************************************************)
(* No range of the table is as wide as MAX_TEST_VALS, which would be one   *)
(* value too many for the exhaustive case (gen_vals:196-201).              *)
(***************************************************************************)
LEMMA NoneJustAsWide ==
  ASSUME NEW p \in IntRanges
  PROVE  /\ p[1] \in Int /\ p[2] \in Int /\ p[1] <= p[2] /\ p = <<p[1], p[2]>>
         /\ p[2] - p[1] # MAX_TEST_VALS
<1>1. TEST_RANGE \in Nat
  BY RangeAssumption
<1>2. p \in IntRanges
  OBVIOUS
<1>3. QED
  BY <1>1, <1>2, SMT DEF IntRanges, MAX_TEST_VALS, TMin, TMax

(***************************************************************************)
(* What gen_vals writes fits, whatever the range, the number of arguments  *)
(* and the random values (gen_vals:120-223).                               *)
(***************************************************************************)
LEMMA GenValsFits ==
  ASSUME NEW p \in IntRanges \cup {Float}, NEW r \in 1 .. TEST_RANGE, NEW draw,
         p # Float => draw \in Int
  PROVE  Len(gen_vals(p[1], p[2], r, draw)) <= MAX_TEST_VALS
<1> DEFINE R == TEST_RANGE
<1>1. R \in Nat /\ R >= 4 /\ r \in Nat /\ r <= R
  BY RangeAssumption
<1>2. MAX_TEST_VALS = 13 * R
  BY DEF MAX_TEST_VALS
<1>3. CASE p = Float
  <2>1. <<p[1], p[2]>> = Float
    BY <1>3 DEF Float
  <2>2. PICK q \in Nat : q = (IF r > 2^23 THEN 2^23 ELSE r) /\ q <= r
    BY <1>1, SMT
  <2>3. gen_vals(p[1], p[2], r, draw) = FloatVals(q)
    BY <2>1, <2>2, Zenon DEF gen_vals
  <2>4. Len(FloatVals(q)) <= 12 * q + 4
    BY FloatValsLength
  <2>5. 12 * q + 4 <= 13 * R
    BY <1>1, <2>2
  <2>6. QED
    BY <2>3, <2>4, <2>5, <1>2
<1>4. CASE p # Float
  <2>1. p \in IntRanges
    BY <1>4
  <2>2. PICK min \in Int, max \in Int : p = <<min, max>> /\ p[1] = min /\ p[2] = max /\ min <= max /\ max - min # 13 * R
    BY <2>1, <1>2, NoneJustAsWide
  <2>3. <<p[1], p[2]>> # Float
    BY <2>2, <1>4
  <2>4. CASE max - MAX_TEST_VALS <= min
    <3>1. gen_vals(p[1], p[2], r, draw) = [i \in 1 .. max - min + 1 |-> min + i - 1]
      BY <2>2, <2>3, <2>4, Zenon DEF gen_vals
    <3>2. max - min + 1 \in Nat /\ max - min + 1 <= 13 * R
      BY <1>1, <1>2, <2>2, <2>4
    <3>3. PICK n \in Nat : n = max - min + 1
      BY <3>2
    <3>4. Len([i \in 1 .. n |-> min + i - 1]) = n
      BY SMT
    <3>5. QED
      BY <3>1, <3>2, <3>3, <3>4, <1>2
  <2>5. CASE ~(max - MAX_TEST_VALS <= min)
    <3>1. gen_vals(p[1], p[2], r, draw) = Sampled(min, max, r, draw)
      BY <2>2, <2>3, <2>5, Zenon DEF gen_vals
    <3>2. Len(Sampled(min, max, r, draw)) <= 5 * r
      BY <1>1, <1>4, SampledLength
    <3>3. 5 * r <= 13 * R
      BY <1>1
    <3>4. QED
      BY <3>1, <3>2, <3>3, <1>1, <1>2
  <2>6. QED
    BY <2>4, <2>5
<1>5. QED
  BY <1>3, <1>4

(***************************************************************************)
(* Between the calls of a function its arguments fit into the arrays;      *)
(* test is an index of the table, where run_tests uses it as one.          *)
(***************************************************************************)
ArraysInv == test \in Nat \ {0} /\ ArraysFit

LEMMA ArraysFitStep == ArraysInv /\ [Next]_vars => ArraysInv'
<1> SUFFICES ASSUME test \in Nat \ {0}, ArraysFit, [Next]_vars
             PROVE  test' \in Nat \ {0} /\ ArraysFit'
  BY DEF ArraysInv
<1>1. ASSUME UNCHANGED arg_test_vals PROVE ArraysFit'
  BY <1>1 DEF ArraysFit
<1>2. ASSUME GenVals PROVE ArraysFit'
  <2> DEFINE ranges == test_set[test].ranges
             Vals(a, draw) == IF has_arg[a] THEN <<argval[a]>>
                              ELSE gen_vals(ranges[a][1], ranges[a][2], test_range(Len(ranges)), draw)
  <2>1. PICK draw :
          /\ \A a \in 1 .. Len(ranges) :
               draw[a] \in (IF ranges[a] = Float \/ has_arg[a] THEN {Max(Draws)} ELSE ranges[a][1] .. ranges[a][2])
          /\ arg_test_vals' = [a \in 1 .. Len(ranges) |-> Vals(a, draw[a])]
    BY <1>2 DEF GenVals
  <2>2. ASSUME NEW a \in 1 .. Len(ranges)
        PROVE  Len(Vals(a, draw[a])) <= MAX_TEST_VALS
    <3>1. CASE has_arg[a]
      <4>1. Vals(a, draw[a]) = <<argval[a]>>
        BY <3>1, Zenon
      <4>2. MAX_TEST_VALS \in Nat /\ MAX_TEST_VALS >= 1
        BY RangeAssumption DEF MAX_TEST_VALS
      <4>3. Len(<<argval[a]>>) = 1
        OBVIOUS
      <4>4. QED
        BY <4>1, <4>2, <4>3
    <3>2. CASE ~has_arg[a]
      <4>1. test \in 1 .. Len(test_set)
        BY <1>2 DEF GenVals, Running
      <4>2. ranges[a] \in IntRanges \cup {Float}
        BY <4>1, TableRanges
      <4>3. PICK p \in IntRanges \cup {Float} : p = ranges[a]
        BY <4>2
      <4>4. PICK r \in 1 .. TEST_RANGE : r = test_range(Len(ranges))
        BY TestRangeFits
      <4>5. p # Float => draw[a] \in Int
        <5>1. ASSUME p # Float
              PROVE  draw[a] \in Int
          <6>1. p[1] \in Int /\ p[2] \in Int
            BY <5>1, NoneJustAsWide
          <6>2. draw[a] \in p[1] .. p[2]
            BY <2>1, <3>2, <4>3, <5>1, Zenon
          <6>3. QED
            BY <6>1, <6>2
        <5>2. QED
          BY <5>1
      <4>6. Vals(a, draw[a]) = gen_vals(p[1], p[2], r, draw[a])
        BY <3>2, <4>3, <4>4, Zenon
      <4>7. PICK d : d = draw[a] /\ (p # Float => d \in Int)
        BY <4>5
      <4>8. Len(gen_vals(p[1], p[2], r, d)) <= MAX_TEST_VALS
        BY <4>7, GenValsFits
      <4>9. QED
        BY <4>6, <4>7, <4>8, Zenon
    <3>3. QED
      BY <3>1, <3>2
  <2> HIDE DEF ranges, Vals
  <2>3. DOMAIN arg_test_vals' = 1 .. Len(ranges)
    BY <2>1
  <2>4. \A a \in 1 .. Len(ranges) : arg_test_vals'[a] = Vals(a, draw[a])
    BY <2>1
  <2>5. QED
    BY <2>2, <2>3, <2>4, Zenon DEF ArraysFit
<1>3. ASSUME arg_test_vals' = <<>> PROVE ArraysFit'
  BY <1>3 DEF ArraysFit
<1>4. UNCHANGED arg_test_vals \/ GenVals \/ arg_test_vals' = <<>>
  <2>1. CASE UNCHANGED vars
    BY <2>1 DEF vars
  <2>2. CASE ReadOption \/ StartTests \/ SkipTest \/ SetJump \/ SetAlarm \/ Finish
    BY <2>2 DEF ReadOption, StartTests, SkipTest, SetJump, SetAlarm, Finish, runvars
  <2>3. CASE Call
    BY <2>3 DEF Call, Return
  <2>4. CASE Alarm
    BY <2>4 DEF Alarm, Return
  <2>5. QED
    BY <2>1, <2>2, <2>3, <2>4 DEF Next
<1>5. test' \in {test, test + 1}
  <2>1. CASE UNCHANGED vars
    BY <2>1 DEF vars
  <2>2. CASE ReadOption \/ StartTests \/ SkipTest \/ GenVals \/ SetJump \/ SetAlarm \/ Finish
    BY <2>2 DEF ReadOption, StartTests, SkipTest, GenVals, SetJump, SetAlarm, Finish, runvars
  <2>3. CASE Call
    BY <2>3 DEF Call, Return
  <2>4. CASE Alarm
    BY <2>4 DEF Alarm, Return
  <2>5. QED
    BY <2>1, <2>2, <2>3, <2>4 DEF Next
<1>6. ArraysFit'
  BY <1>1, <1>2, <1>3, <1>4
<1>7. QED
  BY <1>5, <1>6

(***************************************************************************)
(* No call of gen_vals writes beyond its static array, for every           *)
(* TEST_RANGE of at least 4: the factor of MAX_TEST_VALS is enough for the *)
(* regions of the floats, for the samples, and, with the ranges of         *)
(* decl.c, for the exhaustive case (test_function:306).                    *)
(***************************************************************************)
THEOREM ArraysAlwaysFit == Spec => []ArraysFit
<1>1. Init => ArraysInv
  <2>1. Init => test = 1 /\ arg_test_vals = <<>>
    BY DEF Init
  <2>2. test = 1 /\ arg_test_vals = <<>> => ArraysInv
    BY DEF ArraysInv, ArraysFit
  <2>3. QED
    BY <2>1, <2>2
<1>2. ArraysInv => ArraysFit
  BY DEF ArraysInv
<1>3. QED
  BY <1>1, <1>2, ArraysFitStep, PTL DEF Spec

-----------------------------------------------------------------------------
(***************************************************************************)
(* The alarm is set before the first call and taken away only by the jump, *)
(* which leaves the function; the handler leaves SIGALRM unblocked.        *)
(***************************************************************************)
AlarmInv == ~blocked /\ (phase = "calls" /\ timeout_limit > 0 => alarm)

LEMMA AlarmStep == AlarmInv /\ [Next]_vars => AlarmInv'
<1> SUFFICES ASSUME AlarmInv, [Next]_vars
             PROVE  AlarmInv'
  OBVIOUS
<1>1. CASE UNCHANGED vars
  BY <1>1 DEF vars, optvars, AlarmInv
<1>2. CASE ReadOption
  <2>1. phase' # "calls" /\ UNCHANGED blocked
    BY <1>2 DEF ReadOption, SetArg, SetOption, runvars
  <2>2. QED
    BY <2>1 DEF AlarmInv
<1>3. CASE StartTests \/ SkipTest \/ GenVals \/ Finish
  BY <1>3 DEF StartTests, SkipTest, GenVals, Finish, Running, optvars, runvars, AlarmInv
<1>4. CASE SetJump
  BY <1>4 DEF SetJump, optvars, AlarmInv
<1>5. CASE SetAlarm
  BY <1>5 DEF SetAlarm, AlarmInv
<1>6. CASE Call
  BY <1>6 DEF Call, Return, optvars, AlarmInv
<1>7. CASE Alarm
  BY <1>7 DEF Alarm, Return, MaskAfterJump, optvars, AlarmInv
<1>8. QED
  BY <1>1, <1>2, <1>3, <1>4, <1>5, <1>6, <1>7 DEF Next

(***************************************************************************)
(* With a time limit, a call that does not return has an alarm on its way, *)
(* whatever was ended by an alarm before (test_function:350-357).          *)
(***************************************************************************)
THEOREM HangsAlwaysEnd == Spec => []HangsAreEnded
<1>1. Init => AlarmInv
  BY DEF Init, AlarmInv
<1>2. AlarmInv => HangsAreEnded
  BY DEF AlarmInv, HangsAreEnded
<1>3. QED
  BY <1>1, <1>2, AlarmStep, PTL DEF Spec

-----------------------------------------------------------------------------
(***************************************************************************)
(* Bits.  Which bits a shift leaves, for every word and every count.       *)
(***************************************************************************)
LEMMA WordsAreBits == \A v : Word(v) \subseteq Bit
  BY SMT DEF Word, Bit, Sign

LEMMA InShl ==
  ASSUME NEW x \in SUBSET Bit, NEW n \in Nat, NEW i \in Bit
  PROVE  i \in Shl(x, n) <=> i - n \in x
  BY SMT DEF Shl, Bit, Sign

LEMMA InShr ==
  ASSUME NEW x \in SUBSET Bit, NEW n \in Nat, NEW i \in Bit
  PROVE  i \in Shr(x, n) <=> i + n \in x
  BY SMT DEF Shr, Bit, Sign

LEMMA InSar ==
  ASSUME NEW x \in SUBSET Bit, NEW n \in 0 .. 32, NEW i \in Bit
  PROVE  i \in Sar(x, n) <=> i + n \in x \/ (31 \in x /\ i >= 32 - n)
<1>1. i \in Sar(x, n) <=> i \in Shr(x, n) \/ (31 \in x /\ i \in 32 - n .. 31)
  BY SMT DEF Sar, Sign
<1>2. i \in Shr(x, n) <=> i + n \in x
  BY InShr
<1>3. i \in Int /\ i <= 31
  BY DEF Bit, Sign
<1>4. QED
  BY <1>1, <1>2, <1>3

(* Shifts of words are words of bits.                                       *)
LEMMA ShiftsAreBits ==
  ASSUME NEW x \in SUBSET Bit, NEW n \in 0 .. 32
  PROVE  Shl(x, n) \subseteq Bit /\ Shr(x, n) \subseteq Bit /\ Sar(x, n) \subseteq Bit
<1>1. Shl(x, n) \subseteq Bit /\ Shr(x, n) \subseteq Bit
  BY DEF Shl, Shr
<1>2. 32 - n .. 31 \subseteq Bit
  BY SMT DEF Bit, Sign
<1>3. Sar(x, n) \subseteq Bit
  BY <1>1, <1>2, SMT DEF Sar, Sign
<1>4. QED
  BY <1>1, <1>3

(* A bit of a complement.                                                   *)
LEMMA InNot ==
  ASSUME NEW x, NEW i \in Bit
  PROVE  i \in Not(x) <=> i \notin x
  BY DEF Not

(***************************************************************************)
(* The mask of logicalShift clears what an arithmetic shift has copied     *)
(* from the sign (bits.c:165), and no more.                                *)
(***************************************************************************)
LEMMA ShiftsLogically ==
  ASSUME NEW x \in SUBSET Bit, NEW n \in 0 .. 31
  PROVE  logicalShift(x, n) = Shr(x, n)
<1> DEFINE high == Not(Shl(Bit, n))
           mask == Not(Shl(high, 32 - n))
<1>1. Bit \in SUBSET Bit /\ n \in Nat /\ n \in 0 .. 32 /\ 32 - n \in Nat /\ high \in SUBSET Bit
  BY DEF Not
<1>2. ASSUME NEW i \in Bit
      PROVE  i \in high <=> i < n
  <2>1. i \in high <=> ~(i - n \in Bit)
    BY <1>1, InNot, InShl
  <2>2. i \in Int /\ 0 <= i /\ i <= 31
    BY DEF Bit, Sign
  <2>3. i - n \in Bit <=> i >= n
    BY <2>2 DEF Bit, Sign
  <2>4. QED
    BY <1>1, <2>1, <2>2, <2>3
<1>3. ASSUME NEW i \in Bit
      PROVE  i \in mask <=> i < 32 - n
  <2>1. i \in mask <=> ~(i - (32 - n) \in high)
    <3> HIDE DEF high
    <3>1. i \in Shl(high, 32 - n) <=> i - (32 - n) \in high
      BY <1>1, InShl
    <3>2. QED
      BY <3>1, InNot
  <2>2. i \in Int /\ 0 <= i /\ i <= 31
    BY DEF Bit, Sign
  <2>3. i - (32 - n) \in high <=> i - (32 - n) >= 0
    <3>1. CASE i - (32 - n) >= 0
      <4>1. i - (32 - n) \in Bit /\ i - (32 - n) < n
        BY <2>2, <3>1 DEF Bit, Sign
      <4> HIDE DEF high
      <4>2. QED
        BY <1>2, <3>1, <4>1
    <3>2. CASE ~(i - (32 - n) >= 0)
      <4>1. i - (32 - n) \notin Bit
        BY <2>2, <3>2 DEF Bit, Sign
      <4>2. QED
        BY <1>1, <3>2, <4>1
    <3>3. QED
      BY <3>1, <3>2
  <2>4. QED
    BY <2>1, <2>2, <2>3
<1>4. logicalShift(x, n) = Sar(x, n) \cap mask
  BY DEF logicalShift
<1> HIDE DEF mask, high
<1>5. ASSUME NEW i \in Bit
      PROVE  i \in logicalShift(x, n) <=> i \in Shr(x, n)
  <2>1. i \in Sar(x, n) <=> i + n \in x \/ (31 \in x /\ i >= 32 - n)
    BY <1>1, InSar
  <2>2. i \in Shr(x, n) <=> i + n \in x
    BY <1>1, InShr
  <2>3. i + n \in x => i < 32 - n
    <3>1. ASSUME i + n \in x
          PROVE  i < 32 - n
      <4>1. i + n \in Bit /\ i \in Int
        BY <3>1 DEF Bit
      <4>2. QED
        BY <4>1 DEF Bit, Sign
    <3>2. QED
      BY <3>1
  <2>4. i \in Int
    BY DEF Bit
  <2>5. QED
    BY <1>3, <1>4, <2>1, <2>2, <2>3, <2>4
<1>6. logicalShift(x, n) \subseteq Bit /\ Shr(x, n) \subseteq Bit
  BY <1>1, <1>4, ShiftsAreBits
<1>7. QED
  BY <1>5, <1>6

(***************************************************************************)
(* A byte that is shifted down arithmetically is the byte (bits.c:154).    *)
(***************************************************************************)
LEMMA GetsByte ==
  ASSUME NEW x \in SUBSET Bit, NEW n \in 0 .. 3
  PROVE  getByte(x, n) = test_getByte(x, n)
<1>1. 8 * n \in 0 .. 32 /\ 8 * n \in Nat
  OBVIOUS
<1>2. test_getByte(x, n) = Shr(x, 8 * n) \cap 0 .. 7
  <2>1. (IF n \in 0 .. 2 THEN n ELSE 3) = n
    OBVIOUS
  <2>2. QED
    BY <2>1 DEF test_getByte
<1>3. ASSUME NEW i \in 0 .. 7
      PROVE  i \in Sar(x, 8 * n) <=> i \in Shr(x, 8 * n)
  <2>1. i \in Bit /\ ~(i >= 32 - 8 * n)
    BY DEF Bit, Sign
  <2>2. QED
    BY <1>1, <2>1, InSar, InShr
<1>4. QED
  BY <1>2, <1>3 DEF getByte

-----------------------------------------------------------------------------
(* A bit of a sum, as an equivalence.                                       *)
LEMMA InPlus ==
  ASSUME NEW x, NEW y, NEW i \in Bit
  PROVE  i \in Plus(x, y) <=> ~(i \in Xor(x, y) <=> Carry(x, y, i))
<1>1. i \in Plus(x, y) <=> (i \in Xor(x, y)) # Carry(x, y, i)
  BY DEF Plus
<1>2. (i \in Xor(x, y)) \in BOOLEAN /\ Carry(x, y, i) \in BOOLEAN
  BY DEF Carry
<1>3. \A a, b \in BOOLEAN : a # b <=> ~(a <=> b)
  OBVIOUS
<1>4. ((i \in Xor(x, y)) # Carry(x, y, i)) <=> ~(i \in Xor(x, y) <=> Carry(x, y, i))
  BY <1>2, <1>3
<1>5. QED
  BY <1>1, <1>4

(***************************************************************************)
(* The carry of an increment runs through the bits below the lowest zero.  *)
(***************************************************************************)
LEMMA IncrementCarries ==
  ASSUME NEW x \in SUBSET Bit, NEW i \in Bit
  PROVE  Carry(x, One, i) <=> 0 < i /\ 0 .. i - 1 \subseteq x
<1>1. i \in Int /\ 0 <= i /\ 0 \in Bit
  BY DEF Bit, Sign
<1>2. ASSUME Carry(x, One, i)
      PROVE  0 < i /\ 0 .. i - 1 \subseteq x
  <2>1. PICK j \in x \cap One : j < i /\ (j + 1) .. (i - 1) \subseteq x \cup One
    BY <1>2 DEF Carry
  <2>2. j = 0 /\ 0 \in x
    BY <2>1 DEF One
  <2>3. \A k \in 0 .. i - 1 : k \in x
    <3>1. ASSUME NEW k \in 0 .. i - 1, k # 0
          PROVE  k \in x
      <4>1. k \in (j + 1) .. (i - 1)
        BY <1>1, <2>2, <3>1
      <4>2. QED
        BY <2>1, <3>1, <4>1 DEF One
    <3>2. QED
      BY <2>2, <3>1
  <2>4. QED
    BY <2>1, <2>2, <2>3
<1>3. ASSUME 0 < i, 0 .. i - 1 \subseteq x
      PROVE  Carry(x, One, i)
  <2>1. 0 \in x \cap One /\ (0 + 1) .. (i - 1) \subseteq x \cup One
    BY <1>1, <1>3 DEF One
  <2>2. QED
    BY <1>3, <2>1 DEF Carry
<1>4. QED
  BY <1>2, <1>3

\* the bits above m that x does not have, and m
Complemented(x, m) == {i \in Bit : i = m \/ (m < i /\ i \notin x)}

(***************************************************************************)
(* The two's complement keeps the lowest one bit and what is below, and    *)
(* complements what is above.                                              *)
(***************************************************************************)
LEMMA MinusComplements ==
  ASSUME NEW x \in SUBSET Bit, NEW m \in x, \A k \in x : m <= k
  PROVE  Minus(x) = Complemented(x, m)
<1>1. m \in Bit /\ m \in Int /\ 0 <= m /\ \A k \in x : k \in Bit /\ k \in Int
  BY DEF Bit, Sign
<1>2. ASSUME NEW i \in Bit
      PROVE  i \in Minus(x) <=> i = m \/ (m < i /\ i \notin x)
  <2>1. i \in Int /\ 0 <= i
    BY DEF Bit, Sign
  <2>2. Not(x) \in SUBSET Bit
    BY DEF Not
  <2>3. Carry(Not(x), One, i) <=> 0 < i /\ 0 .. i - 1 \subseteq Not(x)
    BY <2>2, IncrementCarries
  <2>4. 0 .. i - 1 \subseteq Not(x) <=> i <= m
    <3>1. ASSUME i <= m
          PROVE  0 .. i - 1 \subseteq Not(x)
      <4>1. ASSUME NEW k \in 0 .. i - 1
            PROVE  k \in Not(x)
        <5>1. k \in Bit /\ k < m
          BY <1>1, <2>1, <3>1 DEF Bit, Sign
        <5>2. k \notin x
          BY <1>1, <5>1
        <5>3. QED
          BY <5>1, <5>2, InNot
      <4>2. QED
        BY <4>1
    <3>2. ASSUME ~(i <= m)
          PROVE  ~(0 .. i - 1 \subseteq Not(x))
      <4>1. m \in 0 .. i - 1
        BY <1>1, <2>1, <3>2
      <4>2. m \notin Not(x)
        BY <1>1, InNot
      <4>3. QED
        BY <4>1, <4>2
    <3>3. QED
      BY <3>1, <3>2
  <2>5. i \in Xor(Not(x), One) <=> IF i = 0 THEN i \in x ELSE i \notin x
    BY InNot DEF Xor, One
  <2>6. i \in Minus(x) <=> ~(i \in Xor(Not(x), One) <=> Carry(Not(x), One, i))
    BY InPlus DEF Minus
  <2>7. i \in x => m <= i
    OBVIOUS
  <2>8. i = m => i \in x
    OBVIOUS
  <2>9. QED
    BY <1>1, <2>1, <2>3, <2>4, <2>5, <2>6, <2>7, <2>8
<1>3. Minus(x) \subseteq Bit
  BY DEF Minus, Plus
<1>4. QED
  BY <1>2, <1>3 DEF Complemented

(* The negative of 0 is 0: the carry of the increment leaves the word.      *)
LEMMA MinusNothing == Minus({}) = {}
<1>1. ASSUME NEW i \in Bit
      PROVE  i \notin Minus({})
  <2>1. i \in Int /\ 0 <= i /\ i <= 31
    BY DEF Bit, Sign
  <2>2. Not({}) \in SUBSET Bit /\ {} \in SUBSET Bit
    BY DEF Not
  <2>3. Carry(Not({}), One, i) <=> 0 < i /\ 0 .. i - 1 \subseteq Not({})
    BY <2>2, IncrementCarries
  <2>4. 0 .. i - 1 \subseteq Not({})
    BY <2>1 DEF Not, Bit, Sign
  <2>5. i \in Xor(Not({}), One) <=> i # 0
    BY InNot DEF Xor, One
  <2>6. i \in Minus({}) <=> ~(i \in Xor(Not({}), One) <=> Carry(Not({}), One, i))
    BY InPlus DEF Minus
  <2>7. QED
    BY <2>1, <2>3, <2>4, <2>5, <2>6
<1>2. Minus({}) \subseteq Bit
  BY DEF Minus, Plus
<1>3. QED
  BY <1>1, <1>2

(* A word that is not 0 has a lowest one bit.                               *)
LEMMA LowestBit ==
  ASSUME NEW x \in SUBSET Bit, x # {}
  PROVE  \E m \in x : m \in Bit /\ \A k \in x : m <= k
<1>1. x \in SUBSET Nat
  BY DEF Bit
<1>2. QED
  BY <1>1, SmallestExists

(***************************************************************************)
(* A word and its complement have the lowest one bit in common; from it    *)
(* the second complement reaches up to the sign (bits.c:199).              *)
(***************************************************************************)
LEMMA Bangs ==
  ASSUME NEW x \in SUBSET Bit
  PROVE  bang(x) = test_bang(x)
<1> DEFINE lowest == x \cap Minus(x)
<1>1. CASE x = {}
  <2>1. lowest = {}
    BY <1>1
  <2>2. Minus(lowest) = {}
    <3> HIDE DEF lowest
    <3> QED BY <2>1, MinusNothing
  <2>3. Sar({}, 31) = {}
    BY SMT DEF Sar, Shr
  <2>4. Not({}) \cap One = One
    BY SMT DEF Not, One, Bit, Sign
  <2>5. bang(x) = Not(Sar(Minus(lowest), 31)) \cap One
    BY DEF bang
  <2> HIDE DEF lowest
  <2>6. QED
    BY <1>1, <2>2, <2>3, <2>4, <2>5 DEF test_bang, Truth
<1>2. CASE x # {}
  <2>1. PICK m \in x : m \in Bit /\ \A k \in x : m <= k
    BY <1>2, LowestBit
  <2>2. Minus(x) = Complemented(x, m)
    BY <2>1, MinusComplements
  <2>3. m \in Int /\ m <= 31
    BY <2>1 DEF Bit, Sign
  <2>4. lowest = {m}
    BY <2>1, <2>2, <2>3 DEF Complemented
  <2>5. Minus({m}) = Complemented({m}, m)
    <3>1. PICK y \in SUBSET Bit : y = {m}
      BY <2>1
    <3>2. m \in y /\ \A k \in y : m <= k
      BY <2>3, <3>1
    <3>3. QED
      BY <3>1, <3>2, MinusComplements
  <2>6. 31 \in Minus({m}) /\ Minus({m}) \in SUBSET Bit
    <3>1. 31 \in Bit
      BY SMT DEF Bit, Sign
    <3>2. 31 = m \/ (m < 31 /\ 31 \notin {m})
      BY <2>3
    <3>3. QED
      BY <2>5, <3>1, <3>2 DEF Complemented
  <2>7. 0 \in Sar(Minus({m}), 31)
    <3>1. 0 \in Bit /\ 31 \in 0 .. 32 /\ 0 + 31 = 31
      BY SMT DEF Bit, Sign
    <3>2. PICK w \in SUBSET Bit : w = Minus({m})
      BY <2>6
    <3>3. 0 \in Sar(w, 31) <=> 0 + 31 \in w \/ (31 \in w /\ 0 >= 32 - 31)
      BY <3>1, InSar
    <3>4. QED
      BY <2>6, <3>1, <3>2, <3>3
  <2>8. bang(x) = Not(Sar(Minus(lowest), 31)) \cap One
    BY DEF bang
  <2> HIDE DEF lowest
  <2>9. bang(x) = {}
    BY <2>4, <2>7, <2>8 DEF Not, One
  <2>10. QED
    BY <1>2, <2>9 DEF test_bang, Truth
<1>3. QED
  BY <1>1, <1>2

(***************************************************************************)
(* What negate means, without a reference: a word and its negative add up  *)
(* to 0 in 32 bits (bits.c:246).                                           *)
(***************************************************************************)
THEOREM NegativeAddsUp ==
  ASSUME NEW x \in SUBSET Bit
  PROVE  Plus(x, negate(x)) = {}
<1>1. CASE x = {}
  <2>1. negate(x) = {}
    BY <1>1, MinusNothing DEF negate
  <2>2. ASSUME NEW i \in Bit
        PROVE  i \notin Plus({}, {})
    <3>1. i \notin Xor({}, {}) /\ ~Carry({}, {}, i)
      BY DEF Xor, Carry
    <3>2. QED
      BY <3>1, InPlus
  <2>3. Plus({}, {}) \subseteq Bit
    BY DEF Plus
  <2>4. QED
    BY <1>1, <2>1, <2>2, <2>3
<1>2. CASE x # {}
  <2>1. PICK m \in x : m \in Bit /\ \A k \in x : m <= k
    BY <1>2, LowestBit
  <2>2. PICK y : y = negate(x) /\ y = Complemented(x, m)
    BY <2>1, MinusComplements DEF negate
  <2>3. m \in Int /\ \A k \in x : k \in Bit /\ k \in Int
    BY <2>1 DEF Bit
  <2>4. ASSUME NEW i \in Bit
        PROVE  i \notin Plus(x, y)
    <3>1. i \in Int
      BY DEF Bit
    <3>2. i \in Xor(x, y) <=> m < i
      BY <2>1, <2>2, <2>3, <3>1 DEF Xor, Complemented
    <3>3. Carry(x, y, i) <=> m < i
      <4>1. ASSUME m < i
            PROVE  Carry(x, y, i)
        <5>1. m \in x \cap y
          BY <2>1, <2>2 DEF Complemented
        <5>2. (m + 1) .. (i - 1) \subseteq x \cup y
          <6>1. ASSUME NEW k \in (m + 1) .. (i - 1)
                PROVE  k \in x \cup y
            <7>1. k \in Bit /\ m < k
              BY <2>1, <2>3, <3>1 DEF Bit, Sign
            <7>2. QED
              BY <2>2, <7>1 DEF Complemented
          <6>2. QED
            BY <6>1
        <5>3. QED
          BY <4>1, <5>1, <5>2 DEF Carry
      <4>2. ASSUME Carry(x, y, i)
            PROVE  m < i
        <5>1. PICK j \in x \cap y : j < i
          BY <4>2 DEF Carry
        <5>2. m <= j /\ j \in Int
          BY <2>1, <2>3, <5>1
        <5>3. QED
          BY <2>3, <3>1, <5>1, <5>2
      <4>3. QED
        BY <4>1, <4>2
    <3>4. i \in Plus(x, y) <=> ~(i \in Xor(x, y) <=> Carry(x, y, i))
      BY InPlus
    <3>5. QED
      BY <3>2, <3>3, <3>4
  <2>5. Plus(x, y) \subseteq Bit
    BY DEF Plus
  <2>6. QED
    BY <2>2, <2>4, <2>5
<1>3. QED
  BY <1>1, <1>2

-----------------------------------------------------------------------------
\* the puzzles that work on bits alone, and so does their reference
SetPuzzles == {"bitAnd", "getByte", "logicalShift", "bang", "tmin", "float_neg"}

\* the second arguments that the table allows
InRange(name, n) ==
  /\ name = "getByte" => n \in 0 .. 3
  /\ name = "logicalShift" => n \in 0 .. 31

(***************************************************************************)
(* These puzzles equal their references on all words, and all second       *)
(* arguments of their range (bits.c, tests.c).                             *)
(***************************************************************************)
THEOREM SetPuzzlesAgree ==
  ASSUME NEW name \in SetPuzzles, NEW x \in SUBSET Bit, NEW y \in SUBSET Bit, NEW n,
         InRange(name, n)
  PROVE  Agrees(name, x, y, n)
<1>1. CASE name = "bitAnd"
  <2>1. bitAnd(x, y) = test_bitAnd(x, y)
    BY DEF bitAnd, test_bitAnd, Not
  <2>2. QED
    BY <1>1, <2>1 DEF Agrees
<1>2. CASE name = "getByte"
  <2>1. getByte(x, n) = test_getByte(x, n)
    BY <1>2, GetsByte DEF InRange
  <2>2. QED
    BY <1>2, <2>1 DEF Agrees
<1>3. CASE name = "logicalShift"
  <2>1. logicalShift(x, n) = test_logicalShift(x, n)
    BY <1>3, ShiftsLogically DEF InRange, test_logicalShift
  <2>2. QED
    BY <1>3, <2>1 DEF Agrees
<1>4. CASE name = "bang"
  <2>1. bang(x) = test_bang(x)
    BY Bangs
  <2>2. QED
    BY <1>4, <2>1 DEF Agrees
<1>5. CASE name = "tmin"
  <2>1. tmin = test_tmin
    BY SMT DEF tmin, test_tmin, Shl, One, Bit, Sign
  <2>2. QED
    BY <1>5, <2>1 DEF Agrees
<1>6. CASE name = "float_neg"
  <2>1. float_neg(x) = test_float_neg(x)
    BY DEF float_neg, test_float_neg, NaN, FloatMinus
  <2>2. QED
    BY <1>6, <2>1 DEF Agrees
<1>7. QED
  BY <1>1, <1>2, <1>3, <1>4, <1>5, <1>6 DEF SetPuzzles

\* all numbers up to max, as gen_vals lists a small range
Listed(vals, max) == Len(vals) = max + 1 /\ \A k \in 1 .. max + 1 : vals[k] \in 0 .. max

(* A range of at most 52 values is listed (gen_vals:198).                   *)
LEMMA SmallRangeListed ==
  ASSUME NEW max \in {3, 31}, NEW r, NEW draw
  PROVE  Listed(gen_vals(0, max, r, draw), max)
<1>1. max - MAX_TEST_VALS <= 0
  BY RangeAssumption DEF MAX_TEST_VALS
<1>2. <<0, max>> # Float
  BY DEF Float
<1>3. gen_vals(0, max, r, draw) = [i \in 1 .. max - 0 + 1 |-> 0 + i - 1]
  BY <1>1, <1>2, Zenon DEF gen_vals
<1>4. PICK n \in Nat : n = max - 0 + 1 /\ n = max + 1
  OBVIOUS
<1>5. PICK vals : vals = [i \in 1 .. n |-> 0 + i - 1]
  OBVIOUS
<1>6. Len(vals) = n /\ \A k \in 1 .. n : vals[k] \in 0 .. max
  BY <1>4, <1>5, SMT
<1>7. QED
  BY <1>3, <1>4, <1>5, <1>6 DEF Listed

(* The second arguments of the two functions that shift.                    *)
SecondIn(max) == Len(arg_test_vals) = 2 /\ Listed(arg_test_vals[2], max)
Numbers == test \in Nat \ {0} /\ calls \in Nat /\ errors \in Nat
SecondsInv ==
  /\ Numbers
  /\ phase \in {"generated", "jump", "calls"} /\ ~has_arg[2] =>
       /\ test_set[test].name = "getByte" => SecondIn(3)
       /\ test_set[test].name = "logicalShift" => SecondIn(31)

(* The ranges that decl.c lists for the shift counts and byte numbers.      *)
LEMMA ShiftsInTable ==
  ASSUME NEW t \in 1 .. Len(test_set)
  PROVE  /\ test_set[t].name = "getByte" =>
              Len(test_set[t].ranges) = 2 /\ test_set[t].ranges[2] = <<0, 3>>
         /\ test_set[t].name = "logicalShift" =>
              Len(test_set[t].ranges) = 2 /\ test_set[t].ranges[2] = <<0, 31>>
<1> DEFINE W == <<TMin, TMax>>
           Row(u) == /\ test_set[u].name = "getByte" =>
                          Len(test_set[u].ranges) = 2 /\ test_set[u].ranges[2] = <<0, 3>>
                     /\ test_set[u].name = "logicalShift" =>
                          Len(test_set[u].ranges) = 2 /\ test_set[u].ranges[2] = <<0, 31>>
<1> HIDE DEF W
<1>1. Len(test_set) = 15
  BY DEF test_set
<1>2. /\ test_set[1].name = "bitAnd" /\ test_set[2].name = "getByte"
      /\ test_set[3].name = "logicalShift" /\ test_set[4].name = "bitCount"
      /\ test_set[5].name = "bang" /\ test_set[6].name = "tmin"
      /\ test_set[7].name = "fitsBits" /\ test_set[8].name = "divpwr2"
  BY DEF test_set, W
<1>3. /\ test_set[9].name = "negate" /\ test_set[10].name = "isPositive"
      /\ test_set[11].name = "isLessOrEqual" /\ test_set[12].name = "ilog2"
      /\ test_set[13].name = "float_neg" /\ test_set[14].name = "float_i2f"
      /\ test_set[15].name = "float_twice"
  BY DEF test_set, W
<1>4. test_set[2].ranges = <<W, <<0, 3>>>> /\ test_set[3].ranges = <<W, <<0, 31>>>>
  BY DEF test_set, W
<1>5. Row(2) /\ Row(3)
  BY <1>2, <1>4
<1>6. /\ Row(1) /\ Row(4) /\ Row(5) /\ Row(6) /\ Row(7) /\ Row(8) /\ Row(9) /\ Row(10)
      /\ Row(11) /\ Row(12) /\ Row(13) /\ Row(14) /\ Row(15)
  BY <1>2, <1>3
<1>7. \/ t = 1 \/ t = 2 \/ t = 3 \/ t = 4 \/ t = 5 \/ t = 6 \/ t = 7 \/ t = 8
      \/ t = 9 \/ t = 10 \/ t = 11 \/ t = 12 \/ t = 13 \/ t = 14 \/ t = 15
  BY <1>1
<1> HIDE DEF Row
<1>8. Row(t)
  BY <1>5, <1>6, <1>7
<1>9. QED
  BY <1>8 DEF Row

(* gen_vals gives the second arguments, and nothing changes them until the  *)
(* function is done.                                                        *)
LEMMA SecondsGenerated ==
  ASSUME GenVals, ~has_arg[2], NEW max \in {3, 31},
         Len(test_set[test].ranges) = 2, test_set[test].ranges[2] = <<0, max>>
  PROVE  SecondIn(max)'
<1> DEFINE ranges == test_set[test].ranges
           Vals(a, draw) == IF has_arg[a] THEN <<argval[a]>>
                            ELSE gen_vals(ranges[a][1], ranges[a][2], test_range(Len(ranges)), draw)
<1>1. PICK draw : arg_test_vals' = [a \in 1 .. Len(ranges) |-> Vals(a, draw[a])]
  BY DEF GenVals
<1>2. PICK r, d : r = test_range(Len(ranges)) /\ d = draw[2]
  OBVIOUS
<1>3. Vals(2, draw[2]) = gen_vals(0, max, r, d)
  BY <1>2
<1> HIDE DEF Vals
<1>4. arg_test_vals' = [a \in 1 .. 2 |-> Vals(a, draw[a])]
  BY <1>1
<1>5. Len(arg_test_vals') = 2 /\ arg_test_vals'[2] = Vals(2, draw[2])
  BY <1>4
<1>6. Listed(gen_vals(0, max, r, d), max)
  BY SmallRangeListed
<1>7. QED
  BY <1>3, <1>5, <1>6 DEF SecondIn

(* A step keeps the second arguments of the function at hand.               *)
LEMMA SecondsStep == SecondsInv /\ [Next]_vars => SecondsInv'
<1> SUFFICES ASSUME SecondsInv, [Next]_vars
             PROVE  SecondsInv'
  OBVIOUS
<1>1. ASSUME Numbers', phase' \notin {"generated", "jump", "calls"}
      PROVE  SecondsInv'
  BY <1>1 DEF SecondsInv, Numbers
<1>2. ASSUME Numbers', phase \in {"generated", "jump", "calls"},
             UNCHANGED <<has_arg, test, arg_test_vals>>
      PROVE  SecondsInv'
  BY <1>2 DEF SecondsInv, SecondIn, Numbers
<1>3. Numbers
  BY DEF SecondsInv
<1>4. Numbers'
  <2>1. CASE UNCHANGED vars
    BY <1>3, <2>1 DEF vars, Numbers
  <2>2. CASE ReadOption \/ StartTests \/ GenVals \/ SetJump \/ SetAlarm \/ Finish
    BY <1>3, <2>2 DEF ReadOption, StartTests, GenVals, SetJump, SetAlarm, Finish, runvars, Numbers
  <2>3. CASE SkipTest
    BY <1>3, <2>3 DEF SkipTest, Numbers
  <2>4. CASE Call
    BY <1>3, <2>4 DEF Call, Return, Numbers
  <2>5. CASE Alarm
    BY <1>3, <2>5 DEF Alarm, Return, Numbers
  <2>6. QED
    BY <2>1, <2>2, <2>3, <2>4, <2>5 DEF Next
<1>5. CASE UNCHANGED vars
  BY <1>5 DEF vars, optvars, SecondsInv, SecondIn, Numbers
<1>6. CASE ReadOption
  <2>1. phase = "options" /\ phase' \in {phase, "exited"}
    BY <1>6 DEF ReadOption, SetArg, SetOption
  <2>2. QED
    BY <1>1, <1>4, <2>1
<1>7. CASE StartTests \/ SkipTest \/ Finish
  <2>1. phase' \in {"run", "done"}
    BY <1>7 DEF StartTests, SkipTest, Finish, Running
  <2>2. QED
    BY <1>1, <1>4, <2>1
<1>8. CASE GenVals
  <2>1. test' = test /\ has_arg' = has_arg /\ phase' = "generated"
    BY <1>8 DEF GenVals, optvars
  <2>2. test \in 1 .. Len(test_set)
    <3>1. test <= Len(test_set) /\ Len(test_set) = 15
      BY <1>8 DEF GenVals, Running, test_set
    <3>2. QED
      BY <1>3, <3>1 DEF Numbers
  <2>3. ASSUME ~has_arg[2], test_set[test].name = "getByte"
        PROVE  SecondIn(3)'
    <3>1. Len(test_set[test].ranges) = 2 /\ test_set[test].ranges[2] = <<0, 3>>
      BY <2>2, <2>3, ShiftsInTable
    <3>2. QED
      BY <1>8, <2>3, <3>1, SecondsGenerated
  <2>4. ASSUME ~has_arg[2], test_set[test].name = "logicalShift"
        PROVE  SecondIn(31)'
    <3>1. Len(test_set[test].ranges) = 2 /\ test_set[test].ranges[2] = <<0, 31>>
      BY <2>2, <2>4, ShiftsInTable
    <3>2. QED
      BY <1>8, <2>4, <3>1, SecondsGenerated
  <2>5. QED
    BY <1>4, <2>1, <2>3, <2>4 DEF SecondsInv
<1>9. CASE SetJump \/ SetAlarm
  <2>1. phase \in {"generated", "jump"} /\ UNCHANGED <<has_arg, test, arg_test_vals>>
    BY <1>9 DEF SetJump, SetAlarm, optvars
  <2>2. QED
    BY <1>2, <1>4, <2>1
<1>10. CASE Call
  <2>1. CASE phase' = "run"
    BY <1>1, <1>4, <2>1
  <2>2. CASE UNCHANGED <<phase, test, arg_test_vals>>
    <3>1. phase = "calls" /\ has_arg' = has_arg
      BY <1>10 DEF Call, optvars
    <3>2. QED
      BY <1>2, <1>4, <2>2, <3>1
  <2>3. QED
    BY <1>10, <2>1, <2>2 DEF Call, Return
<1>11. CASE Alarm
  <2>1. phase' \in {"run", "undefined"}
    BY <1>11 DEF Alarm, Return
  <2>2. QED
    BY <1>1, <1>4, <2>1
<1>12. QED
  BY <1>5, <1>6, <1>7, <1>8, <1>9, <1>10, <1>11 DEF Next

\* a call of these puzzles adds no error, unless the second argument is given
NoErrorOfPuzzles ==
  Call /\ ~has_arg[2] /\ test_set[test].name \in SetPuzzles => UNCHANGED errors

(* What a call picks from its second arguments is in the range.             *)
LEMMA SecondInRange ==
  ASSUME SecondsInv, NEW max \in {3, 31}, SecondIn(max)
  PROVE  Arg(2) \in 0 .. max
<1>1. calls \in Nat /\ Len(arg_test_vals) = 2 /\ Len(arg_test_vals[2]) = max + 1
      /\ \A k \in 1 .. max + 1 : arg_test_vals[2][k] \in 0 .. max
  BY DEF SecondsInv, SecondIn, Listed, Numbers
<1>2. Arg(2) = arg_test_vals[2][(calls % (max + 1)) + 1]
  BY <1>1 DEF Arg
<1>3. (calls % (max + 1)) + 1 \in 1 .. max + 1
  BY <1>1
<1>4. QED
  BY <1>1, <1>2, <1>3

(* A call with arguments in range gets the answer of the reference.         *)
LEMMA PuzzlesAreCorrect ==
  ASSUME SecondsInv, phase = "calls", ~has_arg[2], test_set[test].name \in SetPuzzles
  PROVE  Correct
<1>1. PICK name \in SetPuzzles : name = test_set[test].name
  OBVIOUS
<1>2. PICK n : n = Arg(2)
  OBVIOUS
<1>3. PICK x \in SUBSET Bit, y \in SUBSET Bit : x = Word(Arg(1)) /\ y = Word(Arg(2))
  BY WordsAreBits
<1>4. name = "getByte" => n \in 0 .. 3
  <2>1. ASSUME name = "getByte"
        PROVE  n \in 0 .. 3
    <3>1. SecondIn(3)
      BY <1>1, <2>1 DEF SecondsInv
    <3>2. QED
      BY <1>2, <3>1, SecondInRange
  <2>2. QED
    BY <2>1
<1>5. name = "logicalShift" => n \in 0 .. 31
  <2>1. ASSUME name = "logicalShift"
        PROVE  n \in 0 .. 31
    <3>1. SecondIn(31)
      BY <1>1, <2>1 DEF SecondsInv
    <3>2. QED
      BY <1>2, <3>1, SecondInRange
  <2>2. QED
    BY <2>1
<1>6. Agrees(name, x, y, n)
  BY <1>4, <1>5, SetPuzzlesAgree DEF InRange
<1>7. QED
  BY <1>1, <1>2, <1>3, <1>6 DEF Correct

(***************************************************************************)
(* Whatever the options, the random values and TEST_RANGE, a call of a     *)
(* puzzle that works on bits alone is right: only an alarm, or a second    *)
(* argument out of its range on the command line, makes it lose points     *)
(* (test_function:360, run_tests:424).                                     *)
(***************************************************************************)
THEOREM PuzzlesKeepTheirPoints == Spec => [][NoErrorOfPuzzles]_vars
<1>1. Init => SecondsInv
  <2>1. Init => phase = "options" /\ test = 1 /\ calls = 0 /\ errors = 0
    BY DEF Init
  <2>2. QED
    BY <2>1 DEF SecondsInv, Numbers
<1>2. SecondsInv /\ [Next]_vars => [NoErrorOfPuzzles]_vars
  <2> SUFFICES ASSUME SecondsInv, Call, ~has_arg[2], test_set[test].name \in SetPuzzles
               PROVE  UNCHANGED errors
    BY DEF NoErrorOfPuzzles
  <2>1. phase = "calls"
    BY DEF Call
  <2>2. Correct
    BY <2>1, PuzzlesAreCorrect
  <2>3. errors \in Nat
    BY DEF SecondsInv, Numbers
  <2>4. QED
    BY <2>2, <2>3 DEF Call, Return
<1>3. QED
  BY <1>1, <1>2, SecondsStep, PTL DEF Spec
=============================================================================

-------------------------------- MODULE Btest --------------------------------
(***************************************************************************)
(* btest.c: every function of the table in decl.c is called on generated   *)
(* arguments and compared with its reference, and an alarm ends a function *)
(* that runs too long by a jump out of the handler.  The table has no      *)
(* function of three arguments.                                            *)
(***************************************************************************)
EXTENDS Bits

CONSTANTS
  CommandLines, \* sequences of options: [opt, val], with [arg, kind] for -1, -2, -3
  TEST_RANGE,
  Draws,        \* values that random_val may return
  MaxAlarms     \* alarms that come although the function would return

ASSUME RangeAssumption == TEST_RANGE \in Nat /\ TEST_RANGE >= 4

VARIABLES
  argv,          \* options not yet read
  has_arg, argval, timeout_limit, test_fname, global_rating,
  phase,         \* "options", "run", "generated", "jump", "calls", "done", "exited", "undefined"
  test,          \* index in test_set
  arg_test_vals, \* of each argument
  calls,         \* of this function so far
  envbuf,        \* the test whose frame sigsetjmp saved, 0 for none
  alarm,         \* an alarm is set or pending
  blocked,       \* SIGALRM is blocked
  points, max_points, errors,
  late           \* history: the tests that the alarm ended

optvars == <<has_arg, argval, timeout_limit, test_fname, global_rating>>
vars == <<argv, optvars, phase, test, arg_test_vals, calls, envbuf, alarm, blocked, points, max_points, errors, late>>

TMax == 2147483647
TMin == -TMax - 1
MAX_TEST_VALS == 13 * TEST_RANGE
Float == <<1, 1>>

test_set == <<
  [name |-> "bitAnd", rating |-> 1, ranges |-> <<<<TMin, TMax>>, <<TMin, TMax>>>>],
  [name |-> "getByte", rating |-> 2, ranges |-> <<<<TMin, TMax>>, <<0, 3>>>>],
  [name |-> "logicalShift", rating |-> 3, ranges |-> <<<<TMin, TMax>>, <<0, 31>>>>],
  [name |-> "bitCount", rating |-> 4, ranges |-> <<<<TMin, TMax>>>>],
  [name |-> "bang", rating |-> 4, ranges |-> <<<<TMin, TMax>>>>],
  [name |-> "tmin", rating |-> 1, ranges |-> <<>>],
  [name |-> "fitsBits", rating |-> 2, ranges |-> <<<<TMin, TMax>>, <<1, 32>>>>],
  [name |-> "divpwr2", rating |-> 2, ranges |-> <<<<TMin, TMax>>, <<0, 30>>>>],
  [name |-> "negate", rating |-> 2, ranges |-> <<<<TMin, TMax>>>>],
  [name |-> "isPositive", rating |-> 3, ranges |-> <<<<TMin, TMax>>>>],
  [name |-> "isLessOrEqual", rating |-> 3, ranges |-> <<<<TMin, TMax>>, <<TMin, TMax>>>>],
  [name |-> "ilog2", rating |-> 4, ranges |-> <<<<1, TMax>>>>],
  [name |-> "float_neg", rating |-> 2, ranges |-> <<Float>>],
  [name |-> "float_i2f", rating |-> 4, ranges |-> <<Float>>],
  [name |-> "float_twice", rating |-> 4, ranges |-> <<Float>>] >>

Agrees(name, x, y, n) ==
  CASE name = "bitAnd" -> bitAnd(x, y) = test_bitAnd(x, y)
    [] name = "getByte" -> getByte(x, n) = test_getByte(x, n)
    [] name = "logicalShift" -> logicalShift(x, n) = test_logicalShift(x, n)
    [] name = "bitCount" -> bitCount(x) = test_bitCount(x)
    [] name = "bang" -> bang(x) = test_bang(x)
    [] name = "tmin" -> tmin = test_tmin
    [] name = "fitsBits" -> fitsBits(x, n) = test_fitsBits(x, n)
    [] name = "divpwr2" -> divpwr2(x, n) = test_divpwr2(x, n)
    [] name = "negate" -> negate(x) = test_negate(x)
    [] name = "isPositive" -> isPositive(x) = test_isPositive(x)
    [] name = "isLessOrEqual" -> isLessOrEqual(x, y) = test_isLessOrEqual(x, y)
    [] name = "ilog2" -> ilog2(x) = test_ilog2(x)
    [] name = "float_neg" -> float_neg(x) = test_float_neg(x)
    [] name = "float_i2f" -> float_i2f(x) = test_float_i2f(x)
    [] name = "float_twice" -> float_twice(x) = test_float_twice(x)
\* The loop of test_ilog2 does not end without a one bit.
Hangs(name, x) == name = "ilog2" /\ ~Returns_ilog2(x)

-----------------------------------------------------------------------------
Negated(v) == (v - 2^30) - 2^30  \* sign | v
smallest_norm == \h00800000
one == \h3f800000
largest_norm == \h7f000000
inf == \h7f800000
nan == \h7fc00000

BothSigns(vs) == vs \o [k \in 1 .. Len(vs) |-> Negated(vs[k])]
\* MUTANT: a region above the largest norm too, and MAX_TEST_VALS left alone
RegionsAbove(i) == <<i, smallest_norm + i, smallest_norm - i, one + i, one - i, largest_norm - i, largest_norm + i>>
Regions(i) == <<i, smallest_norm + i, smallest_norm - i, one + i, one - i, largest_norm - i>>
FloatVals(r) == FlattenSeq([k \in 1 .. r |-> BothSigns(Regions(k - 1))]) \o BothSigns(<<inf, nan>>)
\* v, if it is in the range
Within(v, min, max) == IF v \in min .. max THEN <<v>> ELSE <<>>
Sampled(min, max, r, draw) ==
  FlattenSeq([i \in 1 .. r |->
    <<min + i - 1, max - i + 1>> \o Within(i - 1, min, max) \o Within(1 - i, min, max) \o <<draw>>])
gen_vals(min, max, r, draw) ==
  IF <<min, max>> = Float THEN FloatVals(IF r > 2^23 THEN 2^23 ELSE r)
  ELSE IF max - MAX_TEST_VALS <= min THEN [i \in 1 .. max - min + 1 |-> min + i - 1]
  ELSE Sampled(min, max, r, draw)

test_range(args) ==
  IF args = 1 THEN TEST_RANGE ELSE CHOOSE r \in 1 .. TEST_RANGE : r * r <= TEST_RANGE /\ TEST_RANGE < (r + 1) * (r + 1)

-----------------------------------------------------------------------------
(* main: the options.                                                      *)

Init ==
  /\ argv \in CommandLines
  /\ has_arg = [a \in 1 .. 3 |-> FALSE] /\ argval = [a \in 1 .. 3 |-> 0]
  /\ timeout_limit = 10 /\ test_fname = "" /\ global_rating = 0
  /\ phase = "options" /\ test = 1 /\ arg_test_vals = <<>> /\ calls = 0
  /\ envbuf = 0 /\ alarm = FALSE /\ blocked = FALSE
  /\ points = 0 /\ max_points = 0 /\ errors = 0 /\ late = {}

runvars == <<test, arg_test_vals, calls, envbuf, alarm, blocked, points, max_points, errors, late>>

\* An int is only taken while the value is still 0.
get_num_val(o) == o.kind = "float" \/ (o.kind = "int" /\ argval[o.arg] = 0)
SetArg(o) ==
  /\ has_arg' = [has_arg EXCEPT ![o.arg] = get_num_val(o)]
  /\ argval' = IF get_num_val(o) THEN [argval EXCEPT ![o.arg] = o.val] ELSE argval
  /\ phase' = IF get_num_val(o) THEN phase ELSE "exited"
  /\ UNCHANGED <<timeout_limit, test_fname, global_rating>>
SetOption(o) ==
  /\ test_fname' = IF o.opt = "f" THEN o.val ELSE test_fname
  /\ timeout_limit' = IF o.opt = "T" THEN o.val ELSE timeout_limit
  /\ global_rating' = IF o.opt = "r" THEN o.val ELSE global_rating
  /\ phase' = IF o.opt = "h" \/ global_rating' < 0 THEN "exited" ELSE phase
  /\ UNCHANGED <<has_arg, argval>>

ReadOption ==
  /\ phase = "options" /\ argv # <<>> /\ argv' = Tail(argv)
  /\ \/ Head(argv).opt = "1" /\ SetArg(Head(argv))
     \/ Head(argv).opt # "1" /\ SetOption(Head(argv))
  /\ UNCHANGED runvars
StartTests ==
  /\ phase = "options" /\ argv = <<>> /\ phase' = "run"
  /\ UNCHANGED <<argv, optvars, runvars>>

-----------------------------------------------------------------------------
(* run_tests and test_function                                             *)

Running == phase = "run" /\ test <= Len(test_set)
Wanted == test_fname \in {"", test_set[test].name}
Rating(t) == IF global_rating # 0 THEN global_rating ELSE test_set[t].rating

SkipTest ==
  /\ Running /\ ~Wanted /\ test' = test + 1
  /\ UNCHANGED <<argv, optvars, phase, arg_test_vals, calls, envbuf, alarm, blocked, points, max_points, errors, late>>

GenVals ==
  /\ Running /\ Wanted /\ phase' = "generated"
  /\ LET ranges == test_set[test].ranges
         Vals(a, draw) ==
           IF has_arg[a] THEN <<argval[a]>>
           ELSE gen_vals(ranges[a][1], ranges[a][2], test_range(Len(ranges)), draw)
     IN  \E draw \in [1 .. Len(ranges) -> Draws] :
           /\ \A a \in 1 .. Len(ranges) :
                draw[a] \in (IF ranges[a] = Float \/ has_arg[a] THEN {Max(Draws)} ELSE ranges[a][1] .. ranges[a][2])
           /\ arg_test_vals' = [a \in 1 .. Len(ranges) |-> Vals(a, draw[a])]
  /\ UNCHANGED <<argv, optvars, test, calls, envbuf, alarm, blocked, points, max_points, errors, late>>

SetJump ==
  /\ phase = "generated" /\ phase' = IF timeout_limit > 0 THEN "jump" ELSE "calls"
  /\ envbuf' = IF timeout_limit > 0 THEN test ELSE envbuf
  /\ UNCHANGED <<argv, optvars, test, arg_test_vals, calls, alarm, blocked, points, max_points, errors, late>>
SetAlarm ==
  /\ phase = "jump" /\ phase' = "calls" /\ alarm' = TRUE
  /\ UNCHANGED <<argv, optvars, test, arg_test_vals, calls, envbuf, blocked, points, max_points, errors, late>>

\* test_function returns, and run_tests adds up the score.
Return(terrors) ==
  /\ errors' = errors + terrors /\ max_points' = max_points + Rating(test)
  /\ points' = points + (IF terrors = 0 THEN Rating(test) ELSE 0)
  /\ phase' = "run" /\ test' = test + 1 /\ arg_test_vals' = <<>> /\ calls' = 0

\* The arguments of the next call: the last argument changes fastest.
Arg(a) ==
  IF a > Len(arg_test_vals) THEN 0
  ELSE IF a = Len(arg_test_vals) THEN arg_test_vals[a][(calls % Len(arg_test_vals[a])) + 1]
  ELSE arg_test_vals[a][(calls \div Len(arg_test_vals[a + 1])) + 1]
Total == FoldLeft(LAMBDA n, vs : n * Len(vs), 1, arg_test_vals)
Stuck == Hangs(test_set[test].name, Word(Arg(1)))
Correct == Agrees(test_set[test].name, Word(Arg(1)), Word(Arg(2)), Arg(2))

Call ==
  /\ phase = "calls" /\ ~Stuck
  /\ \/ ~Correct /\ Return(1)
     \/ Correct /\ calls + 1 = Total /\ Return(0)
     \/ Correct /\ calls + 1 < Total /\ calls' = calls + 1
        /\ UNCHANGED <<phase, test, arg_test_vals, points, max_points, errors>>
  /\ UNCHANGED <<argv, optvars, envbuf, alarm, blocked, late>>

\* MUTANT: sigsetjmp(envbuf, 0): SIGALRM stays blocked after the jump
MaskKept == TRUE
\* Is SIGALRM blocked after the jump out of its handler?
MaskAfterJump == FALSE

\* Nothing cancels the alarm of a function that returned: it may jump into a
\* frame that is gone, which is undefined, or count against the next function.
Alarm ==
  /\ alarm /\ ~blocked /\ alarm' = FALSE
  /\ (phase = "calls" /\ Stuck) \/ Cardinality(late) < MaxAlarms
  /\ \/ phase \in {"jump", "calls"} /\ Return(1) /\ late' = late \cup {test} /\ blocked' = MaskAfterJump
     \/ phase \in {"run", "generated"} /\ phase' = "undefined"
        /\ UNCHANGED <<test, arg_test_vals, calls, points, max_points, errors, late, blocked>>
  /\ UNCHANGED <<argv, optvars, envbuf>>

Finish ==
  /\ phase = "run" /\ test > Len(test_set) /\ phase' = "done" /\ alarm' = FALSE
  /\ UNCHANGED <<argv, optvars, test, arg_test_vals, calls, envbuf, blocked, points, max_points, errors, late>>

Next ==
  \/ ReadOption \/ StartTests \/ SkipTest \/ GenVals \/ SetJump \/ SetAlarm \/ Call \/ Alarm \/ Finish
Spec == Init /\ [][Next]_vars

-----------------------------------------------------------------------------
\* No array of arguments grows beyond the static array it is written to
\* (test_function:306): gen_vals counts on the factor of MAX_TEST_VALS.
ArraysFit == \A a \in DOMAIN arg_test_vals : Len(arg_test_vals[a]) <= MAX_TEST_VALS

\* Is test t the one of float_twice on a given number of 2^127 or more with a
\* fraction?  There float_twice answers a NaN (bits.c:378), and btest generates
\* no such number.
OverflowGiven(t) ==
  /\ test_set[t].name = "float_twice" /\ test_fname \in {"", "float_twice"} /\ has_arg[1]
  /\ Exp(Word(argval[1])) = 1 .. 7 /\ Frac(Word(argval[1])) # {}
\* A second argument from the command line is in the range of every function of two.
SecondsAllowed ==
  \A t \in DOMAIN test_set :
    LET ranges == test_set[t].ranges IN
    has_arg[2] /\ test_fname \in {"", test_set[t].name} /\ Len(ranges) = 2
      => argval[2] \in ranges[2][1] .. ranges[2][2]

\* The points lost are those of functions an alarm ended, and of float_twice
\* where it is wrong: on all else, generated or given, every puzzle equals its
\* reference in 32 bits (run_tests:424).
ScoreIsFair ==
  phase = "done" /\ SecondsAllowed =>
    LET lost == late \cup {t \in DOMAIN test_set : OverflowGiven(t)} IN
    /\ errors = Cardinality(lost)
    /\ max_points - points = MapThenSumSet(Rating, lost)

\* With a time limit, a function that does not return is ended: the alarm is
\* on its way and not blocked (test_function:350-357).  Every other step makes
\* progress, so the tests come to an end.
HangsAreEnded == phase = "calls" /\ Stuck /\ timeout_limit > 0 => alarm /\ ~blocked
=============================================================================

------------------------------ MODULE MCBtest ------------------------------
(* No option; one function with a rating and no limit; the argument 0 for  *)
(* all functions, on which test_ilog2 does not return; both arguments of a *)
(* function; a second value for one argument; a rating out of range; 2^127 *)
(* with a fraction, which btest does not generate, for one function and    *)
(* for all; the smallest int, and one that is no float.                    *)
EXTENDS Btest
Num(a, v, k) == [opt |-> "1", arg |-> a, val |-> v, kind |-> k]
MCCommandLines == {
  <<>>,
  <<[opt |-> "f", val |-> "float_twice"], [opt |-> "r", val |-> 2], [opt |-> "T", val |-> 0]>>,
  <<Num(1, 0, "int")>>,
  <<Num(1, 0, "int"), [opt |-> "T", val |-> 0]>>,
  <<[opt |-> "f", val |-> "divpwr2"], Num(1, -33, "int"), Num(2, 4, "int")>>,
  <<Num(1, 5, "int"), Num(1, \H3fc00000, "float"), Num(1, 6, "int")>>,
  <<[opt |-> "r", val |-> -1]>>,
  <<[opt |-> "f", val |-> "float_twice"], Num(1, \H7f000001, "float")>>,
  <<Num(1, \H7f000001, "float")>>,
  <<Num(1, TMin, "int")>>, <<Num(1, 16777219, "int")>> }
MCDraws == {-1431655766, 1, 19088743, TMax}
=============================================================================

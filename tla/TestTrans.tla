----------------------------- MODULE TestTrans ------------------------------
(***************************************************************************)
(* test-trans.c with the programs it runs: for every registered function,  *)
(* tracegen calls it on random matrices, validates the result and leaves a *)
(* trace, of which the part between two markers goes to csim-ref; that     *)
(* leaves its counts in a file, which test-trans reads.  The accesses of   *)
(* the function are simulated as they happen, as nothing reads the trace   *)
(* in between.                                                             *)
(***************************************************************************)
EXTENDS CSim, Trans, Sequences

CONSTANTS
  Shapes,      \* <<M, N>> of the command line
  Prologue,    \* addresses of the globals that main of tracegen accesses at the
  Epilogue,    \*   start of the trace and at its end
  ABase, BBase \* addresses of the matrices

MAXN == 256

\* main refuses 0 and more than MAXN; the two are numbers of columns and of rows.
ASSUME ShapesAssumption == Shapes \subseteq (1 .. MAXN) \X (1 .. MAXN)
\* Each part has a marker at least, and is short against the accesses of a function.
ASSUME GlobalsAssumption ==
  /\ Prologue \in Seq(Nat) \ {<<>>} /\ Epilogue \in Seq(Nat) \ {<<>>}
  /\ Len(Prologue) + Len(Epilogue) <= MAXN * MAXN

VARIABLES
  phase,         \* what eval_perf is doing
  func_counter,  \* functions evaluated
  done,          \* globals accessed so far
  csim_results,  \* the file: the counts and the function they are of
  results,       \* of the submission: funcid, correct, misses
  printed        \* the TEST_TRANS_RESULTS lines

drivervars == <<phase, func_counter, csim_results, results, printed>>
tvars == <<simvars, transvars, done, drivervars>>

INT_MAX == 2147483647
NoFile == [of |-> "none", misses |-> 0]
func_list == <<"transpose_submit", "trans">>
Current == func_list[func_counter + 1]

Word == 4
AAddress == ABase + Word * AIndex
BAddress == BBase + Word * BIndex
DiagAddress == BBase + Word * (diag * N + diag)

eval_perf_config == [S |-> 32, E |-> 1, B |-> 32]

\* MUTANT: the simulator starts with the lines of the function before
StartWarm ==
  /\ time_stamp' = 0 /\ hits' = 0 /\ misses' = 0 /\ evictions' = 0
  /\ UNCHANGED <<config, cache>>
StartCold ==
  /\ cache' = init_LRUCache(config) /\ time_stamp' = 0
  /\ hits' = 0 /\ misses' = 0 /\ evictions' = 0
  /\ UNCHANGED config

StartFunction ==
  /\ phase = "eval" /\ func_counter < Len(func_list)
  /\ phase' = "start" /\ done' = 0
  /\ results' = IF Current = "transpose_submit" THEN [results EXCEPT !.funcid = func_counter] ELSE results
  /\ CallTrans(Current)
  /\ StartCold
  /\ UNCHANGED <<func_counter, csim_results, printed>>

\* The markers, the function's address and its arguments are in the trace too.
Global(addresses, before, after) ==
  /\ phase = before
  /\ LRUCacheAccess(IF done = 0 THEN "S" ELSE "L", addresses[done + 1])
  /\ IF done + 1 < Len(addresses) THEN done' = done + 1 /\ UNCHANGED phase
     ELSE done' = 0 /\ phase' = after
  /\ UNCHANGED <<transvars, func_counter, csim_results, results, printed>>

TraceLoad == phase = "call" /\ Load /\ LRUCacheAccess("L", AAddress) /\ UNCHANGED <<done, drivervars>>
TraceStore == phase = "call" /\ Store /\ LRUCacheAccess("S", BAddress) /\ UNCHANGED <<done, drivervars>>
TraceDiag == phase = "call" /\ StoreDiag /\ LRUCacheAccess("S", DiagAddress) /\ UNCHANGED <<done, drivervars>>

Returned ==
  /\ phase = "call" /\ pc = "end"
  /\ phase' = "end"
  /\ UNCHANGED <<simvars, transvars, done, func_counter, csim_results, results, printed>>

\* MUTANT: the result is noted before the exit code is looked at
ValidateLate ==
  /\ phase = "validate"
  /\ results' = IF results.funcid = func_counter THEN [results EXCEPT !.correct = 1] ELSE results
  /\ IF validate THEN phase' = "csim" /\ UNCHANGED func_counter
     ELSE phase' = "eval" /\ func_counter' = func_counter + 1
  /\ UNCHANGED <<simvars, transvars, done, csim_results, printed>>
\* The exit code of tracegen: a function that fails is skipped.
Validate ==
  /\ phase = "validate"
  /\ IF validate
     THEN /\ phase' = "csim" /\ UNCHANGED func_counter
          /\ results' = IF results.funcid = func_counter THEN [results EXCEPT !.correct = 1] ELSE results
     ELSE phase' = "eval" /\ func_counter' = func_counter + 1 /\ UNCHANGED results
  /\ UNCHANGED <<simvars, transvars, done, csim_results, printed>>

\* printSummary of csim-ref writes the file.
Simulated ==
  /\ phase = "csim"
  /\ csim_results' = [of |-> Current, misses |-> misses]
  /\ phase' = "collect"
  /\ UNCHANGED <<simvars, transvars, done, func_counter, results, printed>>

\* csim-ref cannot be run, or fails: its exit code is not looked at.
SimulatorFails ==
  /\ phase = "csim"
  /\ phase' = "collect"
  /\ UNCHANGED <<simvars, transvars, done, func_counter, csim_results, results, printed>>

\* assert ends the program when there is no file.
Collect ==
  /\ phase = "collect"
  /\ IF csim_results = NoFile THEN phase' = "aborted" /\ UNCHANGED <<func_counter, results>>
     ELSE /\ phase' = "eval" /\ func_counter' = func_counter + 1
          /\ results' = IF results.funcid = func_counter
                        THEN [results EXCEPT !.misses = csim_results.misses] ELSE results
  /\ UNCHANGED <<simvars, transvars, done, csim_results, printed>>

PrintLine(correct, n) == printed' = Append(printed, [correct |-> correct, misses |-> n])

Report ==
  /\ phase = "eval" /\ func_counter = Len(func_list)
  /\ PrintLine(results.correct, results.misses)
  /\ phase' = "reported"
  /\ UNCHANGED <<simvars, transvars, done, func_counter, csim_results, results>>

Return ==
  /\ phase = "reported"
  /\ phase' = "done"
  /\ UNCHANGED <<simvars, transvars, done, func_counter, csim_results, results, printed>>

\* alarm(120) is never taken back: sigalrm_handler can run until main has returned.
\* Inside a call of tracegen it makes no difference at which access.
Alarm ==
  /\ phase \in {"eval", "start", "validate", "csim", "collect", "reported"}
  /\ PrintLine(0, 0)
  /\ phase' = "done"
  /\ UNCHANGED <<simvars, transvars, done, func_counter, csim_results, results>>

TInit ==
  /\ StartCSim(eval_perf_config)
  /\ \E shape \in Shapes : M = shape[1] /\ N = shape[2]
  /\ fn = "none" /\ pc = "end" /\ at = [col_block |-> 0, row_block |-> 0, i |-> 0, j |-> 0]
  /\ temp = 0 /\ diag = 0 /\ value = 0 /\ B = <<>>
  /\ phase = "eval" /\ func_counter = 0 /\ done = 0
  /\ \E file \in {NoFile, [of |-> "earlier run", misses |-> 1]} : csim_results = file
  /\ results = [funcid |-> -1, correct |-> 0, misses |-> INT_MAX] /\ printed = <<>>

TNext ==
  \/ StartFunction \/ Global(Prologue, "start", "call") \/ TraceLoad \/ TraceStore \/ TraceDiag
  \/ Returned \/ Global(Epilogue, "end", "validate") \/ Validate
  \/ Simulated \/ SimulatorFails \/ Collect \/ Report \/ Return \/ Alarm

TSpec == TInit /\ [][TNext]_tvars

----------------------------------------------------------------------------
\* transpose_submit transposes every matrix but those with 32 or 64 rows that
\* are not square: the diagonal, which it stores late, and the ragged blocks
\* at the edges come out right.
Promised == fn = "transpose_submit" => N \notin {32, 64} \/ M = N
Transposes == phase = "validate" /\ Promised => validate

\* The order of its accesses keeps the misses of the direct-mapped cache where
\* driver.py gives points: full score for 32 x 32 and 61 x 67, some for 64 x 64.
Budget(m, n) ==
  CASE <<m, n>> = <<32, 32>> -> 300
    [] <<m, n>> = <<64, 64>> -> 1999
    [] <<m, n>> = <<61, 67>> -> 2000
    [] OTHER -> INT_MAX
MissesInBudget == phase = "csim" /\ fn = "transpose_submit" => misses <= Budget(M, N)

\* What is printed of a submission is one of two things: it is correct and has
\* a number of misses, or it is not and has none; 0:0 is the alarm's.
VerdictsAgree ==
  \A k \in DOMAIN printed :
    printed[k].correct = 0 <=> printed[k].misses \in {0, INT_MAX}
=============================================================================

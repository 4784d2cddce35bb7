------------------------------- MODULE Trans --------------------------------
(***************************************************************************)
(* trans.c: the two functions that transpose, one access to a matrix at a  *)
(* time.  A and B are what tracegen.c passes: N by M and M by N integers,  *)
(* row by row.  The element k of A has the value k, and B is filled with   *)
(* something else before, as initMatrix fills both with random numbers.    *)
(***************************************************************************)
EXTENDS Integers

VARIABLES
  fn, M, N,       \* the function and the shape
  pc,             \* its next access: "load" of A, "store" or "diag" to B
  at,             \* col_block, row_block, i, j
  temp, diag,     \* the element on the diagonal that waits for the end of its row
  value,          \* the element that was loaded
  B

transvars == <<fn, M, N, pc, at, temp, diag, value, B>>

Random == -1
Smaller(x, y) == IF x < y THEN x ELSE y

\* The branch for the two shapes it was written for takes N for M as well.
Blocked == fn = "transpose_submit"
Square == Blocked /\ N \in {32, 64}
Cols == IF Square THEN N ELSE M
step ==
  CASE Square /\ M = 64 -> 4
    [] Square /\ M # 64 -> IF N = 32 THEN 8 ELSE 1
    [] Blocked /\ ~Square -> 16
    [] ~Blocked -> IF M < N THEN N ELSE M

RowEnd == Smaller(at.row_block + step, N)
ColEnd == Smaller(at.col_block + step, Cols)
AIndex == at.i * M + at.j
BIndex == at.j * N + at.i

\* Row by row through a block, block by block through a column of blocks.
Block(col, row) == at' = [col_block |-> col, row_block |-> row, i |-> row, j |-> col] /\ pc' = "load"
NextRow ==
  \/ at.i + 1 < RowEnd /\ at' = [at EXCEPT !.i = @ + 1, !.j = at.col_block] /\ pc' = "load"
  \/ at.i + 1 = RowEnd /\ RowEnd < N /\ Block(at.col_block, RowEnd)
  \/ at.i + 1 = RowEnd /\ RowEnd = N /\ ColEnd < Cols /\ Block(ColEnd, 0)
  \/ at.i + 1 = RowEnd /\ RowEnd = N /\ ColEnd = Cols /\ pc' = "end" /\ UNCHANGED at
Advance ==
  \/ at.j + 1 < ColEnd /\ at' = [at EXCEPT !.j = @ + 1] /\ pc' = "load"
  \/ at.j + 1 = ColEnd /\ Blocked /\ at.row_block = at.col_block /\ pc' = "diag" /\ UNCHANGED at
  \/ at.j + 1 = ColEnd /\ ~(Blocked /\ at.row_block = at.col_block) /\ NextRow

\* MUTANT: the element on the diagonal is stored at once, like the others
NeverOnDiagonal == FALSE
OnDiagonal == Blocked /\ at.i = at.j
Load ==
  /\ pc = "load"
  /\ IF OnDiagonal THEN temp' = AIndex /\ diag' = at.i /\ Advance /\ UNCHANGED value
     ELSE value' = AIndex /\ pc' = "store" /\ UNCHANGED <<temp, diag, at>>
  /\ UNCHANGED <<fn, M, N, B>>

Store ==
  /\ pc = "store"
  /\ B' = [B EXCEPT ![BIndex] = value]
  /\ Advance
  /\ UNCHANGED <<fn, M, N, temp, diag, value>>

\* MUTANT: the element on the diagonal is stored with the first row of a block only
StoreDiagOnce ==
  /\ pc = "diag"
  /\ B' = IF at.i = at.row_block THEN [B EXCEPT ![diag * N + diag] = temp] ELSE B
  /\ NextRow
  /\ UNCHANGED <<fn, M, N, temp, diag, value>>
StoreDiag ==
  /\ pc = "diag"
  /\ B' = [B EXCEPT ![diag * N + diag] = temp]
  /\ NextRow
  /\ UNCHANGED <<fn, M, N, temp, diag, value>>

\* initMatrix, and the call.
CallTrans(f) ==
  /\ fn' = f
  /\ B' = [k \in 0 .. M * N - 1 |-> Random]
  /\ pc' = "load" /\ at' = [col_block |-> 0, row_block |-> 0, i |-> 0, j |-> 0]
  /\ temp' = 0 /\ diag' = 0 /\ value' = 0
  /\ UNCHANGED <<M, N>>

\* validate compares B with what correctTrans makes of A.
validate == \A i \in 0 .. N - 1, j \in 0 .. M - 1 : B[j * N + i] = i * M + j
=============================================================================

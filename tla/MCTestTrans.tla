---------------------------- MODULE MCTestTrans ----------------------------
(* The three shapes that driver.py asks for, and one with 32 rows that is   *)
(* not square.  The addresses are those of one layout of the globals.       *)
EXTENDS TestTrans
MCShapes == {<<32, 32>>, <<64, 64>>, <<61, 67>>, <<64, 32>>}
MCABase == 0
MCBBase == 262144
\* MARKER_START, func_list, M, N; MARKER_END
MCPrologue == <<524296, 524352, 524288, 524292>>
MCEpilogue == <<524297>>
=============================================================================

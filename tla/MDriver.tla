------------------------------ MODULE MDriver ------------------------------
(***************************************************************************)
(* mdriver.c: the program that evaluates the allocator.  For every trace   *)
(* it makes three passes over the requests, each on a heap that it resets: *)
(* eval_mm_valid checks every answer, eval_mm_util adds up sizes, and      *)
(* eval_mm_speed is repeated by the timer.  A trace is any sequence of     *)
(* requests that frees and reallocates allocated blocks only; the first    *)
(* pass chooses it, request by request, and the others replay it.          *)
(***************************************************************************)
EXTENDS Heap, FiniteSets

CONSTANTS
  Ids,        \* the blocks of a trace, numbers that also stand for their fill byte
  HighIds,    \* those whose low byte is 128 or more
  Sizes,      \* sizes in words that requests ask for
  NumTraces,
  MaxOps,     \* trace number -> bound of its length
  Repeats     \* how often the timer runs a pass

ASSUME DriverAssumption == Ids \subseteq Nat /\ Sizes \subseteq Nat

VARIABLES
  h, trace, pos,      \* the heap; the trace and how far the pass is in it
  pass,               \* what main is doing
  times,              \* passes the timer still asks for
  blocks, sizes,      \* trace->blocks, trace->block_sizes
  ranges,             \* the payloads that eval_mm_valid knows of
  total, hwm,         \* total_size, max_total_size of eval_mm_util
  tracenum, correct,  \* main's i; the traces found valid
  message             \* what malloc_error said of which request

vars == <<h, trace, pos, pass, times, blocks, sizes, ranges, total, hwm, tracenum, correct, message>>

Ops == [type : {"ALLOC", "REALLOC"}, id : Ids, size : Sizes] \cup [type : {"FREE"}, id : Ids, size : {0}]
None == [type |-> "none", id |-> "none", size |-> 0]

\* The blocks a sequence of requests leaves allocated, and their sizes.
Last(t, i) == LET own == {k \in DOMAIN t : t[k].id = i}
              IN  IF own = {} THEN None ELSE t[CHOOSE k \in own : \A j \in own : j <= k]
Done == SubSeq(trace, 1, pos)
Live(i) == Last(Done, i).type \in {"ALLOC", "REALLOC"}
LegalOp(op) == (op.type = "ALLOC") # Live(op.id)

Call(op) ==
  CASE op.type = "ALLOC"   -> mm_malloc(h, op.size)
    [] op.type = "REALLOC" -> mm_realloc(h, blocks[op.id], op.size)
    [] op.type = "FREE"    -> [h |-> mm_free(h, blocks[op.id]), p |-> blocks[op.id]]

----------------------------------------------------------------------------
(* The records of payloads.                                                *)

Overlaps(lo, hi, r) == (lo >= r.lo /\ lo <= r.hi) \/ (hi >= r.lo /\ hi <= r.hi)
add_rangeFails(heap, known, lo, hi) ==
  \/ lo % DSIZE # 0
  \/ lo < mem_start_brk \/ lo > mem_heap_hi(heap) \/ hi < mem_start_brk \/ hi > mem_heap_hi(heap)
  \/ \E r \in known : Overlaps(lo, hi, r)
\* MUTANT: the range of a freed block is kept
remove_no_range(lo) == ranges
remove_range(lo) == {r \in ranges : r.lo # lo}

\* newp[j] is a signed char, index & 0xFF is not: they differ for a high id.
Lost(heap, op, p) ==
  LET n == IF op.size < sizes[op.id] THEN op.size ELSE sizes[op.id]
  IN  \E j \in 0 .. n - 1 : heap.m[p + j] # op.id \/ op.id \in HighIds
memset(heap, op, p) ==
  [heap EXCEPT !.m = [w \in Memory |-> IF w \in p .. p + op.size - 1 THEN op.id ELSE @[w]]]

----------------------------------------------------------------------------
(* The three passes.                                                       *)

\* MUTANT: mem_reset_brk is forgotten
StartedAbove(heap) == mm_init(heap)
Started(heap) == mm_init(mem_reset_brk(heap))
NextTrace(msg, op) ==
  /\ message' = [says |-> msg, of |-> op, trace |-> tracenum + 1]
  /\ pass' = "next" /\ tracenum' = tracenum + 1
  /\ UNCHANGED <<times, total, hwm, correct>>

ReadTrace ==
  /\ pass = "next" /\ tracenum < NumTraces
  /\ ranges' = {} /\ trace' = <<>> /\ pos' = 0
  /\ \E start \in {Started(h)} :
       /\ h' = start.h
       /\ IF start.p = NULL THEN NextTrace("mm_init failed", None)
          ELSE pass' = "valid" /\ UNCHANGED <<times, total, hwm, tracenum, correct, message>>
  /\ UNCHANGED <<blocks, sizes>>

Remember(op, p) ==
  /\ blocks' = [blocks EXCEPT ![op.id] = p]
  /\ sizes' = [sizes EXCEPT ![op.id] = op.size]

\* eval_mm_valid looks at the answer to a request: its checks, in their order.
Fault(op, answer, known) ==
  CASE answer.p = NULL -> "returned NULL"
    [] answer.p # NULL /\ add_rangeFails(answer.h, known, answer.p, answer.p + op.size - 1) -> "bad range"
    [] OTHER -> IF op.type = "REALLOC" /\ Lost(answer.h, op, answer.p) THEN "lost data" ELSE "none"
Judge(op, answer, known, fault) ==
  /\ ranges' = IF fault = "returned NULL" THEN ranges
               ELSE known \cup IF op.type = "FREE" \/ fault = "bad range" THEN {}
                               ELSE {[lo |-> answer.p, hi |-> answer.p + op.size - 1]}
  /\ IF fault = "none"
     THEN UNCHANGED <<times, total, hwm, tracenum, correct, pass, message>>
     ELSE NextTrace(fault, op)
  /\ IF fault = "none" /\ op.type # "FREE"
     THEN h' = memset(answer.h, op, answer.p) /\ Remember(op, answer.p)
     ELSE h' = answer.h /\ UNCHANGED <<blocks, sizes>>

ValidOp(op) ==
  /\ pass = "valid" /\ pos < MaxOps[tracenum + 1] /\ LegalOp(op)
  /\ trace' = Append(trace, op) /\ pos' = pos + 1
  /\ LET known == IF op.type = "ALLOC" THEN ranges ELSE remove_range(blocks[op.id])
     IN  \E answer \in {Call(op)} :
           \E fault \in {IF op.type = "FREE" THEN "none" ELSE Fault(op, answer, known)} :
             Judge(op, answer, known, fault)

\* A pass ends and the next one resets the heap; app_error ends the program.
StartPass(p) ==
  /\ pos' = 0
  /\ \E start \in {Started(h)} :
       h' = start.h /\ pass' = IF start.p = NULL THEN "exit" ELSE p
  /\ UNCHANGED <<trace, blocks, sizes, ranges, tracenum, message>>

ValidEnds ==
  /\ pass = "valid"
  /\ StartPass("util")
  /\ total' = 0 /\ hwm' = 0 /\ correct' = correct + 1 /\ UNCHANGED times

\* MUTANT: only a free gives bytes back
GrownOnly(op) == op.size - (IF op.type = "FREE" THEN sizes[op.id] ELSE 0)
Grown(op) == op.size - (IF op.type = "ALLOC" THEN 0 ELSE sizes[op.id])

\* The two passes that trust the allocator: only the first one keeps sizes.
Trust(op, answer) ==
  LET sum == total + Grown(op)
  IN  /\ h' = answer.h /\ pos' = pos + 1
      /\ pass' = IF answer.p = NULL THEN "exit" ELSE pass
      /\ blocks' = IF op.type = "FREE" THEN blocks ELSE [blocks EXCEPT ![op.id] = answer.p]
      /\ IF pass = "speed" THEN UNCHANGED <<sizes, total, hwm>>
         ELSE /\ sizes' = IF op.type = "FREE" THEN sizes ELSE [sizes EXCEPT ![op.id] = op.size]
              /\ total' = sum /\ hwm' = Larger(sum, hwm)
      /\ UNCHANGED <<trace, times, ranges, tracenum, correct, message>>

ReplayOp ==
  /\ pass \in {"util", "speed"} /\ pos < Len(trace)
  /\ \E op \in {trace[pos + 1]} : \E answer \in {Call(op)} : Trust(op, answer)

UtilEnds ==
  /\ pass = "util" /\ pos = Len(trace)
  /\ StartPass("speed")
  /\ times' = Repeats /\ UNCHANGED <<total, hwm, correct>>

SpeedEnds ==
  /\ pass = "speed" /\ pos = Len(trace)
  /\ times' = times - 1
  /\ IF times > 1 THEN StartPass("speed")
     ELSE /\ pass' = "next" /\ tracenum' = tracenum + 1
          /\ UNCHANGED <<h, trace, pos, blocks, sizes, ranges, message>>
  /\ UNCHANGED <<total, hwm, correct>>

Results ==
  /\ pass = "next" /\ tracenum = NumTraces
  /\ pass' = "results"
  /\ UNCHANGED <<h, trace, pos, times, blocks, sizes, ranges, total, hwm, tracenum, correct, message>>

Init ==
  /\ h = mem_init /\ trace = <<>> /\ pos = 0 /\ pass = "next" /\ times = 0
  /\ blocks = [i \in Ids |-> NULL] /\ sizes = [i \in Ids |-> 0] /\ ranges = {}
  /\ total = 0 /\ hwm = 0 /\ tracenum = 0 /\ correct = 0
  /\ message = [says |-> "nothing", of |-> None, trace |-> 0]

Next ==
  \/ ReadTrace \/ ValidEnds \/ ReplayOp \/ UtilEnds \/ SpeedEnds \/ Results
  \/ \E op \in Ops : ValidOp(op)

Spec == Init /\ [][Next]_vars

----------------------------------------------------------------------------
Replaying == pass \in {"valid", "util", "speed"}

\* The blocks tile the heap with tags that agree, no two free ones are
\* neighbours, and each free one is on the list of its size and on no other:
\* after every call, on a heap that an earlier pass has left its words in.
HeapIsSound == Replaying => Tagged(h) /\ Coalesced(h) /\ Listed(h)

\* The heap cannot grow by a block of n words; no free block has n words.
UsedUp(n) == h.brk + Larger(n, CHUNKSIZE) > mem_max_addr
NoneFits(n) == \A bp \in Blocks(h) \ {h.brk} : IS_FREE(h, HDRP(bp)) => SIZE(h, bp) < n

\* What the driver can say of mm.c, and why.  mm_init fails only on a memory
\* without a first chunk, data are found lost only for an id that is high, and
\* NULL is returned only for the size 0, or on a used up memory: there no free
\* block is large enough, or the block to reallocate is the last of the heap.
\* That an answer is misaligned, outside or over another block is never said.
Answering == message.trace = tracenum /\ pass = "next"
FaultHasCause ==
  LET op == message.of   need == asize(op.size) IN
  /\ message.says \in {"nothing", "mm_init failed", "returned NULL", "lost data"}
  /\ message.says = "mm_init failed" => MAX_HEAP < free_list_size + 4 + CHUNKSIZE
  /\ message.says = "lost data" => op.type = "REALLOC" /\ op.id \in HighIds
  /\ message.says = "returned NULL" /\ Answering /\ op.size # 0
       => \/ UsedUp(need) /\ NoneFits(need)
          \/ /\ op.type = "REALLOC" /\ SIZE(h, NEXT_BLKP(h, blocks[op.id])) = 0
             /\ UsedUp(need - SIZE(h, blocks[op.id]))

\* A trace that was found valid is served again, request by request, by the
\* two later passes: app_error never ends the program.
ReplaysSucceed == pass # "exit"

\* The utilization is a share: the most that was allocated at once, which
\* eval_mm_util counts by differences, fits into the heap that it took.
UtilizationIsShare ==
  pass = "util" => /\ 0 <= total /\ total <= hwm /\ hwm <= mem_heapsize(h)
                   /\ total = 0 <=> \A i \in Ids : ~Live(i)

\* The list of ranges is exactly the payloads of the live blocks.
RangesAreLive ==
  pass = "valid" => ranges = {[lo |-> blocks[i], hi |-> blocks[i] + sizes[i] - 1] : i \in {j \in Ids : Live(j)}}

\* Over all passes the allocator does what an allocator promises.
Payload(i) == [lo |-> blocks[i],
               data |-> [k \in 1 .. Last(Done, i).size |-> h.m[blocks[i] + k - 1]]]
Abstract == INSTANCE Allocator WITH
  Heap <- Memory, Alignment <- DSIZE,
  live <- [i \in {j \in Ids : Replaying /\ Live(j)} |-> Payload(i)]
ImplementsAllocator == Abstract!ASpec

=============================================================================

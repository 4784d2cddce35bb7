# Verification of csapp-3e-lab

TLA+ specifications of the programs in this repository, checked with TLC, and
theorems about them, proved with TLAPS. The repository holds independent
programs, one per lab; this directory models their own logic, in the order of
how much of it is hard to test. A model is written from the C source. Where it
leaves something out, this file says so.

## 1. Inventory

| part | source | state it keeps | what makes it hard | modelled in |
|---|---|---|---|---|
| job list | `sh-lab/shlab-handout/tsh.c` 44-58, 474-623 | `jobs[MAXJOBS]`, `nextjid` | ids wrap, list overflows | `JobTable` |
| shell, signal handlers | `tsh.c` 95-468 | job list, signal mask, pending signals, stack of handlers, locals, children | handlers interrupt the main program and each other; SIGCHLDs coalesce; children run concurrently | `Tsh`, `JobControl` |
| object cache | `proxy-lab/proxylab-handout/cache.c` | doubly linked list of objects, count, size | four ways to unlink a node, eviction, sizes by differences | `MemCache`, `CacheFifo` |
| proxy | `proxy.c` | descriptors, threads, two semaphores, `reader_count`, `connfd` | threads, shared `connfd`, readers' lock, unlocked writer, errors that exit, clients that leave | `Proxy` |
| robust I/O | `csapp.c` 655-827 | `rio_t` buffers | short counts, EINTR, errors, end of file | `Rio` |
| Tiny web server | `tiny/tiny.c`, `cgi-bin/adder.c` | one connection at a time | CGI child, clients that leave, files that change | `Tiny` |
| allocator | `malloc-lab/malloclab/mm.c`, `memlib.c` | words of the heap: tags, links, data | coalescing, realloc in place, memory used up | `Heap`, `Allocator` |
| allocator driver | `mdriver.c`, `fsecs.c` | trace, list of ranges, sizes | three passes over a heap that is only reset | `MDriver` |
| cache simulator | `cache-lab/cachelab-handout/csim.c` | sets of lines with time stamps | choice of the victim by stamps | `CSim`, `Lru` |
| matrix transpose and its test | `trans.c`, `cachelab.c`, `tracegen.c`, `test-trans.c` | loop variables, matrix, results, a file shared with csim-ref | ragged blocks, conflict misses, an alarm, programs that fail | `Trans`, `TestTrans` |
| bit puzzles | `data-lab/datalab-handout/bits.c`, `tests.c` | none | edges of 32 bits | `Bits` |
| puzzle test | `btest.c`, `decl.c` | options, argument arrays, alarm, score | array sizes by hand, jumps out of a handler | `Btest` |
| shell test programs | `sh-lab/shlab-handout/my*.c` | none | - | children of `Tsh`, in part |
| wrappers and sockets | `csapp.c` | none | they exit on errors | actions of `Proxy`, `Tiny` |
| timing library | `fcyc.c`, `clock.c`, `ftimer.c` | samples | reads hardware clocks | not modelled |
| bomb lab, attack lab | binaries and listings | - | no source of these programs here | not modelled |

Copies of `csapp.c` and `tiny.c` under `.proxy/` and `tiny/` and the traces are
data of the labs and are not modelled a second time.

### How the parts interact

*tsh.* `main` reads a line and calls `eval`, which runs a built-in command or
forks. The kernel calls `sigchld_handler`, `sigint_handler`, `sigtstp_handler`
and `sigquit_handler` between any two instructions; they share `jobs` and
`nextjid` with the main program. `eval` and `do_bgfg` block SIGCHLD around what
they do to the list, `listjobs` and the key handlers do not. `waitfg` sleeps
until the SIGCHLD handler changes the state of its slot. What makes it correct:
no job outlives its child or leaves the list before it, at most one job is FG
and the shell waits for it, no stop is lost, no zombie stays, the prompt comes
back.

*proxy.* `main` accepts a connection into its local `connfd` and starts a thread
with the address of `connfd`. The thread copies it, reads a request, searches
the cache as a reader (`critical_lock` protects `reader_count`; the first reader
takes `writer_lock`, the last gives it back), and on a miss forwards the request
and calls `cache_set`, which takes no lock. The wrappers of `csapp.c` end the
whole process on any error. What makes it correct: a thread serves its own
connection, the locks never deadlock, the list is not changed while it is used,
the cache keeps count and size of what it holds.

*malloc lab.* `mdriver` replays a trace against `mm_malloc`, `mm_free` and
`mm_realloc` in three passes (is every answer right, how much memory, how fast),
and keeps a list of the address ranges in use; `mm.c` grows its heap through
`memlib`'s `mem_sbrk`, and the driver resets the heap, but not its words,
between passes. What makes it correct: blocks are disjoint and aligned and keep
their contents, tags agree, every free block is on its list and has no free
neighbour, and `mm_malloc` refuses only when the memory is used up and no free
block would do (`mm_realloc` of the last block does not look for one).

*cache lab.* `csim` replays a trace over sets of lines. `test-trans` runs
`tracegen`, which calls a transpose and validates it, cuts its trace out between
two markers, gives it to the reference simulator and reads the misses from a
file. What makes it correct: the simulator evicts the block used longest ago;
the result is the transpose and its misses stay within the grading bounds.

*data lab.* `btest` generates arguments for each puzzle of `bits.c`, calls it
and its reference in `tests.c`, and ends calls that hang by an alarm and a jump.
What makes it correct: puzzles equal their references; points are lost for
functions that are wrong or were ended, and for nothing else.

*Tiny and Rio.* Proxy and Tiny read and write through the Rio package, which
hides short counts and interruptions. Tiny serves one connection at a time: a
file, or the output of a CGI child it waits for. What makes it correct: every
connection gets one whole answer and its turn.

## 2. Plan

Order: the programs with concurrency first (`tsh`, then the proxy), then the
allocator, whose state is the richest, then the simulator and its users, the I/O
library and Tiny. All of these have their modules now. What is left:

1. `Rio` under the threads of `Proxy` and the server of `Tiny`, whose reads and
   writes are single steps now.
2. `cache_set` statement by statement under two threads, in place of the
   outcome `Proxy` allows now (`SetRaces`, `SetCrashes`).

## 3. Modules

### The shell

* `JobTable`: the job list as operators on the array. A scan of the array from
  slot 0 is the smallest slot of a set; `clearjob`, `addjob`, `deletejob`,
  `maxjid`, `fgpid`, `getjobpid`, `getjobjid` keep their names.
* `Tsh`: the shell. Its variables are the C globals (`jobs`, `nextjid`), the
  locals that survive a step (`cur`, `fg`, `slot`; `hpid` for the handlers),
  program counters (`mpc`, and `hpc` for each handler), and the kernel's view:
  `proc` (each child), `pending`, `blocked`, `stack` (handlers on top of the
  main program, innermost first).

  | code | actions |
  |---|---|
  | `main`, `eval` | `Quit`, `EvalCommand` (up to SIG_BLOCK), `Fork`, `AddJob`, `Unblock` |
  | `do_bgfg` | `BgFgCommand`, `NoSuchJob`, `LookupJob` (with the SIGCONT), `SetState` |
  | `waitfg` | `WaitFgLookup`, `WaitFgReturn` |
  | `listjobs` | `JobsCommand`, `ListCheck`, `ListPrint`, `ListError` |
  | `sigchld_handler` | `ChldWait` (waitpid), then `ChldDelete`, `ChldStop` or `ChldNullJob`; `ChldReturn` |
  | `sigint_handler`, `sigtstp_handler` | `Sample` (fgpid), `KillFg`, `KillFgFails` |
  | `sigquit_handler` | `SigQuit` |
  | kernel, user, children | `Deliver`, `Keystroke`, `ChildSetpgid`, `ChildExec`, `ChildExecFails`, `ProcExit`, `ProcKilled`, `ProcStop`, `ProcCont` |

  A step is the code between two points at which a signal makes a difference:
  a system call, or a read or write of what a handler also uses.
* `JobControl`: what a user is promised, without slots, signals or handlers.

### The proxy

* `MemCache`: `cache.c`, called by one thread at a time. `mc` is the struct with
  the memory of its nodes; `cache_set` is one action, made of the operators
  `cache_get`, `delete_node`, `MakeRoom` (the loop over `dequeue`) and
  `enqueue`; `cache_setAborts` is a failed assertion.
* `CacheFifo`: what `cache_set` does to its caller: a queue of objects, oldest
  first. `Store` drops the object of the same key, then what is in the way;
  `Break` is a failed assertion, exactly when the object is too large or more
  than one other would be in its way (`Refuses`). The code keeps insertion order;
  a hit does not move a node, and keys that differ by case are one.
* `Proxy`: main (`mpc`, `connfd`), the threads (`pc`, and the locals of `serve`
  that matter), the descriptor table `fds`, the two semaphores, the cache as a
  map from uris. Threads are named after the connection they were started for.

  | code | actions |
  |---|---|
  | `main` | `AcceptConn`, `AcceptFails`, `CreateThread` |
  | `thread_serv` | `StartThread` (reads `connfd` through the pointer), `CloseConn` |
  | `serve`, request | `ReadRequest`, `OtherMethod`, `NoRequest`, `SpinInHeaders`, `Reject` |
  | `serve`, readers' lock | `Lock`, `CountReader`, `FirstReader`, `Entered`, `Leave`, `UncountReader`, `Unlocked` |
  | `serve`, cache and server | `Lookup`, `SendCached`, `ConnectServer`, `Forward`, `SetBegin`, `SetEnd` |
  | the wrappers of `csapp.c` | `BadDescriptor`, `ClientIsGone`, `ConnectFails`, `ServerFails` |
  | `cache_set` misbehaving | `SetAborts` (assertion), `SetRaces`, `SetCrashes` (data race) |
  | the clients | `ClientLeaves` |

  `cache_set` takes two steps (`setting` in between), so that others can be at
  the list meanwhile. Two threads changing the list at once is a data race: from
  then on (`raced`) objects may be lost and a call may follow a bad pointer.

### The allocator

* `Allocator`: what malloc, free and realloc promise: live blocks are aligned,
  lie inside the memory, do not overlap, and keep their words; `realloc` keeps
  the common prefix; any request may fail without effect.
* `Heap`: `mm.c` and `memlib.c` as operators from heap to heap. The heap is an
  array of words, `h.m`, with the list heads, tags, links and data all in the
  same words, so that a stale word can be taken for a tag as in the code.
  Macros and functions keep their names; a word is 4 bytes and sizes count
  words. `mm_realloc` is split by its branches: `Shrink`, `Grow`, `MoveBlock`.
  The loops over lists and blocks are recursive functions, `Node` and `Walk`,
  over places up to the number of blocks that fit the memory.
* `MDriver`: `main` and the three passes. `ReadTrace` starts a trace, which
  `ValidOp` (one request: the call and all checks of `eval_mm_valid`) chooses as
  it goes; `ValidEnds`, `ReplayOp`, `UtilEnds`, `SpeedEnds` and `Results` are
  the other passes. The block contents are those that the driver writes.

### The cache lab

* `CSim`: `LRUCacheAccess` as one action (`UpdateSet`, `Count`), sets and tags,
  for any number of sets and lines; `Lru` feeds it any trace and keeps a history
  of last uses to state what LRU means.
* `Trans`: the two transposes, one action per access of memory: `Load`, `Store`,
  `StoreDiag`, with the loop variables advanced in between (`NextRow`,
  `Advance`). `CallTrans` is the call with the matrices of `initMatrix`.
* `TestTrans` extends both: every access of the transpose is an access of the
  simulator. `StartFunction`, `Global` (the markers' accesses), `Returned`,
  `Validate`, `Simulated`, `SimulatorFails`, `Collect`, `Report`, `Return` are
  `eval_perf` and `main`; `Alarm` is the handler.

### The data lab

* `Bits`: each puzzle with its source name, in 32-bit words, and each reference
  as `test_...`. Floats are their bit patterns.
* `Btest`: options (`ReadOption`, `StartTests`), then for each function
  `GenVals`, `SetJump`, `SetAlarm`, one `Call` per combination of arguments, and
  `Alarm` wherever the signal may arrive.

### Robust I/O and Tiny

* `Rio`: a writer (`CallWrite`, `Write`, `WriteError`, `CloseWriter`) and a
  reader of one connection of bounded capacity. `CallRead` is any of the three
  readers; `Refill`, `Copy`, `Readn`, `Return`, `ReadEof`, `ReadError` are its
  loops, one system call or one copy at a time. A byte is its position in the
  stream.
* `Tiny`: `Accept`, `ReadRequest`, `read_requesthdrs`, `stat`, `Write`,
  `OpenFile`, `WriteBody`, `Fork`, `Wait`, `Close` of the server; `Execve` and
  `Adder` of the child; clients that connect, send and leave, and a directory in
  which files change. What a client was sent is a sequence of named parts.

### Proofs

`LeastNumber` (minima of sets of numbers, loops), `TshProofs` (with the job
list), `ProxyLabProofs` (locks and cache), `MallocProofs` (allocator and
driver), `CacheLabProofs` (simulator and transposes), `BtestProofs`,
`RioProofs`, `TinyProofs`.

## 4. Runs

| run | instance | shows |
|---|---|---|
| `TshSafety` | 3 children, 2 slots, ctrl-c | the safety properties and the inductive invariant `IInv`, also when a child finds no slot; jobs can be looked up |
| `TshLive` | 2 children, 2 slots, ctrl-z, `FairSpec` | no zombie stays (`ZombiesReaped`), the prompt returns (`FgReturns`); every child has its slot; the shell implements `JobControl` |
| `CacheSmall` | 4 keys (two equal but for case), 4 sizes, capacity 4 | list, count and size agree; the list implements `CacheFifo`, which also says when an assertion fails |
| `ProxySafety` | 3 connections, 4 descriptors, a small and a large object | locks, reader count, ownership and number of descriptors |
| `ProxyLive` | 2 connections, 3 descriptors, all kinds of objects, `FairSpec` | whoever asks for `critical_lock` gets it and gives it back |
| `Malloc` | 2 blocks, one with an id above 127, sizes 0, 2, 5, 12, a memory of 42 words, 4 requests and then 1 | the heap is sound after every call of every pass; whatever fault the driver reports has its cause (`FaultHasCause`): size 0, a used up memory, a high id; ranges and utilization are right; replays succeed; the heap implements `Allocator` |
| `CSim` | 1, 2 or 4 sets, 3, 2 or 1 lines, every trace of 6 accesses | stamps implement LRU; the counts fit |
| `TestTrans` | 32 x 32, 64 x 64, 61 x 67, and 64 x 32 | transposed (but for the last shape), within the misses of the grading; a result line is of a correct submission with misses or of an incorrect one without, or the 0:0 of the alarm |
| `Btest` | all puzzles, their ranges, TEST_RANGE 4, eleven command lines | arrays fit; puzzles equal references on generated and given arguments, but for `float_twice` of a number of 2^127 or more with a fraction; hanging calls are ended |
| `Rio` | 8 bytes with 3 newlines, buffer 3, connection 4, calls of 2, 3, 5 | bytes arrive once and in order, short counts only at lines and at the end, everything arrives |
| `Tiny` | 2 clients, 7 kinds of request, files that change | one whole answer each, by one program at a time; every connection is closed, unless the server has ended or waits for headers of a client that left inside them |

One run ends in a violation: `ProxyConnfd`. `main` overwrites `connfd` before
the new thread has read it, and two threads serve one connection, where the
driver expects "a concurrent caching proxy" (`EachServed`).

Disagreements between the code and what it says of itself, and faults, that the
models contain as actions or by the values they compute. The passing properties
accept them, each at the place named here; where a property names the exact
cases in which the code goes wrong, so does this list.

* tsh: the SIGCHLD handler dereferences the NULL job of a child that found no
  slot (`ChldNullJob`; `NoNullJob` holds for at most MAXJOBS children); ctrl-c
  before the child's `setpgid` or after it was reaped makes `kill` fail and the
  shell exit (`KillFgFails`); a SIGCHLD handled between `fgpid` and `kill` lets
  ctrl-c reach a stopped job (`Sample`, `KillFg`); a child that has not called
  execve catches ctrl-c in its copy of the handler and loses it (`KillFg`); ids
  collide after `nextjid` wraps (`addjobNextjid`), so `LookupFindsUsed` says only
  that some slot in use is found; `listjobs` prints its "Internal error" when a
  job is deleted under it (`ListError`).
* proxy: `dequeue` clears `prev` of the node that leaves and then asserts it of
  the new head, so that evicting from two or more nodes aborts (`dequeue`), and
  so does an object of MAX_OBJECT_SIZE or more (`SetAborts`): `Refuses` of
  `CacheFifo` is exactly these two cases; `cache_set` runs without a lock
  (`SetRaces`, `SetCrashes`); a client that leaves ends the proxy although
  SIGPIPE is ignored (`ClientIsGone`); a binary object is cached cut at its first
  zero byte (`Stored`); the descriptor of the server is never closed
  (`ConnectServer`; `DescriptorsAddUp` states the leak, it does not reject it);
  end of file inside the headers is not noticed (`SpinInHeaders`).
* malloc lab: `mm_realloc` of the last block gives up when the heap cannot grow,
  where `mm_malloc` would find a free block (`Grow`; the last case of
  `FaultHasCause`); data with an id of 128 or more is reported as lost after a
  realloc, as `newp[j]` is a signed char (`Lost`; a case of `FaultHasCause`); the
  check of free blocks in `mm_check` tests the wrong word.
* cache lab: `transpose_submit` takes its square branch for any matrix with 32
  or 64 rows (`Square`; `Promised` leaves out those that are not square); a
  simulator that fails leaves the counts of another function to be read
  (`SimulatorFails`), which `VerdictsAgree` accepts; `-M` is documented as rows;
  an unknown option counts as success; the alarm's result line may follow another
  (`Alarm`), which `VerdictsAgree` accepts too: `driver.py` reads the first
  numbers.
* data lab: `float_twice` of a number of 2^127 or more with a fraction is a NaN
  pattern (`OverflowGiven`, which `ScoreIsFair` counts); the alarm of a function
  that returned stays set (phase "undefined"); the exhaustive case of `gen_vals`
  admits one value too many; `get_num_val` refuses an int, but not a float, for
  an argument that has a value.
* Tiny: an empty file, or one that is removed after the `stat`, ends the server
  (`OpenFile`, `WriteBody`); end of file in the headers makes it spin
  (`read_requesthdrs`; `LeftInHeaders`, which `EachClosed` excepts); adder is
  killed by arguments without '&' (`Adds`); the server's buffered log reaches the
  client when execve fails (`Execve`).

### Bounds

* `MAXJOBS` is 2 instead of 16: one slot for the job at hand and one for
  another, or all in use, with one more child than slots. The theorems are for
  every number of slots, and past every wrap-around of `nextjid`.
* `JidBound` stops `Tsh` from starting jobs once `nextjid` is
  larger: `deletejob` sets `nextjid` to `maxjid + 1`, which can pass `MAXJOBS`.
* `Pids` are reused after a child was reaped, so that two or three of them give
  histories of any length.
* `MaxCache` 4 and sizes 0, 1, 3 and 4 give objects that fit next to others,
  fill the cache exactly, and are too large. Four nodes hold every list of that
  size. The code never frees a node; the model gives the address of a node that
  left the list to a later one, so that the state space is finite.
* `MaxFd` is so small that descriptors run out and are reused. Three connections
  are the fewest with a first, a middle and a last reader, and a connection
  accepted between the start of a thread and the next accept. The objects of all
  uris fit into the cache, so that eviction is left to `MemCache`.
* The memory of `Malloc` has room for its list heads and a little over two chunks,
  so that two blocks can use it up, with the last one stuck; the sizes are 0, for
  which the code has its own branches, below the smallest block, between, and
  above a chunk (`CHUNKSIZE` 8). Two blocks give a block with a free one on either
  side.
  Data of the high id are found lost after a move; those of the other are not.
  `Repeats` is 2: the timer's repetitions all start alike.
* `CSim` traces are longer than the largest set needs to fill and evict twice.
  `STAMPS` is above their length: the wrap of the 32-bit stamp is out of scope,
  as the theorem says.
* `TestTrans` has the real cache and the real shapes, all its accesses, and one
  layout of the globals.
* `Btest` has the real table of functions and ranges, `TEST_RANGE` 4 instead of
  500000, and `MaxAlarms` 1 late alarm. Random draws are four words.
* `Rio`: the buffer is smaller than the largest call, larger than the smallest,
  and the connection holds more than the buffer; lines end inside and at the end
  of buffers.
* `Tiny`: a second client waits while the first is served. `Lines` is 3: a
  request line, a header and the empty line.
* The runs with liveness use no symmetry, which would be unsound there.
* `CHECK_DEADLOCK FALSE` is said where a program ends: the drivers and tests
  finish, a trace comes to its bound, a stream to its end, Tiny has no client
  left or has exited.

### Fairness

`Tsh!FairSpec`: the main program's own steps, delivery of an unblocked signal,
and handler steps are weakly fair: the kernel schedules a process that can run.
Reading a command, children and the user are not: a child may run for ever.
The two liveness properties also assume (`Quiet`) that keystrokes, stops and
continues from outside cease at some time, since an endless stream of them can
keep a handler from returning.

`Proxy!FairSpec`: each thread's steps in and around the critical sections are
weakly fair. Reads, writes, clients and servers are not, so `LocksAreReleased`
says that a reader stuck at a slow client does not hold up the others. Weak
fairness is enough for `P`, as a thread passes the lock twice and there are
finitely many threads.

`Rio!Spec`: the writer and a caller that has not come to the end are weakly
fair. A read that can return data does so in the end (strong fairness of `Get`):
a signal may interrupt any read, but not every one.

`Tiny!Spec`: the server and the CGI program are weakly fair; a client that has
connected goes on with its request or leaves. Without the latter one idle client
stops an iterative server for ever, which is its design.

## 5. Proofs

All theorems hold for every value of the constants under the named assumptions
of the modules; no state constraint or bound other than
`JidBound` and, for `Lru`, `MaxAccesses` is involved.

*Shell* (`TshProofs`). `IInv` is inductive (`Inductive`). The properties alone
are not: that no job is stale (`NoStaleJob`) after `addjob` needs that the child
just forked has not been reaped, hence that SIGCHLD is blocked in the critical
section and no handler for it is on the stack (`CriticalIsBlocked`,
`HandlersOnStack`); that the handler deletes the right job needs that its pid is
gone from the kernel (`ReapedIsGone`) and on one slot only (`OneSlotPerPid`);
that a foreground job is waited for needs that `do_bgfg` still holds the slot it
looked up (`FoundIsThere`) and that `waitfg` watches the slot of its job
(`WaitsForItsJob`). From `IInv` follow `TypeCorrect`, `ForegroundIsWaitedFor`,
`OneForegroundJob`, `JobsAreLive`, `StopsAreRecorded` and the action property
`OnlyReapedForgotten`. `Refinement` shows every step to be a step of
`JobControl` or a stutter. `ChildrenHaveSlots` and `HandlerFindsJob` assume
finitely many children and count: an injection from children to slots
(also in `TshProofs`).

*Proxy* (`ProxyLabProofs`). `ProxyInv` is inductive (`ProxyInductive`). The locks
need that the reader at `P(&writer_lock)` is the only one counted
(`FirstIsOnly`), which with the reader count gives that `writer_lock` is free
there (`LocksDoNotBlock`, `WriterLockHeld`, `ReadersCounted`). Ownership of
descriptors (`OwnConnection`) holds as long as main has not accepted a
connection before the last thread read `connfd` (history variable `late`); it
needs that main and the new thread agree on `connfd` (`ConnfdInTime`) and that a
connection not yet accepted has no thread (`NewHasNoThread`).
`DescriptorsCounted` counts along the steps: only an accept, a connection to the
server and the close of a thread change what is in use, each by one, and a
thread opens a connection to the server once (`AsksOnce`).

`JobsAreFound` adds that ids are positive (`JidsArePositive`) to `IInv`: an id
of 0 is that of an empty slot.

*LRU* (`CacheLabProofs`). `LruInv` is inductive (`LruIsKept`): stamps are last uses,
which needs that no block is held twice, so that the line found is the line to
be stamped, and that the clear lines have the smallest stamps, so that they are
taken before any block is evicted. `LeastNumber` gives the line with the
smallest stamp. `CountsFit` counts the lines in use: an access that neither hits
nor evicts fills one more.

`MostRecentKept` is what is meant by LRU: the blocks used after one that is
present are in other lines of its set, so there are fewer than E of them; when a
block is gone, the blocks of all E lines are later.

*Object cache* (`ProxyLabProofs`). `MInv` is inductive (`CacheMInv`): there is a
sequence of nodes (`Keeps`) along which next and prev, head and tail, the count
and the size agree, and no key occurs twice. Each part is needed for the others:
a second node of a key would survive `delete_node`, a wrong size would end
`MakeRoom` too early or never. From it follow `CacheIsDoublyLinked` and
`CacheSizeIsRight`. `CacheImplementsFifo` maps the nodes to the queue and shows
every `cache_set` to be a `Store` when the queue does not refuse the object, and
a `Break`, which changes nothing, when it does: `dequeue` clears the `prev` of
the wrong node, so a list of two or more that is in the way fails its assertion
(`PreparedFails`), and nothing else does (`AbortIsRefusal`).

*Transposes* (`CacheLabProofs`). `TransInv` is inductive (`TransIsKept`): every
element the loops have passed is in B, but for the one on the diagonal that
waits in `temp`; storing `temp` again, as ragged blocks do, stores the same
value. `TransposesAll` follows for the shapes of `Promised`: for
`transpose_submit` those that are square or have a number of rows other than 32
and 64, for `trans` all. For the rest it is false: the shape 64 x 32 of the run is not transposed.
`ShapesAssumption` says that a shape is positive and at most MAXN, which `main`
checks.

*Verdicts* (`CacheLabProofs`). `VerdictsAlwaysAgree` rests on two halves of
`VerdictIsKept`. One counts (`MissesOfTrace`): the simulator starts cold, so the
first access of a trace misses; and misses stay behind the accesses, three to an
element at most, which the place of the loops bounds in every shape, also in
those that are not transposed right (`Inside`, `Place`). So a number of misses is
never 0, and never INT_MAX, which stands for none. The other follows the result
(`VerdictByPhase`): it is decided but between the exit code of tracegen and the
file, when the submission is accepted and has no misses yet, and no line is
printed of it then. `GlobalsAssumption` says that a trace has few accesses
besides those of the function: a marker at least, and 2^16 at most (the
code has five).

*Puzzle test* (`BtestProofs`). `ArraysAlwaysFit` bounds what each case of
`gen_vals` writes: 12 values per turn and 4 for floats, 5 per turn for samples,
and for the exhaustive case that no range of `decl.c` is exactly as wide as the
array, which would be one too many. `RangeAssumption`, TEST_RANGE at least 4, is
what the floats need; the code has 500000. `HangsAlwaysEnd` follows from
`AlarmInv`.
Six puzzles (`SetPuzzles`) work on bits alone, and so do their references; they
agree on all words (`SetPuzzlesAgree`). A word is the set of its bits, and lemmas
say which bits a shift, a complement and a sum leave. The carry of an increment
runs through the bits below the lowest zero (`IncrementCarries`), so the negative
keeps the lowest one bit and complements what is above (`MinusComplements`): this
carries `bang` and `NegativeAddsUp`. `SecondsInv` says that `gen_vals` lists all
byte numbers and shift counts of the table and no other, so no call of these
puzzles adds an error (`PuzzlesKeepTheirPoints`), except with a second argument
from the command line, which `btest` does not check against the range.

*Robust I/O* (`RioProofs`). `RioInv` is inductive (`BytesInOrder`), for every
size of buffer, connection and call: what was received, what the buffer holds
and what the connection holds are consecutive. `ShortCounts` follows with the
positions of the newlines before the current call.

*Tiny* (`TinyProofs`). `Kept` is inductive: it says for every place of the server
how much of the answer was written, and for a write in progress that what was
written and what is left make up an answer (`Progress`); that a program runs only
while the server waits (`Program`); and that nothing is written to a connection
that waits in the queue (`Turns`). `OneAnswerEach` follows.

*Allocator* (`MallocProofs`). A heap is described by what its words should say:
the addresses `B` of its blocks with their sizes `z`, which tile it from the
prologue to the epilogue (`Grid`), and the set `V` of the free ones. `Sound`
says that header and footer of each block say so, that each free block is linked
in the list of its size (`Linked`: SUCC and PRED of neighbours agree, and a rank
goes down along each list, so that none is a circle) and that no two free blocks
are neighbours. Within a call this is not so: `State` also names the free blocks
that are not listed yet and the blocks whose tags are not written. Each operator
of `Heap` has a contract: `delete_node` and `insert_node` move one block
between those sets (`DeleteNode`, `InsertNode`), `coalesce` makes the heap sound
again (`Coalesces`), and so on to `mm_malloc`, `mm_free` and `mm_realloc`
(`MallocsBlock`, `FreesBlock`, `ReallocsBlock`). Each contract also says which
allocated blocks keep their size and their words (`Kept`), and the one of
`find_fit` that no free block is missed (`FindsFit`), which needs that the
lists go up with the sizes (`SizeLists`) and that `Node`, cut at `MaxBlocks`,
reaches the end of every list: a heap has fewer blocks than that (`FewBlocks`,
by counting). `Good` is the caller's view: the blocks it holds are allocated,
different and as large as asked for.

`DriverInv` is inductive (`DriverSteps`): while a trace is replayed, the heap is
good for what the requests done so far left allocated, whatever the driver
writes into the blocks; in the first pass the tables, the ranges and the fill of
each block are right. In the first pass the trace is legal because it is chosen
so (as the traces of the lab are), and the replays only do the same requests
again, so that `LegalTrace` must be part of the invariant. `HeapStaysSound` and
`RangesStayLive` follow; `SoundChecks` shows that the walks of the checker
(`Walk`, `Node`) see exactly `B` and `V`. `MallocImplementsAllocator` maps the
live blocks and the words they hold to the abstract allocator; a pass that
starts is its `Reset`. `EveryFaultHasCause` adds to the invariant
what the message of the driver is about (`MessageInv`), under no hypothesis on
the memory or the ids: the checks of alignment, bounds and overlap never fail;
`mm_init` fails only on a memory without a first chunk; data are found lost only
for an id whose byte is negative, for which `Lost` reports data that are there;
and a NULL is for the size 0, or on a memory that is used up, where either no
free block is large enough (`NoFreeBlockFits`) or the block to reallocate is the
last of the heap.
`UtilizationStaysShare` adds what the measuring pass keeps (`UtilInv`): `total`
is the number of words in live payloads (`InUse`), counted as a set. Payloads
are apart, so a request changes the count by its size (`SumFollows`); they lie
in the heap, so the count fits it (`PayloadsFit`); and the maximum of the counts
still fits because no operator of the heap takes the break down (`CallRises`).

`ReplaysAlwaysSucceed` compares passes. A later pass starts on a heap that is
full of the words of earlier ones and does not fill its blocks, so its heap is
not the one that `eval_mm_valid` had at the same request; but the package reads
tags and links only, and those agree. `Twins` says this of two heaps: both have
the same blocks, the same free ones among them, and the same words in the heads
and links of the lists (`Alike` on `LinkWords`). A heap can be read in one way
only (`OneShape`, from the prologue upwards), so that being twins is transitive.
Each operator takes twins to twins and answers the same address: `TwinsTag`,
`TwinsDelete`, `TwinsInsert`, `CoalescesAlike`, `FindsAlike`, and so on to
`MallocsAlike`, `FreesAlike`, `ReallocsAlike` and `InitsAlike`; words of data are
no part of it (`PayloadsDiffer`). The invariant `ReplayInv` says that there is a
`History` of the trace: the heap and the table of blocks that the first pass had
before each request, each entry following from the one before. The first pass
extends it (`HistoryGrows`); a later pass is always on a twin of the entry at
its place, with the live blocks where they were (`InStep`), so it gets the
answers of the first pass (`ReplayFollows`), which were not NULL.

`HeapAssumption` says that a chunk is an even number of words, at least a block
(the code has 2^12 bytes); `DriverAssumption` that ids and sizes are numbers.

*Only model-checked*: liveness (out of TLAPS' reach); the budget of the misses
of three shapes (`MissesInBudget`), which hangs on which of thousands of
accesses evict each other; and `ScoreIsFair` for the puzzles whose references
compute on integers. Those are sums of powers of 2 over the bits of a word, a
recursive function the provers do not compute with; the run compares them on
given words.

## 6. Not modelled

* `parseline`, `parse_uri` and the text of commands, requests and responses: a
  command is what it parses to, a request is its uri.
* Output, including `printf` in signal handlers.
* Memory: `malloc` failing, the stack, freeing of cache nodes (never done).
* `free_cache`, behind the endless loop of `main`; `pid2jid`, which nothing
  calls; the debugging functions.
* Bomb lab and attack lab, which come as binaries.
* The timing library (`fcyc.c`, `clock.c`, `ftimer.c`): its results are
  measurements. `MDriver` repeats the speed pass a fixed number of times.
* Sockets: name lookups and address lists of `open_clientfd`, `open_listenfd`.
* `fshow`, `ishow`, the driver scripts, and options of `csim` and `mdriver`.
* `mysplit`, whose own child the shell never sees. Loops of `btest` over three
  arguments: no function of `decl.c` has three.

--------------------------- MODULE ProxyLabProofs ---------------------------
(***************************************************************************)
(* Theorems about Proxy, for any number of connections, descriptors and    *)
(* objects: the readers' lock is right, and a thread that reads connfd in  *)
(* time serves its own connection.  ProxyInv is inductive.                 *)
(* And about MemCache, for every set of keys and objects, every memory     *)
(* and every size of the cache: the pointers of cache.c always form one    *)
(* doubly linked list, its size is what the list holds, and the list is    *)
(* the queue of CacheFifo.                                                 *)
(***************************************************************************)
EXTENDS Proxy, MemCache, LeastNumber, FiniteSetTheorems, SequenceTheorems, TLAPS

(***************************************************************************)
(* The locks.                                                              *)
(***************************************************************************)
LockState == LockInv /\ FirstIsOnly

\* The sets the locks are about depend on the program counters alone.  A step
\* of a thread that stays on its side of the lock changes nothing.
LEMMA SameSide ==
  ASSUME ProxyTypeOK, LockState, UNCHANGED locks,
         NEW t \in Conns, NEW l \in PCs,
         pc' = [pc EXCEPT ![t] = l],
         pc[t] \in Critical <=> l \in Critical,
         pc[t] \in Counted <=> l \in Counted,
         pc[t] = "first" <=> l = "first"
  PROVE  LockState'
<1>1. \A u \in Conns : /\ pc'[u] \in Critical <=> pc[u] \in Critical
                       /\ pc'[u] \in Counted <=> pc[u] \in Counted
                       /\ pc'[u] = "first" <=> pc[u] = "first"
  BY DEF ProxyTypeOK
<1>2. InCritical' = InCritical /\ Readers' = Readers
  BY <1>1 DEF InCritical, Readers
<1>3. CriticalExcludes'
  BY <1>2 DEF LockState, LockInv, CriticalExcludes, locks
<1>4. ReadersAreCounted'
  BY <1>2 DEF LockState, LockInv, ReadersAreCounted, locks
<1>5. ReadersHoldWriterLock'
  <2>1. \A u \in Conns : pc'[u] # "first" <=> pc[u] # "first"
    BY <1>1
  <2>2. (\E u \in Readers : pc[u] # "first")' <=> \E u \in Readers : pc[u] # "first"
    BY <1>2, <2>1 DEF Readers
  <2> QED BY <2>2 DEF LockState, LockInv, ReadersHoldWriterLock, locks
<1>6. FirstNeverBlocks'
  BY <1>1 DEF LockState, LockInv, FirstNeverBlocks, locks
<1>7. FirstIsOnly'
  BY <1>1 DEF LockState, FirstIsOnly
<1> QED BY <1>3, <1>4, <1>5, <1>6, <1>7 DEF LockState, LockInv

\* A step that moves no thread.
LEMMA SamePlace ==
  ASSUME LockState, UNCHANGED <<pc, locks>>
  PROVE  LockState'
BY DEF LockState, LockInv, CriticalExcludes, ReadersAreCounted, ReadersHoldWriterLock,
       FirstNeverBlocks, FirstIsOnly, InCritical, Readers, locks

\* The readers are finitely many, so that they can be counted.
LEMMA ReadersFinite == IsFiniteSet(Readers)
BY ProxyAssumption, FS_Subset DEF Readers

\* P(&critical_lock): no other thread is in a critical section.
LEMMA EnterCritical ==
  ASSUME ProxyTypeOK, LockState,
         NEW t \in Conns, Lock(t) \/ Leave(t)
  PROVE  LockState'
<1> DEFINE l == IF pc[t] = "lock" THEN "count" ELSE "uncount"
<1>1. /\ pc[t] \in {"lock", "leave"} /\ pc' = [pc EXCEPT ![t] = l]
      /\ critical_lock = 1 /\ critical_lock' = 0
      /\ UNCHANGED <<writer_lock, reader_count>>
  BY DEF Lock, Leave, At, Goto, P
<1>2. InCritical = {}
  BY <1>1 DEF LockState, LockInv, CriticalExcludes
<1>3. pc'[t] = l /\ \A u \in Conns \ {t} : pc'[u] = pc[u]
  BY <1>1 DEF ProxyTypeOK
<1>4. InCritical' = {t}
  BY <1>1, <1>2, <1>3 DEF InCritical, Critical, Entering, Leaving
<1>5. \A u \in Conns : pc[u] # "first" /\ pc'[u] # "first"
  BY <1>1, <1>2, <1>3 DEF InCritical, Critical, Entering
<1>6. Readers' = Readers
  BY <1>1, <1>3 DEF Readers, Counted, Reading
<1>7. CriticalExcludes'
  BY <1>1, <1>4 DEF CriticalExcludes
<1>8. ReadersAreCounted'
  BY <1>1, <1>6 DEF LockState, LockInv, ReadersAreCounted
<1>9. ReadersHoldWriterLock'
  BY <1>1, <1>5, <1>6 DEF LockState, LockInv, ReadersHoldWriterLock, Readers
<1> QED BY <1>5, <1>7, <1>8, <1>9 DEF LockState, LockInv, FirstNeverBlocks, FirstIsOnly

\* V(&critical_lock): the thread was the only one in a critical section.
LEMMA LeaveCritical ==
  ASSUME ProxyTypeOK, LockState,
         NEW t \in Conns, Entered(t) \/ Unlocked(t)
  PROVE  LockState'
<1>1. PICK l \in {"get", "connect", "close"} :
        /\ \/ pc[t] = "entered" /\ l = "get"
           \/ pc[t] = "left" /\ l \in {"connect", "close"}
        /\ pc' = [pc EXCEPT ![t] = l]
        /\ critical_lock' = 1
        /\ UNCHANGED <<writer_lock, reader_count>>
  BY DEF Entered, Unlocked, At, Goto
<1>2. InCritical = {t}
  BY <1>1 DEF LockState, LockInv, CriticalExcludes, InCritical, Critical, Entering, Leaving
<1>3. pc'[t] = l /\ \A u \in Conns \ {t} : pc'[u] = pc[u]
  BY <1>1 DEF ProxyTypeOK
<1>4. InCritical' = {}
  BY <1>2, <1>3 DEF InCritical, Critical, Entering, Leaving
<1>5. \A u \in Conns : pc[u] # "first" /\ pc'[u] # "first"
  BY <1>1, <1>2, <1>3 DEF InCritical, Critical, Entering
<1>6. Readers' = Readers
  BY <1>1, <1>3 DEF Readers, Counted, Reading
<1>7. CriticalExcludes'
  BY <1>1, <1>4 DEF CriticalExcludes
<1>8. ReadersAreCounted'
  BY <1>1, <1>6 DEF LockState, LockInv, ReadersAreCounted
<1>9. ReadersHoldWriterLock'
  BY <1>1, <1>5, <1>6 DEF LockState, LockInv, ReadersHoldWriterLock, Readers
<1> QED BY <1>5, <1>7, <1>8, <1>9 DEF LockState, LockInv, FirstNeverBlocks, FirstIsOnly

\* reader_count++: with one reader the thread goes on to P(&writer_lock).
LEMMA CountIn ==
  ASSUME ProxyTypeOK, LockState,
         NEW t \in Conns, CountReader(t)
  PROVE  LockState'
<1> DEFINE l == IF reader_count' = 1 THEN "first" ELSE "entered"
<1>1. /\ pc[t] = "count" /\ pc' = [pc EXCEPT ![t] = l]
      /\ reader_count' = reader_count + 1
      /\ UNCHANGED <<writer_lock, critical_lock>>
  BY DEF CountReader, At, Goto
<1>2. InCritical = {t}
  BY <1>1 DEF LockState, LockInv, CriticalExcludes, InCritical, Critical, Entering
<1>3. pc'[t] = l /\ \A u \in Conns \ {t} : pc'[u] = pc[u]
  BY <1>1 DEF ProxyTypeOK
<1>4. InCritical' = {t}
  BY <1>2, <1>3 DEF InCritical, Critical, Entering, Leaving
<1>5. \A u \in Conns : pc[u] # "first"
  BY <1>1, <1>2 DEF InCritical, Critical, Entering
<1>6. Readers' = Readers \cup {t} /\ t \notin Readers
  BY <1>1, <1>3 DEF Readers, Counted, Reading
<1>7. Cardinality(Readers') = Cardinality(Readers) + 1
  BY <1>6, ReadersFinite, FS_AddElement
<1>8. reader_count' = 1 <=> Readers = {}
  BY <1>1, ReadersFinite, FS_EmptySet DEF LockState, LockInv, ReadersAreCounted, ProxyTypeOK
<1>9. CriticalExcludes'
  BY <1>1, <1>2, <1>4 DEF LockState, LockInv, CriticalExcludes
<1>10. ReadersAreCounted'
  BY <1>1, <1>7 DEF LockState, LockInv, ReadersAreCounted
<1>11. writer_lock = (IF Readers = {} THEN 1 ELSE 0)
  BY <1>5 DEF LockState, LockInv, ReadersHoldWriterLock, Readers
<1>12. ReadersHoldWriterLock'
  <2>1. CASE Readers = {}
    <3>1. \A u \in Readers' : pc'[u] = "first"
      BY <2>1, <1>3, <1>6, <1>8
    <3> QED BY <2>1, <3>1, <1>1, <1>11 DEF ReadersHoldWriterLock
  <2>2. CASE Readers # {}
    <3>1. \E u \in Readers' : pc'[u] # "first"
      BY <2>2, <1>3, <1>5, <1>6, <1>8 DEF Readers
    <3> QED BY <2>2, <3>1, <1>1, <1>11 DEF ReadersHoldWriterLock
  <2> QED BY <2>1, <2>2
<1>13. \A u \in Conns : pc'[u] = "first" => u = t /\ Readers = {}
  BY <1>3, <1>5, <1>8
<1>14. FirstNeverBlocks'
  BY <1>1, <1>11, <1>13 DEF FirstNeverBlocks
<1>15. FirstIsOnly'
  BY <1>3, <1>6, <1>13 DEF FirstIsOnly, Readers
<1> QED BY <1>9, <1>10, <1>12, <1>14, <1>15 DEF LockState, LockInv

\* P(&writer_lock), by the only reader.
LEMMA TakeWriterLock ==
  ASSUME ProxyTypeOK, LockState,
         NEW t \in Conns, FirstReader(t)
  PROVE  LockState'
<1>1. /\ pc[t] = "first" /\ pc' = [pc EXCEPT ![t] = "entered"]
      /\ writer_lock' = 0
      /\ UNCHANGED <<critical_lock, reader_count>>
  BY DEF FirstReader, At, Goto
<1>2. InCritical = {t}
  BY <1>1 DEF LockState, LockInv, CriticalExcludes, InCritical, Critical, Entering
<1>3. pc'[t] = "entered" /\ \A u \in Conns \ {t} : pc'[u] = pc[u]
  BY <1>1 DEF ProxyTypeOK
<1>4. InCritical' = {t}
  BY <1>2, <1>3 DEF InCritical, Critical, Entering, Leaving
<1>5. \A u \in Conns : pc'[u] # "first"
  BY <1>2, <1>3 DEF InCritical, Critical, Entering
<1>6. Readers' = Readers /\ t \in Readers
  BY <1>1, <1>3 DEF Readers, Counted, Reading
<1>7. CriticalExcludes'
  BY <1>1, <1>2, <1>4 DEF LockState, LockInv, CriticalExcludes
<1>8. ReadersAreCounted'
  BY <1>1, <1>6 DEF LockState, LockInv, ReadersAreCounted
<1>9. ReadersHoldWriterLock'
  BY <1>1, <1>3, <1>6 DEF ReadersHoldWriterLock
<1> QED BY <1>5, <1>7, <1>8, <1>9 DEF LockState, LockInv, FirstNeverBlocks, FirstIsOnly

\* reader_count--: the last reader gives writer_lock back.
LEMMA CountOut ==
  ASSUME ProxyTypeOK, LockState,
         NEW t \in Conns, UncountReader(t)
  PROVE  LockState'
<1>1. /\ pc[t] = "uncount" /\ pc' = [pc EXCEPT ![t] = "left"]
      /\ reader_count' = reader_count - 1
      /\ writer_lock' = IF reader_count' = 0 THEN 1 ELSE writer_lock
      /\ UNCHANGED critical_lock
  BY DEF UncountReader, At, Goto
<1>2. InCritical = {t}
  BY <1>1 DEF LockState, LockInv, CriticalExcludes, InCritical, Critical, Leaving
<1>3. pc'[t] = "left" /\ \A u \in Conns \ {t} : pc'[u] = pc[u]
  BY <1>1 DEF ProxyTypeOK
<1>4. InCritical' = {t}
  BY <1>2, <1>3 DEF InCritical, Critical, Entering, Leaving
<1>5. \A u \in Conns : pc[u] # "first" /\ pc'[u] # "first"
  BY <1>1, <1>2, <1>3 DEF InCritical, Critical, Entering
<1>6. Readers' = Readers \ {t} /\ t \in Readers
  BY <1>1, <1>3 DEF Readers, Counted, Reading
<1>7. Cardinality(Readers') = Cardinality(Readers) - 1 /\ IsFiniteSet(Readers')
  BY <1>6, ReadersFinite, FS_RemoveElement
<1>8. reader_count' = Cardinality(Readers')
  BY <1>1, <1>7 DEF LockState, LockInv, ReadersAreCounted
<1>9. reader_count' = 0 <=> Readers' = {}
  BY <1>7, <1>8, FS_EmptySet
<1>10. CriticalExcludes'
  BY <1>1, <1>2, <1>4 DEF LockState, LockInv, CriticalExcludes
<1>11. writer_lock = 0
  BY <1>5, <1>6 DEF LockState, LockInv, ReadersHoldWriterLock
<1>12. ReadersHoldWriterLock'
  BY <1>1, <1>5, <1>6, <1>9, <1>11 DEF ReadersHoldWriterLock, Readers
<1> QED BY <1>5, <1>8, <1>10, <1>12
        DEF LockState, LockInv, ReadersAreCounted, FirstNeverBlocks, FirstIsOnly

\* Every other step of a thread stays on its side of the locks.
LEMMA ThreadLocks ==
  ASSUME ProxyTypeOK, LockState,
         NEW t \in Conns, ThreadStep(t)
  PROVE  LockState'
<1> USE DEF At, Goto, Exit, PCs, Critical, Counted, Entering, Leaving, Reading, Setting
<1>1. CASE Lock(t) \/ Leave(t)
  BY <1>1, EnterCritical
<1>2. CASE Entered(t) \/ Unlocked(t)
  BY <1>2, LeaveCritical
<1>3. CASE CountReader(t)
  BY <1>3, CountIn
<1>4. CASE FirstReader(t)
  BY <1>4, TakeWriterLock
<1>5. CASE UncountReader(t)
  BY <1>5, CountOut
<1>6. CASE BadDescriptor(t) \/ ClientIsGone(t) \/ ConnectFails(t) \/ ServerFails(t)
           \/ SetAborts(t) \/ SetCrashes(t)
  BY <1>6, SamePlace DEF BadDescriptor, ClientIsGone, ConnectFails, ServerFails,
                         SetAborts, SetCrashes
<1>7. CASE StartThread(t)
  BY <1>7, SameSide DEF StartThread
<1>8. CASE ReadRequest(t) \/ OtherMethod(t) \/ NoRequest(t) \/ SpinInHeaders(t) \/ Reject(t)
  BY <1>8, SameSide DEF ReadRequest, OtherMethod, TakeRequest, NoRequest, SpinInHeaders, Reject
<1>9. CASE Lookup(t) \/ SendCached(t)
  BY <1>9, SameSide DEF Lookup, SendCached
<1>10. CASE ConnectServer(t) \/ Forward(t) \/ SetBegin(t) \/ SetEnd(t) \/ SetRaces(t) \/ CloseConn(t)
  BY <1>10, SameSide DEF ConnectServer, Forward, SetBegin, SetEnd, SetRaces, CloseConn
<1> QED
  BY <1>1, <1>2, <1>3, <1>4, <1>5, <1>6, <1>7, <1>8, <1>9, <1>10 DEF ThreadStep, LockStep

LEMMA NextLocks ==
  ASSUME ProxyTypeOK, LockState, LocalsAreSet, [Next]_vars
  PROVE  LockState'
<1>1. CASE \E t \in Conns : ThreadStep(t)
  BY <1>1, ThreadLocks
<1>2. CASE (\E c \in Conns : AcceptConn(c) \/ ClientLeaves(c)) \/ AcceptFails \/ Ended \/ Idle
           \/ UNCHANGED vars
  BY <1>2, SamePlace DEF AcceptConn, ClientLeaves, AcceptFails, Exit, Ended, Idle, vars
<1>3. CASE CreateThread
  <2>1. last \in Conns /\ pc[last] = "none" /\ pc' = [pc EXCEPT ![last] = "start"] /\ UNCHANGED locks
    BY <1>3 DEF CreateThread, LocalsAreSet
  <2>2. \A l \in Conns : last = l => LockState'
    BY <2>1, SameSide DEF PCs, Critical, Counted, Entering, Leaving, Reading
  <2> QED BY <2>1, <2>2
<1> QED BY <1>1, <1>2, <1>3 DEF Next, MainStep

(***************************************************************************)
(* Types and descriptors.                                                  *)
(***************************************************************************)
Shape == ProxyTypeOK /\ LocalsAreSet /\ NewHasNoThread

LEMMA LowestIsFree ==
  ASSUME FreeFds # {}
  PROVE  Lowest \in Fds /\ fds[Lowest] = Closed
<1>1. FreeFds \in SUBSET Nat
  BY ProxyAssumption DEF FreeFds, Fds
<1>2. \E f \in FreeFds : \A g \in FreeFds : f <= g
  BY <1>1, SmallestExists
<1>3. Lowest \in FreeFds
  BY <1>2 DEF Lowest
<1> QED BY <1>3 DEF FreeFds

LEMMA InitShape == Init => ProxyInv
<1> SUFFICES ASSUME Init PROVE ProxyInv
  OBVIOUS
<1>1. ProxyTypeOK
  BY ProxyAssumption
     DEF Init, ProxyTypeOK, PCs, Critical, Counted, Entering, Leaving, Reading, Setting,
         ClientStates, Objects, NoFd
<1>2. Readers = {} /\ InCritical = {}
  BY DEF Init, Readers, InCritical, Counted, Reading, Critical, Entering, Leaving
<1>3. Cardinality(Readers) = 0
  BY <1>2, FS_EmptySet
<1>4. LockInv /\ FirstIsOnly
  BY <1>2, <1>3 DEF Init, LockInv, CriticalExcludes, ReadersAreCounted, ReadersHoldWriterLock,
                    FirstNeverBlocks, FirstIsOnly
<1>5. LocalsAreSet /\ NewHasNoThread /\ ConnfdInTime /\ OwnInTime
  BY DEF Init, LocalsAreSet, NewHasNoThread, ConnfdInTime, OwnInTime, ServesItsOwn, Serving,
         Asking, Critical, Counted, Entering, Leaving, Reading, Setting
<1> QED BY <1>1, <1>4, <1>5 DEF ProxyInv

LEMMA MainShape ==
  ASSUME Shape, MainStep
  PROVE  Shape'
<1> USE DEF Shape, LocalsAreSet, NewHasNoThread, Serving
<1>1. CASE \E c \in Conns : AcceptConn(c)
  <2> PICK c \in Conns : AcceptConn(c)
    BY <1>1
  <2>1. Lowest \in Fds
    BY LowestIsFree DEF AcceptConn
  <2>2. ProxyTypeOK'
    BY <2>1 DEF AcceptConn, ProxyTypeOK, locals, locks, contents, ClientStates
  <2>3. pc[c] = "none" /\ ~(mpc = "create" /\ last = c)
    BY DEF AcceptConn
  <2>4. LocalsAreSet' /\ NewHasNoThread'
    BY <2>1, <2>3 DEF AcceptConn, locals, ProxyTypeOK
  <2> QED BY <2>2, <2>4
<1>2. CASE AcceptFails
  BY <1>2 DEF AcceptFails, Exit, ProxyTypeOK, Ends, locals, locks, contents, mainvars
<1>3. CASE CreateThread
  <2>1. last \in Conns /\ connfd \in Fds
    BY <1>3 DEF CreateThread
  <2>2. ProxyTypeOK'
    BY <1>3, <2>1 DEF CreateThread, ProxyTypeOK, locals, locks, contents, PCs
  <2>3. LocalsAreSet' /\ NewHasNoThread'
    BY <1>3, <2>1
       DEF CreateThread, locals, ProxyTypeOK,
           Asking, Critical, Counted, Entering, Leaving, Reading, Setting
  <2> QED BY <2>2, <2>3
<1> QED BY <1>1, <1>2, <1>3 DEF MainStep

\* What a step of thread t may do to pc, to the clients and to the descriptors.
LEMMA ThreadMoves ==
  ASSUME Shape, NEW t \in Conns, ThreadStep(t)
  PROVE  /\ UNCHANGED <<mpc, connfd, last, late>>
         /\ pc[t] \notin {"none", "done"}
         /\ \A c \in Conns : client'[c] = "new" => client[c] = "new"
         /\ \A u \in Conns \ {t} : pc'[u] = pc[u] /\ tfd'[u] = tfd[u]
         /\ pc'[t] \notin {"none", "start"} \/ pc'[t] = pc[t]
         /\ \/ tfd'[t] = tfd[t] /\ (pc'[t] = pc[t] \/ pc[t] # "start")
            \/ pc[t] = "start" /\ tfd'[t] = connfd
<1> USE DEF At, Goto, Exit, Shape, ProxyTypeOK, mainvars, locals
<1>1. CASE LockStep(t)
  BY <1>1 DEF LockStep, Lock, CountReader, FirstReader, Entered, Leave, UncountReader, Unlocked
<1>2. CASE BadDescriptor(t) \/ ClientIsGone(t) \/ ConnectFails(t) \/ ServerFails(t)
           \/ SetAborts(t) \/ SetCrashes(t)
  BY <1>2 DEF BadDescriptor, ClientIsGone, ConnectFails, ServerFails, SetAborts, SetCrashes,
              Writing
<1>3. CASE StartThread(t)
  BY <1>3 DEF StartThread
<1>4. CASE ReadRequest(t) \/ OtherMethod(t)
  BY <1>4 DEF ReadRequest, OtherMethod, TakeRequest
<1>5. CASE NoRequest(t) \/ SpinInHeaders(t) \/ Reject(t) \/ Lookup(t) \/ SendCached(t)
  BY <1>5 DEF NoRequest, SpinInHeaders, Reject, Lookup, SendCached
<1>6. CASE ConnectServer(t) \/ Forward(t) \/ SetBegin(t) \/ SetEnd(t) \/ SetRaces(t) \/ CloseConn(t)
  BY <1>6 DEF ConnectServer, Forward, SetBegin, SetEnd, SetRaces, CloseConn
<1> QED BY <1>1, <1>2, <1>3, <1>4, <1>5, <1>6 DEF ThreadStep

\* What it may do to the descriptors: open one that is free, or close its own.
LEMMA ThreadDescriptors ==
  ASSUME Shape, NEW t \in Conns, ThreadStep(t)
  PROVE  \/ UNCHANGED fds
         \/ \E f \in Fds : fds[f] = Closed /\ fds' = [fds EXCEPT ![f] = Server]
         \/ /\ pc[t] = "close" /\ pc'[t] = "done"
            /\ fds' = [fds EXCEPT ![tfd[t]] = Closed]
<1>1. CASE LockStep(t)
  BY <1>1 DEF LockStep, Lock, CountReader, FirstReader, Entered, Leave, UncountReader, Unlocked
<1>2. CASE BadDescriptor(t) \/ ClientIsGone(t) \/ ConnectFails(t) \/ ServerFails(t)
           \/ SetAborts(t) \/ SetCrashes(t)
  BY <1>2 DEF BadDescriptor, ClientIsGone, ConnectFails, ServerFails, SetAborts, SetCrashes, Exit
<1>3. CASE StartThread(t) \/ ReadRequest(t) \/ OtherMethod(t) \/ NoRequest(t) \/ SpinInHeaders(t)
           \/ Reject(t) \/ Lookup(t) \/ SendCached(t)
  BY <1>3 DEF StartThread, ReadRequest, OtherMethod, NoRequest, SpinInHeaders, Reject, Lookup,
              SendCached
<1>4. CASE Forward(t) \/ SetBegin(t) \/ SetEnd(t) \/ SetRaces(t)
  BY <1>4 DEF Forward, SetBegin, SetEnd, SetRaces
<1>5. CASE ConnectServer(t)
  BY <1>5, LowestIsFree DEF ConnectServer
<1>6. CASE CloseConn(t)
  BY <1>6 DEF CloseConn, At, Goto, Shape, ProxyTypeOK
<1> QED BY <1>1, <1>2, <1>3, <1>4, <1>5, <1>6 DEF ThreadStep

\* A thread knows the uri it was asked for.
LEMMA ThreadUris ==
  ASSUME Shape, NEW t \in Conns, ThreadStep(t)
  PROVE  \A u \in Conns : pc'[u] \in Asking => uri'[u] \in Uris
<1> USE DEF At, Goto, Exit, Shape, ProxyTypeOK, LocalsAreSet, Asking, locals,
            Critical, Counted, Entering, Leaving, Reading, Setting
<1>1. CASE LockStep(t)
  BY <1>1 DEF LockStep, Lock, CountReader, FirstReader, Entered, Leave, UncountReader, Unlocked
<1>2. CASE BadDescriptor(t) \/ ClientIsGone(t) \/ ConnectFails(t) \/ ServerFails(t)
           \/ SetAborts(t) \/ SetCrashes(t)
  BY <1>2 DEF BadDescriptor, ClientIsGone, ConnectFails, ServerFails, SetAborts, SetCrashes
<1>3. CASE StartThread(t) \/ ReadRequest(t) \/ OtherMethod(t)
  BY <1>3 DEF StartThread, ReadRequest, OtherMethod
<1>4. CASE NoRequest(t) \/ SpinInHeaders(t) \/ Reject(t) \/ Lookup(t) \/ SendCached(t)
  BY <1>4 DEF NoRequest, SpinInHeaders, Reject, Lookup, SendCached
<1>5. CASE ConnectServer(t) \/ Forward(t) \/ SetBegin(t) \/ SetEnd(t) \/ SetRaces(t) \/ CloseConn(t)
  BY <1>5 DEF ConnectServer, Forward, SetBegin, SetEnd, SetRaces, CloseConn
<1> QED BY <1>1, <1>2, <1>3, <1>4, <1>5 DEF ThreadStep

LEMMA ThreadTypes ==
  ASSUME Shape, LockState, NEW t \in Conns, ThreadStep(t)
  PROVE  ProxyTypeOK'
<1> USE DEF At, Goto, Exit, Shape, ProxyTypeOK, mainvars, locals, locks, contents, PCs, Ends,
            Critical, Counted, Entering, Leaving, Reading, Setting
<1>1. CASE Lock(t) \/ Leave(t) \/ Entered(t) \/ Unlocked(t) \/ CountReader(t) \/ FirstReader(t)
  BY <1>1 DEF Lock, Leave, Entered, Unlocked, CountReader, FirstReader
<1>2. CASE UncountReader(t)
  <2>1. t \in Readers
    BY <1>2 DEF UncountReader, Readers
  <2>2. reader_count # 0
    BY <2>1, ReadersFinite, FS_EmptySet DEF LockState, LockInv, ReadersAreCounted
  <2>3. reader_count - 1 \in Nat
    BY <2>2
  <2> QED BY <1>2, <2>3 DEF UncountReader
<1>3. CASE BadDescriptor(t) \/ ClientIsGone(t) \/ ConnectFails(t) \/ ServerFails(t)
           \/ SetAborts(t) \/ SetCrashes(t)
  BY <1>3 DEF BadDescriptor, ClientIsGone, ConnectFails, ServerFails, SetAborts, SetCrashes
<1>4. CASE StartThread(t)
  BY <1>4 DEF StartThread, LocalsAreSet
<1>5. CASE ReadRequest(t) \/ OtherMethod(t)
  BY <1>5 DEF ReadRequest, OtherMethod, TakeRequest, ClientStates
<1>6. CASE NoRequest(t) \/ SpinInHeaders(t) \/ Reject(t) \/ SendCached(t)
           \/ Forward(t) \/ SetBegin(t)
  BY <1>6 DEF NoRequest, SpinInHeaders, Reject, SendCached, Forward, SetBegin
<1>7. CASE Lookup(t)
  <2>1. uri[t] \in Uris
    BY <1>7 DEF Lookup, LocalsAreSet, Asking, Counted, Reading
  <2>2. cache[uri[t]] \in Objects
    BY <2>1
  <2> QED BY <1>7, <2>2 DEF Lookup, Objects
<1>8. CASE ConnectServer(t)
  BY <1>8, LowestIsFree DEF ConnectServer
<1>9. CASE SetEnd(t)
  BY <1>9 DEF SetEnd, Stored, Objects
<1>10. CASE SetRaces(t)
  BY <1>10 DEF SetRaces, Stored, Objects
<1>11. CASE CloseConn(t)
  BY <1>11 DEF CloseConn
<1> QED BY <1>1, <1>2, <1>3, <1>4, <1>5, <1>6, <1>7, <1>8, <1>9, <1>10, <1>11
        DEF ThreadStep, LockStep

LEMMA ThreadShape ==
  ASSUME Shape, LockState, NEW t \in Conns, ThreadStep(t)
  PROVE  Shape'
<1>1. ProxyTypeOK'
  BY ThreadTypes
<1>2. LocalsAreSet'
  <2>1. \A u \in Conns : pc'[u] # "none" => connfd' \in Fds
    BY ThreadMoves DEF Shape, LocalsAreSet
  <2>2. \A u \in Conns : (pc'[u] \notin {"none", "start", "done"}) => tfd'[u] \in Fds
    <3> SUFFICES ASSUME NEW u \in Conns, pc'[u] \notin {"none", "start", "done"}
                 PROVE  tfd'[u] \in Fds
      OBVIOUS
    <3>1. CASE u # t
      BY <3>1, ThreadMoves DEF Shape, LocalsAreSet, Serving
    <3>2. CASE u = t /\ tfd'[t] = tfd[t] /\ (pc'[t] = pc[t] \/ pc[t] # "start")
      <4>1. pc[t] \notin {"none", "start", "done"}
        BY <3>2, ThreadMoves
      <4> QED BY <3>2, <4>1 DEF Shape, LocalsAreSet, Serving
    <3>3. CASE u = t /\ pc[t] = "start" /\ tfd'[t] = connfd
      BY <3>3 DEF Shape, LocalsAreSet
    <3> QED BY <3>1, <3>2, <3>3, ThreadMoves
  <2>3. mpc' = "create" => connfd' \in Fds /\ last' \in Conns /\ pc'[last'] = "none"
    <3> SUFFICES ASSUME mpc' = "create"
                 PROVE  connfd' \in Fds /\ last' \in Conns /\ pc'[last'] = "none"
      OBVIOUS
    <3>1. UNCHANGED <<mpc, connfd, last>> /\ pc[t] # "none"
      BY ThreadMoves
    <3>2. connfd \in Fds /\ last \in Conns /\ pc[last] = "none"
      BY <3>1 DEF Shape, LocalsAreSet
    <3>3. pc'[last] = pc[last]
      BY <3>1, <3>2, ThreadMoves
    <3> QED BY <3>1, <3>2, <3>3
  <2> QED BY <2>1, <2>2, <2>3, ThreadUris DEF LocalsAreSet, Serving
<1>3. NewHasNoThread'
  BY ThreadMoves DEF Shape, NewHasNoThread
<1> QED BY <1>1, <1>2, <1>3 DEF Shape

LEMMA NextShape ==
  ASSUME Shape, LockState, [Next]_vars
  PROVE  Shape'
<1>1. CASE MainStep
  BY <1>1, MainShape
<1>2. CASE \E t \in Conns : ThreadStep(t)
  BY <1>2, ThreadShape
<1>3. CASE \E c \in Conns : ClientLeaves(c)
  BY <1>3 DEF ClientLeaves, Shape, ProxyTypeOK, LocalsAreSet, NewHasNoThread, Serving,
              ClientStates, mainvars, locals, locks, contents
<1>4. CASE Ended \/ Idle \/ UNCHANGED vars
  BY <1>4 DEF Ended, Idle, vars, Shape, ProxyTypeOK, LocalsAreSet, NewHasNoThread, Serving,
              mainvars, locals, locks, contents
<1> QED BY <1>1, <1>2, <1>3, <1>4 DEF Next

(***************************************************************************)
(* Who serves what.                                                        *)
(***************************************************************************)
Ownership == ConnfdInTime /\ OwnInTime

LEMMA AcceptOwns ==
  ASSUME Shape, Ownership, NEW c \in Conns, AcceptConn(c)
  PROVE  Ownership'
<1> SUFFICES ASSUME ~late' PROVE Ownership'
  BY DEF Ownership, ConnfdInTime, OwnInTime
<1>1. /\ ~late /\ \A t \in Conns : pc[t] # "start"
      /\ Lowest \in Fds /\ fds[Lowest] = Closed
      /\ connfd' = Lowest /\ fds' = [fds EXCEPT ![Lowest] = c] /\ last' = c
      /\ UNCHANGED <<pc, tfd>>
  BY LowestIsFree DEF AcceptConn, locals
<1>2. \A t \in Conns : Serving(t) => tfd[t] \in Fds /\ fds[tfd[t]] = t /\ t # Closed
  BY <1>1, ProxyAssumption
     DEF Ownership, OwnInTime, ServesItsOwn, Peer, Shape, LocalsAreSet, Closed
<1>3. ServesItsOwn'
  BY <1>1, <1>2 DEF ServesItsOwn, Serving, Peer, Shape, ProxyTypeOK
<1>4. ConnfdInTime'
  BY <1>1 DEF ConnfdInTime, Shape, ProxyTypeOK
<1> QED BY <1>3, <1>4 DEF Ownership, OwnInTime

LEMMA CreateOwns ==
  ASSUME Shape, Ownership, CreateThread
  PROVE  Ownership'
<1> SUFFICES ASSUME ~late' PROVE Ownership'
  BY DEF Ownership, ConnfdInTime, OwnInTime
<1>1. PICK c \in Conns : /\ c = last /\ fds[connfd] = c
                         /\ pc' = [pc EXCEPT ![c] = "start"]
                         /\ \A t \in Conns : pc[t] # "start"
  BY DEF CreateThread, Shape, LocalsAreSet, Ownership, ConnfdInTime
<1>2. mpc' = "accept" /\ UNCHANGED <<late, connfd, fds, tfd>>
  BY DEF CreateThread, locals
<1>3. \A t \in Conns : Serving(t)' => Serving(t)
  BY <1>1 DEF Serving, Shape, ProxyTypeOK
<1>4. ServesItsOwn'
  BY <1>2, <1>3 DEF ServesItsOwn, Peer, Ownership, OwnInTime
<1>5. ConnfdInTime'
  BY <1>1, <1>2 DEF ConnfdInTime, Shape, ProxyTypeOK
<1> QED BY <1>4, <1>5 DEF Ownership, OwnInTime

LEMMA ThreadOwns ==
  ASSUME Shape, Ownership, NEW t \in Conns, ThreadStep(t)
  PROVE  Ownership'
<1> SUFFICES ASSUME ~late' PROVE Ownership'
  BY DEF Ownership, ConnfdInTime, OwnInTime
<1>1. /\ UNCHANGED <<mpc, connfd, last, late>>
      /\ pc[t] # "none"
      /\ \A u \in Conns \ {t} : pc'[u] = pc[u] /\ tfd'[u] = tfd[u]
      /\ pc'[t] \notin {"none", "start"} \/ pc'[t] = pc[t]
      /\ \/ tfd'[t] = tfd[t] /\ (pc'[t] = pc[t] \/ pc[t] # "start")
         \/ pc[t] = "start" /\ tfd'[t] = connfd
  BY ThreadMoves
<1>2. ~late
  BY <1>1
\* the descriptors that matter, before the step
<1>3. \A u \in Conns : Serving(u) => tfd[u] \in Fds /\ fds[tfd[u]] = u
  BY <1>2 DEF Ownership, OwnInTime, ServesItsOwn, Peer, Shape, LocalsAreSet
<1>4. \A u \in Conns : pc[u] = "start" => connfd \in Fds /\ fds[connfd] = u
  BY <1>2 DEF Ownership, ConnfdInTime, Shape, LocalsAreSet
<1>5. mpc = "create" => /\ connfd \in Fds /\ last \in Conns /\ fds[connfd] = last
                        /\ pc[last] = "none" /\ \A u \in Conns : pc[u] # "start"
  BY <1>2 DEF Ownership, ConnfdInTime, Shape, LocalsAreSet
\* they do not change hands, except the one that t closes as it ends
<1>6. \A f \in Fds : \A u \in Conns :
        (fds[f] = u /\ (u # t \/ pc'[t] # "done" \/ pc[t] # "close")) => fds'[f] = u
  <2>1. CASE UNCHANGED fds
    BY <2>1
  <2>2. CASE \E f \in Fds : fds[f] = Closed /\ fds' = [fds EXCEPT ![f] = Server]
    BY <2>2, ProxyAssumption DEF Closed, Shape, ProxyTypeOK
  <2>3. CASE /\ pc[t] = "close" /\ pc'[t] = "done"
             /\ fds' = [fds EXCEPT ![tfd[t]] = Closed]
    <3>1. tfd[t] \in Fds /\ fds[tfd[t]] = t
      BY <2>3, <1>3 DEF Serving
    <3> QED BY <2>3, <3>1 DEF Shape, ProxyTypeOK
  <2> QED BY <2>1, <2>2, <2>3, ThreadDescriptors
<1>7. ServesItsOwn'
  <2> SUFFICES ASSUME NEW u \in Conns, pc'[u] \notin {"none", "start", "done"}
               PROVE  fds'[tfd'[u]] = u
    BY DEF ServesItsOwn, Serving, Peer
  <2>1. CASE u # t
    <3>1. Serving(u) /\ tfd'[u] = tfd[u]
      BY <2>1, <1>1 DEF Serving
    <3> QED BY <2>1, <3>1, <1>3, <1>6
  <2>2. CASE u = t /\ tfd'[t] = tfd[t] /\ pc[t] # "start"
    <3>1. CASE pc[t] = "done"
      BY <3>1 DEF ThreadStep, LockStep, StartThread, ReadRequest, OtherMethod, TakeRequest,
         NoRequest, SpinInHeaders, Reject, BadDescriptor, ClientIsGone, Lock, CountReader,
         FirstReader, Entered, Leave, UncountReader, Unlocked, Lookup, SendCached,
         ConnectServer, ConnectFails, ServerFails, Forward, SetAborts, SetBegin, SetEnd,
         SetRaces, SetCrashes, CloseConn, At, Writing
    <3>2. CASE pc[t] # "done"
      BY <2>2, <3>2, <1>1, <1>3, <1>6 DEF Serving
    <3> QED BY <3>1, <3>2
  <2>3. CASE u = t /\ pc[t] = "start" /\ tfd'[t] = connfd
    BY <2>3, <1>4, <1>6
  <2> QED BY <2>1, <2>2, <2>3, <1>1
<1>8. ConnfdInTime'
  <2>1. \A u \in Conns : pc'[u] = "start" => pc[u] = "start"
    BY <1>1
  <2>2. mpc' = "create" => fds'[connfd'] = last' /\ \A u \in Conns : pc'[u] # "start"
    BY <2>1, <1>1, <1>5, <1>6
  <2>3. \A u \in Conns : pc'[u] = "start" => fds'[connfd'] = u
    BY <2>1, <1>1, <1>4, <1>6
  <2> QED BY <2>2, <2>3 DEF ConnfdInTime
<1> QED BY <1>7, <1>8 DEF Ownership, OwnInTime

LEMMA NextOwns ==
  ASSUME Shape, Ownership, [Next]_vars
  PROVE  Ownership'
<1>1. CASE \E c \in Conns : AcceptConn(c)
  BY <1>1, AcceptOwns
<1>2. CASE CreateThread
  BY <1>2, CreateOwns
<1>3. CASE \E t \in Conns : ThreadStep(t)
  BY <1>3, ThreadOwns
<1>4. CASE AcceptFails \/ (\E c \in Conns : ClientLeaves(c)) \/ Ended \/ Idle \/ UNCHANGED vars
  BY <1>4 DEF AcceptFails, Exit, ClientLeaves, Ended, Idle, vars, mainvars, locals,
              Ownership, ConnfdInTime, OwnInTime, ServesItsOwn, Serving, Peer
<1> QED BY <1>1, <1>2, <1>3, <1>4 DEF Next, MainStep

(***************************************************************************)
(* How many descriptors are in use.                                        *)
(***************************************************************************)
InUse      == {f \in Fds : fds[f] # Closed}
HasFd(t)   == Serving(t) \/ pc[t] = "start" \/ (mpc = "create" /\ last = t)
Owners     == {t \in Conns : HasFd(t)}
ToServers  == {t \in Conns : sfd[t] # NoFd}

\* A thread that has asked a server is past Open_clientfd.
AsksOnce == \A t \in Conns : sfd[t] # NoFd => pc[t] \in {"forward", "set", "setting", "close", "done"}
Count == AsksOnce /\ DescriptorsAddUp

LEMMA CountSets ==
  /\ IsFiniteSet(InUse) /\ IsFiniteSet(Owners) /\ IsFiniteSet(ToServers)
  /\ Cardinality(InUse) \in Nat /\ Cardinality(Owners) \in Nat /\ Cardinality(ToServers) \in Nat
  /\ DescriptorsAddUp <=> (~late => Cardinality(InUse) = Cardinality(Owners) + Cardinality(ToServers))
<1>1. IsFiniteSet(Fds)
  BY ProxyAssumption, FS_Interval DEF Fds
<1>2. IsFiniteSet(InUse) /\ IsFiniteSet(Owners) /\ IsFiniteSet(ToServers)
  BY <1>1, ProxyAssumption, FS_Subset DEF InUse, Owners, ToServers
<1>3. Cardinality(InUse) \in Nat /\ Cardinality(Owners) \in Nat /\ Cardinality(ToServers) \in Nat
  BY <1>2, FS_CardinalityType
<1>4. DescriptorsAddUp <=> (~late => Cardinality(InUse) = Cardinality(Owners) + Cardinality(ToServers))
  BY Zenon DEF DescriptorsAddUp, InUse, Owners, HasFd, ToServers
<1> QED BY <1>2, <1>3, <1>4

\* A step that changes none of the three sets.
LEMMA SameCount ==
  ASSUME DescriptorsAddUp, late' = late, fds' = fds, sfd' = sfd,
         \A t \in Conns : HasFd(t)' <=> HasFd(t)
  PROVE  DescriptorsAddUp'
<1>1. InUse' = InUse /\ ToServers' = ToServers
  BY DEF InUse, ToServers
<1>2. Owners' = Owners
  BY DEF Owners
<1>3. DescriptorsAddUp' <=> (~late' => Cardinality(InUse') = Cardinality(Owners') + Cardinality(ToServers'))
  BY Zenon DEF DescriptorsAddUp, InUse, Owners, HasFd, ToServers
<1> QED BY <1>1, <1>2, <1>3, CountSets

LEMMA AcceptCounts ==
  ASSUME Shape, Count, NEW c \in Conns, AcceptConn(c)
  PROVE  Count'
<1>1. /\ Lowest \in Fds /\ fds[Lowest] = Closed /\ fds' = [fds EXCEPT ![Lowest] = c]
      /\ mpc = "accept" /\ mpc' = "create" /\ last' = c /\ pc' = pc /\ sfd' = sfd /\ (late => late')
      /\ pc[c] = "none" /\ c # Closed
  BY LowestIsFree, ProxyAssumption DEF AcceptConn, Shape, NewHasNoThread, locals, Closed
<1>2. AsksOnce'
  BY <1>1 DEF Count, AsksOnce
<1>3. InUse' = InUse \cup {Lowest} /\ Lowest \notin InUse
  BY <1>1 DEF InUse, Shape, ProxyTypeOK
<1>4. Owners' = Owners \cup {c} /\ c \notin Owners
  BY <1>1 DEF Owners, HasFd, Serving
<1>5. ToServers' = ToServers
  BY <1>1 DEF ToServers
<1>6. Cardinality(InUse') = Cardinality(InUse) + 1 /\ Cardinality(Owners') = Cardinality(Owners) + 1
  BY <1>3, <1>4, CountSets, FS_AddElement
<1>7. DescriptorsAddUp' <=> (~late' => Cardinality(InUse') = Cardinality(Owners') + Cardinality(ToServers'))
  BY Zenon DEF DescriptorsAddUp, InUse, Owners, HasFd, ToServers
<1>8. ~late' => Cardinality(InUse') = Cardinality(Owners') + Cardinality(ToServers')
  BY <1>1, <1>5, <1>6, CountSets DEF Count
<1> QED BY <1>2, <1>7, <1>8 DEF Count

LEMMA ConnectCounts ==
  ASSUME Shape, Count, NEW t \in Conns, ConnectServer(t)
  PROVE  Count'
<1>1. /\ Lowest \in Fds /\ fds[Lowest] = Closed /\ fds' = [fds EXCEPT ![Lowest] = Server]
      /\ sfd' = [sfd EXCEPT ![t] = Lowest] /\ pc' = [pc EXCEPT ![t] = "forward"] /\ pc[t] = "connect"
      /\ UNCHANGED <<mpc, last, late>> /\ Server # Closed /\ Lowest # NoFd
  BY LowestIsFree, ProxyAssumption DEF ConnectServer, At, Goto, mainvars, Server, Closed, Fds, NoFd
<1>2. sfd[t] = NoFd
  BY <1>1 DEF Count, AsksOnce
<1>3. AsksOnce'
  BY <1>1 DEF Count, AsksOnce, Shape, ProxyTypeOK
<1>4. InUse' = InUse \cup {Lowest} /\ Lowest \notin InUse
  BY <1>1 DEF InUse, Shape, ProxyTypeOK
<1>5. ToServers' = ToServers \cup {t} /\ t \notin ToServers
  BY <1>1, <1>2 DEF ToServers, Shape, ProxyTypeOK
<1>6. Owners' = Owners
  BY <1>1 DEF Owners, HasFd, Serving, Shape, ProxyTypeOK
<1>7. Cardinality(InUse') = Cardinality(InUse) + 1 /\ Cardinality(ToServers') = Cardinality(ToServers) + 1
  BY <1>4, <1>5, CountSets, FS_AddElement
<1>8. DescriptorsAddUp' <=> (~late' => Cardinality(InUse') = Cardinality(Owners') + Cardinality(ToServers'))
  BY Zenon DEF DescriptorsAddUp, InUse, Owners, HasFd, ToServers
<1>9. ~late' => Cardinality(InUse') = Cardinality(Owners') + Cardinality(ToServers')
  BY <1>1, <1>6, <1>7, CountSets DEF Count
<1> QED BY <1>3, <1>8, <1>9 DEF Count

LEMMA CloseCounts ==
  ASSUME Shape, Count, NEW t \in Conns, CloseConn(t)
  PROVE  Count'
<1>1. /\ pc[t] = "close" /\ pc' = [pc EXCEPT ![t] = "done"] /\ fds' = [fds EXCEPT ![tfd[t]] = Closed]
      /\ tfd[t] \in Fds /\ fds[tfd[t]] # Closed
      /\ UNCHANGED <<mpc, last, late, sfd>> /\ ~(mpc = "create" /\ last = t)
  BY DEF CloseConn, At, Goto, Peer, Shape, LocalsAreSet, Serving, mainvars, locals
<1>2. AsksOnce'
  BY <1>1 DEF Count, AsksOnce, Shape, ProxyTypeOK
<1>3. InUse' = InUse \ {tfd[t]} /\ tfd[t] \in InUse
  BY <1>1 DEF InUse, Shape, ProxyTypeOK
<1>4. Owners' = Owners \ {t} /\ t \in Owners
  BY <1>1 DEF Owners, HasFd, Serving, Shape, ProxyTypeOK
<1>5. ToServers' = ToServers
  BY <1>1 DEF ToServers
<1>6. Cardinality(InUse') = Cardinality(InUse) - 1 /\ Cardinality(Owners') = Cardinality(Owners) - 1
  BY <1>3, <1>4, CountSets, FS_RemoveElement
<1>7. DescriptorsAddUp' <=> (~late' => Cardinality(InUse') = Cardinality(Owners') + Cardinality(ToServers'))
  BY Zenon DEF DescriptorsAddUp, InUse, Owners, HasFd, ToServers
<1>8. ~late' => Cardinality(InUse') = Cardinality(Owners') + Cardinality(ToServers')
  BY <1>1, <1>5, <1>6, CountSets DEF Count
<1> QED BY <1>2, <1>7, <1>8 DEF Count

\* The other steps of a thread open and close nothing.
LEMMA OtherCounts ==
  ASSUME Shape, Count, NEW t \in Conns, ThreadStep(t), ~ConnectServer(t), ~CloseConn(t)
  PROVE  Count'
<1>1. UNCHANGED <<fds, sfd>>
      /\ (pc[t] \in {"forward", "set", "setting"} => pc'[t] \in {"forward", "set", "setting", "close"})
      /\ pc'[t] # "done" /\ (pc[t] = "close" => pc'[t] = "close")
  <2> USE DEF At, Goto, Exit, Shape, ProxyTypeOK, locals
  <2>1. CASE LockStep(t)
    BY <2>1 DEF LockStep, Lock, CountReader, FirstReader, Entered, Leave, UncountReader, Unlocked
  <2>2. CASE BadDescriptor(t) \/ ClientIsGone(t) \/ ConnectFails(t) \/ ServerFails(t)
             \/ SetAborts(t) \/ SetCrashes(t)
    BY <2>2 DEF BadDescriptor, ClientIsGone, ConnectFails, ServerFails, SetAborts, SetCrashes, Writing
  <2>3. CASE StartThread(t) \/ ReadRequest(t) \/ OtherMethod(t) \/ NoRequest(t) \/ SpinInHeaders(t)
             \/ Reject(t) \/ Lookup(t) \/ SendCached(t)
    BY <2>3 DEF StartThread, ReadRequest, OtherMethod, TakeRequest, NoRequest, SpinInHeaders, Reject, Lookup,
                SendCached
  <2>4. CASE Forward(t) \/ SetBegin(t) \/ SetEnd(t) \/ SetRaces(t)
    BY <2>4 DEF Forward, SetBegin, SetEnd, SetRaces
  <2> QED BY <2>1, <2>2, <2>3, <2>4 DEF ThreadStep
<1>2. UNCHANGED <<mpc, last, late>> /\ pc[t] \notin {"none", "done"}
      /\ (\A u \in Conns \ {t} : pc'[u] = pc[u])
      /\ (pc'[t] \notin {"none", "start"} \/ pc'[t] = pc[t])
  BY ThreadMoves
<1>3. \A u \in Conns : HasFd(u)' <=> HasFd(u)
  BY <1>1, <1>2 DEF HasFd, Serving
<1>4. DescriptorsAddUp'
  BY <1>1, <1>2, <1>3, SameCount DEF Count
<1>5. AsksOnce'
  BY <1>1, <1>2 DEF Count, AsksOnce
<1> QED BY <1>4, <1>5 DEF Count

LEMMA NextCounts ==
  ASSUME Shape, Count, [Next]_vars
  PROVE  Count'
<1>1. CASE \E c \in Conns : AcceptConn(c)
  BY <1>1, AcceptCounts
<1>2. CASE CreateThread
  <2>1. /\ mpc = "create" /\ mpc' = "accept" /\ UNCHANGED <<fds, sfd, late, last>>
        /\ last \in Conns /\ pc[last] = "none" /\ pc' = [pc EXCEPT ![last] = "start"]
    BY <1>2 DEF CreateThread, locals, Shape, LocalsAreSet
  <2>2. \A t \in Conns : HasFd(t)' <=> HasFd(t)
    BY <2>1 DEF HasFd, Serving, Shape, ProxyTypeOK
  <2>3. DescriptorsAddUp'
    BY <2>1, <2>2, SameCount DEF Count
  <2>4. AsksOnce'
    BY <2>1 DEF Count, AsksOnce, Shape, ProxyTypeOK
  <2> QED BY <2>3, <2>4 DEF Count
<1>3. CASE \E t \in Conns : ThreadStep(t)
  BY <1>3, ConnectCounts, CloseCounts, OtherCounts
<1>4. CASE AcceptFails \/ (\E c \in Conns : ClientLeaves(c)) \/ Ended \/ Idle \/ UNCHANGED vars
  <2>1. UNCHANGED <<fds, sfd, pc, mpc, last, late>>
    BY <1>4 DEF AcceptFails, Exit, ClientLeaves, Ended, Idle, vars, mainvars, locals
  <2>2. \A t \in Conns : HasFd(t)' <=> HasFd(t)
    BY <2>1 DEF HasFd, Serving
  <2> QED BY <2>1, <2>2, SameCount DEF Count, AsksOnce
<1> QED BY <1>1, <1>2, <1>3, <1>4 DEF Next, MainStep

(***************************************************************************)
(* The theorems.                                                           *)
(*                                                                         *)
(* What holds between any two steps of main and the threads.               *)
(***************************************************************************)
THEOREM ProxyInductive == Spec => []ProxyInv
<1>1. ProxyInv /\ [Next]_vars => ProxyInv'
  BY NextLocks, NextShape, NextOwns DEF ProxyInv, Shape, LockState, Ownership
<1> QED BY InitShape, <1>1, PTL DEF Spec

(***************************************************************************)
(* The first reader never waits for writer_lock inside critical_lock: the  *)
(* two semaphores of serve do not deadlock.                                *)
(***************************************************************************)
THEOREM LocksDoNotBlock == Spec => []FirstNeverBlocks
<1>1. ProxyInv => FirstNeverBlocks
  BY DEF ProxyInv, LockInv
<1> QED BY ProxyInductive, <1>1, PTL

(***************************************************************************)
(* reader_count is the number of readers, and writer_lock is held exactly  *)
(* while there are some: the accounting in serve before and after          *)
(* cache_get.                                                              *)
(***************************************************************************)
THEOREM ReadersCounted == Spec => []ReadersAreCounted
<1>1. ProxyInv => ReadersAreCounted
  BY DEF ProxyInv, LockInv
<1> QED BY ProxyInductive, <1>1, PTL

THEOREM WriterLockHeld == Spec => []ReadersHoldWriterLock
<1>1. ProxyInv => ReadersHoldWriterLock
  BY DEF ProxyInv, LockInv
<1> QED BY ProxyInductive, <1>1, PTL

(***************************************************************************)
(* A thread that reads connfd before the next accept serves, and closes,   *)
(* the connection it was started for.                                      *)
(***************************************************************************)
THEOREM OwnConnection == Spec => []OwnInTime
<1>1. ProxyInv => OwnInTime
  BY DEF ProxyInv
<1> QED BY ProxyInductive, <1>1, PTL

(***************************************************************************)
(* As long as threads read connfd in time, the descriptors in use are one  *)
(* for each connection and one for each request that went to a server:     *)
(* serve gives back what accept opened and never what Open_clientfd did.   *)
(***************************************************************************)
THEOREM DescriptorsCounted == Spec => []DescriptorsAddUp
<1>1. Init => Count
  <2> SUFFICES ASSUME Init PROVE Count
    OBVIOUS
  <2>1. InUse = {} /\ Owners = {} /\ ToServers = {}
    BY DEF Init, InUse, Owners, HasFd, Serving, ToServers
  <2>2. AsksOnce
    BY DEF Init, AsksOnce
  <2> QED BY <2>1, <2>2, CountSets, FS_EmptySet DEF Count
<1>2. ProxyInv /\ Count /\ [Next]_vars => Count'
  BY NextCounts DEF ProxyInv, Shape
<1>3. Count => DescriptorsAddUp
  BY DEF Count
<1> QED BY ProxyInductive, <1>1, <1>2, <1>3, PTL DEF Spec

-----------------------------------------------------------------------------
FoldedKeys == {Folded[k] : k \in Keys}
Entries == [key : FoldedKeys, data : Data]

----------------------------------------------------------------------------
\* an object has a size
LEMMA SizeIsNat == \A e \in Entries : Size[e.data] \in Nat
  BY MemCacheAssumption DEF Entries

(***************************************************************************)
(* The sums of the sizes of a queue: the recursion of CacheFifo has a      *)
(* value, a natural number, at every object.                               *)
(***************************************************************************)
LEMMA SumsAdd ==
  ASSUME NEW q \in Seq(Entries)
  PROVE  /\ Fifo!Sums(q) \in [0 .. Len(q) -> Nat]
         /\ Fifo!Sums(q)[0] = 0
         /\ \A i \in 1 .. Len(q) : Fifo!Sums(q)[i] = Fifo!Sums(q)[i - 1] + Size[q[i].data]
<1> DEFINE n == Len(q)
           step == [p \in (1 .. n) \X Nat |-> p[2] + Size[q[p[1]].data]]
           Adds(f) == f = [i \in 0 .. n |-> IF i = 0 THEN 0 ELSE f[i - 1] + Size[q[i].data]]
<1>1. n \in Nat /\ \A i \in 1 .. n : Size[q[i].data] \in Nat
  <2>1. n \in Nat /\ \A i \in 1 .. n : q[i] \in Entries
    BY LenProperties, ElementOfSeq
  <2>2. QED
    BY <2>1, MemCacheAssumption DEF Entries
<1>2. step \in [(1 .. n) \X Nat -> Nat]
  BY <1>1
<1>3. PICK f : Loops(f, n, Nat, 0, step)
  <2>1. 0 \in Nat
    OBVIOUS
  <2> HIDE DEF step, n
  <2>2. QED
    BY <1>1, <1>2, <2>1, LoopExists
<1> USE <1>3 DEF Loops
<1>4. \A i \in 1 .. n : f[i - 1] \in Nat /\ f[i] = f[i - 1] + Size[q[i].data]
  <2> SUFFICES ASSUME NEW i \in 1 .. n
               PROVE  f[i - 1] \in Nat /\ f[i] = f[i - 1] + Size[q[i].data]
    OBVIOUS
  <2>1. f[i - 1] \in Nat
    BY <1>1
  <2>2. QED
    BY <1>1, <1>3, <2>1
<1>5. Adds(f)
  <2>1. f = [i \in 0 .. n |-> f[i]]
    OBVIOUS
  <2>2. \A i \in 0 .. n : f[i] = IF i = 0 THEN 0 ELSE f[i - 1] + Size[q[i].data]
    <3> SUFFICES ASSUME NEW i \in 0 .. n
                 PROVE  f[i] = IF i = 0 THEN 0 ELSE f[i - 1] + Size[q[i].data]
      OBVIOUS
    <3>1. CASE i = 0
      BY <3>1, <1>3
    <3>2. CASE i # 0
      <4>1. i \in 1 .. n
        BY <3>2, <1>1
      <4>2. QED
        BY <4>1, <3>2, <1>4
    <3>3. QED
      BY <3>1, <3>2
  <2>3. QED
    BY <2>1, <2>2
<1>6. Adds(Fifo!Sums(q))
  <2>1. Fifo!Sums(q) = CHOOSE g : Adds(g)
    BY DEF Fifo!Sums
  <2> HIDE DEF Adds
  <2>2. QED
    BY <1>5, <2>1
<1> DEFINE s == Fifo!Sums(q)
<1>7. s[0] = 0 /\ \A i \in 1 .. n : s[i] = s[i - 1] + Size[q[i].data]
  BY <1>1, <1>6
<1>8. \A i \in 0 .. n : s[i] = f[i]
  <2> DEFINE D == {i \in 0 .. n : s[i] # f[i]}
  <2>1. D \in SUBSET Nat
    OBVIOUS
  <2>2. ASSUME NEW i \in D
        PROVE  \E j \in D : j < i
    <3>1. i \in 1 .. n /\ i - 1 \in 0 .. n
      <4>1. i # 0
        BY <1>3, <1>7
      <4>2. QED
        BY <4>1, <1>1
    <3>2. s[i] = s[i - 1] + Size[q[i].data] /\ f[i] = f[i - 1] + Size[q[i].data]
      BY <3>1, <1>7, <1>4
    <3>3. i - 1 \in D
      BY <3>1, <3>2
    <3>4. QED
      BY <3>1, <3>3
  <2>3. D = {}
    <3> HIDE DEF D
    <3> QED BY <2>1, <2>2, SmallestExists
  <2>4. QED
    BY <2>3
<1>9. s \in [0 .. n -> Nat]
  <2>1. s = [i \in 0 .. n |-> s[i]]
    BY <1>6
  <2>2. \A i \in 0 .. n : s[i] \in Nat
    BY <1>8
  <2>3. QED
    BY <2>1, <2>2
<1>10. QED
  BY <1>7, <1>9

LEMMA TotalIsNat == \A q \in Seq(Entries) : Fifo!TotalSize(q) \in Nat
<1> SUFFICES ASSUME NEW q \in Seq(Entries) PROVE Fifo!TotalSize(q) \in Nat
  OBVIOUS
<1>1. Len(q) \in 0 .. Len(q)
  BY LenProperties
<1>2. QED
  BY <1>1, SumsAdd DEF Fifo!TotalSize

(***************************************************************************)
(* A sum depends on the objects up to its index only.                      *)
(***************************************************************************)
LEMMA SumsOfPrefix ==
  ASSUME NEW q \in Seq(Entries), NEW r \in Seq(Entries), NEW k \in Nat,
         k <= Len(q), k <= Len(r), \A i \in 1 .. k : q[i] = r[i]
  PROVE  Fifo!Sums(q)[k] = Fifo!Sums(r)[k]
<1> DEFINE s == Fifo!Sums(q)
           t == Fifo!Sums(r)
           D == {i \in 0 .. k : s[i] # t[i]}
<1>1. D \in SUBSET Nat
  OBVIOUS
<1>2. ASSUME NEW i \in D
      PROVE  \E j \in D : j < i
  <2>1. s[0] = 0 /\ t[0] = 0
    BY SumsAdd
  <2>2. i \in 1 .. k /\ i - 1 \in 0 .. k
    <3>1. i # 0
      BY <2>1
    <3>2. QED
      BY <3>1
  <2>3. i \in 1 .. Len(q) /\ i \in 1 .. Len(r)
    BY <2>2, LenProperties
  <2>4. s[i] = s[i - 1] + Size[q[i].data] /\ t[i] = t[i - 1] + Size[r[i].data]
    BY <2>3, SumsAdd
  <2>5. q[i] = r[i]
    BY <2>2
  <2>6. i - 1 \in D
    BY <2>2, <2>4, <2>5
  <2>7. QED
    BY <2>2, <2>6
<1>3. D = {}
  <2> HIDE DEF D
  <2> QED BY <1>1, <1>2, SmallestExists
<1>4. QED
  BY <1>3

(***************************************************************************)
(* What an object adds to the total.                                       *)
(***************************************************************************)
LEMMA TotalOfAppend ==
  ASSUME NEW q \in Seq(Entries), NEW e \in Entries
  PROVE  /\ Fifo!TotalSize(q) \in Nat
         /\ Fifo!TotalSize(Append(q, e)) = Fifo!TotalSize(q) + Size[e.data]
<1> DEFINE r == Append(q, e)
           n == Len(q)
<1>1. n \in Nat /\ r \in Seq(Entries) /\ Len(r) = n + 1 /\ r[n + 1] = e
      /\ \A i \in 1 .. n : r[i] = q[i]
  BY LenProperties, AppendProperties
<1>2. Fifo!Sums(q) \in [0 .. n -> Nat]
  BY SumsAdd
<1>3. n + 1 \in 1 .. Len(r) /\ (n + 1) - 1 = n
  BY <1>1
<1>4. Fifo!Sums(r)[n + 1] = Fifo!Sums(r)[n] + Size[e.data]
  <2> HIDE DEF r, n
  <2>1. Fifo!Sums(r)[n + 1] = Fifo!Sums(r)[(n + 1) - 1] + Size[r[n + 1].data]
    BY <1>1, <1>3, SumsAdd
  <2>2. QED
    BY <1>1, <1>3, <2>1
<1>5. Fifo!Sums(r)[n] = Fifo!Sums(q)[n]
  <2>1. n <= Len(r) /\ n <= Len(q)
    BY <1>1
  <2>2. QED
    <3> HIDE DEF r
    <3> QED BY <1>1, <2>1, SumsOfPrefix
<1>6. Fifo!TotalSize(r) = Fifo!Sums(r)[n + 1] /\ Fifo!TotalSize(q) = Fifo!Sums(q)[n]
  <2> HIDE DEF r
  <2> QED BY <1>1 DEF Fifo!TotalSize
<1>7. QED
  BY <1>1, <1>2, <1>4, <1>5, <1>6

(***************************************************************************)
(* What the total loses with an object.                                    *)
(***************************************************************************)
LEMMA TotalOfRemoved ==
  ASSUME NEW q \in Seq(Entries), NEW r \in Seq(Entries), NEW p \in 1 .. Len(q),
         Len(r) = Len(q) - 1,
         \A i \in 1 .. Len(r) : r[i] = IF i < p THEN q[i] ELSE q[i + 1]
  PROVE  /\ Fifo!TotalSize(r) \in Nat
         /\ Fifo!TotalSize(r) + Size[q[p].data] = Fifo!TotalSize(q)
<1> DEFINE n == Len(r)
           s == Fifo!Sums(q)
           t == Fifo!Sums(r)
           w == Size[q[p].data]
           D == {i \in p - 1 .. n : t[i] + w # s[i + 1]}
<1>1. n \in Nat /\ Len(q) = n + 1 /\ p \in 1 .. n + 1
  BY LenProperties
<1>2. /\ s \in [0 .. n + 1 -> Nat] /\ \A i \in 1 .. n + 1 : s[i] = s[i - 1] + Size[q[i].data]
      /\ t \in [0 .. n -> Nat] /\ \A i \in 1 .. n : t[i] = t[i - 1] + Size[r[i].data]
  BY <1>1, SumsAdd
<1>3. w \in Nat
  BY ElementOfSeq, SizeIsNat
<1>4. \A i \in 1 .. n : Size[r[i].data] \in Nat
  BY ElementOfSeq, SizeIsNat
<1>5. t[p - 1] = s[p - 1]
  <2>1. p - 1 \in Nat /\ p - 1 <= Len(q) /\ p - 1 <= Len(r)
    BY <1>1
  <2>2. ASSUME NEW i \in 1 .. p - 1
        PROVE  q[i] = r[i]
    <3>1. i \in 1 .. Len(r) /\ i < p
      BY <1>1
    <3> HIDE DEF n, s, t, w, D
    <3>2. QED
      BY <3>1
  <2>3. QED
    BY <2>1, <2>2, SumsOfPrefix
<1>6. D \in SUBSET Nat
  BY <1>1
<1>7. ASSUME NEW i \in D
      PROVE  \E j \in D : j < i
  <2>1. CASE i = p - 1
    <3>1. s[p] = s[p - 1] + w
      BY <1>1, <1>2
    <3>2. QED
      BY <2>1, <3>1, <1>1, <1>5
  <2>2. CASE i # p - 1
    <3>1. i \in 1 .. n /\ i - 1 \in p - 1 .. n /\ i + 1 \in 1 .. n + 1 /\ i >= p
      BY <2>2, <1>1
    <3>2. t[i] = t[i - 1] + Size[r[i].data] /\ r[i] = q[i + 1]
      BY <3>1, <1>1, <1>2
    <3>3. s[i + 1] = s[i] + Size[q[i + 1].data]
      <4>1. s[i + 1] = s[(i + 1) - 1] + Size[q[i + 1].data]
        BY <3>1, <1>2
      <4>2. (i + 1) - 1 = i
        BY <3>1
      <4>3. QED
        BY <4>1, <4>2
    <3>4. t[i - 1] \in Nat /\ s[i] \in Nat /\ Size[r[i].data] \in Nat
      <4>1. i - 1 \in 0 .. n /\ i \in 0 .. n + 1
        BY <3>1, <1>1
      <4>2. QED
        BY <3>1, <4>1, <1>2, <1>4
    <3>5. t[i] + w # s[i + 1]
      OBVIOUS
    <3>6. t[i - 1] + w # s[i]
      <4> HIDE DEF n, s, t, w
      <4> QED BY <3>2, <3>3, <3>4, <3>5, <1>3
    <3>7. i - 1 \in D /\ i - 1 < i
      <4>1. (i - 1) + 1 = i /\ i - 1 < i
        BY <3>1
      <4>2. t[i - 1] + w # s[(i - 1) + 1]
        BY <3>6, <4>1
      <4> HIDE DEF n, s, t, w
      <4>3. QED
        BY <3>1, <4>1, <4>2, Zenon
    <3>8. QED
      BY <3>7
  <2>3. QED
    BY <2>1, <2>2
<1>8. D = {}
  <2> HIDE DEF D
  <2> QED BY <1>6, <1>7, SmallestExists
<1>9. n \in p - 1 .. n /\ n \notin D
  BY <1>1, <1>8
<1>10. t[n] + w = s[n + 1]
  BY <1>9
<1>11. t[n] \in Nat
  <2>1. n \in Nat /\ t \in [0 .. n -> Nat]
    BY <1>1, <1>2
  <2> HIDE DEF n, t
  <2>2. QED
    BY <2>1
<1>12. Fifo!TotalSize(r) = t[n] /\ Fifo!TotalSize(q) = s[n + 1]
  BY <1>1, Zenon DEF Fifo!TotalSize
<1> HIDE DEF n, s, t
<1>13. QED
  BY <1>10, <1>11, <1>12, Zenon

----------------------------------------------------------------------------
(***************************************************************************)
(* f lists the nodes of the cache m from head to tail: each points to its  *)
(* neighbours, none is on the list twice, and no other memory is in use.   *)
(***************************************************************************)
Links(m, f, i) ==
  /\ m.mem[f[i]] \in Fields
  /\ m.mem[f[i]].prev = IF i = 1 THEN NULL ELSE f[i - 1]
  /\ m.mem[f[i]].next = IF i = Len(f) THEN NULL ELSE f[i + 1]
Chain(m, f) ==
  /\ f \in Seq(Nodes) /\ Len(f) = m.node_count
  /\ m.head = IF Len(f) = 0 THEN NULL ELSE f[1]
  /\ m.tail = IF Len(f) = 0 THEN NULL ELSE f[Len(f)]
  /\ \A i \in 1 .. Len(f) : Links(m, f, i)
  /\ \A i, j \in 1 .. Len(f) : f[i] = f[j] => i = j
  /\ \A cn \in Nodes : m.mem[cn] # Free => \E i \in 1 .. Len(f) : f[i] = cn

\* what the list holds
QueueOf(m, f) == [i \in 1 .. Len(f) |-> Entry(m, f[i])]

KeysDiffer(m, f) ==
  \A i, j \in 1 .. Len(f) : Folded[m.mem[f[i]].key] = Folded[m.mem[f[j]].key] => i = j

(***************************************************************************)
(* The invariant of the cache: its nodes form a list of objects with       *)
(* different keys, and sz_cache is their total size.                       *)
(***************************************************************************)
Keeps(m, f) ==
  /\ m \in MemCaches /\ m.asserted
  /\ Chain(m, f)
  /\ KeysDiffer(m, f)
  /\ m.sz_cache = Fifo!TotalSize(QueueOf(m, f))

(* The nodes of a chain and their number.                                  *)
LEMMA ChainIsSeq ==
  ASSUME NEW m, NEW f, Chain(m, f)
  PROVE  /\ Len(f) \in Nat /\ DOMAIN f = 1 .. Len(f)
         /\ \A i \in 1 .. Len(f) : f[i] \in Nodes
         /\ f = [i \in 1 .. Len(f) |-> f[i]]
<1>1. f \in Seq(Nodes)
  BY DEF Chain
<1>2. QED
  BY <1>1, LenProperties, ElementOfSeq

(* The pointers of the nodes of a chain.                                   *)
LEMMA ChainLinks ==
  ASSUME NEW m, NEW f, Chain(m, f), NEW i \in 1 .. Len(f)
  PROVE  /\ m.mem[f[i]] \in Fields
         /\ m.mem[f[i]].prev = IF i = 1 THEN NULL ELSE f[i - 1]
         /\ m.mem[f[i]].next = IF i = Len(f) THEN NULL ELSE f[i + 1]
         /\ \A j \in 1 .. Len(f) : f[i] = f[j] => i = j
<1>1. Links(m, f, i) /\ \A j \in 1 .. Len(f) : f[i] = f[j] => i = j
  BY DEF Chain
<1>2. QED
  BY <1>1 DEF Links

(* A chain holds objects of the abstract cache.                            *)
LEMMA QueueIsSeq ==
  ASSUME NEW m, NEW f, Chain(m, f)
  PROVE  /\ QueueOf(m, f) \in Seq(Entries) /\ Len(QueueOf(m, f)) = Len(f)
         /\ \A i \in 1 .. Len(f) : /\ QueueOf(m, f)[i] = Entry(m, f[i])
                                  /\ QueueOf(m, f)[i].key = Folded[m.mem[f[i]].key]
                                  /\ QueueOf(m, f)[i].data = m.mem[f[i]].data
<1>1. Len(f) \in Nat
  BY ChainIsSeq
<1>2. \A i \in 1 .. Len(f) : Entry(m, f[i]) \in Entries
  BY ChainLinks DEF Fields, Entry, Entries, FoldedKeys
<1>3. QueueOf(m, f) \in [1 .. Len(f) -> Entries]
  BY <1>2 DEF QueueOf
<1>4. QueueOf(m, f) \in Seq(Entries) /\ Len(QueueOf(m, f)) = Len(f)
  BY <1>1, <1>3
<1>5. QED
  BY <1>4 DEF QueueOf, Entry

(***************************************************************************)
(* The list read from the head, as CacheInv and free_cache do.             *)
(***************************************************************************)
LEMMA OrderIsChain ==
  ASSUME NEW m, NEW f, Chain(m, f)
  PROVE  Order(m) = f
<1> DEFINE n == m.node_count
           Reads(g) == g = [i \in 1 .. n |-> IF i = 1 THEN m.head ELSE m.mem[g[i - 1]].next]
           g == Order(m)
           D == {i \in 1 .. n : g[i] # f[i]}
<1>1. n \in Nat /\ n = Len(f) /\ f = [i \in 1 .. n |-> f[i]]
  BY ChainIsSeq DEF Chain
<1>2. ASSUME NEW i \in 1 .. n
      PROVE  f[i] = IF i = 1 THEN m.head ELSE m.mem[f[i - 1]].next
  <2>1. CASE i = 1
    BY <2>1, <1>1 DEF Chain
  <2>2. CASE i # 1
    <3> DEFINE j == i - 1
    <3>1. j \in 1 .. Len(f) /\ j # Len(f) /\ j + 1 = i
      BY <2>2, <1>1
    <3>2. m.mem[f[j]].next = f[j + 1]
      <4> HIDE DEF j
      <4> QED BY <3>1, ChainLinks
    <3>3. QED
      BY <2>2, <3>1, <3>2
  <2>3. QED
    BY <2>1, <2>2
<1>3. Reads(f)
  BY <1>1, <1>2
<1>4. Reads(g)
  <2>1. g = CHOOSE x : Reads(x)
    BY DEF Order
  <2> HIDE DEF Reads, g
  <2>2. QED
    BY <1>3, <2>1
<1>5. \A i \in 1 .. n : g[i] = IF i = 1 THEN m.head ELSE m.mem[g[i - 1]].next
  <2> HIDE DEF g
  <2> QED BY <1>4
<1>6. D \in SUBSET Nat
  OBVIOUS
<1>7. ASSUME NEW i \in D
      PROVE  \E j \in D : j < i
  <2>1. i # 1
    BY <1>2, <1>5
  <2>2. i - 1 \in 1 .. n
    BY <2>1, <1>1
  <2>3. g[i - 1] # f[i - 1]
    BY <2>1, <2>2, <1>2, <1>5
  <2>4. QED
    BY <2>2, <2>3
<1>8. D = {}
  <2> HIDE DEF D
  <2> QED BY <1>6, <1>7, SmallestExists
<1>9. \A i \in 1 .. n : g[i] = f[i]
  BY <1>8
<1>10. g = [i \in 1 .. n |-> g[i]]
  <2> HIDE DEF g
  <2> QED BY <1>4
<1>11. QED
  BY <1>1, <1>9, <1>10

(***************************************************************************)
(* The search from the tail comes to the same nodes, and then to NULL.     *)
(***************************************************************************)
LEMMA BackwardsIsReverse ==
  ASSUME NEW m, NEW f, Chain(m, f)
  PROVE  /\ \A i \in 0 .. Len(f) - 1 : Backwards(m)[i] = f[Len(f) - i]
         /\ Backwards(m)[Len(f)] = NULL
<1> DEFINE n == m.node_count
           Reads(g) == g = [i \in 0 .. n |-> IF i = 0 THEN m.tail ELSE m.mem[g[i - 1]].prev]
           b == [i \in 0 .. n |-> IF i = n THEN NULL ELSE f[n - i]]
           g == Backwards(m)
           D == {i \in 0 .. n : g[i] # b[i]}
<1>1. n \in Nat /\ n = Len(f)
  BY ChainIsSeq DEF Chain
<1>2. ASSUME NEW i \in 0 .. n
      PROVE  b[i] = IF i = 0 THEN m.tail ELSE m.mem[b[i - 1]].prev
  <2>1. CASE i = 0
    BY <2>1, <1>1 DEF Chain
  <2>2. CASE i # 0
    <3> DEFINE j == n - (i - 1)
    <3>1. j \in 1 .. Len(f) /\ b[i - 1] = f[j] /\ j - 1 = n - i /\ (j = 1 <=> i = n)
      BY <2>2, <1>1
    <3>2. m.mem[f[j]].prev = IF j = 1 THEN NULL ELSE f[j - 1]
      <4> HIDE DEF j
      <4> QED BY <3>1, ChainLinks
    <3>3. QED
      BY <2>2, <3>1, <3>2
  <2>3. QED
    BY <2>1, <2>2
<1>3. Reads(b)
  <2> DEFINE c == [i \in 0 .. n |-> IF i = 0 THEN m.tail ELSE m.mem[b[i - 1]].prev]
  <2>1. \A i \in 0 .. n : b[i] = c[i]
    BY <1>2
  <2>2. b = c
    <3>1. b = [i \in 0 .. n |-> b[i]]
      OBVIOUS
    <3>2. c = [i \in 0 .. n |-> c[i]]
      OBVIOUS
    <3> HIDE DEF b, c
    <3>3. QED
      BY <2>1, <3>1, <3>2
  <2>3. QED
    BY <2>2
<1>4. Reads(g)
  <2>1. g = CHOOSE x : Reads(x)
    BY DEF Backwards
  <2> HIDE DEF Reads, g, b
  <2>2. QED
    BY <1>3, <2>1
<1>5. \A i \in 0 .. n : g[i] = IF i = 0 THEN m.tail ELSE m.mem[g[i - 1]].prev
  <2> HIDE DEF g
  <2> QED BY <1>4
<1>6. D \in SUBSET Nat
  OBVIOUS
<1>7. ASSUME NEW i \in D
      PROVE  \E j \in D : j < i
  <2> HIDE DEF b, g
  <2>1. i # 0
    BY <1>2, <1>5
  <2>2. i - 1 \in 0 .. n /\ i - 1 < i
    BY <2>1, <1>1
  <2>3. g[i - 1] # b[i - 1]
    BY <2>1, <2>2, <1>2, <1>5
  <2>4. QED
    BY <2>2, <2>3
<1>8. D = {}
  <2> HIDE DEF D
  <2> QED BY <1>6, <1>7, SmallestExists
<1>9. \A i \in 0 .. n : g[i] = b[i]
  <2> HIDE DEF b, g
  <2> QED BY <1>8
<1>10. QED
  BY <1>1, <1>9

(***************************************************************************)
(* cache_get returns a node with the key, and NULL if there is none.       *)
(***************************************************************************)
LEMMA GetFinds ==
  ASSUME NEW m, NEW f, Chain(m, f), NEW k \in Keys
  PROVE  \/ /\ cache_get(m, k) = NULL
            /\ \A i \in 1 .. Len(f) : Folded[m.mem[f[i]].key] # Folded[k]
         \/ /\ cache_get(m, k) # NULL
            /\ \E p \in 1 .. Len(f) : /\ cache_get(m, k) = f[p]
                                     /\ Folded[m.mem[f[p]].key] = Folded[k]
<1> DEFINE n == m.node_count
           Hits == {i \in 0 .. n - 1 : is_key_equal(m, Backwards(m)[i], k)}
<1>1. n \in Nat /\ n = Len(f)
  BY ChainIsSeq DEF Chain
<1>2. \A i \in 0 .. n - 1 : Backwards(m)[i] = f[n - i]
  BY <1>1, BackwardsIsReverse
<1>3. cache_get(m, k) = IF Hits = {} THEN NULL
                        ELSE Backwards(m)[CHOOSE i \in Hits : \A j \in Hits : i <= j]
  BY DEF cache_get
<1>4. CASE Hits = {}
  <2>1. ASSUME NEW i \in 1 .. n
        PROVE  Folded[m.mem[f[i]].key] # Folded[k]
    <3>1. n - i \in 0 .. n - 1 /\ n - (n - i) = i
      BY <1>1
    <3>2. ~is_key_equal(m, Backwards(m)[n - i], k)
      BY <1>4, <3>1
    <3>3. QED
      BY <3>1, <3>2, <1>2 DEF is_key_equal
  <2>2. QED
    BY <1>1, <1>3, <1>4, <2>1
<1>5. CASE Hits # {}
  <2>1. Hits \in SUBSET Nat
    BY <1>1
  <2>2. PICK h \in Hits : cache_get(m, k) = Backwards(m)[h]
    <3> HIDE DEF Hits
    <3>1. \E i \in Hits : \A j \in Hits : i <= j
      BY <1>5, <2>1, SmallestExists
    <3>2. QED
      BY <1>3, <1>5, <3>1
  <2>3. n - h \in 1 .. Len(f) /\ cache_get(m, k) = f[n - h]
    BY <1>1, <1>2, <2>2
  <2>4. Folded[m.mem[f[n - h]].key] = Folded[k]
    BY <1>2, <2>2 DEF is_key_equal
  <2>5. f[n - h] # NULL
    BY <2>3, ChainIsSeq, MemCacheAssumption
  <2>6. QED
    BY <2>3, <2>4, <2>5
<1>6. QED
  BY <1>4, <1>5

----------------------------------------------------------------------------
(***************************************************************************)
(* What an assignment to the prev, or to the next, of a node does.         *)
(***************************************************************************)
Memory == [Nodes -> Fields \cup {Free}]
WithPrev(mem, cn, q) == [mem EXCEPT ![cn].prev = q]
WithNext(mem, cn, q) == [mem EXCEPT ![cn].next = q]

LEMMA SetPrev ==
  ASSUME NEW mem \in Memory, NEW cn \in Nodes, mem[cn] \in Fields, NEW q \in Pointers,
         NEW new, new = WithPrev(mem, cn, q)
  PROVE  /\ new \in Memory
         /\ new[cn] \in Fields
         /\ new[cn].key = mem[cn].key /\ new[cn].data = mem[cn].data
         /\ new[cn].prev = q /\ new[cn].next = mem[cn].next
         /\ \A x \in Nodes : x # cn => new[x] = mem[x]
  BY DEF Memory, Fields, WithPrev

LEMMA SetNext ==
  ASSUME NEW mem \in Memory, NEW cn \in Nodes, mem[cn] \in Fields, NEW q \in Pointers,
         NEW new, new = WithNext(mem, cn, q)
  PROVE  /\ new \in Memory
         /\ new[cn] \in Fields
         /\ new[cn].key = mem[cn].key /\ new[cn].data = mem[cn].data
         /\ new[cn].prev = mem[cn].prev /\ new[cn].next = q
         /\ \A x \in Nodes : x # cn => new[x] = mem[x]
  BY DEF Memory, Fields, WithNext

(***************************************************************************)
(* Unlink forgets one node and counts it off.                              *)
(***************************************************************************)
LEMMA UnlinkEffect ==
  ASSUME NEW m \in MemCaches, NEW cn \in Nodes, NEW mem \in Memory,
         NEW r, r = Unlink(m, cn, mem)
  PROVE  /\ r.head = m.head /\ r.tail = m.tail /\ r.asserted = m.asserted
         /\ r.node_count = m.node_count - 1 /\ r.sz_cache = m.sz_cache - Sz(m, cn)
         /\ r.node_count \in Nat /\ r.sz_cache \in Nat => r \in MemCaches
         /\ r.mem \in Memory /\ r.mem[cn] = Free
         /\ \A x \in Nodes : x # cn => r.mem[x] = mem[x]
  BY DEF Unlink, MemCaches, Memory

(* Assignments to the ends of the list.                                    *)
LEMMA SetHead ==
  ASSUME NEW m \in MemCaches, NEW h \in Pointers
  PROVE  [m EXCEPT !.head = h] = [m EXCEPT !.head = h, !.tail = m.tail] /\ m.tail \in Pointers
  BY DEF MemCaches

LEMMA SetTail ==
  ASSUME NEW m \in MemCaches, NEW t \in Pointers
  PROVE  [m EXCEPT !.tail = t] = [m EXCEPT !.head = m.head, !.tail = t] /\ m.head \in Pointers
  BY DEF MemCaches

LEMMA SetNothing ==
  ASSUME NEW m \in MemCaches
  PROVE  m = [m EXCEPT !.head = m.head, !.tail = m.tail]
         /\ m.head \in Pointers /\ m.tail \in Pointers /\ m.mem \in Memory
  BY DEF MemCaches, Memory

LEMMA FreeIsNoNode == Free \notin Fields
  BY MemCacheAssumption DEF Free, Fields

(***************************************************************************)
(* Whichever of its four branches delete_node takes, the neighbours of the *)
(* node it deletes point to each other afterwards, and the ends of the     *)
(* list move when it was an end.                                           *)
(***************************************************************************)
Joined(m, r, f, p, i) ==
  /\ r.mem[f[i]] \in Fields
  /\ r.mem[f[i]].key = m.mem[f[i]].key /\ r.mem[f[i]].data = m.mem[f[i]].data
  /\ r.mem[f[i]].prev = IF i = p + 1 THEN m.mem[f[p]].prev ELSE m.mem[f[i]].prev
  /\ r.mem[f[i]].next = IF i = p - 1 THEN m.mem[f[p]].next ELSE m.mem[f[i]].next
Deleted(m, r, f, p) ==
  /\ r.head = IF Len(f) = 1 THEN NULL ELSE IF p = 1 THEN f[2] ELSE f[1]
  /\ r.tail = IF Len(f) = 1 THEN NULL ELSE IF p = Len(f) THEN f[Len(f) - 1] ELSE f[Len(f)]
  /\ r.asserted = m.asserted
  /\ r.node_count = m.node_count - 1 /\ r.sz_cache = m.sz_cache - Sz(m, f[p])
  /\ r.node_count \in Nat /\ r.sz_cache \in Nat => r \in MemCaches
  /\ \A x \in Nodes : m.mem[x] = Free \/ x = f[p] => r.mem[x] = Free
  /\ \A i \in 1 .. Len(f) : i # p => Joined(m, r, f, p, i)

LEMMA DeleteEffect ==
  ASSUME NEW m \in MemCaches, NEW f, Chain(m, f), NEW p \in 1 .. Len(f)
  PROVE  Deleted(m, delete_node(m, f[p]), f, p)
<1> DEFINE n == Len(f)
           cn == f[p]
           r == delete_node(m, cn)
<1> SUFFICES Deleted(m, r, f, p)
  OBVIOUS
<1>0. n \in Nat /\ n >= 1
  <2>1. n \in Nat
    BY ChainIsSeq
  <2>2. QED
    BY <2>1
<1>1. n \in Nat /\ \A i \in 1 .. n : f[i] \in Nodes /\ f[i] \in Pointers /\ f[i] # NULL
  BY ChainIsSeq, MemCacheAssumption DEF Pointers
<1>2. m.head = f[1] /\ m.tail = f[n] /\ (m.head = m.tail <=> n = 1)
  <2>1. 1 \in 1 .. n /\ n \in 1 .. n
    BY <1>1
  <2>2. f[1] = f[n] => n = 1
    BY <2>1, ChainLinks
  <2>3. QED
    BY <1>1, <2>1, <2>2 DEF Chain
<1>3. m.mem[cn].prev = (IF p = 1 THEN NULL ELSE f[p - 1])
      /\ m.mem[cn].next = (IF p = n THEN NULL ELSE f[p + 1])
  BY ChainLinks
<1>4. m.mem \in Memory /\ NULL \in Pointers
  BY SetNothing DEF Pointers
<1>5. ASSUME NEW mem \in Memory, NEW h \in Pointers, NEW t \in Pointers,
             r = Unlink([m EXCEPT !.head = h, !.tail = t], cn, mem)
      PROVE  /\ r.head = h /\ r.tail = t /\ r.asserted = m.asserted
             /\ r.node_count = m.node_count - 1 /\ r.sz_cache = m.sz_cache - Sz(m, cn)
             /\ r.node_count \in Nat /\ r.sz_cache \in Nat => r \in MemCaches
             /\ r.mem[cn] = Free /\ \A x \in Nodes : x # cn => r.mem[x] = mem[x]
  <2> DEFINE m1 == [m EXCEPT !.head = h, !.tail = t]
  <2>1. /\ m1 \in MemCaches /\ m1.head = h /\ m1.tail = t /\ m1.asserted = m.asserted
        /\ m1.node_count = m.node_count /\ m1.sz_cache = m.sz_cache /\ m1.mem = m.mem
    BY DEF MemCaches
  <2>2. Sz(m1, cn) = Sz(m, cn)
    BY <2>1 DEF Sz
  <2>3. cn \in Nodes
    BY <1>1
  <2>4. r = Unlink(m1, cn, mem)
    BY <1>5
  <2> HIDE DEF m1, cn, r
  <2>5. QED
    BY <2>1, <2>2, <2>3, <2>4, UnlinkEffect
<1>6. \A x \in Nodes : m.mem[x] = Free => \A i \in 1 .. n : x # f[i]
  BY ChainLinks, FreeIsNoNode
<1>7. ASSUME \A i \in 1 .. n : i # p => Joined(m, r, f, p, i),
             r.mem[cn] = Free, \A x \in Nodes : m.mem[x] = Free => r.mem[x] = Free,
             r.head = IF n = 1 THEN NULL ELSE IF p = 1 THEN f[2] ELSE f[1],
             r.tail = IF n = 1 THEN NULL ELSE IF p = n THEN f[n - 1] ELSE f[n],
             r.asserted = m.asserted,
             r.node_count = m.node_count - 1, r.sz_cache = m.sz_cache - Sz(m, cn),
             r.node_count \in Nat /\ r.sz_cache \in Nat => r \in MemCaches
      PROVE  Deleted(m, r, f, p)
  <2> HIDE DEF r
  <2> QED BY <1>7 DEF Deleted
<1>8. CASE n = 1
  <2>1. r = Unlink([m EXCEPT !.head = NULL, !.tail = NULL], cn, m.mem)
    BY <1>2, <1>8 DEF delete_node
  <2>2. \A i \in 1 .. n : i = p
    BY <1>8
  <2> HIDE DEF r
  <2>3. /\ r.head = NULL /\ r.tail = NULL /\ r.asserted = m.asserted
        /\ r.node_count = m.node_count - 1 /\ r.sz_cache = m.sz_cache - Sz(m, cn)
        /\ r.node_count \in Nat /\ r.sz_cache \in Nat => r \in MemCaches
        /\ r.mem[cn] = Free /\ \A x \in Nodes : x # cn => r.mem[x] = m.mem[x]
    BY <1>4, <1>5, <2>1
  <2>4. \A x \in Nodes : m.mem[x] = Free => r.mem[x] = Free
    BY <2>3
  <2> HIDE DEF n
  <2>5. QED
    BY <1>7, <1>8, <2>2, <2>3, <2>4
<1>9. CASE n # 1 /\ p = 1
  <2>1. 2 \in 1 .. n /\ p + 1 = 2 /\ p # 2
    <3>1. p + 1 = 2 /\ p # 2
      BY <1>9
    <3>2. n >= 2 /\ n \in Nat
      <4> HIDE DEF n
      <4> QED BY <1>0, <1>9
    <3>3. 2 \in 1 .. n
      <4> HIDE DEF n
      <4> QED BY <3>2
    <3> QED BY <3>1, <3>3
  <2> DEFINE mem == WithPrev(m.mem, f[2], NULL)
  <2>2. r = Unlink([m EXCEPT !.head = f[2]], cn, mem)
    BY <1>2, <1>3, <1>9, <2>1 DEF delete_node, WithPrev
  <2>3. r = Unlink([m EXCEPT !.head = f[2], !.tail = m.tail], cn, mem) /\ m.tail \in Pointers
    BY <1>1, <2>1, <2>2, SetHead
  <2>4. /\ mem \in Memory /\ mem[f[2]] \in Fields
        /\ mem[f[2]].key = m.mem[f[2]].key /\ mem[f[2]].data = m.mem[f[2]].data
        /\ mem[f[2]].prev = NULL /\ mem[f[2]].next = m.mem[f[2]].next
        /\ \A x \in Nodes : x # f[2] => mem[x] = m.mem[x]
    <3>1. f[2] \in Nodes /\ m.mem[f[2]] \in Fields /\ NULL \in Pointers
      BY <1>1, <1>4, <2>1, ChainLinks
    <3>2. QED
      BY <1>4, <3>1, SetPrev
  <2> HIDE DEF r, mem
  <2>5. /\ r.head = f[2] /\ r.tail = m.tail /\ r.asserted = m.asserted
        /\ r.node_count = m.node_count - 1 /\ r.sz_cache = m.sz_cache - Sz(m, cn)
        /\ r.node_count \in Nat /\ r.sz_cache \in Nat => r \in MemCaches
        /\ r.mem[cn] = Free /\ \A x \in Nodes : x # cn => r.mem[x] = mem[x]
    BY <1>1, <1>5, <2>1, <2>3, <2>4
  <2>6. ASSUME NEW i \in 1 .. n, i # p
        PROVE  Joined(m, r, f, p, i)
    <3>1. f[i] # cn /\ f[i] \in Nodes /\ (i # 2 => f[i] # f[2]) /\ r.mem[f[i]] = mem[f[i]]
      BY <1>1, <2>1, <2>5, <2>6, ChainLinks
    <3>2. m.mem[f[i]] \in Fields /\ i # p - 1
      BY ChainLinks, <1>9
    <3>3. CASE i = 2
      BY <3>1, <3>2, <3>3, <1>3, <1>9, <2>1, <2>4 DEF Joined
    <3>4. CASE i # 2
      BY <3>1, <3>2, <3>4, <2>1, <2>4 DEF Joined
    <3>5. QED
      BY <3>3, <3>4
  <2>7. \A x \in Nodes : m.mem[x] = Free => r.mem[x] = Free
    BY <1>6, <2>1, <2>4, <2>5
  <2>8. QED
    BY <1>2, <1>7, <1>9, <2>5, <2>6, <2>7
<1>10. CASE p # 1 /\ p = n
  <2> DEFINE o == n - 1
  <2>1. o \in 1 .. n /\ o = p - 1 /\ o # p /\ p \in 1 .. n /\ n # 1
    <3> HIDE DEF n
    <3>1. p \in 1 .. n
      BY DEF n
    <3>2. QED
      BY <1>0, <1>10, <3>1
  <2>2. m.mem[cn].prev = f[o] /\ m.mem[cn].next = NULL /\ f[o] # NULL /\ f[o] \in Pointers
    BY <1>1, <1>3, <1>10, <2>1
  <2> DEFINE mem == WithNext(m.mem, f[o], NULL)
  <2>3. r = Unlink([m EXCEPT !.tail = f[o]], cn, mem)
    <3> HIDE DEF n, o, cn
    <3> QED BY <1>2, <2>1, <2>2 DEF delete_node, WithNext
  <2>4. r = Unlink([m EXCEPT !.head = m.head, !.tail = f[o]], cn, mem) /\ m.head \in Pointers
    BY <1>1, <2>2, <2>3, SetTail
  <2>5. /\ mem \in Memory /\ mem[f[o]] \in Fields
        /\ mem[f[o]].key = m.mem[f[o]].key /\ mem[f[o]].data = m.mem[f[o]].data
        /\ mem[f[o]].prev = m.mem[f[o]].prev /\ mem[f[o]].next = NULL
        /\ \A x \in Nodes : x # f[o] => mem[x] = m.mem[x]
    <3> HIDE DEF o
    <3>1. f[o] \in Nodes /\ m.mem[f[o]] \in Fields /\ NULL \in Pointers
      BY <1>1, <1>4, <2>1, ChainLinks
    <3>2. QED
      BY <1>4, <3>1, SetNext
  <2> HIDE DEF r, mem, o
  <2>6. /\ r.head = m.head /\ r.tail = f[o] /\ r.asserted = m.asserted
        /\ r.node_count = m.node_count - 1 /\ r.sz_cache = m.sz_cache - Sz(m, cn)
        /\ r.node_count \in Nat /\ r.sz_cache \in Nat => r \in MemCaches
        /\ r.mem[cn] = Free /\ \A x \in Nodes : x # cn => r.mem[x] = mem[x]
    BY <1>5, <2>2, <2>4, <2>5
  <2>7. ASSUME NEW i \in 1 .. n, i # p
        PROVE  Joined(m, r, f, p, i)
    <3>1. f[i] # cn /\ f[i] \in Nodes /\ (i # o => f[i] # f[o]) /\ r.mem[f[i]] = mem[f[i]]
      BY <1>1, <2>1, <2>6, <2>7, ChainLinks
    <3>2. m.mem[f[i]] \in Fields
      BY ChainLinks
    <3>3. i # p + 1
      BY <1>0, <1>10
    <3>4. CASE i = o
      BY <3>1, <3>2, <3>3, <3>4, <2>1, <2>2, <2>5 DEF Joined
    <3>5. CASE i # o
      BY <3>1, <3>2, <3>3, <3>5, <2>1, <2>5 DEF Joined
    <3>6. QED
      BY <3>4, <3>5
  <2>8. \A x \in Nodes : m.mem[x] = Free => r.mem[x] = Free
    BY <1>6, <2>1, <2>5, <2>6
  <2>9. QED
    BY <1>2, <1>7, <1>10, <2>1, <2>6, <2>7, <2>8 DEF o
<1>11. CASE p # 1 /\ p # n
  <2> DEFINE o == p - 1
             q == p + 1
  <2>1. o \in 1 .. n /\ q \in 1 .. n /\ o # p /\ q # p /\ o # q /\ n # 1
    <3> HIDE DEF n
    <3>1. p \in 1 .. n
      BY DEF n
    <3>2. QED
      BY <1>0, <1>11, <3>1
  <2>2. m.mem[cn].prev = f[o] /\ m.mem[cn].next = f[q] /\ f[o] # NULL /\ f[q] # NULL
        /\ f[o] \in Pointers /\ f[q] \in Pointers /\ f[o] # f[q]
    <3>1. f[o] # f[q]
      <4> HIDE DEF o, q
      <4> QED BY <2>1, ChainLinks
    <3>2. QED
      BY <1>1, <1>3, <1>11, <2>1, <3>1
  <2> DEFINE mem1 == WithNext(m.mem, f[o], f[q])
             mem == WithPrev(mem1, f[q], f[o])
  <2>3. r = Unlink(m, cn, mem)
    <3> HIDE DEF n, o, q, cn
    <3> QED BY <1>2, <2>1, <2>2 DEF delete_node, WithNext, WithPrev
  <2>4. r = Unlink([m EXCEPT !.head = m.head, !.tail = m.tail], cn, mem)
        /\ m.head \in Pointers /\ m.tail \in Pointers
    BY <2>3, SetNothing
  <2> HIDE DEF o, q
  <2>5. /\ mem1 \in Memory /\ mem1[f[o]] \in Fields
        /\ mem1[f[o]].key = m.mem[f[o]].key /\ mem1[f[o]].data = m.mem[f[o]].data
        /\ mem1[f[o]].prev = m.mem[f[o]].prev /\ mem1[f[o]].next = f[q]
        /\ \A x \in Nodes : x # f[o] => mem1[x] = m.mem[x]
    <3>1. f[o] \in Nodes /\ m.mem[f[o]] \in Fields
      BY <1>1, <2>1, ChainLinks
    <3>2. QED
      BY <1>4, <2>2, <3>1, SetNext
  <2> HIDE DEF mem1
  <2>6. /\ mem \in Memory /\ mem[f[q]] \in Fields
        /\ mem[f[q]].key = m.mem[f[q]].key /\ mem[f[q]].data = m.mem[f[q]].data
        /\ mem[f[q]].prev = f[o] /\ mem[f[q]].next = m.mem[f[q]].next
        /\ \A x \in Nodes : x # f[q] => mem[x] = mem1[x]
    <3>1. f[q] \in Nodes /\ mem1[f[q]] \in Fields /\ mem1[f[q]] = m.mem[f[q]]
      BY <1>1, <2>1, <2>2, <2>5, ChainLinks
    <3>2. QED
      BY <2>2, <2>5, <3>1, SetPrev
  <2> HIDE DEF r, mem
  <2>7. /\ r.head = m.head /\ r.tail = m.tail /\ r.asserted = m.asserted
        /\ r.node_count = m.node_count - 1 /\ r.sz_cache = m.sz_cache - Sz(m, cn)
        /\ r.node_count \in Nat /\ r.sz_cache \in Nat => r \in MemCaches
        /\ r.mem[cn] = Free /\ \A x \in Nodes : x # cn => r.mem[x] = mem[x]
    BY <1>5, <2>4, <2>6
  <2>8. ASSUME NEW i \in 1 .. n, i # p
        PROVE  Joined(m, r, f, p, i)
    <3>1. f[i] # cn /\ f[i] \in Nodes /\ (i # o => f[i] # f[o]) /\ (i # q => f[i] # f[q])
          /\ r.mem[f[i]] = mem[f[i]]
      BY <1>1, <2>1, <2>7, <2>8, ChainLinks
    <3>2. m.mem[f[i]] \in Fields
      BY ChainLinks
    <3>3. o = p - 1 /\ q = p + 1
      BY DEF o, q
    <3>4. CASE i = o
      BY <3>1, <3>2, <3>3, <3>4, <2>1, <2>2, <2>5, <2>6 DEF Joined
    <3>5. CASE i = q
      BY <3>1, <3>2, <3>3, <3>5, <2>1, <2>2, <2>5, <2>6 DEF Joined
    <3>6. CASE i # o /\ i # q
      BY <3>1, <3>2, <3>3, <3>6, <2>1, <2>5, <2>6 DEF Joined
    <3>7. QED
      BY <3>4, <3>5, <3>6
  <2>9. \A x \in Nodes : m.mem[x] = Free => r.mem[x] = Free
    BY <1>6, <2>1, <2>5, <2>6, <2>7
  <2>10. QED
    BY <1>2, <1>7, <1>11, <2>1, <2>7, <2>8, <2>9
<1>12. QED
  BY <1>8, <1>9, <1>10, <1>11

(***************************************************************************)
(* The list without its node p, and where its nodes were.                  *)
(***************************************************************************)
Place(p, i) == IF i < p THEN i ELSE i + 1
Shorter(f, p) == [i \in 1 .. Len(f) - 1 |-> f[Place(p, i)]]

LEMMA ShorterIsSeq ==
  ASSUME NEW f \in Seq(Nodes), NEW p \in 1 .. Len(f)
  PROVE  /\ Len(f) \in Nat /\ Len(f) >= 1
         /\ Shorter(f, p) \in Seq(Nodes) /\ Len(Shorter(f, p)) = Len(f) - 1
         /\ \A i \in 1 .. Len(f) - 1 :
              /\ Place(p, i) \in 1 .. Len(f) /\ Place(p, i) # p
              /\ Shorter(f, p)[i] = f[Place(p, i)]
         /\ \A j \in 1 .. Len(f) : j # p => \E i \in 1 .. Len(f) - 1 : Place(p, i) = j
<1> DEFINE n == Len(f)
<1>1. n \in Nat /\ n >= 1 /\ \A i \in 1 .. n : f[i] \in Nodes
  <2>1. n \in Nat /\ p \in 1 .. n
    BY LenProperties
  <2>2. n >= 1
    <3> HIDE DEF n
    <3> QED BY <2>1
  <2>3. QED
    BY <2>1, <2>2, ElementOfSeq
<1>2. \A i \in 1 .. n - 1 : Place(p, i) \in 1 .. n /\ Place(p, i) # p
  <2>1. p \in 1 .. n
    OBVIOUS
  <2> HIDE DEF n
  <2>2. QED
    BY <1>1, <2>1 DEF Place
<1>3. \A j \in 1 .. n : j # p => \E i \in 1 .. n - 1 : Place(p, i) = j
  <2>1. p \in 1 .. n
    OBVIOUS
  <2> HIDE DEF n
  <2>2. ASSUME NEW j \in 1 .. n, j # p
        PROVE  \E i \in 1 .. n - 1 : Place(p, i) = j
    <3>1. CASE j < p
      <4>1. j \in 1 .. n - 1 /\ Place(p, j) = j
        BY <1>1, <2>1, <3>1 DEF Place
      <4>2. QED
        BY <4>1
    <3>2. CASE j > p
      <4>1. j - 1 \in 1 .. n - 1 /\ Place(p, j - 1) = j
        BY <1>1, <2>1, <3>2 DEF Place
      <4>2. QED
        BY <4>1
    <3>3. QED
      BY <2>1, <2>2, <3>1, <3>2
  <2>3. QED
    BY <2>2
<1>4. Shorter(f, p) \in [1 .. n - 1 -> Nodes] /\ n - 1 \in Nat
  <2>1. \A i \in 1 .. n - 1 : f[Place(p, i)] \in Nodes
    BY <1>1, <1>2
  <2>2. QED
    BY <1>1, <2>1 DEF Shorter
<1>5. Shorter(f, p) \in Seq(Nodes) /\ Len(Shorter(f, p)) = n - 1
  BY <1>4
<1>6. QED
  BY <1>1, <1>2, <1>3, <1>5 DEF Shorter

(***************************************************************************)
(* delete_node keeps the list a list: it is the list without the node.     *)
(***************************************************************************)
LEMMA DeleteChain ==
  ASSUME NEW m \in MemCaches, NEW f, Chain(m, f), NEW p \in 1 .. Len(f),
         NEW r, Deleted(m, r, f, p)
  PROVE  /\ Chain(r, Shorter(f, p))
         /\ \A i \in 1 .. Len(f) - 1 :
              Entry(r, Shorter(f, p)[i]) = Entry(m, f[Place(p, i)])
<1> DEFINE n == Len(f)
           g == Shorter(f, p)
<1>1. /\ n \in Nat /\ n >= 1 /\ g \in Seq(Nodes) /\ Len(g) = n - 1
      /\ \A i \in 1 .. n - 1 : Place(p, i) \in 1 .. n /\ Place(p, i) # p /\ g[i] = f[Place(p, i)]
      /\ \A j \in 1 .. n : j # p => \E i \in 1 .. n - 1 : Place(p, i) = j
  <2>1. f \in Seq(Nodes)
    BY DEF Chain
  <2>2. QED
    BY <2>1, ShorterIsSeq
<1>2. /\ r.head = IF n = 1 THEN NULL ELSE IF p = 1 THEN f[2] ELSE f[1]
      /\ r.tail = IF n = 1 THEN NULL ELSE IF p = n THEN f[n - 1] ELSE f[n]
      /\ r.node_count = m.node_count - 1
      /\ \A x \in Nodes : m.mem[x] = Free \/ x = f[p] => r.mem[x] = Free
      /\ \A i \in 1 .. n : i # p => Joined(m, r, f, p, i)
  BY DEF Deleted
<1>3. p \in 1 .. n
  OBVIOUS
<1>4. m.node_count = n
  BY DEF Chain
<1>5. ASSUME NEW i \in 1 .. n - 1
      PROVE  Links(r, g, i)
  <2> DEFINE j == Place(p, i)
  <2>1. j \in 1 .. n /\ j # p /\ g[i] = f[j] /\ Joined(m, r, f, p, j)
    BY <1>1, <1>2
  <2>2. m.mem[f[j]].prev = (IF j = 1 THEN NULL ELSE f[j - 1])
        /\ m.mem[f[j]].next = (IF j = n THEN NULL ELSE f[j + 1])
        /\ m.mem[f[p]].prev = (IF p = 1 THEN NULL ELSE f[p - 1])
        /\ m.mem[f[p]].next = (IF p = n THEN NULL ELSE f[p + 1])
    <3> HIDE DEF j
    <3>1. p \in 1 .. n /\ j \in 1 .. n
      BY <1>3, <2>1
    <3>2. /\ m.mem[f[j]].prev = (IF j = 1 THEN NULL ELSE f[j - 1])
          /\ m.mem[f[j]].next = (IF j = n THEN NULL ELSE f[j + 1])
      BY <3>1, ChainLinks
    <3>3. /\ m.mem[f[p]].prev = (IF p = 1 THEN NULL ELSE f[p - 1])
          /\ m.mem[f[p]].next = (IF p = n THEN NULL ELSE f[p + 1])
      BY <3>1, ChainLinks
    <3>4. QED
      BY <3>2, <3>3
  <2>3. r.mem[g[i]].prev = (IF i = 1 THEN NULL ELSE g[i - 1])
    <3>1. r.mem[f[j]].prev = IF j = p + 1 THEN m.mem[f[p]].prev ELSE m.mem[f[j]].prev
      BY <2>1 DEF Joined
    <3>2. CASE i = 1
      <4> HIDE DEF n
      <4> QED BY <1>1, <1>3, <2>1, <2>2, <3>1, <3>2 DEF Place
    <3>3. CASE i # 1
      <4>1. i - 1 \in 1 .. n - 1 /\ g[i - 1] = f[Place(p, i - 1)]
        <5> HIDE DEF n, g
        <5> QED BY <1>1, <3>3
      <4>2. Place(p, i - 1) = IF j = p + 1 THEN p - 1 ELSE j - 1
        <5> HIDE DEF n
        <5> QED BY <1>1, <1>3, <2>1, <3>3 DEF Place
      <4>3. (j = p + 1 => p # 1) /\ j # 1
        <5> HIDE DEF n
        <5> QED BY <1>1, <1>3, <2>1, <3>3 DEF Place
      <4> HIDE DEF j, g, n
      <4>4. QED
        BY <2>1, <2>2, <3>1, <3>3, <4>1, <4>2, <4>3
    <3>4. QED
      BY <3>2, <3>3
  <2>4. r.mem[g[i]].next = (IF i = n - 1 THEN NULL ELSE g[i + 1])
    <3>1. r.mem[f[j]].next = IF j = p - 1 THEN m.mem[f[p]].next ELSE m.mem[f[j]].next
      BY <2>1 DEF Joined
    <3>2. CASE i = n - 1
      <4>1. (j = p - 1 => p = n) /\ (j # p - 1 => j = n)
        <5>1. n \in Nat
          BY <1>1
        <5>2. j = IF i < p THEN i ELSE i + 1
          BY DEF Place
        <5> HIDE DEF n, j
        <5>3. QED
          BY <1>3, <3>2, <5>1, <5>2
      <4> HIDE DEF j, g, n
      <4>2. QED
        BY <2>1, <2>2, <3>1, <3>2, <4>1
    <3>3. CASE i # n - 1
      <4>1. i + 1 \in 1 .. n - 1 /\ g[i + 1] = f[Place(p, i + 1)]
        <5> HIDE DEF n, g
        <5> QED BY <1>1, <3>3
      <4>2. Place(p, i + 1) = IF j = p - 1 THEN p + 1 ELSE j + 1
        <5> HIDE DEF n
        <5> QED BY <1>1, <1>3, <3>3 DEF Place
      <4>3. (j = p - 1 => p # n) /\ j # n
        <5> HIDE DEF n
        <5> QED BY <1>1, <1>3, <3>3 DEF Place
      <4> HIDE DEF j, g, n
      <4>4. QED
        BY <2>1, <2>2, <3>1, <3>3, <4>1, <4>2, <4>3
    <3>4. QED
      BY <3>2, <3>3
  <2>5. r.mem[g[i]] \in Fields
    BY <2>1 DEF Joined
  <2>6. QED
    <3> HIDE DEF g, n
    <3> QED BY <2>3, <2>4, <2>5, <1>1 DEF Links
<1>6. ASSUME NEW i \in 1 .. n - 1, NEW j \in 1 .. n - 1, g[i] = g[j]
      PROVE  i = j
  <2>1. Place(p, i) = Place(p, j)
    <3> DEFINE a == Place(p, i)
               b == Place(p, j)
    <3>1. a \in 1 .. n /\ b \in 1 .. n /\ f[a] = f[b]
      <4> HIDE DEF g
      <4> QED BY <1>1, <1>6
    <3> HIDE DEF a, b
    <3>2. a = b
      BY <3>1, ChainLinks
    <3>3. QED
      BY <3>2 DEF a, b
  <2>2. QED
    <3> HIDE DEF n
    <3> QED BY <1>1, <1>3, <2>1 DEF Place
<1>7. ASSUME NEW x \in Nodes, r.mem[x] # Free
      PROVE  \E i \in 1 .. n - 1 : g[i] = x
  <2>1. m.mem[x] # Free /\ x # f[p]
    BY <1>2, <1>7
  <2>2. PICK j \in 1 .. n : f[j] = x
    BY <2>1 DEF Chain
  <2>3. PICK i \in 1 .. n - 1 : Place(p, i) = j
    BY <1>1, <2>1, <2>2
  <2>4. QED
    BY <1>1, <2>2, <2>3
<1>8. ASSUME NEW i \in 1 .. n - 1
      PROVE  Entry(r, g[i]) = Entry(m, f[Place(p, i)])
  <2>1. Place(p, i) \in 1 .. n /\ Place(p, i) # p /\ g[i] = f[Place(p, i)]
    BY <1>1
  <2> HIDE DEF g, n
  <2>2. QED
    BY <1>2, <2>1 DEF Entry, Joined
<1>9. /\ r.head = IF Len(g) = 0 THEN NULL ELSE g[1]
      /\ r.tail = IF Len(g) = 0 THEN NULL ELSE g[Len(g)]
  <2>1. CASE n = 1
    <3> HIDE DEF n, g
    <3> QED BY <1>1, <1>2, <2>1
  <2>2. CASE n # 1
    <3> HIDE DEF n, g
    <3>1. 1 \in 1 .. n - 1 /\ n - 1 \in 1 .. n - 1 /\ Len(g) # 0
      BY <1>1, <2>2
    <3>2. g[1] = f[Place(p, 1)] /\ g[n - 1] = f[Place(p, n - 1)]
      BY <1>1, <3>1
    <3>3. Place(p, 1) = (IF p = 1 THEN 2 ELSE 1)
          /\ Place(p, n - 1) = IF p = n THEN n - 1 ELSE n
      BY <1>1, <1>3, <2>2 DEF Place
    <3>4. QED
      BY <1>1, <1>2, <2>2, <3>1, <3>2, <3>3
  <2>3. QED
    BY <2>1, <2>2
<1>10. QED
  <2> HIDE DEF g, n
  <2>1. Chain(r, g)
    BY <1>1, <1>2, <1>4, <1>5, <1>6, <1>7, <1>9 DEF Chain
  <2>2. QED
    BY <2>1, <1>8 DEF g, n

(***************************************************************************)
(* delete_node keeps the invariant, and the abstract queue loses one       *)
(* object.                                                                 *)
(***************************************************************************)
IsWithout(s, q, p) ==
  /\ s \in Seq(Entries) /\ Len(s) = Len(q) - 1
  /\ \A i \in 1 .. Len(q) - 1 : Place(p, i) \in 1 .. Len(q) /\ s[i] = q[Place(p, i)]

LEMMA DeleteKeeps ==
  ASSUME NEW m, NEW f, Keeps(m, f), NEW p \in 1 .. Len(f), NEW r, r = delete_node(m, f[p])
  PROVE  /\ Keeps(r, Shorter(f, p))
         /\ IsWithout(QueueOf(r, Shorter(f, p)), QueueOf(m, f), p)
         /\ r.sz_cache <= m.sz_cache
<1> DEFINE n == Len(f)
           g == Shorter(f, p)
           q == QueueOf(m, f)
           s == QueueOf(r, g)
<1>1. m \in MemCaches /\ m.asserted /\ Chain(m, f) /\ KeysDiffer(m, f)
      /\ m.sz_cache = Fifo!TotalSize(q) /\ f \in Seq(Nodes)
  BY DEF Keeps, Chain
<1>2. Deleted(m, r, f, p)
  BY <1>1, DeleteEffect
<1>3. Chain(r, g) /\ \A i \in 1 .. n - 1 : Entry(r, g[i]) = Entry(m, f[Place(p, i)])
  BY <1>1, <1>2, DeleteChain
<1>4. /\ n \in Nat /\ n >= 1 /\ Len(g) = n - 1
      /\ \A i \in 1 .. n - 1 : Place(p, i) \in 1 .. n
  BY <1>1, ShorterIsSeq
<1>5. /\ q \in Seq(Entries) /\ Len(q) = n /\ \A i \in 1 .. n : q[i] = Entry(m, f[i])
      /\ q[p].data = m.mem[f[p]].data
      /\ s \in Seq(Entries) /\ Len(s) = n - 1 /\ \A i \in 1 .. n - 1 : s[i] = Entry(r, g[i])
  <2>1. /\ q \in Seq(Entries) /\ Len(q) = n /\ \A i \in 1 .. n : q[i] = Entry(m, f[i])
        /\ q[p].data = m.mem[f[p]].data
    BY <1>1, QueueIsSeq
  <2>2. /\ s \in Seq(Entries) /\ Len(s) = Len(g) /\ \A i \in 1 .. Len(g) : s[i] = Entry(r, g[i])
    <3> HIDE DEF g
    <3> QED BY <1>3, QueueIsSeq
  <2>3. QED
    <3> HIDE DEF g, s, q
    <3> QED BY <1>4, <2>1, <2>2
<1>6. \A i \in 1 .. n - 1 : s[i] = q[Place(p, i)]
  <2> HIDE DEF s, q, g, n
  <2> QED BY <1>3, <1>4, <1>5
<1>7. Fifo!TotalSize(s) \in Nat /\ Fifo!TotalSize(s) + Size[q[p].data] = Fifo!TotalSize(q)
  <2>1. p \in 1 .. Len(q)
    BY <1>5
  <2>2. \A i \in 1 .. Len(s) : s[i] = IF i < p THEN q[i] ELSE q[i + 1]
    <3> HIDE DEF s, q, g, n
    <3> QED BY <1>5, <1>6 DEF Place
  <2>3. Len(s) = Len(q) - 1
    BY <1>5
  <2> HIDE DEF s, q, g, n
  <2>4. QED
    BY <1>5, <2>1, <2>2, <2>3, TotalOfRemoved
<1>8. Size[q[p].data] \in Nat
  BY <1>5, ElementOfSeq, SizeIsNat
<1>9. r.sz_cache = Fifo!TotalSize(s) /\ r.sz_cache <= m.sz_cache
  <2>1. r.sz_cache = m.sz_cache - Size[q[p].data]
    BY <1>2, <1>5 DEF Deleted, Sz
  <2> HIDE DEF s, q, g, n
  <2>2. QED
    BY <1>1, <1>7, <1>8, <2>1
<1>10. r \in MemCaches /\ r.asserted
  <2>1. r.node_count \in Nat /\ r.sz_cache \in Nat
    <3> HIDE DEF s, g
    <3> QED BY <1>3, <1>4, <1>7, <1>9 DEF Chain
  <2>2. QED
    BY <1>1, <1>2, <2>1 DEF Deleted
<1>11. KeysDiffer(r, g)
  <2> SUFFICES ASSUME NEW i \in 1 .. n - 1, NEW j \in 1 .. n - 1,
                      Folded[r.mem[g[i]].key] = Folded[r.mem[g[j]].key]
               PROVE  i = j
    BY <1>4 DEF KeysDiffer
  <2> DEFINE a == Place(p, i)
             b == Place(p, j)
  <2>1. a \in 1 .. n /\ b \in 1 .. n
    BY <1>4
  <2>2. Entry(r, g[i]).key = Entry(r, g[j]).key
    BY DEF Entry
  <2>3. Entry(m, f[a]).key = Entry(m, f[b]).key
    BY <1>3, <2>2
  <2>4. a = b
    BY <1>1, <2>1, <2>3 DEF KeysDiffer, Entry
  <2>5. QED
    <3> HIDE DEF n
    <3> QED BY <1>4, <2>4 DEF Place
<1>12. IsWithout(s, q, p)
  <2> HIDE DEF s, q, n
  <2> QED BY <1>4, <1>5, <1>6 DEF IsWithout
<1>13. QED
  <2> HIDE DEF s, g
  <2> QED BY <1>3, <1>9, <1>10, <1>11, <1>12 DEF Keeps, g, s

----------------------------------------------------------------------------
(***************************************************************************)
(* With one node on the list, dequeue does what delete_node does.  With    *)
(* more of them its assertion on the prev of the new head always fails.    *)
(***************************************************************************)
LEMMA DequeueEffect ==
  ASSUME NEW m, NEW f, Keeps(m, f)
  PROVE  /\ Len(f) = 1 => dequeue(m) = delete_node(m, f[1])
         /\ Len(f) > 1 => ~dequeue(m).asserted
<1>1. /\ m \in MemCaches /\ m.asserted /\ Chain(m, f) /\ Len(f) \in Nat /\ m.node_count = Len(f)
      /\ \A i \in 1 .. Len(f) : f[i] \in Nodes /\ f[i] # NULL
  BY ChainIsSeq, MemCacheAssumption DEF Keeps, Chain
<1>2. CASE Len(f) = 1
  <2>1. m.head = f[1] /\ m.tail = f[1]
    BY <1>1, <1>2 DEF Chain
  <2>2. assert(m, m.head = m.tail) = m
    BY <1>1, <2>1 DEF assert, MemCaches
  <2>3. dequeue(m) = Unlink([m EXCEPT !.head = NULL, !.tail = NULL], f[1], m.mem)
    <3>1. m.node_count # 0 /\ m.node_count = 1
      BY <1>1, <1>2
    <3>2. dequeue(m) = Unlink([assert(m, m.head = m.tail) EXCEPT !.head = NULL, !.tail = NULL],
                              m.head, m.mem)
      BY <3>1, Zenon DEF dequeue
    <3>3. QED
      BY <2>1, <2>2, <3>2, Zenon
  <2>4. delete_node(m, f[1]) = Unlink([m EXCEPT !.head = NULL, !.tail = NULL], f[1], m.mem)
    BY <2>1 DEF delete_node
  <2>5. QED
    BY <1>2, <2>3, <2>4
<1>3. CASE Len(f) > 1
  <2> DEFINE mem == WithPrev(m.mem, f[1], NULL)
  <2>1. 1 \in 1 .. Len(f) /\ 2 \in 1 .. Len(f)
    BY <1>1, <1>3
  <2>2. f[1] # f[2] /\ m.mem[f[1]] \in Fields /\ m.mem[f[1]].next = f[2] /\ m.mem[f[2]].prev = f[1]
    BY <1>1, <1>3, <2>1, ChainLinks
  <2>3. m.mem \in Memory /\ NULL \in Pointers
    BY <1>1, SetNothing DEF Pointers
  <2>4. mem[f[1]].next = f[2] /\ mem[f[2]] = m.mem[f[2]]
    BY <1>1, <2>1, <2>2, <2>3, SetPrev
  <2>5. m.head = f[1]
    BY <1>1, <1>3 DEF Chain
  <2>6. mem = [m.mem EXCEPT ![m.head].prev = NULL]
    BY <2>5 DEF WithPrev
  <2> DEFINE ok == mem[f[2]].prev = NULL /\ mem[m.tail].next = NULL
             m1 == [assert(m, ok) EXCEPT !.head = f[2]]
  <2>7. ~ok
    BY <1>1, <2>1, <2>2, <2>4
  <2>8. dequeue(m) = Unlink(m1, m.head, mem)
    <3>1. m.node_count # 0 /\ m.node_count # 1
      BY <1>1, <1>3
    <3> DEFINE new == mem[m.head].next
    <3>2. dequeue(m) = Unlink([assert(m, mem[new].prev = NULL /\ mem[m.tail].next = NULL)
                                 EXCEPT !.head = new], m.head, mem)
      <4> HIDE DEF mem
      <4> QED BY <3>1, <2>6, Zenon DEF dequeue
    <3>3. new = f[2]
      BY <2>4, <2>5
    <3> HIDE DEF mem, new
    <3>4. QED
      BY <3>2, <3>3, Zenon
  <2>9. m1.asserted = FALSE
    <3> HIDE DEF ok
    <3> QED BY <1>1, <2>7 DEF assert, MemCaches
  <2>10. m1 = [m EXCEPT !.asserted = m1.asserted, !.head = f[2]]
    <3> HIDE DEF ok
    <3> QED BY <1>1, <2>9, <2>7 DEF assert, MemCaches
  <2>11. Unlink(m1, m.head, mem).asserted = m1.asserted
    <3> HIDE DEF ok, mem, m1
    <3> QED BY <1>1, <2>10 DEF Unlink, MemCaches
  <2>12. QED
    <3>1. ~dequeue(m).asserted
      <4> HIDE DEF ok, mem, m1
      <4> QED BY <2>8, <2>9, <2>11, Zenon
    <3>2. Len(f) # 1
      BY <1>1, <1>3
    <3>3. QED
      BY <3>1, <3>2
<1>4. QED
  BY <1>1, <1>2, <1>3

(***************************************************************************)
(* The loop of cache_set leaves the cache alone when the object fits, and  *)
(* calls dequeue once otherwise: that empties the list, or ends the loop   *)
(* by its assertion.                                                       *)
(***************************************************************************)
LEMMA MakeRoomDequeues ==
  ASSUME NEW m, NEW f, Keeps(m, f), NEW n \in Nat
  PROVE  MakeRoom(m, n) = IF Len(f) = 0 \/ m.sz_cache + n <= MaxCache THEN m ELSE dequeue(m)
<1> DEFINE c == m.node_count
           Turn(x) == IF x.sz_cache + n > MaxCache /\ x.asserted THEN dequeue(x) ELSE x
           Turns(g) == g = [i \in 0 .. c |-> IF i = 0 THEN m ELSE Turn(g[i - 1])]
           w == [i \in 0 .. c |-> IF i = 0 THEN m ELSE Turn(m)]
<1>1. /\ c \in Nat /\ c = Len(f) /\ m.asserted
      /\ m.sz_cache \in Nat /\ MaxCache \in Nat
  BY ChainIsSeq, MemCacheAssumption DEF Keeps, Chain, MemCaches
<1>2. c > 1 => ~dequeue(m).asserted
  BY <1>1, DequeueEffect
<1>3. c > 1 => Turn(Turn(m)) = Turn(m)
  <2>1. CASE m.sz_cache + n > MaxCache
    BY <1>1, <1>2, <2>1
  <2>2. CASE ~(m.sz_cache + n > MaxCache)
    BY <2>2
  <2>3. QED
    BY <2>1, <2>2
<1>4. ASSUME NEW i \in 0 .. c
      PROVE  w[i] = IF i = 0 THEN m ELSE Turn(w[i - 1])
  <2> HIDE DEF Turn
  <2>1. CASE i = 0
    BY <2>1
  <2>2. CASE i = 1
    BY <1>1, <2>2
  <2>3. CASE i > 1
    <3>1. i - 1 \in 0 .. c /\ i - 1 # 0 /\ c > 1 /\ i # 0
      BY <1>1, <2>3
    <3>2. w[i] = Turn(m) /\ w[i - 1] = Turn(m)
      BY <3>1
    <3>3. QED
      BY <1>3, <3>1, <3>2
  <2>4. QED
    BY <2>1, <2>2, <2>3
<1>5. Turns(w)
  <2> DEFINE v == [i \in 0 .. c |-> IF i = 0 THEN m ELSE Turn(w[i - 1])]
  <2>1. \A i \in 0 .. c : w[i] = v[i]
    <3> HIDE DEF w, Turn
    <3> QED BY <1>4
  <2>2. w = v
    <3>1. w = [i \in 0 .. c |-> w[i]] /\ v = [i \in 0 .. c |-> v[i]]
      <4> HIDE DEF Turn
      <4> QED OBVIOUS
    <3> HIDE DEF w, v
    <3>2. QED
      BY <2>1, <3>1
  <2>3. QED
    BY <2>2
<1> DEFINE room == CHOOSE g : Turns(g)
<1>6. MakeRoom(m, n) = room[c]
  BY DEF MakeRoom
<1>7. Turns(room)
  <2> HIDE DEF Turns, w
  <2> QED BY <1>5
<1>8. \A i \in 0 .. c : room[i] = IF i = 0 THEN m ELSE Turn(room[i - 1])
  <2> HIDE DEF room, Turn
  <2> QED BY <1>7
<1> DEFINE D == {i \in 0 .. c : room[i] # w[i]}
<1>9. D \in SUBSET Nat
  OBVIOUS
<1>10. ASSUME NEW i \in D
       PROVE  \E j \in D : j < i
  <2> HIDE DEF room, w, Turn
  <2>1. i # 0
    BY <1>4, <1>8
  <2>2. i - 1 \in 0 .. c /\ i - 1 < i
    BY <2>1, <1>1
  <2>3. room[i - 1] # w[i - 1]
    BY <2>1, <2>2, <1>4, <1>8
  <2>4. QED
    BY <2>2, <2>3
<1>11. D = {}
  <2> HIDE DEF D
  <2> QED BY <1>9, <1>10, SmallestExists
<1>12. room[c] = w[c]
  <2>1. c \in 0 .. c
    BY <1>1
  <2> HIDE DEF room, w
  <2>2. QED
    BY <1>11, <2>1
<1>13. w[c] = IF c = 0 THEN m ELSE Turn(m)
  <2>1. c \in 0 .. c
    BY <1>1
  <2> HIDE DEF Turn
  <2>2. QED
    BY <2>1
<1>14. Turn(m) = IF m.sz_cache + n <= MaxCache THEN m ELSE dequeue(m)
  BY <1>1
<1>15. QED
  <2> HIDE DEF room, w, Turn
  <2> QED BY <1>1, <1>6, <1>12, <1>13, <1>14

(***************************************************************************)
(* What has to go in the abstract cache: nothing when the object fits, and *)
(* an only object when it does not.                                        *)
(***************************************************************************)
LEMMA EmptyTotal == <<>> \in Seq(Entries) /\ Fifo!TotalSize(<<>>) = 0
<1>1. <<>> \in Seq(Entries) /\ Len(<<>>) = 0
  OBVIOUS
<1>2. Fifo!Sums(<<>>)[0] = 0
  BY <1>1, SumsAdd
<1>3. QED
  BY <1>1, <1>2 DEF Fifo!TotalSize

LEMMA DropNothing ==
  ASSUME NEW q \in Seq(Entries), NEW n \in Nat, Fifo!TotalSize(q) + n <= MaxCache
  PROVE  Fifo!Drop(q, Fifo!ToDrop(q, n)) = q
<1> DEFINE Enough(i) == /\ Fifo!TotalSize(Fifo!Drop(q, i)) + n <= MaxCache
                        /\ \A j \in 0 .. i - 1 : Fifo!TotalSize(Fifo!Drop(q, j)) + n > MaxCache
<1>1. Fifo!Drop(q, 0) = q
  <2>1. 0 + 1 = 1 /\ SubSeq(q, 1, Len(q)) = q
    BY SubSeqFull
  <2>2. QED
    BY <2>1 DEF Fifo!Drop
<1>2. 0 \in 0 .. Len(q) /\ Enough(0)
  BY <1>1, LenProperties
<1>3. \A i \in 0 .. Len(q) : Enough(i) => i = 0
  <2> SUFFICES ASSUME NEW i \in 0 .. Len(q), Enough(i), i # 0 PROVE FALSE
    OBVIOUS
  <2>1. 0 \in 0 .. i - 1
    BY LenProperties
  <2>2. Fifo!TotalSize(q) + n > MaxCache
    BY <1>1, <2>1
  <2>3. Fifo!TotalSize(q) \in Nat /\ MaxCache \in Nat
    BY MemCacheAssumption, TotalIsNat
  <2>4. QED
    BY <2>2, <2>3
<1>4. Fifo!ToDrop(q, n) = CHOOSE i \in 0 .. Len(q) : Enough(i)
  BY DEF Fifo!ToDrop
<1>5. Fifo!ToDrop(q, n) = 0
  <2> HIDE DEF Enough
  <2> QED BY <1>2, <1>3, <1>4
<1>6. QED
  BY <1>1, <1>5

LEMMA DropTheOnly ==
  ASSUME NEW q \in Seq(Entries), Len(q) = 1, NEW n \in Nat, n <= MaxCache,
         Fifo!TotalSize(q) + n > MaxCache
  PROVE  Fifo!Drop(q, Fifo!ToDrop(q, n)) = <<>>
<1> DEFINE Enough(i) == /\ Fifo!TotalSize(Fifo!Drop(q, i)) + n <= MaxCache
                        /\ \A j \in 0 .. i - 1 : Fifo!TotalSize(Fifo!Drop(q, j)) + n > MaxCache
<1>1. Fifo!Drop(q, 0) = q
  <2>1. 0 + 1 = 1 /\ SubSeq(q, 1, Len(q)) = q
    BY SubSeqFull
  <2>2. QED
    BY <2>1 DEF Fifo!Drop
<1>2. Fifo!Drop(q, 1) = <<>>
  BY SubSeqEmpty DEF Fifo!Drop
<1>3. 1 \in 0 .. Len(q) /\ Enough(1)
  BY <1>1, <1>2, EmptyTotal
<1>4. \A i \in 0 .. Len(q) : Enough(i) => i = 1
  <2> SUFFICES ASSUME Enough(0) PROVE FALSE
    OBVIOUS
  <2>1. Fifo!TotalSize(q) + n <= MaxCache
    BY <1>1
  <2>2. Fifo!TotalSize(q) \in Nat /\ MaxCache \in Nat
    BY MemCacheAssumption, TotalIsNat
  <2>3. QED
    BY <2>1, <2>2
<1>5. Fifo!ToDrop(q, n) = CHOOSE i \in 0 .. Len(q) : Enough(i)
  BY DEF Fifo!ToDrop
<1>6. Fifo!ToDrop(q, n) = 1
  <2> HIDE DEF Enough
  <2> QED BY <1>3, <1>4, <1>5
<1>7. QED
  BY <1>2, <1>6

(***************************************************************************)
(* After the loop the object fits, and the objects that had to go in the   *)
(* abstract cache have gone.                                               *)
(***************************************************************************)
LEMMA MakeRoomKeeps ==
  ASSUME NEW m, NEW f, Keeps(m, f), NEW n \in Nat, n <= MaxCache,
         NEW r, r = MakeRoom(m, n), r.asserted
  PROVE  /\ ~(Len(f) > 1 /\ m.sz_cache + n > MaxCache)
         /\ \E g : /\ Keeps(r, g) /\ r.sz_cache + n <= MaxCache
                   /\ (r = m /\ g = f) \/ Len(g) = 0
                   /\ QueueOf(r, g) = Fifo!Drop(QueueOf(m, f), Fifo!ToDrop(QueueOf(m, f), n))
<1>1. /\ m.sz_cache \in Nat /\ MaxCache \in Nat /\ m.sz_cache = Fifo!TotalSize(QueueOf(m, f))
      /\ QueueOf(m, f) \in Seq(Entries) /\ Len(QueueOf(m, f)) = Len(f) /\ Len(f) \in Nat
  BY MemCacheAssumption, QueueIsSeq, ChainIsSeq DEF Keeps, MemCaches
<1>2. r = IF Len(f) = 0 \/ m.sz_cache + n <= MaxCache THEN m ELSE dequeue(m)
  BY MakeRoomDequeues
<1>3. Len(f) = 0 => m.sz_cache + n <= MaxCache
  <2>1. ASSUME Len(f) = 0
        PROVE  m.sz_cache = 0
    BY <1>1, <2>1, SumsAdd DEF Fifo!TotalSize
  <2>2. QED
    BY <2>1
<1>4. CASE m.sz_cache + n <= MaxCache
  BY <1>1, <1>2, <1>4, DropNothing
<1>5. CASE ~(m.sz_cache + n <= MaxCache)
  <2>1. Len(f) # 0 /\ r = dequeue(m)
    BY <1>2, <1>3, <1>5
  <2>2. Len(f) = 1 /\ r = delete_node(m, f[1]) /\ 1 \in 1 .. Len(f)
    <3>1. ~(Len(f) > 1)
      BY <2>1, DequeueEffect
    <3>2. Len(f) = 1
      BY <1>1, <2>1, <3>1
    <3>3. QED
      BY <2>1, <3>2, DequeueEffect
  <2> DEFINE g == Shorter(f, 1)
  <2>3. Keeps(r, g) /\ Len(QueueOf(r, g)) = 0
    <3>1. Keeps(r, g) /\ Len(QueueOf(r, g)) = Len(f) - 1
      <4>1. PICK p \in 1 .. Len(f) : p = 1
        BY <2>2
      <4>2. r = delete_node(m, f[p]) /\ g = Shorter(f, p)
        BY <2>2, <4>1
      <4> HIDE DEF g
      <4>3. Keeps(r, g) /\ IsWithout(QueueOf(r, g), QueueOf(m, f), p)
        BY <4>2, DeleteKeeps
      <4>4. QED
        BY <1>1, <4>3 DEF IsWithout
    <3>2. QED
      BY <2>2, <3>1
  <2>4. QueueOf(r, g) \in Seq(Entries) /\ Len(g) = 0
    <3> HIDE DEF g
    <3> QED BY <2>3, QueueIsSeq DEF Keeps
  <2>5. QueueOf(r, g) = <<>>
    <3> HIDE DEF g
    <3> QED BY <2>3, <2>4, EmptySeq
  <2>6. r.sz_cache = 0
    <3> HIDE DEF g
    <3> QED BY <2>3, <2>5, EmptyTotal DEF Keeps
  <2>7. Fifo!Drop(QueueOf(m, f), Fifo!ToDrop(QueueOf(m, f), n)) = <<>>
    BY <1>1, <1>5, <2>2, DropTheOnly
  <2>8. QED
    <3> HIDE DEF g
    <3> QED BY <2>2, <2>3, <2>4, <2>5, <2>6, <2>7
<1>6. QED
  BY <1>4, <1>5

(***************************************************************************)
(* The loop ends by an assertion only when the object does not fit beside  *)
(* two others or more.                                                     *)
(***************************************************************************)
LEMMA MakeRoomFails ==
  ASSUME NEW m, NEW f, Keeps(m, f), NEW n \in Nat,
         NEW r, r = MakeRoom(m, n), ~r.asserted
  PROVE  Len(f) > 1 /\ m.sz_cache + n > MaxCache
<1>1. /\ m.asserted /\ m.sz_cache \in Nat /\ MaxCache \in Nat /\ Len(f) \in Nat
  BY MemCacheAssumption, ChainIsSeq DEF Keeps, MemCaches
<1>2. r = IF Len(f) = 0 \/ m.sz_cache + n <= MaxCache THEN m ELSE dequeue(m)
  BY MakeRoomDequeues
<1>3. r # m
  BY <1>1
<1>4. Len(f) # 0 /\ m.sz_cache + n > MaxCache /\ r = dequeue(m)
  BY <1>1, <1>2, <1>3
<1>5. Len(f) # 1
  <2>1. ASSUME Len(f) = 1
        PROVE  FALSE
    <3>1. PICK p \in 1 .. Len(f) : p = 1
      BY <2>1
    <3>2. r = delete_node(m, f[p])
      BY <1>4, <2>1, <3>1, DequeueEffect
    <3>3. Keeps(r, Shorter(f, p))
      BY <3>2, DeleteKeeps
    <3>4. QED
      BY <3>3 DEF Keeps
  <2>2. QED
    BY <2>1
<1>6. \A c \in Nat : c # 0 /\ c # 1 => c > 1
  OBVIOUS
<1>7. Len(f) > 1
  BY <1>1, <1>4, <1>5, <1>6
<1>8. QED
  BY <1>4, <1>7, Zenon

----------------------------------------------------------------------------
(***************************************************************************)
(* enqueue appends its node to the list and its object to the queue.       *)
(***************************************************************************)
EnqueueNode(m, k, d) == [key |-> k, data |-> d, prev |-> m.tail, next |-> NULL]
EnqueueMem(m, cn, k, d) ==
  IF m.node_count = 0 THEN [m.mem EXCEPT ![cn] = [EnqueueNode(m, k, d) EXCEPT !.prev = NULL]]
  ELSE [m.mem EXCEPT ![m.tail].next = cn, ![cn] = EnqueueNode(m, k, d)]

LEMMA EnqueueLinks ==
  ASSUME NEW m, NEW f, Keeps(m, f), NEW cn \in Nodes, m.mem[cn] = Free,
         NEW k \in Keys, NEW d \in Data, NEW mem, mem = EnqueueMem(m, cn, k, d)
  PROVE  /\ mem \in Memory
         /\ mem[cn] = EnqueueNode(m, k, d)
         /\ \A i \in 1 .. Len(f) :
              /\ f[i] # cn /\ mem[f[i]] \in Fields
              /\ mem[f[i]].key = m.mem[f[i]].key /\ mem[f[i]].data = m.mem[f[i]].data
              /\ mem[f[i]].prev = m.mem[f[i]].prev
              /\ mem[f[i]].next = IF i = Len(f) THEN cn ELSE m.mem[f[i]].next
         /\ \A x \in Nodes : m.mem[x] = Free /\ x # cn => mem[x] = Free
<1> DEFINE n == Len(f)
           node == EnqueueNode(m, k, d)
<1>1. /\ m \in MemCaches /\ Chain(m, f) /\ m.mem \in Memory /\ n \in Nat /\ m.node_count = n
      /\ \A i \in 1 .. n : f[i] \in Nodes /\ m.mem[f[i]] \in Fields /\ f[i] # cn
  <2>1. m \in MemCaches /\ Chain(m, f)
    BY DEF Keeps
  <2>2. n \in Nat /\ m.node_count = n /\ \A i \in 1 .. n : f[i] \in Nodes
    BY <2>1, ChainIsSeq DEF Chain
  <2>3. \A i \in 1 .. n : m.mem[f[i]] \in Fields /\ f[i] # cn
    BY <2>1, ChainLinks, FreeIsNoNode
  <2>4. QED
    BY <2>1, <2>2, <2>3, SetNothing
<1>2. m.tail \in Pointers /\ NULL \in Pointers /\ cn \in Pointers
  BY <1>1, SetNothing DEF Pointers
<1>3. node \in Fields
  BY <1>2 DEF EnqueueNode, Fields
<1>4. CASE n = 0
  <2>1. m.tail = NULL
    BY <1>1, <1>4 DEF Chain
  <2>2. [node EXCEPT !.prev = NULL] = node
    BY <2>1 DEF EnqueueNode
  <2>3. mem = [m.mem EXCEPT ![cn] = node]
    <3> HIDE DEF node
    <3> QED BY <1>1, <1>4, <2>2 DEF EnqueueMem, node
  <2> HIDE DEF node, n
  <2>4. mem \in Memory /\ mem[cn] = node /\ \A x \in Nodes : x # cn => mem[x] = m.mem[x]
    BY <1>1, <1>3, <2>3 DEF Memory
  <2>5. \A i \in 1 .. n : FALSE
    BY <1>4
  <2>6. QED
    BY <2>4, <2>5 DEF node, n
<1>5. CASE n # 0
  <2>1. n \in 1 .. n /\ m.tail = f[n] /\ \A i \in 1 .. n : f[i] = f[n] => i = n
    <3>1. n \in 1 .. n
      <4> HIDE DEF n
      <4> QED BY <1>1, <1>5
    <3>2. QED
      BY <1>1, <1>5, <3>1 DEF Chain
  <2> DEFINE mem1 == WithNext(m.mem, m.tail, cn)
  <2>2. /\ mem1 \in Memory /\ mem1[m.tail] \in Fields
        /\ mem1[m.tail].key = m.mem[m.tail].key /\ mem1[m.tail].data = m.mem[m.tail].data
        /\ mem1[m.tail].prev = m.mem[m.tail].prev /\ mem1[m.tail].next = cn
        /\ \A x \in Nodes : x # m.tail => mem1[x] = m.mem[x]
    <3>1. m.tail \in Nodes /\ m.mem[m.tail] \in Fields
      <4> HIDE DEF n
      <4> QED BY <1>1, <2>1
    <3>2. QED
      BY <1>1, <1>2, <3>1, SetNext
  <2>3. mem = [mem1 EXCEPT ![cn] = node]
    <3> HIDE DEF node, n
    <3> QED BY <1>1, <1>5 DEF EnqueueMem, node, WithNext
  <2> HIDE DEF node, n, mem1
  <2>4. mem \in Memory /\ mem[cn] = node /\ \A x \in Nodes : x # cn => mem[x] = mem1[x]
    BY <1>3, <2>2, <2>3 DEF Memory
  <2>5. ASSUME NEW i \in 1 .. n
        PROVE  /\ f[i] # cn /\ mem[f[i]] \in Fields
               /\ mem[f[i]].key = m.mem[f[i]].key /\ mem[f[i]].data = m.mem[f[i]].data
               /\ mem[f[i]].prev = m.mem[f[i]].prev
               /\ mem[f[i]].next = IF i = n THEN cn ELSE m.mem[f[i]].next
    <3>1. f[i] # cn /\ f[i] \in Nodes /\ mem[f[i]] = mem1[f[i]]
      BY <1>1, <2>4
    <3>2. CASE i = n
      BY <3>1, <3>2, <2>1, <2>2
    <3>3. CASE i # n
      <4>1. f[i] # m.tail /\ m.mem[f[i]] \in Fields
        BY <1>1, <2>1, <3>3
      <4>2. QED
        BY <4>1, <3>1, <3>3, <2>2
    <3>4. QED
      BY <3>2, <3>3
  <2>6. ASSUME NEW x \in Nodes, m.mem[x] = Free, x # cn
        PROVE  mem[x] = Free
    <3>1. x # m.tail
      BY <1>1, <2>1, <2>6, FreeIsNoNode
    <3>2. QED
      BY <2>2, <2>4, <2>6, <3>1
  <2>7. QED
    BY <2>4, <2>5, <2>6 DEF node, n
<1>6. QED
  BY <1>4, <1>5

LEMMA EnqueueKeeps ==
  ASSUME NEW m, NEW f, Keeps(m, f), NEW cn \in Nodes, m.mem[cn] = Free,
         NEW k \in Keys, NEW d \in Data,
         \A i \in 1 .. Len(f) : Folded[m.mem[f[i]].key] # Folded[k],
         NEW r, r = enqueue(m, cn, k, d)
  PROVE  /\ Keeps(r, Append(f, cn))
         /\ QueueOf(r, Append(f, cn)) = Append(QueueOf(m, f), [key |-> Folded[k], data |-> d])
         /\ r.sz_cache = m.sz_cache + Size[d]
<1> DEFINE n == Len(f)
           mem == EnqueueMem(m, cn, k, d)
           node == EnqueueNode(m, k, d)
           head == IF m.node_count = 0 THEN cn ELSE m.head
           ok == mem[head].prev = NULL
           g == Append(f, cn)
           q == QueueOf(m, f)
           s == QueueOf(r, g)
           e == [key |-> Folded[k], data |-> d]
<1>1. /\ m \in MemCaches /\ m.asserted /\ Chain(m, f) /\ KeysDiffer(m, f)
      /\ m.sz_cache = Fifo!TotalSize(q) /\ f \in Seq(Nodes) /\ n \in Nat /\ m.node_count = n
      /\ \A i \in 1 .. n : f[i] \in Nodes
  BY ChainIsSeq DEF Keeps, Chain
<1>2. /\ mem \in Memory /\ mem[cn] = node
      /\ \A i \in 1 .. n :
           /\ f[i] # cn /\ mem[f[i]] \in Fields
           /\ mem[f[i]].key = m.mem[f[i]].key /\ mem[f[i]].data = m.mem[f[i]].data
           /\ mem[f[i]].prev = m.mem[f[i]].prev
           /\ mem[f[i]].next = IF i = n THEN cn ELSE m.mem[f[i]].next
      /\ \A x \in Nodes : m.mem[x] = Free /\ x # cn => mem[x] = Free
  <2> HIDE DEF node, n, mem
  <2> QED BY EnqueueLinks DEF node, n, mem
<1>3. node.key = k /\ node.data = d /\ node.prev = m.tail /\ node.next = NULL /\ node \in Fields
  BY <1>1, SetNothing DEF EnqueueNode, Fields, Pointers
<1>4. ok
  <2>1. CASE n = 0
    <3>1. m.tail = NULL /\ head = cn
      BY <1>1, <2>1 DEF Chain
    <3> HIDE DEF mem, node, head
    <3>2. QED
      BY <1>2, <1>3, <3>1
  <2>2. CASE n # 0
    <3>1. 1 \in 1 .. n
      <4> HIDE DEF n
      <4> QED BY <1>1, <2>2
    <3>2. head = f[1] /\ m.mem[f[1]].prev = NULL
      <4>1. m.head = f[1]
        BY <1>1, <2>2 DEF Chain
      <4>2. \A i \in 1 .. n : m.mem[f[i]].prev = IF i = 1 THEN NULL ELSE f[i - 1]
        BY <1>1, ChainLinks
      <4> HIDE DEF n
      <4>3. QED
        BY <1>1, <2>2, <3>1, <4>1, <4>2
    <3> HIDE DEF mem, node, head, n
    <3>3. QED
      BY <1>2, <3>1, <3>2
  <2>3. QED
    BY <2>1, <2>2
<1>5. r = [assert(m, ok) EXCEPT !.mem = mem, !.head = head, !.tail = cn,
                                !.node_count = @ + 1, !.sz_cache = @ + Size[d]]
  BY Zenon DEF enqueue, EnqueueMem, EnqueueNode
<1>6. Size[d] \in Nat /\ head \in Pointers /\ cn \in Pointers
  BY <1>1, MemCacheAssumption, SetNothing DEF Pointers
<1>7. /\ r \in MemCaches /\ r.mem = mem /\ r.head = head /\ r.tail = cn /\ r.asserted
      /\ r.node_count = n + 1 /\ r.sz_cache = m.sz_cache + Size[d]
  <2>1. assert(m, ok) = m
    <3> HIDE DEF ok
    <3> QED BY <1>1, <1>4 DEF assert, MemCaches
  <2>2. r = [m EXCEPT !.mem = mem, !.head = head, !.tail = cn,
                      !.node_count = @ + 1, !.sz_cache = @ + Size[d]]
    <3> HIDE DEF ok, mem, head
    <3> QED BY <1>5, <2>1, Zenon
  <2>3. /\ m \in MemCaches /\ m.asserted /\ n \in Nat /\ m.node_count = n
        /\ mem \in [Nodes -> Fields \cup {Free}] /\ head \in Pointers /\ cn \in Pointers
        /\ Size[d] \in Nat
    BY <1>1, <1>2, <1>6 DEF Memory
  <2> HIDE DEF mem, head, n
  <2>4. m.sz_cache + Size[d] \in Nat /\ n + 1 \in Nat
    BY <2>3 DEF MemCaches
  <2>5. /\ r.mem = mem /\ r.head = head /\ r.tail = cn /\ r.asserted = m.asserted
        /\ r.node_count = n + 1 /\ r.sz_cache = m.sz_cache + Size[d]
    BY <2>2, <2>3 DEF MemCaches
  <2>6. r = [head |-> head, tail |-> cn, node_count |-> n + 1,
             sz_cache |-> m.sz_cache + Size[d], mem |-> mem, asserted |-> m.asserted]
    BY <2>2, <2>3 DEF MemCaches
  <2>7. m.asserted \in BOOLEAN
    BY <2>3 DEF MemCaches
  <2>8. r \in MemCaches
    BY <2>3, <2>4, <2>6, <2>7 DEF MemCaches
  <2>9. QED
    BY <2>3, <2>5, <2>8
<1>8. /\ g \in Seq(Nodes) /\ Len(g) = n + 1 /\ g[n + 1] = cn /\ \A i \in 1 .. n : g[i] = f[i]
  BY <1>1, AppendProperties
<1> HIDE DEF g, mem, node, ok
<1>9. Chain(r, g)
  <2>1. /\ r.head = g[1] /\ r.tail = g[n + 1] /\ Len(g) # 0
    <3>1. n = 0 => m.node_count = 0
      BY <1>1
    <3>2. n # 0 => 1 \in 1 .. n /\ m.head = f[1] /\ m.node_count # 0
      <4>1. n # 0 => m.head = f[1]
        BY <1>1 DEF Chain
      <4> HIDE DEF n
      <4>2. QED
        BY <1>1, <4>1
    <3>3. Len(g) # 0
      <4> HIDE DEF n
      <4> QED BY <1>1, <1>8
    <3>4. r.head = g[1]
      <4> HIDE DEF n
      <4>1. CASE n = 0
        BY <1>7, <1>8, <3>1, <4>1
      <4>2. CASE n # 0
        BY <1>7, <1>8, <3>2, <4>2
      <4>3. QED
        BY <4>1, <4>2
    <3>5. QED
      BY <1>7, <1>8, <3>3, <3>4
  <2>2. ASSUME NEW i \in 1 .. n + 1
        PROVE  Links(r, g, i)
    <3>1. CASE i = n + 1
      <4>1. m.tail = IF n = 0 THEN NULL ELSE f[n]
        BY <1>1 DEF Chain
      <4> HIDE DEF n
      <4>2. n # 0 => g[n] = f[n]
        BY <1>1, <1>8
      <4>3. (i = 1 <=> n = 0) /\ i - 1 = n
        BY <1>1, <3>1
      <4>4. g[i] = cn /\ i = Len(g)
        BY <1>8, <3>1
      <4>5. QED
        BY <1>2, <1>3, <1>7, <4>1, <4>2, <4>3, <4>4 DEF Links
    <3>2. CASE i # n + 1
      <4>1. i \in 1 .. n /\ i # Len(g)
        <5> HIDE DEF n
        <5> QED BY <1>1, <1>8, <3>2
      <4>2. m.mem[f[i]].prev = (IF i = 1 THEN NULL ELSE f[i - 1])
            /\ m.mem[f[i]].next = (IF i = n THEN NULL ELSE f[i + 1])
        BY <1>1, <4>1, ChainLinks
      <4>3. (i # 1 => g[i - 1] = f[i - 1]) /\ (i # n => g[i + 1] = f[i + 1]) /\ (i = n => g[i + 1] = cn)
        <5> HIDE DEF n
        <5>1. (i # 1 => i - 1 \in 1 .. n) /\ (i # n => i + 1 \in 1 .. n)
          BY <1>1, <4>1
        <5>2. QED
          BY <1>8, <5>1
      <4>4. g[i] = f[i]
        BY <1>8, <4>1
      <4> HIDE DEF n
      <4>5. QED
        BY <1>2, <1>7, <4>1, <4>2, <4>3, <4>4 DEF Links
    <3>3. QED
      BY <3>1, <3>2
  <2>3. ASSUME NEW i \in 1 .. n + 1, NEW j \in 1 .. n + 1, g[i] = g[j]
        PROVE  i = j
    <3>1. \A a, b \in 1 .. n : f[a] = f[b] => a = b
      BY <1>1 DEF Chain
    <3> HIDE DEF n
    <3>2. (i \in 1 .. n \/ i = n + 1) /\ (j \in 1 .. n \/ j = n + 1)
      BY <1>1
    <3>3. QED
      BY <1>2, <1>8, <2>3, <3>1, <3>2
  <2>4. ASSUME NEW x \in Nodes, r.mem[x] # Free
        PROVE  \E i \in 1 .. n + 1 : g[i] = x
    <3>1. CASE x = cn
      <4> HIDE DEF n
      <4>1. n + 1 \in 1 .. n + 1
        BY <1>1
      <4>2. QED
        BY <1>8, <3>1, <4>1
    <3>2. CASE x # cn
      <4>1. m.mem[x] # Free
        BY <1>2, <1>7, <2>4, <3>2
      <4>2. PICK i \in 1 .. n : f[i] = x
        BY <1>1, <4>1 DEF Chain
      <4> HIDE DEF n
      <4>3. i \in 1 .. n + 1 /\ g[i] = x
        BY <1>1, <1>8, <4>2
      <4>4. QED
        BY <4>3
    <3>3. QED
      BY <3>1, <3>2
  <2>5. QED
    <3> HIDE DEF n
    <3> QED BY <1>7, <1>8, <2>1, <2>2, <2>3, <2>4 DEF Chain
<1>10. q \in Seq(Entries) /\ Len(q) = n /\ \A i \in 1 .. n : q[i] = Entry(m, f[i])
  BY <1>1, QueueIsSeq
<1>11. s \in Seq(Entries) /\ Len(s) = n + 1 /\ \A i \in 1 .. n + 1 : s[i] = Entry(r, g[i])
  BY <1>8, <1>9, QueueIsSeq
<1>12. e \in Entries
  BY DEF Entries, FoldedKeys
<1> HIDE DEF q, s, n
<1>13. \A i \in 1 .. n : Entry(r, g[i]) = Entry(m, f[i]) /\ n + 1 \in 1 .. n + 1 /\ i \in 1 .. n + 1
  BY <1>1, <1>2, <1>7, <1>8 DEF Entry
<1>14. Entry(r, g[n + 1]) = e /\ n + 1 \in 1 .. n + 1
  BY <1>1, <1>2, <1>3, <1>7, <1>8 DEF Entry
<1>15. s = Append(q, e)
  <2>1. /\ Append(q, e) \in Seq(Entries) /\ Len(Append(q, e)) = n + 1
        /\ Append(q, e)[n + 1] = e /\ \A i \in 1 .. n : Append(q, e)[i] = q[i]
    BY <1>10, <1>12, AppendProperties
  <2>2. ASSUME NEW i \in 1 .. n + 1
        PROVE  s[i] = Append(q, e)[i]
    <3>1. i \in 1 .. n \/ i = n + 1
      BY <1>1
    <3>2. QED
      BY <1>10, <1>11, <1>13, <1>14, <2>1, <3>1
  <2>3. QED
    BY <1>11, <2>1, <2>2, SeqEqual
<1>16. r.sz_cache = Fifo!TotalSize(s)
  <2>1. e.data = d
    OBVIOUS
  <2>2. Fifo!TotalSize(Append(q, e)) = Fifo!TotalSize(q) + Size[e.data]
    <3> HIDE DEF e
    <3> QED BY <1>10, <1>12, TotalOfAppend
  <2>3. QED
    BY <1>1, <1>7, <1>15, <2>1, <2>2
<1>17. KeysDiffer(r, g)
  <2> SUFFICES ASSUME NEW i \in 1 .. n + 1, NEW j \in 1 .. n + 1,
                      Folded[r.mem[g[i]].key] = Folded[r.mem[g[j]].key]
               PROVE  i = j
    BY <1>8 DEF KeysDiffer
  <2>1. \A a, b \in 1 .. n : Folded[m.mem[f[a]].key] = Folded[m.mem[f[b]].key] => a = b
    BY <1>1 DEF KeysDiffer, n
  <2>2. \A a \in 1 .. n : Folded[r.mem[g[a]].key] = Folded[m.mem[f[a]].key]
                         /\ Folded[m.mem[f[a]].key] # Folded[k]
    BY <1>2, <1>7, <1>8 DEF n
  <2>3. Folded[r.mem[g[n + 1]].key] = Folded[k]
    BY <1>2, <1>3, <1>7, <1>8
  <2>4. (i \in 1 .. n \/ i = n + 1) /\ (j \in 1 .. n \/ j = n + 1)
    BY <1>1
  <2>5. QED
    BY <2>1, <2>2, <2>3, <2>4
<1>18. QED
  BY <1>7, <1>9, <1>15, <1>16, <1>17 DEF Keeps, g, s, q

----------------------------------------------------------------------------
(***************************************************************************)
(* What the library's RemoveAt leaves of a queue.                          *)
(***************************************************************************)
LEMMA RemovedPlaces ==
  ASSUME NEW q \in Seq(Entries), NEW p \in 1 .. Len(q)
  PROVE  IsWithout(Fifo!RemoveAt(q, p), q, p)
<1> DEFINE n == Len(q)
           s == SubSeq(q, 1, p - 1)
           t == SubSeq(q, p + 1, n)
<1>1. n \in Nat /\ p \in 1 .. n /\ \A i \in 1 .. n : q[i] \in Entries
  BY LenProperties, ElementOfSeq
<1> HIDE DEF n
<1>2. 1 \in Int /\ p - 1 \in Int /\ \A i \in 1 .. p - 1 : q[i] \in Entries
  BY <1>1
<1>3. p + 1 \in Int /\ n \in Int /\ \A i \in p + 1 .. n : q[i] \in Entries
  BY <1>1
<1>4. /\ s \in Seq(Entries) /\ Len(s) = p - 1 /\ \A i \in 1 .. p - 1 : s[i] = q[i]
  <2>1. /\ s \in Seq(Entries) /\ Len(s) = IF 1 <= p - 1 THEN p - 1 - 1 + 1 ELSE 0
        /\ \A i \in 1 .. p - 1 - 1 + 1 : s[i] = q[1 + i - 1]
    BY <1>2, SubSeqProperties
  <2> HIDE DEF s
  <2>2. \A i \in 1 .. p - 1 : i \in 1 .. p - 1 - 1 + 1 /\ 1 + i - 1 = i
    BY <1>1
  <2>3. Len(s) = p - 1
    BY <1>1, <2>1
  <2>4. QED
    BY <2>1, <2>2, <2>3
<1>5. /\ t \in Seq(Entries) /\ Len(t) = n - p /\ \A i \in 1 .. n - p : t[i] = q[p + i]
  <2>1. /\ t \in Seq(Entries) /\ Len(t) = IF p + 1 <= n THEN n - (p + 1) + 1 ELSE 0
        /\ \A i \in 1 .. n - (p + 1) + 1 : t[i] = q[p + 1 + i - 1]
    BY <1>3, SubSeqProperties
  <2> HIDE DEF t
  <2>2. \A i \in 1 .. n - p : i \in 1 .. n - (p + 1) + 1 /\ p + 1 + i - 1 = p + i
    BY <1>1
  <2>3. Len(t) = n - p
    BY <1>1, <2>1
  <2>4. QED
    BY <2>1, <2>2, <2>3
<1>6. Fifo!RemoveAt(q, p) = s \o t
  BY DEF Fifo!RemoveAt, n
<1> HIDE DEF s, t
<1>7. /\ s \o t \in Seq(Entries) /\ Len(s \o t) = Len(s) + Len(t)
      /\ \A i \in 1 .. Len(s) + Len(t) : (s \o t)[i] = IF i <= Len(s) THEN s[i] ELSE t[i - Len(s)]
  BY <1>4, <1>5, ConcatProperties
<1>8. Len(s) + Len(t) = n - 1
  BY <1>1, <1>4, <1>5
<1>9. ASSUME NEW i \in 1 .. n - 1
      PROVE  (s \o t)[i] = q[Place(p, i)]
  <2>1. (s \o t)[i] = IF i <= p - 1 THEN s[i] ELSE t[i - (p - 1)]
    BY <1>4, <1>7, <1>8
  <2>2. CASE i < p
    BY <1>1, <1>4, <2>1, <2>2 DEF Place
  <2>3. CASE ~(i < p)
    <3>1. i - (p - 1) \in 1 .. n - p /\ p + (i - (p - 1)) = i + 1 /\ ~(i <= p - 1)
      BY <1>1, <2>3
    <3>2. QED
      BY <1>5, <2>1, <2>3, <3>1 DEF Place
  <2>4. QED
    BY <2>2, <2>3
<1>10. \A i \in 1 .. n - 1 : Place(p, i) \in 1 .. n
  BY <1>1 DEF Place
<1>11. QED
  BY <1>6, <1>7, <1>8, <1>9, <1>10 DEF n, IsWithout

(***************************************************************************)
(* The first thing cache_set does, cache_get and delete_node, is to drop   *)
(* the object that has the key from the abstract queue.                    *)
(***************************************************************************)
LEMMA DeleteOldKeeps ==
  ASSUME NEW m, NEW f, Keeps(m, f), NEW k \in Keys, NEW old, old = cache_get(m, k),
         NEW r, r = IF old = NULL THEN m ELSE delete_node(m, old)
  PROVE  \E g : /\ Keeps(r, g)
                /\ \A i \in 1 .. Len(g) : Folded[r.mem[g[i]].key] # Folded[k]
                /\ QueueOf(r, g) = Fifo!Without(QueueOf(m, f), Folded[k])
<1> DEFINE q == QueueOf(m, f)
           n == Len(f)
<1>1. /\ Chain(m, f) /\ KeysDiffer(m, f) /\ q \in Seq(Entries) /\ Len(q) = n
      /\ \A i \in 1 .. n : q[i].key = Folded[m.mem[f[i]].key]
  BY QueueIsSeq DEF Keeps
<1>2. Fifo!With(q, Folded[k]) = {i \in 1 .. n : Folded[m.mem[f[i]].key] = Folded[k]}
  <2> HIDE DEF q, n
  <2> QED BY <1>1 DEF Fifo!With
<1>3. \/ /\ old = NULL
         /\ \A i \in 1 .. n : Folded[m.mem[f[i]].key] # Folded[k]
      \/ /\ old # NULL
         /\ \E p \in 1 .. n : old = f[p] /\ Folded[m.mem[f[p]].key] = Folded[k]
  <2>1. Chain(m, f)
    BY <1>1
  <2> HIDE DEF n, q
  <2>2. QED
    BY <2>1, GetFinds DEF n
<1>4. CASE old = NULL
  <2>1. \A i \in 1 .. n : Folded[m.mem[f[i]].key] # Folded[k]
    BY <1>3, <1>4
  <2>2. Fifo!Without(q, Folded[k]) = q
    <3> HIDE DEF q, n
    <3> QED BY <1>2, <2>1 DEF Fifo!Without
  <2>3. r = m
    BY <1>4
  <2>4. QED
    BY <2>1, <2>2, <2>3
<1>5. CASE old # NULL
  <2>1. PICK p \in 1 .. n : old = f[p] /\ Folded[m.mem[f[p]].key] = Folded[k]
    BY <1>3, <1>5
  <2>2. r = delete_node(m, f[p])
    BY <1>5, <2>1
  <2> DEFINE g == Shorter(f, p)
             s == QueueOf(r, g)
  <2>3. Keeps(r, g) /\ IsWithout(s, q, p)
    BY <2>2, DeleteKeeps
  <2>4. Fifo!With(q, Folded[k]) = {p}
    <3>1. \A i \in 1 .. n : Folded[m.mem[f[i]].key] = Folded[m.mem[f[p]].key] => i = p
      BY <1>1 DEF KeysDiffer
    <3> HIDE DEF q, n
    <3>2. QED
      BY <1>2, <2>1, <3>1
  <2>5. Fifo!Without(q, Folded[k]) = Fifo!RemoveAt(q, p)
    <3> HIDE DEF q
    <3> QED BY <2>4 DEF Fifo!Without
  <2>6. IsWithout(Fifo!RemoveAt(q, p), q, p)
    <3>1. p \in 1 .. Len(q)
      BY <1>1
    <3> HIDE DEF q
    <3>2. QED
      BY <1>1, <3>1, RemovedPlaces
  <2>7. Len(s) = Len(g) /\ \A i \in 1 .. Len(g) : s[i].key = Folded[r.mem[g[i]].key]
    <3> HIDE DEF g
    <3> QED BY <2>3, QueueIsSeq DEF Keeps
  <2>8. s = Fifo!RemoveAt(q, p)
    <3> HIDE DEF s, q, n
    <3> QED BY <2>3, <2>6, SeqEqual DEF IsWithout
  <2>9. ASSUME NEW i \in 1 .. Len(g)
        PROVE  Folded[r.mem[g[i]].key] # Folded[k]
    <3>1. i \in 1 .. n - 1
      <4> HIDE DEF s, g, q, n
      <4> QED BY <1>1, <2>3, <2>7 DEF IsWithout
    <3>2. Place(p, i) \in 1 .. n /\ s[i] = q[Place(p, i)] /\ s[i].key = Folded[r.mem[g[i]].key]
      <4> HIDE DEF s, g, q, n
      <4> QED BY <1>1, <2>3, <2>7, <2>9, <3>1 DEF IsWithout
    <3>3. Place(p, i) # p
      <4>1. n \in Nat
        BY <1>1, ChainIsSeq
      <4> HIDE DEF n
      <4>2. QED
        BY <2>1, <3>1, <4>1 DEF Place
    <3>4. q[Place(p, i)].key # Folded[k]
      <4>1. ~(Place(p, i) \in Fifo!With(q, Folded[k]))
        BY <2>4, <3>3
      <4> HIDE DEF q, n
      <4>2. QED
        BY <1>1, <3>2, <4>1 DEF Fifo!With
    <3> HIDE DEF s, g, q
    <3>5. QED
      BY <3>2, <3>4
  <2>10. QED
    BY <2>3, <2>5, <2>8, <2>9
<1>6. QED
  BY <1>3, <1>4, <1>5

\* what is left of the queue when the object k, d is enqueued
Remaining(q, k, d) == Fifo!Drop(Fifo!Without(q, Folded[k]), Fifo!ToDrop(Fifo!Without(q, Folded[k]), Size[d]))

\* what makes the assertion of dequeue fail, said of the queue
Crowded(q, k, d) ==
  Len(Fifo!Without(q, Folded[k])) > 1 /\ Fifo!TotalSize(Fifo!Without(q, Folded[k])) + Size[d] > MaxCache

(***************************************************************************)
(* The list without the replaced object is crowded when the queue is.      *)
(***************************************************************************)
LEMMA PreparedIsCrowded ==
  ASSUME NEW m, NEW h, Keeps(m, h), NEW q, NEW k, NEW d,
         QueueOf(m, h) = Fifo!Without(q, Folded[k])
  PROVE  Crowded(q, k, d) <=> Len(h) > 1 /\ m.sz_cache + Size[d] > MaxCache
<1>1. /\ Len(QueueOf(m, h)) = Len(h)
      /\ m.sz_cache = Fifo!TotalSize(QueueOf(m, h))
  BY QueueIsSeq DEF Keeps
<1>2. QED
  BY <1>1 DEF Crowded

(***************************************************************************)
(* What cache_set does before it enqueues: the object it replaces is gone, *)
(* and so are the objects that make room.                                  *)
(***************************************************************************)
LEMMA PreparedKeeps ==
  ASSUME NEW f, Keeps(mc, f), NEW k \in Keys, NEW d \in Data, Size[d] < MaxObject,
         Prepared(k, d).asserted
  PROVE  /\ ~Crowded(QueueOf(mc, f), k, d)
         /\ \E g : /\ Keeps(Prepared(k, d), g)
                   /\ \A i \in 1 .. Len(g) : Folded[Prepared(k, d).mem[g[i]].key] # Folded[k]
                   /\ Prepared(k, d).sz_cache + Size[d] <= MaxCache
                   /\ QueueOf(Prepared(k, d), g) = Remaining(QueueOf(mc, f), k, d)
<1> DEFINE old == cache_get(mc, k)
           m == IF old = NULL THEN mc ELSE delete_node(mc, old)
           r == Prepared(k, d)
<1>1. Size[d] \in Nat /\ Size[d] <= MaxCache
  BY MemCacheAssumption
<1>2. r = MakeRoom(m, Size[d])
  BY DEF Prepared
<1> HIDE DEF m, r
<1>3. PICK h : /\ Keeps(m, h)
               /\ \A i \in 1 .. Len(h) : Folded[m.mem[h[i]].key] # Folded[k]
               /\ QueueOf(m, h) = Fifo!Without(QueueOf(mc, f), Folded[k])
  BY DeleteOldKeeps DEF m
<1>4. r.asserted
  BY DEF r
<1>5. /\ ~(Len(h) > 1 /\ m.sz_cache + Size[d] > MaxCache)
      /\ \E g : /\ Keeps(r, g) /\ r.sz_cache + Size[d] <= MaxCache
                /\ (r = m /\ g = h) \/ Len(g) = 0
                /\ QueueOf(r, g) = Fifo!Drop(QueueOf(m, h), Fifo!ToDrop(QueueOf(m, h), Size[d]))
  BY <1>1, <1>2, <1>3, <1>4, MakeRoomKeeps
<1>9. ~Crowded(QueueOf(mc, f), k, d)
  BY <1>3, <1>5, PreparedIsCrowded
<1>10. PICK g : /\ Keeps(r, g) /\ r.sz_cache + Size[d] <= MaxCache
                /\ (r = m /\ g = h) \/ Len(g) = 0
                /\ QueueOf(r, g) = Fifo!Drop(QueueOf(m, h), Fifo!ToDrop(QueueOf(m, h), Size[d]))
  BY <1>5
<1>6. \A i \in 1 .. Len(g) : Folded[r.mem[g[i]].key] # Folded[k]
  <2>1. CASE r = m /\ g = h
    BY <1>3, <2>1
  <2>2. CASE Len(g) = 0
    BY <2>2
  <2>3. QED
    BY <1>10, <2>1, <2>2
<1>7. QueueOf(r, g) = Remaining(QueueOf(mc, f), k, d)
  BY <1>3, <1>10, Zenon DEF Remaining
<1>8. QED
  BY <1>6, <1>7, <1>9, <1>10 DEF r

(***************************************************************************)
(* When an assertion fails before the enqueue, the queue was crowded.      *)
(***************************************************************************)
LEMMA PreparedFails ==
  ASSUME NEW f, Keeps(mc, f), NEW k \in Keys, NEW d \in Data,
         ~Prepared(k, d).asserted
  PROVE  Crowded(QueueOf(mc, f), k, d)
<1> DEFINE old == cache_get(mc, k)
           m == IF old = NULL THEN mc ELSE delete_node(mc, old)
           r == Prepared(k, d)
<1>1. Size[d] \in Nat
  BY MemCacheAssumption
<1>2. r = MakeRoom(m, Size[d]) /\ ~r.asserted
  BY DEF Prepared
<1> HIDE DEF m, r
<1>3. PICK h : Keeps(m, h) /\ QueueOf(m, h) = Fifo!Without(QueueOf(mc, f), Folded[k])
  BY DeleteOldKeeps DEF m
<1>4. Len(h) > 1 /\ m.sz_cache + Size[d] > MaxCache
  BY <1>1, <1>2, <1>3, MakeRoomFails
<1>5. QED
  BY <1>3, <1>4, PreparedIsCrowded

(***************************************************************************)
(* cache_set keeps the invariant and does to the list what Store of        *)
(* CacheFifo does to the queue.                                            *)
(***************************************************************************)
LEMMA CacheSetKeeps ==
  ASSUME NEW f, Keeps(mc, f), NEW k \in Keys, NEW d \in Data, cache_set(k, d)
  PROVE  /\ Size[d] < MaxObject /\ ~Crowded(QueueOf(mc, f), k, d)
         /\ \E g : /\ Keeps(mc', g) /\ mc'.sz_cache <= MaxCache
                   /\ QueueOf(mc', g) = Append(Remaining(QueueOf(mc, f), k, d),
                                               [key |-> Folded[k], data |-> d])
<1> DEFINE m == Prepared(k, d)
<1>1. Size[d] < MaxObject /\ m.asserted
  BY DEF cache_set
<1>2. PICK cn \in Nodes : m.mem[cn] = Free /\ mc' = enqueue(m, cn, k, d)
  BY DEF cache_set
<1>3. PICK g : /\ Keeps(m, g)
               /\ \A i \in 1 .. Len(g) : Folded[m.mem[g[i]].key] # Folded[k]
               /\ m.sz_cache + Size[d] <= MaxCache
               /\ QueueOf(m, g) = Remaining(QueueOf(mc, f), k, d)
  BY <1>1, PreparedKeeps
<1>6. ~Crowded(QueueOf(mc, f), k, d)
  BY <1>1, PreparedKeeps
<1> HIDE DEF m
<1>4. /\ Keeps(mc', Append(g, cn))
      /\ QueueOf(mc', Append(g, cn)) = Append(QueueOf(m, g), [key |-> Folded[k], data |-> d])
      /\ mc'.sz_cache = m.sz_cache + Size[d]
  <2>1. PICK r : r = mc'
    OBVIOUS
  <2>2. r = enqueue(m, cn, k, d)
    BY <1>2, <2>1
  <2>3. /\ Keeps(r, Append(g, cn))
        /\ QueueOf(r, Append(g, cn)) = Append(QueueOf(m, g), [key |-> Folded[k], data |-> d])
        /\ r.sz_cache = m.sz_cache + Size[d]
    BY <1>2, <1>3, <2>2, EnqueueKeeps
  <2>4. QED
    BY <2>1, <2>3
<1>5. QED
  BY <1>1, <1>3, <1>4, <1>6

(***************************************************************************)
(* cache_set aborts only where the queue of CacheFifo refuses: enqueue     *)
(* never fails an assertion.                                               *)
(***************************************************************************)
LEMMA AbortIsRefusal ==
  ASSUME NEW f, Keeps(mc, f), NEW k \in Keys, NEW d \in Data, cache_setAborts(k, d)
  PROVE  Size[d] >= MaxObject \/ Crowded(QueueOf(mc, f), k, d)
<1> SUFFICES ASSUME ~(Size[d] >= MaxObject), ~Crowded(QueueOf(mc, f), k, d)
             PROVE  FALSE
  OBVIOUS
<1> DEFINE m == Prepared(k, d)
<1>1. Size[d] < MaxObject /\ m.asserted
  BY PreparedFails, MemCacheAssumption
<1>2. PICK cn \in Nodes : m.mem[cn] = Free /\ ~enqueue(m, cn, k, d).asserted
  BY <1>1 DEF cache_setAborts
<1>3. PICK g : /\ Keeps(m, g)
               /\ \A i \in 1 .. Len(g) : Folded[m.mem[g[i]].key] # Folded[k]
  BY <1>1, PreparedKeeps
<1> HIDE DEF m
<1>4. PICK r : r = enqueue(m, cn, k, d)
  OBVIOUS
<1>5. Keeps(r, Append(g, cn))
  BY <1>2, <1>3, <1>4, EnqueueKeeps
<1>6. QED
  BY <1>2, <1>4, <1>5 DEF Keeps

----------------------------------------------------------------------------
(***************************************************************************)
(* The inductive invariant: what Keeps says of some list of nodes.  That   *)
(* the keys differ and that sz_cache is a sum are needed for the step: a   *)
(* second node with the same key would survive delete_node, and a wrong    *)
(* size would make MakeRoom stop too early.                                *)
(***************************************************************************)
MInv ==
  /\ status \in {"up", "aborted"}
  /\ mc.sz_cache <= MaxCache
  /\ \E f : Keeps(mc, f)

LEMMA EmptyKeeps == Keeps(cache_init, <<>>)
<1> DEFINE m == cache_init
           f == <<>>
<1>1. f \in Seq(Nodes) /\ Len(f) = 0
  OBVIOUS
<1>2. /\ m.head = NULL /\ m.tail = NULL /\ m.node_count = 0 /\ m.sz_cache = 0 /\ m.asserted
      /\ \A cn \in Nodes : m.mem[cn] = Free
  BY DEF cache_init
<1>3. m \in MemCaches
  BY DEF cache_init, MemCaches, Pointers
<1>4. QueueOf(m, f) = <<>>
  BY <1>1 DEF QueueOf
<1>5. Fifo!TotalSize(QueueOf(m, f)) = 0
  BY <1>4, EmptyTotal
<1> HIDE DEF m, f
<1>6. Chain(m, f)
  BY <1>1, <1>2 DEF Chain
<1>7. KeysDiffer(m, f)
  BY <1>1 DEF KeysDiffer
<1>8. QED
  BY <1>2, <1>3, <1>5, <1>6, <1>7 DEF Keeps, m, f

LEMMA MInvInductive ==
  ASSUME MInv, [MNext]_mvars
  PROVE  MInv'
<1>1. PICK f : Keeps(mc, f)
  BY DEF MInv
<1>2. CASE Aborted
  BY <1>2 DEF Aborted, mvars, MInv
<1>3. ASSUME NEW k \in Keys, NEW d \in Data, cache_set(k, d)
      PROVE  MInv'
  <2>1. PICK g : Keeps(mc', g) /\ mc'.sz_cache <= MaxCache
    BY <1>1, <1>3, CacheSetKeeps
  <2>2. status' = status
    BY <1>3 DEF cache_set
  <2>3. QED
    BY <2>1, <2>2 DEF MInv
<1>4. ASSUME NEW k \in Keys, NEW d \in Data, cache_setAborts(k, d)
      PROVE  MInv'
  BY <1>4 DEF cache_setAborts, MInv
<1>5. CASE UNCHANGED mvars
  BY <1>5 DEF mvars, MInv
<1>6. QED
  BY <1>2, <1>3, <1>4, <1>5 DEF MNext

THEOREM CacheMInv == MSpec => []MInv
<1>1. MInit => MInv
  <2>1. cache_init.sz_cache = 0 /\ 0 <= MaxCache
    BY MemCacheAssumption DEF cache_init
  <2>2. QED
    BY <2>1, EmptyKeeps DEF MInit, MInv
<1>2. QED
  BY <1>1, MInvInductive, PTL DEF MSpec

LEMMA KeepsIsDoublyLinked ==
  ASSUME NEW f, Keeps(mc, f)
  PROVE  DoublyLinked
<1> DEFINE n == mc.node_count
<1>1. Chain(mc, f) /\ Order(mc) = f /\ n = Len(f) /\ n \in Nat
  BY OrderIsChain, ChainIsSeq DEF Keeps, Chain
<1>2. n = 0 => mc.head = NULL /\ mc.tail = NULL
  BY <1>1 DEF Chain
<1>3. /\ \A i, j \in 1 .. n : f[i] = f[j] => i = j
      /\ \A cn \in Nodes : mc.mem[cn] # Free => \E i \in 1 .. n : f[i] = cn
  BY <1>1 DEF Chain
<1>4. \A i \in 1 .. n : /\ mc.mem[f[i]].prev = IF i = 1 THEN NULL ELSE f[i - 1]
                        /\ mc.mem[f[i]].next = IF i = n THEN NULL ELSE f[i + 1]
  BY <1>1, ChainLinks
<1>5. n # 0 => mc.head = f[1] /\ mc.tail = f[n]
  BY <1>1 DEF Chain
<1> HIDE DEF n
<1>6. n > 0 => f[n] = mc.tail /\ mc.mem[mc.tail].next = NULL /\ mc.mem[mc.head].prev = NULL
  <2> SUFFICES ASSUME n > 0
               PROVE  f[n] = mc.tail /\ mc.mem[mc.tail].next = NULL /\ mc.mem[mc.head].prev = NULL
    OBVIOUS
  <2>1. n # 0 /\ 1 \in 1 .. n /\ n \in 1 .. n
    BY <1>1
  <2>2. mc.mem[f[1]].prev = NULL /\ mc.mem[f[n]].next = NULL
    BY <1>4, <2>1
  <2>3. QED
    BY <1>5, <2>1, <2>2
<1>7. \A i \in 2 .. n : mc.mem[f[i]].prev = f[i - 1]
  <2> SUFFICES ASSUME NEW i \in 2 .. n PROVE mc.mem[f[i]].prev = f[i - 1]
    OBVIOUS
  <2>1. i \in 1 .. n /\ i # 1
    BY <1>1
  <2>2. QED
    BY <1>4, <2>1
<1>8. QED
  BY <1>1, <1>2, <1>3, <1>6, <1>7 DEF DoublyLinked, n

LEMMA KeepsIsQueue ==
  ASSUME NEW m, NEW f, Keeps(m, f)
  PROVE  Order(m) = f /\ m.node_count = Len(f)
  BY OrderIsChain DEF Keeps, Chain

(***************************************************************************)
(* The pointers of the cache form one doubly linked list, after any calls. *)
(***************************************************************************)
THEOREM CacheIsDoublyLinked == MSpec => []CacheInv
<1>1. MInv => CacheInv
  <2> SUFFICES ASSUME MInv PROVE CacheInv
    OBVIOUS
  <2>1. PICK f : Keeps(mc, f)
    BY DEF MInv
  <2>2. DoublyLinked
    BY <2>1, KeepsIsDoublyLinked
  <2>3. MTypeOK
    BY <2>1 DEF MTypeOK, MInv, Keeps
  <2>4. QED
    BY <2>2, <2>3 DEF CacheInv
<1>2. QED
  BY <1>1, CacheMInv, PTL

(***************************************************************************)
(* sz_cache, which the code updates by differences only, is the total size *)
(* of the objects on the list, and stays within MAX_CACHE_SIZE.            *)
(***************************************************************************)
THEOREM CacheSizeIsRight == MSpec => []SizeIsRight
<1>1. MInv => SizeIsRight
  <2> SUFFICES ASSUME MInv PROVE SizeIsRight
    OBVIOUS
  <2>1. PICK f : Keeps(mc, f)
    BY DEF MInv
  <2>2. Order(mc) = f /\ mc.node_count = Len(f)
    BY <2>1, KeepsIsQueue
  <2>3. Queue = QueueOf(mc, f)
    BY <2>2 DEF Queue, QueueOf
  <2>4. QED
    BY <2>1, <2>3 DEF SizeIsRight, Keeps, MInv
<1>2. QED
  BY <1>1, CacheMInv, PTL

(***************************************************************************)
(* The linked list implements the queue of CacheFifo: a cache_set that     *)
(* returns is one Store, which the queue does not refuse; one that aborts  *)
(* is a Break, so the queue refuses it; and nothing else is visible.       *)
(***************************************************************************)
THEOREM CacheImplementsFifo == MSpec => ImplementsFifo
<1>1. MInit => Fifo!QInit
  <2> SUFFICES ASSUME MInit PROVE Fifo!QInit
    OBVIOUS
  <2>1. mc.node_count = 0
    BY DEF MInit, cache_init
  <2>2. Queue = <<>>
    BY <2>1 DEF Queue
  <2>3. QED
    BY <2>2 DEF MInit, Fifo!QInit
<1>2. MInv /\ [MNext]_mvars => [Fifo!QNext]_(Fifo!qvars)
  <2> SUFFICES ASSUME MInv, [MNext]_mvars PROVE [Fifo!QNext]_(Fifo!qvars)
    OBVIOUS
  <2>1. PICK f : Keeps(mc, f)
    BY DEF MInv
  <2>2. Order(mc) = f /\ mc.node_count = Len(f)
    BY <2>1, KeepsIsQueue
  <2>3. Queue = QueueOf(mc, f)
    BY <2>2 DEF Queue, QueueOf
  <2>4. ASSUME NEW k \in Keys, NEW d \in Data, cache_set(k, d)
        PROVE  Fifo!QNext
    <3>1. PICK g : /\ Keeps(mc', g)
                   /\ QueueOf(mc', g) = Append(Remaining(QueueOf(mc, f), k, d),
                                               [key |-> Folded[k], data |-> d])
      BY <2>1, <2>4, CacheSetKeeps
    <3>2. Order(mc') = g /\ mc'.node_count = Len(g)
      <4>1. PICK m : m = mc'
        OBVIOUS
      <4>2. Order(m) = g /\ m.node_count = Len(g)
        BY <3>1, <4>1, KeepsIsQueue
      <4>3. QED
        BY <4>1, <4>2
    <3>3. Queue' = QueueOf(mc', g)
      BY <3>2 DEF Queue, QueueOf
    <3>4. status = "up" /\ status' = "up" /\ Size[d] <= MaxCache
      BY <2>4, MemCacheAssumption DEF cache_set
    <3>5. Queue' = Append(Remaining(Queue, k, d), [key |-> Folded[k], data |-> d])
      BY <2>3, <3>1, <3>3
    <3>9. ~Fifo!Refuses(Folded[k], d)
      <4>1. Size[d] < MaxObject /\ ~Crowded(QueueOf(mc, f), k, d)
        BY <2>1, <2>4, CacheSetKeeps
      <4>2. ~(Size[d] >= MaxObject)
        BY <4>1, MemCacheAssumption
      <4> HIDE DEF Queue
      <4>3. QED
        BY <2>3, <4>1, <4>2 DEF Fifo!Refuses, Crowded
    <3>6. Fifo!Store(Folded[k], d)
      <4>1. (status = "aborted") = FALSE /\ ((status = "aborted")') = FALSE
        BY <3>4
      <4> HIDE DEF Queue
      <4>2. QED
        BY <3>5, <3>9, <4>1 DEF Fifo!Store, Remaining
    <3>7. Folded[k] \in {Folded[x] : x \in Keys}
      OBVIOUS
    <3>8. QED
      BY <3>6, <3>7 DEF Fifo!QNext
  <2>5. ASSUME NEW k \in Keys, NEW d \in Data, cache_setAborts(k, d)
        PROVE  Fifo!QNext
    <3>1. status' = "aborted" /\ mc' = mc
      BY <2>5 DEF cache_setAborts
    <3>2. Queue' = Queue
      BY <3>1 DEF Queue
    <3>3. Fifo!Refuses(Folded[k], d)
      <4>1. Size[d] >= MaxObject \/ Crowded(QueueOf(mc, f), k, d)
        BY <2>1, <2>5, AbortIsRefusal
      <4> HIDE DEF Queue
      <4>2. QED
        BY <2>3, <4>1 DEF Fifo!Refuses, Crowded
    <3>4. Fifo!Break(Folded[k], d)
      <4>1. (status = "aborted") = FALSE /\ ((status = "aborted")') = TRUE
        BY <2>5 DEF cache_setAborts
      <4> HIDE DEF Queue
      <4>2. QED
        BY <3>2, <3>3, <4>1 DEF Fifo!Break
    <3>5. Folded[k] \in {Folded[x] : x \in Keys}
      OBVIOUS
    <3>6. QED
      BY <3>4, <3>5 DEF Fifo!QNext
  <2>6. CASE UNCHANGED mvars
    <3>1. Queue' = Queue /\ status' = status
      BY <2>6 DEF mvars, Queue
    <3>2. QED
      BY <3>1 DEF Fifo!qvars
  <2>7. QED
    BY <2>4, <2>5, <2>6 DEF MNext, Aborted
<1>3. QED
  BY <1>1, <1>2, CacheMInv, PTL DEF MSpec, ImplementsFifo, Fifo!QSpec
=============================================================================

------------------------------- MODULE Proxy -------------------------------
(***************************************************************************)
(* The concurrent proxy of proxy-lab/proxylab-handout/proxy.c: main        *)
(* accepts a connection into its local connfd and starts a thread with the *)
(* address of connfd; the thread reads a request, looks the uri up in the  *)
(* shared cache under the readers' lock, and otherwise forwards the        *)
(* request to the server and stores the answer.                            *)
(*                                                                         *)
(* A thread is named after the connection whose accept started it.  The    *)
(* cache is a set of objects here; its list is module MemCache.  The error *)
(* wrappers of csapp.c end the whole process.                              *)
(***************************************************************************)
EXTENDS Integers, FiniteSets

CONSTANTS Conns,      \* the clients' connections, and the threads for them
          NoConn,
          Uris, NoUri,
          Kind,       \* what the server has under a uri: "text", "binary", "large"
          MaxFd       \* descriptors left to the process, numbered from 1

ASSUME ProxyAssumption ==
  /\ NoConn \notin Conns /\ NoUri \notin Uris
  /\ IsFiniteSet(Conns) /\ "server" \notin Conns /\ "closed" \notin Conns
  /\ Kind \in [Uris -> {"text", "binary", "large"}]
  /\ MaxFd \in Nat

VARIABLES
  up,                            \* "up", or why the process ended
  mpc, connfd, last,             \* main: pc, its local, the connection it holds
  fds,                           \* what each descriptor refers to
  client,                        \* the state of each connection
  pc, tfd, sfd, uri, hit,        \* the threads: pc and locals of serve
  critical_lock, writer_lock,    \* semaphores
  reader_count,
  cache,                         \* the objects stored, by uri
  raced,                         \* threads have raced on the list of the cache
  late                           \* history: connfd was overwritten too soon

mainvars == <<mpc, connfd, last>>
locals   == <<tfd, sfd, uri, hit>>
locks    == <<critical_lock, writer_lock, reader_count>>
contents == <<cache, raced>>
vars     == <<up, mainvars, fds, client, pc, locals, locks, contents, late>>

Fds     == 1 .. MaxFd
NoFd    == 0
Server  == "server"
Closed  == "closed"
Objects == {"none", "whole", "cut"}

\* the client waits: "sent" its request, which is "taken" when it was read; or
\* it has left: with its request "unread", in the middle of it, "gone" otherwise
ClientStates == {"new", "sent", "taken", "unread", "partial", "gone"}
Left         == {"unread", "partial", "gone"}

\* the ends: a wrapper of csapp.c called exit because no descriptor was free, a
\* descriptor was closed, the client or the server had left; or a signal
Ends == {"nofd", "badfd", "client", "server", "aborted", "crashed"}

\* program counters inside the lock of the readers, and of their critical_lock
Entering == {"count", "first", "entered"}
Leaving  == {"uncount", "left"}
Reading  == {"get", "send", "leave"}
Critical == Entering \cup Leaving
Counted  == {"first", "entered", "uncount"} \cup Reading
Setting  == {"set", "setting"}

PCs == {"none", "start", "request", "reject", "spin", "lock", "connect", "forward", "close", "done"}
       \cup Critical \cup Counted \cup Setting

ProxyTypeOK ==
  /\ up \in {"up"} \cup Ends
  /\ mpc \in {"accept", "create"}
  /\ connfd \in Fds \cup {NoFd}
  /\ last \in Conns \cup {NoConn}
  /\ fds \in [Fds -> Conns \cup {Server, Closed}]
  /\ client \in [Conns -> ClientStates]
  /\ pc \in [Conns -> PCs]
  /\ tfd \in [Conns -> Fds \cup {NoFd}]
  /\ sfd \in [Conns -> Fds \cup {NoFd}]
  /\ uri \in [Conns -> Uris \cup {NoUri}]
  /\ hit \in [Conns -> Objects]
  /\ critical_lock \in {0, 1} /\ writer_lock \in {0, 1}
  /\ reader_count \in Nat
  /\ cache \in [Uris -> Objects]
  /\ raced \in BOOLEAN /\ late \in BOOLEAN

Init ==
  /\ up = "up"
  /\ mpc = "accept" /\ connfd = NoFd /\ last = NoConn
  /\ fds = [f \in Fds |-> Closed]
  /\ client = [c \in Conns |-> "new"]
  /\ pc = [t \in Conns |-> "none"]
  /\ tfd = [t \in Conns |-> NoFd] /\ sfd = [t \in Conns |-> NoFd]
  /\ uri = [t \in Conns |-> NoUri] /\ hit = [t \in Conns |-> "none"]
  /\ critical_lock = 1 /\ writer_lock = 1 /\ reader_count = 0
  /\ cache = [u \in Uris |-> "none"]
  /\ raced = FALSE /\ late = FALSE

----------------------------------------------------------------------------
FreeFds == {f \in Fds : fds[f] = Closed}

\* the kernel hands out the lowest free descriptor
Lowest == CHOOSE f \in FreeFds : \A g \in FreeFds : f <= g

\* the end of the process
Exit(how) == up' = how /\ UNCHANGED <<mainvars, fds, client, pc, locals, locks, contents, late>>

(* main *)

AcceptConn(c) ==
  /\ up = "up" /\ mpc = "accept"
  /\ client[c] = "new"
  /\ FreeFds # {}
  /\ connfd' = Lowest
  /\ fds' = [fds EXCEPT ![Lowest] = c]
  /\ client' = [client EXCEPT ![c] = "sent"]
  /\ last' = c
  /\ late' = (late \/ \E t \in Conns : pc[t] = "start")
  /\ mpc' = "create"
  /\ UNCHANGED <<up, pc, locals, locks, contents>>

\* accept fails when no descriptor is left
AcceptFails ==
  /\ up = "up" /\ mpc = "accept"
  /\ FreeFds = {}
  /\ \E c \in Conns : client[c] = "new"
  /\ Exit("nofd")

\* pthread_create(&tid, NULL, thread_serv, &connfd)
CreateThread ==
  /\ up = "up" /\ mpc = "create"
  /\ pc' = [pc EXCEPT ![last] = "start"]
  /\ mpc' = "accept"
  /\ UNCHANGED <<up, connfd, last, fds, client, locals, locks, contents, late>>

(* the threads *)

At(t, l) == up = "up" /\ pc[t] = l
Goto(t, l) == pc' = [pc EXCEPT ![t] = l]

\* connfd = *((int *) args), whatever main has put there by now
StartThread(t) ==
  /\ At(t, "start")
  /\ tfd' = [tfd EXCEPT ![t] = connfd]
  /\ Goto(t, "request")
  /\ UNCHANGED <<up, mainvars, fds, client, sfd, uri, hit, locks, contents, late>>

Peer(t) == fds[tfd[t]]

\* the thread takes the request off the connection of its descriptor
TakeRequest(t) ==
  /\ At(t, "request")
  /\ Peer(t) \in Conns /\ client[Peer(t)] \in {"sent", "unread"}
  /\ client' = [client EXCEPT ![Peer(t)] = IF @ = "sent" THEN "taken" ELSE "gone"]

\* a GET request, with its headers
ReadRequest(t) ==
  /\ TakeRequest(t)
  /\ \E u \in Uris : uri' = [uri EXCEPT ![t] = u]
  /\ Goto(t, "lock")
  /\ UNCHANGED <<up, mainvars, fds, tfd, sfd, hit, locks, contents, late>>

\* another method
OtherMethod(t) ==
  /\ TakeRequest(t)
  /\ Goto(t, "reject")
  /\ UNCHANGED <<up, mainvars, fds, locals, locks, contents, late>>

\* end of file instead of a request line; and a server's descriptor that this
\* thread took for its client's: its answer is no GET
NoRequest(t) ==
  /\ At(t, "request")
  /\ \/ Peer(t) = Server
     \/ Peer(t) \in Conns /\ client[Peer(t)] \in {"partial", "gone"}
  /\ Goto(t, "close")
  /\ UNCHANGED <<up, mainvars, fds, client, locals, locks, contents, late>>

\* end of file inside the headers: the loop of read_requesthdrs does not see it
SpinInHeaders(t) ==
  /\ At(t, "request")
  /\ Peer(t) \in Conns /\ client[Peer(t)] = "partial"
  /\ Goto(t, "spin")
  /\ UNCHANGED <<up, mainvars, fds, client, locals, locks, contents, late>>

\* client_error
Reject(t) ==
  /\ At(t, "reject")
  /\ Peer(t) # Closed
  /\ Goto(t, "close")
  /\ UNCHANGED <<up, mainvars, fds, client, locals, locks, contents, late>>

Writing == {"reject", "send", "forward"}

\* a descriptor that is closed: the wrapper exits
BadDescriptor(t) ==
  /\ up = "up"
  /\ \/ pc[t] \in {"request", "close"} \cup Writing /\ Peer(t) = Closed
     \/ pc[t] = "forward" /\ fds[sfd[t]] = Closed
  /\ Exit("badfd")

\* SIGPIPE is ignored, so that a write to a client that has left fails with
\* EPIPE, and a read with ECONNRESET: the wrapper exits
ClientIsGone(t) ==
  /\ up = "up"
  /\ pc[t] \in {"request"} \cup Writing
  /\ Peer(t) \in Conns /\ client[Peer(t)] \in Left
  /\ Exit("client")

P(sem) == sem = 1

\* MUTANT: reader_count++ without critical_lock
LockNot(t) ==
  /\ At(t, "lock")
  /\ Goto(t, "count")
  /\ UNCHANGED <<up, mainvars, fds, client, locals, locks, contents, late>>

Lock(t) ==
  /\ At(t, "lock")
  /\ P(critical_lock) /\ critical_lock' = 0
  /\ Goto(t, "count")
  /\ UNCHANGED <<up, mainvars, fds, client, locals, writer_lock, reader_count, contents, late>>

CountReader(t) ==
  /\ At(t, "count")
  /\ reader_count' = reader_count + 1
  /\ Goto(t, IF reader_count' = 1 THEN "first" ELSE "entered")
  /\ UNCHANGED <<up, mainvars, fds, client, locals, critical_lock, writer_lock, contents, late>>

FirstReader(t) ==
  /\ At(t, "first")
  /\ P(writer_lock) /\ writer_lock' = 0
  /\ Goto(t, "entered")
  /\ UNCHANGED <<up, mainvars, fds, client, locals, critical_lock, reader_count, contents, late>>

Entered(t) ==
  /\ At(t, "entered")
  /\ critical_lock' = 1
  /\ Goto(t, "get")
  /\ UNCHANGED <<up, mainvars, fds, client, locals, writer_lock, reader_count, contents, late>>

\* cache_get: while another thread changes the list, an object may be missed
Lookup(t) ==
  /\ At(t, "get")
  /\ \E o \in {cache[uri[t]]} \cup {"none" : u \in {x \in Conns : pc[x] = "setting"}} :
       /\ hit' = [hit EXCEPT ![t] = o]
       /\ Goto(t, IF o = "none" THEN "leave" ELSE "send")
  /\ UNCHANGED <<up, mainvars, fds, client, tfd, sfd, uri, locks, contents, late>>

\* Rio_writen of the cached object
SendCached(t) ==
  /\ At(t, "send")
  /\ Peer(t) # Closed
  /\ Goto(t, "leave")
  /\ UNCHANGED <<up, mainvars, fds, client, locals, locks, contents, late>>

Leave(t) ==
  /\ At(t, "leave")
  /\ P(critical_lock) /\ critical_lock' = 0
  /\ Goto(t, "uncount")
  /\ UNCHANGED <<up, mainvars, fds, client, locals, writer_lock, reader_count, contents, late>>

\* MUTANT: writer_lock is never given back
UncountReaderKeeps(t) ==
  /\ At(t, "uncount")
  /\ reader_count' = reader_count - 1
  /\ Goto(t, "left")
  /\ UNCHANGED <<up, mainvars, fds, client, locals, critical_lock, writer_lock, contents, late>>

UncountReader(t) ==
  /\ At(t, "uncount")
  /\ reader_count' = reader_count - 1
  /\ writer_lock' = IF reader_count' = 0 THEN 1 ELSE writer_lock
  /\ Goto(t, "left")
  /\ UNCHANGED <<up, mainvars, fds, client, locals, critical_lock, contents, late>>

Unlocked(t) ==
  /\ At(t, "left")
  /\ critical_lock' = 1
  /\ Goto(t, IF hit[t] = "none" THEN "connect" ELSE "close")
  /\ UNCHANGED <<up, mainvars, fds, client, locals, writer_lock, reader_count, contents, late>>

\* Open_clientfd; it is never closed
ConnectServer(t) ==
  /\ At(t, "connect")
  /\ FreeFds # {}
  /\ sfd' = [sfd EXCEPT ![t] = Lowest]
  /\ fds' = [fds EXCEPT ![Lowest] = Server]
  /\ Goto(t, "forward")
  /\ UNCHANGED <<up, mainvars, client, tfd, uri, hit, locks, contents, late>>

\* there is no descriptor
ConnectFails(t) == At(t, "connect") /\ FreeFds = {} /\ Exit("nofd")

\* there is no server, or it resets the connection
ServerFails(t) == up = "up" /\ pc[t] \in {"connect", "forward"} /\ Exit("server")

Forward(t) ==
  /\ At(t, "forward")
  /\ Closed \notin {Peer(t), fds[sfd[t]]}
  /\ Goto(t, "set")
  /\ UNCHANGED <<up, mainvars, fds, client, locals, locks, contents, late>>

\* assert(sz_data < MAX_OBJECT_SIZE) at the start of cache_set
SetAborts(t) == At(t, "set") /\ Kind[uri[t]] = "large" /\ Exit("aborted")

SetBegin(t) ==
  /\ At(t, "set")
  /\ Kind[uri[t]] # "large"
  /\ Goto(t, "setting")
  /\ UNCHANGED <<up, mainvars, fds, client, locals, locks, contents, late>>

\* the payload was put together by strcat: it ends at the first zero byte
Stored(u) == IF Kind[u] = "binary" THEN "cut" ELSE "whole"

\* cache_set; the objects of all Uris fit into the cache
SetEnd(t) ==
  /\ At(t, "setting")
  /\ cache' = [cache EXCEPT ![uri[t]] = Stored(uri[t])]
  /\ Goto(t, "close")
  /\ UNCHANGED <<up, mainvars, fds, client, locals, locks, raced, late>>

\* threads at the list while t changes it
Others(t) == {x \in Conns \ {t} : pc[x] \in {"setting", "get"}}

\* two threads change the list at once: objects may be lost ...
SetRaces(t) ==
  /\ At(t, "setting")
  /\ raced \/ \E x \in Others(t) : pc[x] = "setting"
  /\ raced' = TRUE
  /\ \E lost \in SUBSET Uris :
       cache' = [u \in Uris |-> IF u \in lost THEN "none"
                                ELSE IF u = uri[t] THEN Stored(u) ELSE cache[u]]
  /\ Goto(t, "close")
  /\ UNCHANGED <<up, mainvars, fds, client, locals, locks, late>>

\* ... or a pointer that is no node is followed, now or in a later call, as
\* node_count and the ends of the list no longer agree
SetCrashes(t) ==
  /\ At(t, "setting")
  /\ raced \/ \E x \in Others(t) : pc[x] = "setting"
  /\ Exit("crashed")

\* MUTANT: the descriptor is not closed
CloseNot(t) ==
  /\ At(t, "close")
  /\ Peer(t) # Closed
  /\ Goto(t, "done")
  /\ UNCHANGED <<up, mainvars, fds, client, locals, locks, contents, late>>

\* MUTANT: the descriptor is closed twice
CloseTwice(t) ==
  /\ At(t, "close")
  /\ Peer(t) # Closed
  /\ fds' = [fds EXCEPT ![tfd[t]] = Closed]
  /\ pc' \in {pc, [pc EXCEPT ![t] = "done"]}
  /\ UNCHANGED <<up, mainvars, client, locals, locks, contents, late>>

CloseConn(t) ==
  /\ At(t, "close")
  /\ Peer(t) # Closed
  /\ fds' = [fds EXCEPT ![tfd[t]] = Closed]
  /\ Goto(t, "done")
  /\ UNCHANGED <<up, mainvars, client, locals, locks, contents, late>>

(* the clients, which may leave at any time *)

ClientLeaves(c) ==
  /\ up = "up"
  /\ \/ /\ client[c] = "sent"
        /\ \E s \in {"unread", "partial"} : client' = [client EXCEPT ![c] = s]
     \/ client[c] = "taken" /\ client' = [client EXCEPT ![c] = "gone"]
  /\ UNCHANGED <<up, mainvars, fds, pc, locals, locks, contents, late>>

----------------------------------------------------------------------------
Ended == up # "up" /\ UNCHANGED vars

\* all connections made and all threads done: main waits in accept
Idle ==
  /\ up = "up" /\ mpc = "accept"
  /\ \A c \in Conns : client[c] # "new" /\ pc[c] \in {"done", "spin", "request"}
  /\ UNCHANGED vars

MainStep == (\E c \in Conns : AcceptConn(c)) \/ AcceptFails \/ CreateThread

\* the two critical sections around cache_get
LockStep(t) ==
  \/ Lock(t) \/ CountReader(t) \/ FirstReader(t) \/ Entered(t)
  \/ Leave(t) \/ UncountReader(t) \/ Unlocked(t)

ThreadStep(t) ==
  \/ StartThread(t) \/ ReadRequest(t) \/ OtherMethod(t) \/ NoRequest(t)
  \/ SpinInHeaders(t) \/ Reject(t) \/ BadDescriptor(t) \/ ClientIsGone(t)
  \/ LockStep(t) \/ Lookup(t) \/ SendCached(t)
  \/ ConnectServer(t) \/ ConnectFails(t) \/ ServerFails(t) \/ Forward(t)
  \/ SetAborts(t) \/ SetBegin(t) \/ SetEnd(t) \/ SetRaces(t) \/ SetCrashes(t)
  \/ CloseConn(t)

Next ==
  \/ MainStep
  \/ \E t \in Conns : ThreadStep(t)
  \/ \E c \in Conns : ClientLeaves(c)
  \/ Ended \/ Idle

Spec == Init /\ [][Next]_vars

(***************************************************************************)
(* The scheduler runs a thread that is in a critical section or may enter  *)
(* one.  Nothing is assumed of the clients, of the servers, or of writes   *)
(* to them.                                                                *)
(***************************************************************************)
FairSpec == Spec /\ \A t \in Conns : WF_vars(LockStep(t))

----------------------------------------------------------------------------
(***************************************************************************)
(* critical_lock excludes: at most one thread is between its P and its V,  *)
(* and the semaphore is 0 exactly then.                                    *)
(***************************************************************************)
InCritical == {t \in Conns : pc[t] \in Critical}

CriticalExcludes ==
  /\ \A t, u \in InCritical : t = u
  /\ critical_lock = (IF InCritical = {} THEN 1 ELSE 0)

(***************************************************************************)
(* reader_count counts the readers, and they hold writer_lock together:    *)
(* from the first one's P to the last one's V it is 0.                     *)
(***************************************************************************)
Readers == {t \in Conns : pc[t] \in Counted}

ReadersAreCounted == reader_count = Cardinality(Readers)

ReadersHoldWriterLock ==
  writer_lock = (IF \E t \in Readers : pc[t] # "first" THEN 0 ELSE 1)

(***************************************************************************)
(* No reader waits for writer_lock: P(&writer_lock), called while holding  *)
(* critical_lock, never blocks, so that the locks cannot deadlock.         *)
(***************************************************************************)
FirstNeverBlocks == \A t \in Conns : pc[t] = "first" => writer_lock = 1

LockInv == /\ CriticalExcludes /\ ReadersAreCounted /\ ReadersHoldWriterLock
           /\ FirstNeverBlocks

\* at P(&writer_lock) the thread is the only reader that is counted
FirstIsOnly == \A t, u \in Conns : (pc[t] = "first" /\ pc[u] \in Counted) => t = u

(***************************************************************************)
(* As long as every thread has read connfd before main accepts the next    *)
(* connection, a thread serves the connection it was started for, on a     *)
(* descriptor nobody else closes, although the kernel reuses descriptors.  *)
(***************************************************************************)
Serving(t) == pc[t] \notin {"none", "start", "done"}

ServesItsOwn == \A t \in Conns : Serving(t) => Peer(t) = t

OwnInTime == ~late => ServesItsOwn

(***************************************************************************)
(* The invariant the proofs of ProxyLabProofs go through: what main and    *)
(* the threads know of connfd, on top of the properties above.             *)
(***************************************************************************)
\* connfd is a descriptor once it was set, and so is the copy of a thread; a
\* thread that was asked for a uri knows it
Asking == {"lock", "connect", "forward"} \cup Critical \cup Counted \cup Setting

LocalsAreSet ==
  /\ \A t \in Conns : pc[t] \in Asking => uri[t] \in Uris
  /\ \A t \in Conns : pc[t] # "none" => connfd \in Fds
  /\ \A t \in Conns : Serving(t) => tfd[t] \in Fds
  /\ mpc = "create" => connfd \in Fds /\ last \in Conns /\ pc[last] = "none"

\* the connection that is accepted next has no thread yet
NewHasNoThread ==
  \A c \in Conns : client[c] = "new" => pc[c] = "none" /\ ~(mpc = "create" /\ last = c)

\* in time, connfd is the descriptor of the thread that is about to read it
ConnfdInTime ==
  ~late => /\ mpc = "create" => fds[connfd] = last /\ \A t \in Conns : pc[t] = "start" => FALSE
           /\ \A t \in Conns : pc[t] = "start" => fds[connfd] = t

ProxyInv == /\ ProxyTypeOK /\ LockInv /\ FirstIsOnly
            /\ LocalsAreSet /\ NewHasNoThread /\ ConnfdInTime /\ OwnInTime

(***************************************************************************)
(* The descriptors in use: one for each connection being served, and one   *)
(* that stays for every request that went to a server.                     *)
(***************************************************************************)
DescriptorsAddUp ==
  ~late => Cardinality({f \in Fds : fds[f] # Closed})
             = Cardinality({t \in Conns : Serving(t) \/ pc[t] = "start"
                                          \/ (mpc = "create" /\ last = t)})
               + Cardinality({t \in Conns : sfd[t] # NoFd})

(***************************************************************************)
(* A thread that asks for critical_lock gets it and gives it back, also    *)
(* while another reader is stuck sending an object to its client.          *)
(***************************************************************************)
Locking == {"lock", "leave"} \cup Critical

LocksAreReleased == \A t \in Conns : (pc[t] \in Locking) ~> (pc[t] \notin Locking \/ up # "up")

(***************************************************************************)
(* "behaves like a concurrent caching proxy" (driver.sh): two connections  *)
(* at the same time are each served by their own thread.                   *)
(***************************************************************************)
EachServed == up = "up" => ServesItsOwn

=============================================================================

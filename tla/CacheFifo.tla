----------------------------- MODULE CacheFifo -----------------------------
(***************************************************************************)
(* What the object cache of the proxy does for its callers: a queue of     *)
(* objects, oldest first, whose total size stays within MaxCache.  Storing *)
(* an object drops the one stored under the same key, and then what is in  *)
(* its way.  The cache breaks down, and stays as it is, exactly when the   *)
(* object is too large or has more than one other to push out.             *)
(***************************************************************************)
EXTENDS Integers, SequencesExt

CONSTANTS Keys, Data, Size, MaxCache, MaxObject

VARIABLES queue,    \* the objects, records [key, data]
          broken

qvars == <<queue, broken>>

Entries == [key : Keys, data : Data]

\* what the first i objects hold together
Sums(q) ==
  LET Sum[i \in 0 .. Len(q)] == IF i = 0 THEN 0 ELSE Sum[i - 1] + Size[q[i].data]
  IN  Sum
TotalSize(q) == Sums(q)[Len(q)]

QTypeOK == queue \in Seq(Entries) /\ broken \in BOOLEAN

QInit == queue = <<>> /\ broken = FALSE

\* q without the object of the key k, if there is one
With(q, k) == {i \in 1 .. Len(q) : q[i].key = k}
Without(q, k) == IF With(q, k) = {} THEN q ELSE RemoveAt(q, CHOOSE i \in With(q, k) : TRUE)

\* q without its i oldest objects
Drop(q, i) == SubSeq(q, i + 1, Len(q))

\* the fewest oldest objects that have to go before n bytes fit
ToDrop(q, n) ==
  CHOOSE i \in 0 .. Len(q) :
    /\ TotalSize(Drop(q, i)) + n <= MaxCache
    /\ \A j \in 0 .. i - 1 : TotalSize(Drop(q, j)) + n > MaxCache

\* the assertions at the start of cache_set and in dequeue: the latter holds
\* only when the queue has one object to lose
Refuses(k, d) ==
  \/ Size[d] >= MaxObject
  \/ LET q == Without(queue, k)
     IN  Len(q) > 1 /\ TotalSize(q) + Size[d] > MaxCache

Store(k, d) ==
  /\ ~broken /\ ~Refuses(k, d)
  /\ LET q == Without(queue, k)
     IN  queue' = Append(Drop(q, ToDrop(q, Size[d])), [key |-> k, data |-> d])
  /\ UNCHANGED broken

Break(k, d) ==
  /\ ~broken /\ Refuses(k, d)
  /\ broken' = TRUE /\ UNCHANGED queue

QNext == \E k \in Keys, d \in Data : Store(k, d) \/ Break(k, d)

QSpec == QInit /\ [][QNext]_qvars
=============================================================================

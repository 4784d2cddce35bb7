--------------------------------- MODULE Rio ---------------------------------
(***************************************************************************)
(* The robust I/O package of csapp.c at both ends of a connection: one     *)
(* process writes with Rio_writen, the other reads, either with the        *)
(* buffered functions, mixed as it likes, or with Rio_readn.  A byte is    *)
(* its position in what the first process writes.  The connection is       *)
(* external: a queue of Capacity bytes, so it holds those from rpos + 1 to *)
(* wpos; read and write transfer part of what is asked, or are interrupted *)
(* by a signal, which changes nothing but rio_cnt.                         *)
(***************************************************************************)
EXTENDS Integers, Sequences

CONSTANTS
  Total,     \* bytes the first process means to write
  NL,        \* those that are '\n'
  BufSize,   \* sizeof(rp->rio_buf)
  Capacity,  \* of the connection
  Sizes      \* that the processes ask for; maxlen includes the 0 of a string

ASSUME RioAssumption ==
  /\ Total \in Nat /\ BufSize \in Nat \ {0} /\ Capacity \in Nat \ {0}
  /\ NL \subseteq Nat /\ Sizes \subseteq Nat \ {0, 1}

VARIABLES
  wphase,      \* "idle", "writing", "closed", "exited"
  nleft,       \* of rio_writen
  wpos,        \* bytes written
  rpos,        \* bytes read from the descriptor
  rphase,      \* "idle", "reading", "closed", "exited"
  op, n,       \* the reading function and its n or maxlen
  start,       \* what was received before the call
  rio_cnt, rio_bufptr, rio_buf,
  got          \* all bytes copied to the user's buffers

writer == <<wphase, nleft, wpos>>
call == <<rphase, op, n, start>>
rio == <<rio_cnt, rio_bufptr, rio_buf>>
vars == <<writer, rpos, call, rio, got>>

Index == 0 .. BufSize - 1
InPipe == wpos - rpos
Least(a, b) == IF a <= b THEN a ELSE b

Init ==
  /\ wphase = "idle" /\ nleft = 0 /\ wpos = 0 /\ rpos = 0
  /\ rphase = "idle" /\ op \in {"rio_readn", "rio_readnb", "rio_readlineb"} /\ n = 0 /\ start = 0
  /\ rio_cnt = 0 /\ rio_bufptr = 0 /\ rio_buf = [i \in Index |-> 0]  \* rio_readinitb
  /\ got = <<>>

-----------------------------------------------------------------------------
(* rio_writen, and the wrapper that exits when it fails.                   *)

CallWrite(size) ==
  /\ wphase = "idle" /\ wpos + size <= Total
  /\ wphase' = "writing" /\ nleft' = size
  /\ UNCHANGED <<wpos, rpos, call, rio, got>>
Write(nwritten) ==
  /\ wphase = "writing" /\ nwritten <= nleft /\ InPipe + nwritten <= Capacity
  /\ wpos' = wpos + nwritten /\ nleft' = nleft - nwritten
  /\ wphase' = IF nleft' = 0 THEN "idle" ELSE wphase
  /\ UNCHANGED <<rpos, call, rio, got>>
\* The reader is gone: write returns -1 (EPIPE; SIGPIPE is ignored).
WriteError ==
  /\ wphase = "writing" /\ rphase \in {"closed", "exited"} /\ wphase' = "exited"
  /\ UNCHANGED <<nleft, wpos, rpos, call, rio, got>>
CloseWriter ==
  /\ wphase = "idle" /\ wphase' = "closed"
  /\ UNCHANGED <<nleft, wpos, rpos, call, rio, got>>

-----------------------------------------------------------------------------
(* The readers                                                             *)

Received == Len(got) - start
Wanted == IF op = "rio_readlineb" THEN n - 1 ELSE n
LineRead == op = "rio_readlineb" /\ Received > 0 /\ got[Len(got)] \in NL
\* MUTANT: one read is taken for all that was asked
DoneAtOnce == Received > 0 \/ LineRead
CallDone == Received = Wanted \/ LineRead
Reading == rphase = "reading" /\ ~CallDone
Eof == wphase \in {"closed", "exited"} /\ InPipe = 0

CallRead(f, size) ==
  /\ rphase = "idle" /\ (f = "rio_readn" <=> op = "rio_readn")
  /\ rphase' = "reading" /\ op' = f /\ n' = size /\ start' = Len(got)
  /\ UNCHANGED <<writer, rpos, rio, got>>

\* rio_readn: straight to the user's buffer.
Readn(nread) ==
  /\ Reading /\ op = "rio_readn" /\ nread <= Least(Wanted - Received, InPipe)
  /\ got' = got \o [i \in 1 .. nread |-> rpos + i] /\ rpos' = rpos + nread
  /\ UNCHANGED <<writer, call, rio>>

\* rio_read finds its buffer empty.
\* MUTANT: only the first read finds it empty
RefillsOnce == Reading /\ op # "rio_readn" /\ rio_cnt <= 0 /\ rpos = 0
Refills == Reading /\ op # "rio_readn" /\ rio_cnt <= 0
\* MUTANT: the pointer stays where it is
NotReset(nread) == rio_bufptr
ResetTo(nread) == 0
Refill(nread) ==
  /\ Refills /\ nread <= Least(BufSize, InPipe)
  /\ rio_cnt' = nread /\ rpos' = rpos + nread /\ rio_bufptr' = ResetTo(nread)
  /\ rio_buf' = [i \in Index |-> IF i < nread THEN rpos + 1 + i ELSE rio_buf[i]]
  /\ UNCHANGED <<writer, call, got>>
RefillInterrupted ==
  /\ Refills /\ rio_cnt' = -1
  /\ UNCHANGED <<writer, rpos, call, rio_bufptr, rio_buf, got>>

\* rio_read copies what is asked and there; rio_readlineb asks for one byte.
Asked == IF op = "rio_readlineb" THEN 1 ELSE Wanted - Received
Copy ==
  /\ Reading /\ op # "rio_readn" /\ rio_cnt > 0
  /\ LET cnt == Least(Asked, rio_cnt)
     IN  /\ got' = got \o [i \in 1 .. cnt |-> rio_buf[rio_bufptr + i - 1]]
         /\ rio_bufptr' = rio_bufptr + cnt /\ rio_cnt' = rio_cnt - cnt
  /\ UNCHANGED <<writer, rpos, call, rio_buf>>

\* The caller stops at a result of 0, which it takes for the end of the file.
Return ==
  /\ rphase = "reading" /\ CallDone /\ rphase' = "idle"
  /\ UNCHANGED <<writer, rpos, op, n, start, rio, got>>
ReadEof ==
  /\ Reading /\ Eof /\ (op = "rio_readn" \/ Refills)
  /\ rio_cnt' = IF op = "rio_readn" THEN rio_cnt ELSE 0
  /\ rphase' = IF Received = 0 THEN "closed" ELSE "idle"
  /\ UNCHANGED <<writer, rpos, op, n, start, rio_bufptr, rio_buf, got>>
\* Any other error: the function returns -1, its wrapper exits.
ReadError ==
  /\ Reading /\ (op = "rio_readn" \/ Refills) /\ rphase' = "exited"
  /\ rio_cnt' = IF op = "rio_readn" THEN rio_cnt ELSE -1
  /\ UNCHANGED <<writer, rpos, op, n, start, rio_bufptr, rio_buf, got>>

WriterNext == WriteError \/ CloseWriter \/ (\E size \in Sizes : CallWrite(size)) \/ (\E k \in 1 .. Capacity : Write(k))
Get == Copy \/ Return \/ ReadEof \/ (\E k \in 1 .. BufSize : Refill(k)) \/ (\E k \in 1 .. Capacity : Readn(k))
AskFor == \E f \in {"rio_readn", "rio_readnb", "rio_readlineb"}, size \in Sizes : CallRead(f, size)
Next == WriterNext \/ Get \/ AskFor \/ RefillInterrupted \/ ReadError
\* The processes run on, and signals do not interrupt every read.
Spec == Init /\ [][Next]_vars /\ WF_vars(WriterNext) /\ WF_vars(AskFor) /\ SF_vars(Get)

-----------------------------------------------------------------------------
RioType ==
  /\ wphase \in {"idle", "writing", "closed", "exited"} /\ nleft \in Nat
  /\ wpos \in Nat /\ rpos \in Nat
  /\ rphase \in {"idle", "reading", "closed", "exited"}
  /\ op \in {"rio_readn", "rio_readnb", "rio_readlineb"} /\ n \in Nat /\ start \in Nat
  /\ rio_cnt \in Int /\ rio_bufptr \in Nat /\ rio_buf \in [Index -> Nat] /\ got \in Seq(Nat)
Held == IF rio_cnt > 0 THEN rio_cnt ELSE 0
\* What was received, what the buffer holds and what the connection holds
\* follow each other in what was written, without a gap (rio_read:714).
RioInv ==
  /\ RioType
  /\ rpos <= wpos /\ wpos + nleft <= Total
  /\ \A i \in 1 .. Len(got) : got[i] = i
  /\ Len(got) + Held = rpos
  /\ rio_bufptr + Held <= BufSize
  /\ \A i \in 1 .. Held : rio_buf[rio_bufptr + i - 1] = Len(got) + i
  /\ op = "rio_readn" => rio_cnt = 0
  /\ start <= Len(got) /\ (rphase = "reading" => Received <= Wanted)

\* A call that gave less than asked gave a line or came to the end, and a line
\* holds no other line (rio_readnb:752, rio_readlineb:773).
ShortOnlyAtEnd ==
  rphase \in {"idle", "closed"} =>
    /\ Received < Wanted => LineRead \/ (Eof /\ Len(got) = wpos)
    /\ op = "rio_readlineb" => \A i \in start + 1 .. Len(got) - 1 : got[i] \notin NL

\* Whatever was written is received, unless a read fails (Rio_writen:800).
AllArrives == (wphase = "closed") ~> (Len(got) = wpos \/ rphase = "exited")
=============================================================================

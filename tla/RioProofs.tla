----------------------------- MODULE RioProofs -----------------------------
(***************************************************************************)
(* Rio keeps the order of the bytes, for every size of the buffer and of   *)
(* the connection, whatever the processes ask for and wherever a call is   *)
(* cut short or interrupted.                                               *)
(***************************************************************************)
EXTENDS Rio, TLAPS

\* Appending to what was received.
LEMMA Appended ==
  ASSUME NEW s \in Seq(Nat), NEW k \in Nat, NEW t \in [1 .. k -> Nat]
  PROVE  /\ s \o t \in Seq(Nat) /\ Len(s \o t) = Len(s) + k
         /\ \A i \in 1 .. Len(s) : (s \o t)[i] = s[i]
         /\ \A i \in 1 .. k : (s \o t)[Len(s) + i] = t[i]
<1>1. t \in Seq(Nat) /\ Len(t) = k OBVIOUS
<1> QED BY <1>1, SMTT(60)

\* The bytes of a call before its last one end no line.
LineInv == op = "rio_readlineb" => \A i \in start + 1 .. Len(got) - 1 : got[i] \notin NL
AllInv == RioInv /\ LineInv /\ ShortOnlyAtEnd

LEMMA InitInv == Init => AllInv
<1> SUFFICES ASSUME Init PROVE AllInv OBVIOUS
<1> USE RioAssumption DEF Init
<1>1. RioType BY DEF RioType, Index
<1>2. RioInv BY <1>1 DEF RioInv, Held, Received, Wanted
<1>3. LineInv /\ ShortOnlyAtEnd BY DEF LineInv, ShortOnlyAtEnd, Received, Wanted
<1> QED BY <1>2, <1>3 DEF AllInv

\* A step of the writer changes nothing of the reader.
LEMMA WriterInv == AllInv /\ WriterNext => AllInv'
<1> SUFFICES ASSUME AllInv, WriterNext PROVE AllInv' OBVIOUS
<1> USE RioAssumption
<1>0. RioInv /\ RioType /\ LineInv /\ ShortOnlyAtEnd BY DEF AllInv, RioInv
<1>1. UNCHANGED <<rpos, call, rio, got>>
  BY DEF WriterNext, WriteError, CloseWriter, CallWrite, Write
<1> DEFINE Grows ==
      /\ wphase' \in {"idle", "writing", "closed", "exited"} /\ nleft' \in Nat
      /\ wpos' \in Nat /\ wpos <= wpos' /\ wpos' + nleft' <= Total
      /\ wphase \in {"closed", "exited"} => wpos' = wpos /\ wphase' = wphase
<1>2. Grows
  <2>1. CASE WriteError BY <2>1, <1>0 DEF WriteError, RioType, RioInv
  <2>2. CASE CloseWriter BY <2>2, <1>0 DEF CloseWriter, RioType, RioInv
  <2>3. ASSUME NEW size \in Sizes, CallWrite(size) PROVE Grows BY <2>3, <1>0 DEF CallWrite, RioType, RioInv
  <2>4. ASSUME NEW k \in 1 .. Capacity, Write(k) PROVE Grows BY <2>4, <1>0 DEF Write, RioType, RioInv
  <2> HIDE DEF Grows
  <2> QED BY <2>1, <2>2, <2>3, <2>4 DEF WriterNext
<1>3. RioType' BY <1>0, <1>1, <1>2 DEF RioType, call, rio
<1>4. RioInv'
  <2>1. Held' = Held /\ Received' = Received /\ Wanted' = Wanted BY <1>1 DEF Held, Received, Wanted, call, rio
  <2>2. rpos' <= wpos' BY <1>0, <1>1, <1>2 DEF RioInv, RioType
  <2> QED BY <1>0, <1>1, <1>2, <1>3, <2>1, <2>2 DEF RioInv, call, rio
<1>5. LineInv' BY <1>0, <1>1 DEF LineInv, call, rio
<1>6. ShortOnlyAtEnd'
  BY <1>0, <1>1, <1>2 DEF ShortOnlyAtEnd, RioType, Received, Wanted, LineRead, Eof, InPipe, call, rio
<1> QED BY <1>4, <1>5, <1>6 DEF AllInv

\* A call begins with nothing received.
LEMMA CallInv == ASSUME AllInv, NEW f \in {"rio_readn", "rio_readnb", "rio_readlineb"}, NEW size \in Sizes, CallRead(f, size)
                 PROVE  AllInv'
<1> USE RioAssumption DEF CallRead, writer, rio
<1>0. RioInv /\ RioType /\ size \in Nat /\ size > 1 BY DEF AllInv, RioInv
<1>1. RioType' BY <1>0 DEF RioType
<1>2. RioInv' BY <1>0, <1>1 DEF RioInv, RioType, Held, Received, Wanted
<1>3. LineInv' BY <1>0 DEF LineInv, RioType
<1>4. ShortOnlyAtEnd' BY <1>0 DEF ShortOnlyAtEnd
<1> QED BY <1>2, <1>3, <1>4 DEF AllInv

\* Bytes that follow what was received may be appended to it during a call:
\* none before them ended the line.
LEMMA GrowInv ==
  ASSUME RioInv, LineInv, Reading, op' = op, start' = start, n' = n,
         NEW k \in 1 .. Wanted - Received, op = "rio_readlineb" => k = 1,
         got' \in Seq(Nat), Len(got') = Len(got) + k,
         \A i \in 1 .. Len(got) : got'[i] = got[i],
         \A i \in 1 .. k : got'[Len(got) + i] = Len(got) + i
  PROVE  /\ \A i \in 1 .. Len(got') : got'[i] = i
         /\ start' <= Len(got') /\ Received' <= Wanted' /\ LineInv'
<1>0. RioType /\ start <= Len(got) /\ (\A i \in 1 .. Len(got) : got[i] = i) BY DEF RioInv
<1>1. \A i \in 1 .. Len(got') : got'[i] = i
  <2> SUFFICES ASSUME NEW i \in 1 .. Len(got') PROVE got'[i] = i OBVIOUS
  <2>1. CASE i <= Len(got)
    <3>1. i \in 1 .. Len(got) BY <2>1
    <3> QED BY <3>1, <1>0
  <2>2. CASE i > Len(got)
    <3>1. i - Len(got) \in 1 .. k /\ Len(got) + (i - Len(got)) = i BY <2>2, <1>0 DEF RioType
    <3> QED BY <3>1
  <2> QED BY <2>1, <2>2, <1>0 DEF RioType
<1>2. Received' <= Wanted' /\ start' <= Len(got') BY <1>0 DEF RioType, Received, Wanted
<1>3. LineInv'
  <2> SUFFICES ASSUME op = "rio_readlineb", NEW i \in start + 1 .. Len(got) PROVE got'[i] \notin NL
    BY <1>0 DEF LineInv, RioType
  <2>1. got'[i] = got[i] BY <1>0 DEF RioType
  <2>2. CASE i < Len(got) BY <2>1, <2>2, <1>0 DEF LineInv, RioType
  <2>3. CASE i = Len(got) BY <2>1, <2>3, <1>0 DEF RioType, Reading, CallDone, LineRead, Received
  <2> QED BY <2>2, <2>3, <1>0 DEF RioType
<1> QED BY <1>1, <1>2, <1>3

LEMMA ReadnInv == ASSUME AllInv, NEW k \in 1 .. Capacity, Readn(k) PROVE AllInv'
<1> USE RioAssumption DEF Readn, writer, call, rio
<1>0. RioInv /\ RioType /\ LineInv BY DEF AllInv, RioInv
<1>1. k \in 1 .. Wanted - Received /\ k \in 1 .. InPipe
  BY <1>0 DEF RioType, Least, Wanted, Received, InPipe
<1>2. [i \in 1 .. k |-> rpos + i] \in [1 .. k -> Nat] BY <1>0 DEF RioType
<1>3. Len(got) = rpos BY <1>0 DEF RioInv, Held, RioType
<1>4. /\ got' \in Seq(Nat) /\ Len(got') = Len(got) + k
      /\ \A i \in 1 .. Len(got) : got'[i] = got[i]
      /\ \A i \in 1 .. k : got'[Len(got) + i] = Len(got) + i
  <2> DEFINE t == [i \in 1 .. k |-> rpos + i]
  <2>1. got' = got \o t OBVIOUS
  <2>2. k \in Nat /\ got \in Seq(Nat) /\ t \in [1 .. k -> Nat] BY <1>0, <1>2 DEF RioType
  <2>3. \A i \in 1 .. k : t[i] = Len(got) + i BY <1>3
  <2> HIDE DEF t
  <2>4. /\ got \o t \in Seq(Nat) /\ Len(got \o t) = Len(got) + k
        /\ \A i \in 1 .. Len(got) : (got \o t)[i] = got[i]
        /\ \A i \in 1 .. k : (got \o t)[Len(got) + i] = t[i]
    BY <2>2, Appended, ZenonT(40)
  <2> QED BY <2>1, <2>3, <2>4
<1>5. /\ \A i \in 1 .. Len(got') : got'[i] = i
      /\ start' <= Len(got') /\ Received' <= Wanted' /\ LineInv'
  BY <1>0, <1>1, <1>4, GrowInv
<1>6. RioType' BY <1>0, <1>1, <1>4 DEF RioType, InPipe
<1>7. RioInv' BY <1>0, <1>1, <1>3, <1>4, <1>5, <1>6 DEF RioInv, RioType, Held, InPipe
<1>8. ShortOnlyAtEnd' BY DEF ShortOnlyAtEnd, Reading
<1> QED BY <1>5, <1>7, <1>8 DEF AllInv

LEMMA RefillInv == ASSUME AllInv, NEW k \in 1 .. BufSize, Refill(k) PROVE AllInv'
<1> USE RioAssumption DEF Refill, Refills, writer, call
<1>0. RioInv /\ RioType /\ LineInv BY DEF AllInv, RioInv
<1>1. k \in 1 .. InPipe /\ k <= BufSize /\ Len(got) = rpos
  BY <1>0 DEF RioInv, RioType, Least, Held, InPipe
<1>2. RioType' BY <1>0, <1>1 DEF RioType, ResetTo, Index
<1>3. \A i \in 1 .. k : rio_buf'[i - 1] = Len(got) + i
  BY <1>0, <1>1 DEF RioType, Index
<1>4. RioInv'
  <2>1. \A i \in 1 .. Held' : rio_buf'[rio_bufptr' + i - 1] = Len(got') + i
    BY <1>0, <1>1, <1>3 DEF RioType, Held, ResetTo
  <2>2. /\ Len(got') + Held' = rpos' /\ rio_bufptr' + Held' <= BufSize /\ rpos' <= wpos'
        /\ op' # "rio_readn"
    BY <1>0, <1>1 DEF RioType, Held, ResetTo, InPipe
  <2> QED BY <1>0, <1>2, <2>1, <2>2 DEF RioInv, Received, Wanted
<1>5. LineInv' BY <1>0 DEF LineInv
<1>6. ShortOnlyAtEnd' BY DEF ShortOnlyAtEnd, Reading
<1> QED BY <1>4, <1>5, <1>6 DEF AllInv

LEMMA CopyInv == ASSUME AllInv, Copy PROVE AllInv'
<1> USE RioAssumption DEF Copy, writer, call
<1> DEFINE cnt == Least(Asked, rio_cnt)
<1>0. RioInv /\ RioType /\ LineInv BY DEF AllInv, RioInv
<1>1. Received \in Nat /\ Wanted \in Int /\ Received < Wanted
  BY <1>0 DEF RioInv, RioType, Received, Wanted, Reading, CallDone
<1>2. cnt \in 1 .. Wanted - Received /\ cnt <= rio_cnt /\ (op = "rio_readlineb" => cnt = 1)
  BY <1>0, <1>1 DEF RioType, Least, Asked
<1>3. Held = rio_cnt BY <1>0 DEF Held
<1>4. \A i \in 1 .. cnt : rio_buf[rio_bufptr + i - 1] = Len(got) + i
  <2>1. \A i \in 1 .. Held : rio_buf[rio_bufptr + i - 1] = Len(got) + i BY <1>0 DEF RioInv
  <2>2. cnt \in Nat /\ cnt <= Held BY <1>1, <1>2, <1>3
  <2>3. Held \in Nat BY <1>0 DEF Held, RioType
  <2> HIDE DEF cnt
  <2> QED BY <2>1, <2>2, <2>3
<1> DEFINE t == [i \in 1 .. cnt |-> rio_buf[rio_bufptr + i - 1]]
<1>5. t \in [1 .. cnt -> Nat] BY <1>0, <1>2, <1>4 DEF RioType
<1>6. /\ got' \in Seq(Nat) /\ Len(got') = Len(got) + cnt
      /\ \A i \in 1 .. Len(got) : got'[i] = got[i]
      /\ \A i \in 1 .. cnt : got'[Len(got) + i] = Len(got) + i
  <2>1. got' = got \o t OBVIOUS
  <2>2. cnt \in Nat /\ got \in Seq(Nat) BY <1>0, <1>1, <1>2 DEF RioType
  <2> HIDE DEF cnt
  <2>3. \A i \in 1 .. cnt : t[i] = Len(got) + i BY <1>4
  <2> HIDE DEF t
  <2>4. /\ got \o t \in Seq(Nat) /\ Len(got \o t) = Len(got) + cnt
        /\ \A i \in 1 .. Len(got) : (got \o t)[i] = got[i]
        /\ \A i \in 1 .. cnt : (got \o t)[Len(got) + i] = t[i]
    BY <1>5, <2>2, Appended, ZenonT(40)
  <2> QED BY <2>1, <2>3, <2>4
<1>7. /\ rio_bufptr' = rio_bufptr + cnt /\ rio_cnt' = rio_cnt - cnt /\ Reading /\ op # "rio_readn"
      /\ UNCHANGED <<wphase, nleft, wpos, rpos, rphase, op, n, start, rio_buf>>
  OBVIOUS
<1> HIDE DEF cnt, t, Copy, writer, call
<1>8. /\ \A i \in 1 .. Len(got') : got'[i] = i
      /\ start' <= Len(got') /\ Received' <= Wanted' /\ LineInv'
  BY <1>0, <1>2, <1>6, <1>7, GrowInv
<1>9. RioType' BY <1>0, <1>1, <1>2, <1>6, <1>7 DEF RioType
<1>10. Held' = Held - cnt BY <1>0, <1>1, <1>2, <1>3, <1>7 DEF Held, RioType
<1>11. \A i \in 1 .. Held' : rio_buf'[rio_bufptr' + i - 1] = Len(got') + i
  <2> SUFFICES ASSUME NEW i \in 1 .. Held' PROVE rio_buf[rio_bufptr' + i - 1] = Len(got') + i BY <1>7
  <2>1. cnt + i \in 1 .. Held BY <1>0, <1>1, <1>2, <1>3, <1>10 DEF RioType
  <2>2. rio_buf[rio_bufptr + (cnt + i) - 1] = Len(got) + (cnt + i) BY <2>1, <1>0 DEF RioInv
  <2>3. /\ rio_bufptr + (cnt + i) - 1 = rio_bufptr' + i - 1 /\ Len(got) + (cnt + i) = Len(got') + i
    <3>1. cnt \in Int /\ i \in Int BY <1>1, <1>2
    <3>2. Len(got) \in Int /\ rio_bufptr \in Int BY <1>0 DEF RioType
    <3> QED BY <3>1, <3>2, <1>6, <1>7
  <2> QED BY <2>2, <2>3
<1>12. RioInv'
  <2>1. Len(got') + Held' = rpos' /\ rio_bufptr' + Held' <= BufSize /\ rpos' <= wpos' /\ wpos' + nleft' <= Total
    <3>1. Len(got) + Held = rpos /\ rio_bufptr + Held <= BufSize /\ rpos <= wpos /\ wpos + nleft <= Total
      BY <1>0 DEF RioInv
    <3>2. cnt \in Int BY <1>1, <1>2
    <3>3. Len(got) \in Int /\ rio_bufptr \in Int /\ rpos \in Int /\ Held \in Int BY <1>0, <1>3 DEF RioType
    <3>4. Len(got') = Len(got) + cnt /\ Held' = Held - cnt /\ rio_bufptr' = rio_bufptr + cnt BY <1>6, <1>7, <1>10
    <3>5. rpos' = rpos /\ wpos' = wpos /\ nleft' = nleft BY <1>7
    <3> QED BY <3>1, <3>2, <3>3, <3>4, <3>5
  <2> QED BY <1>0, <1>7, <1>8, <1>9, <1>11, <2>1 DEF RioInv
<1>13. ShortOnlyAtEnd' BY <1>7 DEF ShortOnlyAtEnd, Reading
<1> QED BY <1>8, <1>12, <1>13 DEF AllInv

\* The call returns: nothing moves.  At the end of the file the buffer is empty.
LEMMA ReturnInv == AllInv /\ (Return \/ ReadEof \/ ReadError \/ RefillInterrupted) => AllInv'
<1> SUFFICES ASSUME AllInv, Return \/ ReadEof \/ ReadError \/ RefillInterrupted PROVE AllInv' OBVIOUS
<1> USE RioAssumption DEF writer, rio, call, Refills
<1>0. RioInv /\ RioType /\ LineInv BY DEF AllInv, RioInv
<1>1. /\ UNCHANGED <<wphase, nleft, wpos, rpos, op, n, start, rio_bufptr, rio_buf, got>>
      /\ rio_cnt' \in {rio_cnt, 0, -1} /\ (rio_cnt' # rio_cnt => rio_cnt <= 0 /\ op # "rio_readn")
      /\ rphase = "reading" /\ rphase' \in {"idle", "reading", "closed", "exited"}
  BY DEF Return, ReadEof, ReadError, RefillInterrupted, Reading
<1>2. Held' = Held BY <1>0, <1>1 DEF Held, RioType
<1>3. RioType' BY <1>0, <1>1 DEF RioType
<1>4. RioInv' BY <1>0, <1>1, <1>2, <1>3 DEF RioInv, RioType, Received, Wanted
<1>5. LineInv' BY <1>0, <1>1 DEF LineInv
<1>6. ShortOnlyAtEnd'
  <2>1. CASE Return BY <2>1, <1>0 DEF Return, ShortOnlyAtEnd, LineInv, CallDone, LineRead, Received, Wanted, RioType
  <2>2. CASE ReadEof
    <3>1. Held = 0 BY <2>2, <1>0 DEF ReadEof, RioInv, RioType, Held
    <3>2. Len(got) = wpos BY <3>1, <2>2, <1>0 DEF ReadEof, Eof, InPipe, RioInv, RioType
    <3> QED BY <3>2, <2>2, <1>0, <1>1 DEF ReadEof, ShortOnlyAtEnd, LineInv, Eof, InPipe
  <2>3. CASE ReadError BY <2>3 DEF ReadError, ShortOnlyAtEnd
  <2>4. CASE RefillInterrupted BY <2>4 DEF RefillInterrupted, ShortOnlyAtEnd, Reading
  <2> QED BY <2>1, <2>2, <2>3, <2>4
<1> QED BY <1>4, <1>5, <1>6 DEF AllInv

LEMMA StutterInv == AllInv /\ UNCHANGED vars => AllInv'
<1> USE DEF vars, writer, call, rio
<1>1. RioInv /\ UNCHANGED vars => RioInv' BY DEF RioInv, RioType, Held, Received, Wanted
<1>2. LineInv /\ UNCHANGED vars => LineInv' BY DEF LineInv
<1>3. ShortOnlyAtEnd /\ UNCHANGED vars => ShortOnlyAtEnd'
  BY DEF ShortOnlyAtEnd, Received, Wanted, LineRead, Eof, InPipe
<1> QED BY <1>1, <1>2, <1>3 DEF AllInv

LEMMA AllIsInvariant == Spec => []AllInv
<1>1. AllInv /\ [Next]_vars => AllInv'
  BY WriterInv, CallInv, ReadnInv, RefillInv, CopyInv, ReturnInv, StutterInv DEF Next, Get, AskFor
<1> QED BY InitInv, <1>1, PTL DEF Spec

\* The bytes received, those in the buffer and those in the connection are
\* what was written, in order (rio_read, rio_readn).
THEOREM BytesInOrder == Spec => []RioInv
<1>1. AllInv => RioInv BY DEF AllInv
<1> QED BY AllIsInvariant, <1>1, PTL

\* A short count means a line or the end of the file (rio_readnb, rio_readlineb).
THEOREM ShortCounts == Spec => []ShortOnlyAtEnd
<1>1. AllInv => ShortOnlyAtEnd BY DEF AllInv
<1> QED BY AllIsInvariant, <1>1, PTL
=============================================================================

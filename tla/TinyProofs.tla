----------------------------- MODULE TinyProofs -----------------------------
(***************************************************************************)
(* A client whose connection tiny closes was sent one whole answer, for    *)
(* every number of clients, every request and every directory.             *)
(***************************************************************************)
EXTENDS Tiny, SequenceTheorems, TLAPS

Controls == {"accept", "request", "headers", "stat", "write", "open", "open empty", "mapped",
             "fork", "wait", "close", "dead", "spin"}
\* The parts of the answers.
Part == {"200 headers", "body", "200", "server", "sum", "log", "501", "404", "403",
         "type", "length", "page"}
\* What is written and what follows it.
OutTypeOK ==
  /\ pc \in Controls /\ then \in {"close", "open", "open empty", "fork"}
  /\ out \in Seq(Part) /\ resp \in [Clients -> Seq(Part)]

\* The connections wait in the queue, each once, except the one that is served;
\* nothing is written to a connection before.
Turns ==
  /\ \A i \in 1 .. Len(queue) : conn[queue[i]] = "queued"
  /\ \A i, j \in 1 .. Len(queue) : queue[i] = queue[j] => i = j
  /\ (fd = NoClient) <=> (pc = "accept")
  /\ \A c \in Clients : (conn[c] = "open") <=> (c = fd)
  /\ \A c \in Clients : conn[c] \in {"none", "queued"} => resp[c] = <<>>

\* What a client is owed when its connection is closed.
Answered(c) == resp[c] \in Answers(request[c]) \/ (resp[c] = <<>> /\ gone[c] /\ sent[c] = 0)
ProgramHead == <<"200", "server">>
\* How far the answer is, by the place of the server; ahead is what a write in
\* progress makes of it.
Started(label, ahead) ==
  CASE label \in {"open", "open empty", "mapped"} ->
         ahead = <<"200 headers">> /\ request[fd].get /\ ~request[fd].cgi
    [] label = "fork" -> ahead = ProgramHead /\ request[fd].get /\ request[fd].cgi
    [] label = "close" -> ahead \in Answers(request[fd])
    [] OTHER -> FALSE
Progress ==
  /\ pc = "request" => resp[fd] = <<>> /\ read = 0
  /\ pc \in {"headers", "stat"} => resp[fd] = <<>> /\ request[fd].get
  /\ pc = "write" => Started(then, resp[fd] \o out)
  /\ pc \in {"open", "open empty", "mapped", "fork"} => Started(pc, resp[fd])
  /\ pc = "close" => Answered(fd)

\* A program runs only while the server waits for it, with the head sent.
Program ==
  /\ child # "none" => pc = "wait"
  /\ pc = "wait" => /\ request[fd].get /\ request[fd].cgi
                    /\ child # "none"
                    /\ child \in {"started", "running"} => resp[fd] = ProgramHead
                    /\ child = "zombie" => resp[fd] \in Answers(request[fd])

ClosedAnswered == \A c \in Clients : conn[c] = "closed" => Answered(c)
Kept == TinyTypeOK /\ OutTypeOK /\ Turns /\ Progress /\ Program /\ ClosedAnswered

USE TinyAssumption

-----------------------------------------------------------------------------
(* Answers                                                                 *)

LEMMA Pages ==
  ASSUME NEW r
  PROVE  /\ ~r.get => Page("501") \in Answers(r)
         /\ r.get => Page("404") \in Answers(r) /\ Page("403") \in Answers(r)
         /\ r.get /\ ~r.cgi => Static \in Answers(r)
         /\ r.get /\ r.cgi => /\ Dynamic(r) \in Answers(r)
                              /\ ProgramHead \o (IF LogBuffered THEN <<"log">> ELSE <<>>) \in Answers(r)
BY DEF Answers, ProgramHead

\* The parts of a page, and of a static answer.
LEMMA Tuples ==
  ASSUME NEW S
  PROVE  /\ \A a \in S : <<a>> \in Seq(S)
         /\ \A a, b \in S : <<a, b>> \in Seq(S) /\ <<a>> \o <<b>> = <<a, b>>
         /\ \A a, b, c, d \in S : <<a, b, c, d>> \in Seq(S)
<1>1. \A a \in S : <<a>> \in Seq(S) OBVIOUS
<1>2. \A a, b \in S : <<a, b>> \in Seq(S) OBVIOUS
<1>3. \A a, b \in S : <<a>> \o <<b>> = <<a, b>>
  <2> SUFFICES ASSUME NEW a \in S, NEW b \in S PROVE <<a>> \o <<b>> = <<a, b>> OBVIOUS
  <2>1. <<a>> \in Seq(S) /\ Len(<<a>>) = 1 /\ <<a>>[1] = a OBVIOUS
  <2>2. <<b>> \in Seq(S) /\ Len(<<b>>) = 1 /\ <<b>>[1] = b OBVIOUS
  <2>3. <<a, b>> \in Seq(S) /\ Len(<<a, b>>) = 2 /\ <<a, b>>[1] = a /\ <<a, b>>[2] = b OBVIOUS
  <2> DEFINE s == <<a>> t == <<b>> u == <<a, b>>
  <2>4. s \in Seq(S) /\ t \in Seq(S) /\ Len(s) = 1 /\ Len(t) = 1 /\ s[1] = a /\ t[1] = b BY <2>1, <2>2
  <2>5. u \in Seq(S) /\ Len(u) = 2 /\ u[1] = a /\ u[2] = b BY <2>3
  <2> HIDE DEF s, t, u
  <2>6. s \o t \in Seq(S) /\ Len(s \o t) = 2 /\ (s \o t)[1] = a /\ (s \o t)[2] = b
    BY <2>4, ConcatProperties
  <2>7. s \o t = u BY <2>5, <2>6, SeqEqual
  <2> QED BY <2>7 DEF s, t, u
<1>4. \A a, b, c, d \in S : <<a, b, c, d>> \in Seq(S) OBVIOUS
<1> QED BY <1>1, <1>2, <1>3, <1>4

LEMMA Parts ==
  /\ <<"200 headers">> \in Seq(Part) /\ <<"body">> \in Seq(Part)
  /\ <<"sum">> \in Seq(Part) /\ <<"log">> \in Seq(Part) /\ ProgramHead \in Seq(Part)
  /\ <<"200 headers">> \o <<"body">> = Static
  /\ \A status \in {"501", "404", "403"} : Page(status) \in Seq(Part)
<1>1. "200 headers" \in Part /\ "body" \in Part /\ "sum" \in Part /\ "log" \in Part
      /\ "200" \in Part /\ "server" \in Part BY DEF Part
<1>2. "type" \in Part /\ "length" \in Part /\ "page" \in Part BY DEF Part
<1>3. \A status \in {"501", "404", "403"} : status \in Part BY DEF Part
<1>4. \A status \in {"501", "404", "403"} : Page(status) \in Seq(Part) BY <1>2, <1>3, Tuples, Zenon DEF Page
<1>5. <<"200 headers">> \o <<"body">> = Static BY <1>1, Tuples, Zenon DEF Static
<1>6. ProgramHead \in Seq(Part) BY <1>1, Tuples, Zenon DEF ProgramHead
<1>7. /\ <<"200 headers">> \in Seq(Part) /\ <<"body">> \in Seq(Part)
      /\ <<"sum">> \in Seq(Part) /\ <<"log">> \in Seq(Part)
  BY <1>1, Tuples, Zenon
<1> QED BY <1>4, <1>5, <1>6, <1>7

\* Writing the next part leaves what is ahead as it is.
LEMMA NextPart ==
  ASSUME NEW s \in Seq(Part), NEW t \in Seq(Part), t # <<>>
  PROVE  /\ Append(s, Head(t)) \o Tail(t) = s \o t
         /\ Append(s, Head(t)) \in Seq(Part) /\ Tail(t) \in Seq(Part)
<1>1. Head(t) \in Part /\ Tail(t) \in Seq(Part) /\ t = <<Head(t)>> \o Tail(t)
  BY HeadTailProperties
<1>2. Append(s, Head(t)) = s \o <<Head(t)>> /\ Append(s, Head(t)) \in Seq(Part)
  BY <1>1, AppendIsConcat, AppendProperties
<1>3. <<Head(t)>> \in Seq(Part) BY <1>1
<1>4. (s \o <<Head(t)>>) \o Tail(t) = s \o (<<Head(t)>> \o Tail(t)) BY <1>1, <1>3, ConcatAssociative
<1> QED BY <1>1, <1>2, <1>4

-----------------------------------------------------------------------------
(* The parts of the invariant in a step                                    *)

LEMMA KeptInit == Init => Kept
<1> SUFFICES ASSUME Init PROVE Kept OBVIOUS
<1> USE DEF Init
<1>1. TinyTypeOK BY DEF TinyTypeOK
<1>2. OutTypeOK BY DEF OutTypeOK, Controls
<1>3. Turns BY DEF Turns
<1>4. Progress /\ Program /\ ClosedAnswered BY DEF Progress, Program, ClosedAnswered
<1> QED BY <1>1, <1>2, <1>3, <1>4 DEF Kept

\* A closed connection stays as it is.
LEMMA ClosedStays ==
  ASSUME Kept, request' = request,
         \A c \in Clients : conn'[c] = "closed" => /\ conn[c] = "closed" /\ resp'[c] = resp[c]
                                                   /\ sent'[c] = sent[c] /\ (gone[c] => gone'[c])
  PROVE  ClosedAnswered'
BY DEF Kept, ClosedAnswered, Answered

\* A client connects, sends a line or leaves.
LEMMA KeptClient == ASSUME Kept, NEW c \in Clients, Connect(c) \/ SendLine(c) \/ Leave(c) PROVE Kept'
<1>0. TinyTypeOK /\ OutTypeOK /\ Turns /\ Progress /\ Program BY DEF Kept
<1>1. UNCHANGED <<request, resp, pc, fd, read, out, then, child>>
  BY DEF Connect, SendLine, Leave
<1>2. TinyTypeOK'
  <2>1. CASE Connect(c) BY <2>1, <1>0 DEF Connect, TinyTypeOK
  <2>2. CASE SendLine(c) BY <2>2, <1>0 DEF SendLine, TinyTypeOK
  <2>3. CASE Leave(c) BY <2>3, <1>0 DEF Leave, TinyTypeOK
  <2> QED BY <2>1, <2>2, <2>3
<1>3. OutTypeOK' BY <1>0, <1>1 DEF OutTypeOK
<1>4. Turns'
  <2>1. CASE Connect(c)
    <3>1. queue \in Seq(Clients) /\ conn \in [Clients -> {"none", "queued", "open", "closed"}] BY <1>0 DEF TinyTypeOK
    <3>2. /\ Len(queue') = Len(queue) + 1 /\ queue'[Len(queue) + 1] = c
          /\ \A i \in 1 .. Len(queue) : queue'[i] = queue[i] /\ queue[i] \in Clients
      BY <2>1, <3>1 DEF Connect
    <3>3. \A i \in 1 .. Len(queue) : queue[i] # c BY <2>1, <1>0 DEF Connect, Turns
    <3>4. \A i \in 1 .. Len(queue') : conn'[queue'[i]] = "queued" BY <2>1, <3>1, <3>2, <3>3, <1>0 DEF Connect, Turns
    <3>5. \A i, j \in 1 .. Len(queue') : queue'[i] = queue'[j] => i = j
      BY <3>1, <3>2, <3>3, <1>0 DEF Turns
    <3> QED BY <2>1, <3>1, <3>4, <3>5, <1>0 DEF Connect, Turns
  <2>2. CASE SendLine(c) BY <2>2, <1>0 DEF SendLine, Turns
  <2>3. CASE Leave(c) BY <2>3, <1>0 DEF Leave, Turns
  <2> QED BY <2>1, <2>2, <2>3
<1>5. \A d \in Clients : conn[d] \in {"open", "closed"} => conn'[d] = conn[d]
  BY <1>0 DEF Connect, SendLine, Leave, TinyTypeOK
<1>6. \A d \in Clients : Answered(d) /\ conn[d] \in {"open", "closed"} => Answered(d)'
  <2>1. CASE Connect(c) BY <2>1 DEF Connect, Answered
  <2>2. CASE SendLine(c)
    <3>1. \A d \in Clients : gone[d] => sent'[d] = sent[d] BY <2>2, <1>0 DEF SendLine, TinyTypeOK
    <3> QED BY <2>2, <3>1 DEF SendLine, Answered
  <2>3. CASE Leave(c) BY <2>3, <1>0 DEF Leave, Answered, TinyTypeOK
  <2> QED BY <2>1, <2>2, <2>3
<1>7. Progress'
  <2>1. pc = "close" => fd \in Clients /\ conn[fd] = "open" BY <1>0 DEF TinyTypeOK, Turns
  <2> QED BY <1>0, <1>1, <1>6, <2>1 DEF Progress, Started
<1>8. Program' BY <1>0, <1>1 DEF Program
<1>9. ClosedAnswered'
  <2>1. \A d \in Clients : conn'[d] = "closed" => conn[d] = "closed"
    BY <1>0 DEF Connect, SendLine, Leave, TinyTypeOK
  <2> QED BY <1>6, <2>1 DEF Kept, ClosedAnswered
<1> QED BY <1>2, <1>3, <1>4, <1>7, <1>8, <1>9 DEF Kept

\* A step of the server or of the program while a connection is served: it
\* disturbs the answer of that connection only.
Serving ==
  /\ UNCHANGED <<clientvars, fd>> /\ fd \in Clients
  /\ \A c \in Clients \ {fd} : resp'[c] = resp[c]
LEMMA KeptServing ==
  ASSUME Kept, Serving, pc' # "accept", TinyTypeOK', OutTypeOK', Progress', Program'
  PROVE  Kept'
<1>1. Turns /\ TinyTypeOK /\ fd # NoClient BY DEF Kept, Serving
<1>2. Turns' BY <1>1 DEF Turns, Serving, clientvars
<1>3. ClosedAnswered'
  <2>1. \A c \in Clients : conn'[c] = "closed" => conn[c] = "closed" /\ c # fd
    BY <1>1 DEF Turns, Serving, clientvars
  <2> QED BY <2>1, ClosedStays DEF Serving, clientvars
<1> QED BY <1>2, <1>3 DEF Kept

\* A step that sends the parts of an answer.
LEMMA SendsAnswer ==
  ASSUME Kept, Serving, child' = child, child = "none", NEW parts \in Seq(Part), resp' = resp,
         NEW label \in {"close", "open", "open empty", "fork"}, Send(parts, label),
         Started(label, resp[fd] \o parts)
  PROVE  Kept'
<1>0. TinyTypeOK /\ OutTypeOK BY DEF Kept
<1>1. /\ TinyTypeOK' BY <1>0 DEF Send, TinyTypeOK, Serving, clientvars
<1>2. OutTypeOK' BY <1>0 DEF Send, OutTypeOK, Controls
<1>3. Program' BY DEF Send, Program
<1>4. Progress' BY DEF Send, Progress, Started, Serving, clientvars
<1> QED BY <1>1, <1>2, <1>3, <1>4, KeptServing DEF Send

\* A step that only moves on, with nothing sent.
LEMMA MovesOn ==
  ASSUME Kept, Serving, child' = child, child = "none", resp' = resp, out' = out, then' = then,
         read' \in 0 .. Lines, pc' \in Controls \ {"accept", "request", "write", "wait"},
         pc' \in {"headers", "stat"} => resp[fd] = <<>> /\ request[fd].get,
         pc' \in {"open", "open empty", "mapped", "fork"} => Started(pc', resp[fd]),
         pc' = "close" => Answered(fd)
  PROVE  Kept'
<1>0. TinyTypeOK /\ OutTypeOK BY DEF Kept
<1>1. TinyTypeOK' BY <1>0 DEF TinyTypeOK, Serving, clientvars
<1>2. OutTypeOK' BY <1>0 DEF OutTypeOK
<1>3. Program' BY DEF Program
<1>4. Progress' BY DEF Progress, Started, Serving, clientvars, Answered
<1> QED BY <1>1, <1>2, <1>3, <1>4, KeptServing

-----------------------------------------------------------------------------
(* The steps of the server                                                 *)

\* What holds wherever a connection is served.
LEMMA WhileServing ==
  ASSUME Kept, pc # "accept"
  PROVE  /\ TinyTypeOK /\ OutTypeOK /\ Turns /\ Progress /\ Program
         /\ fd \in Clients /\ conn[fd] = "open"
         /\ pc # "wait" => child = "none"
BY DEF Kept, Turns, TinyTypeOK, Program

LEMMA KeptAccept == ASSUME Kept, Accept PROVE Kept'
<1>0. TinyTypeOK /\ OutTypeOK /\ Turns /\ Program BY DEF Kept
<1> DEFINE c == Head(queue)
<1>1. /\ queue \in Seq(Clients) /\ Len(queue) \in Nat \ {0} /\ c = queue[1] /\ c \in Clients
      /\ Tail(queue) \in Seq(Clients) /\ Len(Tail(queue)) = Len(queue) - 1
      /\ \A i \in 1 .. Len(queue) - 1 : Tail(queue)[i] = queue[i + 1]
  BY <1>0 DEF Accept, TinyTypeOK
<1>2. conn[c] = "queued" /\ resp[c] = <<>> BY <1>0, <1>1 DEF Turns
<1>3. TinyTypeOK' BY <1>0, <1>1 DEF Accept, TinyTypeOK
<1>4. OutTypeOK' BY <1>0 DEF Accept, OutTypeOK, Controls
<1>5. Turns'
  <2>1. \A i \in 1 .. Len(queue') : queue'[i] = queue[i + 1] /\ queue[i + 1] # c /\ conn[queue[i + 1]] = "queued"
    BY <1>0, <1>1 DEF Accept, Turns
  <2>2. \A i, j \in 1 .. Len(queue') : queue'[i] = queue'[j] => i = j
    BY <1>0, <1>1, <2>1 DEF Accept, Turns
  <2>3. \A i \in 1 .. Len(queue') : conn'[queue'[i]] = "queued"
    BY <1>0, <1>1, <2>1 DEF Accept, TinyTypeOK
  <2>4. \A d \in Clients : (conn'[d] = "open") <=> (d = c)
    BY <1>0, <1>1 DEF Accept, TinyTypeOK, Turns
  <2>5. \A d \in Clients : conn'[d] \in {"none", "queued"} => resp[d] = <<>>
    BY <1>0, <1>1 DEF Accept, TinyTypeOK, Turns
  <2> QED BY <1>1, <2>2, <2>3, <2>4, <2>5 DEF Accept, Turns
<1>6. Progress' BY <1>2 DEF Accept, Progress
<1>7. Program' BY <1>0 DEF Accept, Program
<1>8. ClosedAnswered'
  <2>1. \A d \in Clients : conn'[d] = "closed" => conn[d] = "closed"
    BY <1>0 DEF Accept, TinyTypeOK
  <2> QED BY <2>1, ClosedStays DEF Accept
<1> QED BY <1>3, <1>4, <1>5, <1>6, <1>7, <1>8 DEF Kept

\* Nothing was sent, so the parts are the answer.
LEMMA Whole ==
  ASSUME NEW s \in Seq(Part) PROVE <<>> \o s = s /\ s \o <<>> = s
BY ConcatEmptySeq

LEMMA KeptReadRequest == ASSUME Kept, ReadRequest PROVE Kept'
<1>0. /\ TinyTypeOK /\ OutTypeOK /\ fd \in Clients /\ child = "none"
      /\ resp[fd] = <<>> /\ read = 0 /\ Serving
  BY WhileServing DEF ReadRequest, Progress, Serving
<1>1. ASSUME More, request[fd].get, pc' = "headers", read' = 1, UNCHANGED <<out, then>> PROVE Kept'
  <2>1. 1 \in 0 .. Lines BY <1>0, <1>1 DEF TinyTypeOK, More
  <2> QED BY <1>0, <1>1, <2>1, MovesOn DEF ReadRequest, Controls
<1>2. ASSUME ~request[fd].get, clienterror("501") PROVE Kept'
  <2>1. Page("501") \in Seq(Part) BY Parts
  <2>2. resp[fd] \o Page("501") = Page("501") BY <1>0, <2>1, Whole
  <2>3. Started("close", resp[fd] \o Page("501")) BY <1>2, <2>2, Pages DEF Started
  <2> QED BY <1>0, <1>2, <2>1, <2>3, SendsAnswer DEF ReadRequest, clienterror, Page
<1>3. ASSUME ~More, gone[fd], NEW label \in {"close", "dead"}, Goto(label) PROVE Kept'
  <2>1. sent[fd] = 0 BY <1>0, <1>3 DEF More, TinyTypeOK
  <2> QED BY <1>0, <1>3, <2>1, MovesOn DEF ReadRequest, Goto, Controls, Answered, TinyTypeOK
<1> QED BY <1>1, <1>2, <1>3 DEF ReadRequest

LEMMA KeptHeaders == ASSUME Kept, read_requesthdrs PROVE Kept'
<1>0. /\ TinyTypeOK /\ fd \in Clients /\ child = "none"
      /\ resp[fd] = <<>> /\ request[fd].get /\ Serving
  BY WhileServing DEF read_requesthdrs, Progress, Serving
<1>1. out' = out /\ then' = then /\ pc' \in {"headers", "stat", "spin", "dead"} /\ read' \in 0 .. Lines
  BY <1>0 DEF read_requesthdrs, Goto, More, TinyTypeOK
<1> QED BY <1>0, <1>1, MovesOn DEF read_requesthdrs, Controls

LEMMA KeptStat == ASSUME Kept, stat PROVE Kept'
<1> DEFINE f == files[Req.file]  r == request[fd]
<1>0. /\ TinyTypeOK /\ OutTypeOK /\ fd \in Clients /\ child = "none"
      /\ resp[fd] = <<>> /\ r.get /\ Serving /\ child' = child /\ resp' = resp
  BY WhileServing DEF stat, Progress, Serving
<1>1. Req.cgi <=> r.cgi BY DEF Req, parse_uri
<1>2. ASSUME NEW status \in {"404", "403"}, clienterror(status) PROVE Kept'
  <2>1. Page(status) \in Seq(Part) BY Parts
  <2>2. resp[fd] \o Page(status) = Page(status) BY <1>0, <2>1, Whole
  <2>3. Page(status) \in Answers(r) BY <1>0, <1>2, Pages
  <2>4. Started("close", resp[fd] \o Page(status)) BY <2>2, <2>3 DEF Started
  <2>5. Send(Page(status), "close") BY <1>2 DEF clienterror, Page
  <2> QED BY <1>0, <2>1, <2>4, <2>5, SendsAnswer
<1>3. ASSUME ~Req.cgi, NEW label \in {"open", "open empty"}, Send(<<"200 headers">>, label) PROVE Kept'
  <2>1. resp[fd] \o <<"200 headers">> = <<"200 headers">> BY <1>0, Parts, Whole
  <2>2. Started(label, resp[fd] \o <<"200 headers">>) BY <1>0, <1>1, <1>3, <2>1 DEF Started
  <2> QED BY <1>0, <1>3, <2>2, Parts, SendsAnswer
<1>4. ASSUME Req.cgi, Send(<<"200", "server">>, "fork") PROVE Kept'
  <2>1. resp[fd] \o ProgramHead = ProgramHead BY <1>0, Parts, Whole
  <2>2. Started("fork", resp[fd] \o ProgramHead) BY <1>0, <1>1, <1>4, <2>1 DEF Started
  <2>3. Send(ProgramHead, "fork") BY <1>4 DEF ProgramHead
  <2> QED BY <1>0, <2>2, <2>3, Parts, SendsAnswer
<1> QED BY <1>2, <1>3, <1>4 DEF stat, Forbidden

LEMMA KeptWrite == ASSUME Kept, Write PROVE Kept'
<1>0. /\ TinyTypeOK /\ OutTypeOK /\ Turns /\ fd \in Clients /\ child = "none" /\ child' = child
      /\ Started(then, resp[fd] \o out) /\ resp[fd] \in Seq(Part) /\ out \in Seq(Part)
      /\ UNCHANGED <<clientvars, fd>>
  BY WhileServing DEF Write, Progress, OutTypeOK
<1>1. ASSUME out # <<>>, resp' = [resp EXCEPT ![fd] = Append(@, Head(out))], out' = Tail(out),
             UNCHANGED <<pc, then, read>>
      PROVE  Kept'
  <2>1. /\ Append(resp[fd], Head(out)) \o Tail(out) = resp[fd] \o out
        /\ Append(resp[fd], Head(out)) \in Seq(Part) /\ Tail(out) \in Seq(Part)
    BY <1>0, <1>1, NextPart
  <2>2. resp'[fd] = Append(resp[fd], Head(out)) BY <1>0, <1>1 DEF OutTypeOK
  <2>3. Serving BY <1>0, <1>1 DEF Serving, OutTypeOK
  <2>4. TinyTypeOK' BY <1>0, <1>1 DEF TinyTypeOK, clientvars
  <2>5. OutTypeOK' BY <1>0, <1>1, <2>1 DEF OutTypeOK
  <2>6. Started(then, resp'[fd] \o out') BY <1>0, <1>1, <2>1, <2>2
  <2>7. Progress' BY <1>0, <1>1, <2>6 DEF Write, Progress, Started, clientvars
  <2>8. Program' BY <1>0, <1>1 DEF Write, Program
  <2> QED BY <1>1, <2>3, <2>4, <2>5, <2>7, <2>8, KeptServing DEF Write
<1>2. ASSUME Goto("dead"), resp' = resp PROVE Kept'
  <2>1. Serving BY <1>0, <1>2 DEF Serving
  <2> QED BY <1>0, <1>2, <2>1, MovesOn DEF Goto, Controls, TinyTypeOK
<1>3. ASSUME out = <<>>, Goto(then), resp' = resp PROVE Kept'
  <2>1. Started(then, resp[fd]) BY <1>0, <1>3, Whole
  <2>2. Serving BY <1>0, <1>3 DEF Serving
  <2>3. then = "close" => Answered(fd) BY <2>1 DEF Started, Answered
  <2>4. then \in Controls \ {"accept", "request", "write", "wait", "headers", "stat"}
    BY <1>0 DEF OutTypeOK, Controls
  <2> QED BY <1>0, <1>3, <2>1, <2>2, <2>3, <2>4, MovesOn DEF Goto, TinyTypeOK
<1> QED BY <1>1, <1>2, <1>3 DEF Write

LEMMA KeptOpenFile == ASSUME Kept, OpenFile PROVE Kept'
<1>0. /\ TinyTypeOK /\ fd \in Clients /\ child = "none" /\ Serving /\ Started("mapped", resp[fd])
  BY WhileServing DEF OpenFile, Progress, Serving, Started
<1>1. pc' \in {"dead", "mapped"} /\ out' = out /\ then' = then /\ read' = read BY DEF OpenFile, Goto
<1> QED BY <1>0, <1>1, MovesOn DEF OpenFile, Controls, TinyTypeOK

LEMMA KeptWriteBody == ASSUME Kept, WriteBody PROVE Kept'
<1>0. /\ TinyTypeOK /\ fd \in Clients /\ child = "none" /\ Serving
      /\ resp[fd] = <<"200 headers">> /\ request[fd].get /\ ~request[fd].cgi
      /\ child' = child /\ resp' = resp
  BY WhileServing DEF WriteBody, Progress, Serving, Started
<1>1. ASSUME Goto("dead") PROVE Kept' BY <1>0, <1>1, MovesOn DEF Goto, Controls, TinyTypeOK
<1>2. ASSUME Send(<<"body">>, "close") PROVE Kept'
  <2>1. resp[fd] \o <<"body">> \in Answers(request[fd]) BY <1>0, Parts, Pages
  <2>2. Started("close", resp[fd] \o <<"body">>) BY <2>1 DEF Started
  <2> QED BY <1>0, <1>2, <2>2, Parts, SendsAnswer
<1> QED BY <1>1, <1>2 DEF WriteBody

LEMMA KeptFork == ASSUME Kept, Fork PROVE Kept'
<1>0. /\ TinyTypeOK /\ OutTypeOK /\ fd \in Clients /\ child = "none" /\ Serving /\ Started("fork", resp[fd])
      /\ pc' = "wait" /\ UNCHANGED <<clientvars, fd, resp, out, then, read>> /\ child' = "started"
  BY WhileServing DEF Fork, Goto, Progress, Serving
<1>1. TinyTypeOK' BY <1>0 DEF TinyTypeOK, clientvars
<1>2. OutTypeOK' BY <1>0 DEF OutTypeOK, Controls
<1>3. Progress' BY <1>0 DEF Progress
<1>4. Program' BY <1>0 DEF Program, Started, clientvars
<1> QED BY <1>0, <1>1, <1>2, <1>3, <1>4, KeptServing

\* What the program ends with is an answer.
LEMMA ProgramEnds ==
  ASSUME Kept, child \in {"started", "running"}, child' = "zombie", UNCHANGED <<clientvars, pc, fd, read, out, then>>,
         NEW part \in {"sum", "log"}, NEW printed \in BOOLEAN,
         resp' = IF printed THEN [resp EXCEPT ![fd] = Append(@, part)] ELSE resp,
         ProgramHead \o (IF printed THEN <<part>> ELSE <<>>) \in Answers(request[fd])
  PROVE  Kept'
<1>0. /\ TinyTypeOK /\ OutTypeOK /\ Turns /\ fd \in Clients /\ pc = "wait" /\ resp[fd] = ProgramHead
      /\ request[fd].get /\ request[fd].cgi
  <2>1. pc = "wait" BY DEF Kept, Program
  <2> QED BY <2>1, WhileServing DEF Program
<1>1. Append(ProgramHead, part) = ProgramHead \o <<part>> /\ Append(ProgramHead, part) \in Seq(Part)
  <2>1. part \in Part BY DEF Part
  <2> QED BY <2>1, Parts, AppendIsConcat, AppendProperties
<1>2. ProgramHead \o <<>> = ProgramHead BY Parts, Whole
<1>3. resp'[fd] \in Answers(request[fd]) /\ resp'[fd] \in Seq(Part)
      /\ (\A c \in Clients \ {fd} : resp'[c] = resp[c]) /\ resp' \in [Clients -> Seq(Part)]
  <2>1. CASE printed BY <2>1, <1>0, <1>1 DEF OutTypeOK
  <2>2. CASE ~printed BY <2>2, <1>0, <1>2 DEF OutTypeOK
  <2> QED BY <2>1, <2>2
<1>4. Serving BY <1>0, <1>3 DEF Serving
<1>5. TinyTypeOK' BY <1>0 DEF TinyTypeOK, clientvars
<1>6. OutTypeOK' BY <1>0, <1>3 DEF OutTypeOK
<1>7. Progress' BY <1>0 DEF Progress
<1>8. Program' BY <1>0, <1>3 DEF Program, clientvars
<1> QED BY <1>0, <1>4, <1>5, <1>6, <1>7, <1>8, KeptServing

LEMMA KeptExecve == ASSUME Kept, Execve PROVE Kept'
<1>0. /\ TinyTypeOK /\ OutTypeOK /\ fd \in Clients /\ pc = "wait" /\ resp[fd] = ProgramHead
      /\ request[fd].get /\ request[fd].cgi /\ UNCHANGED <<clientvars, pc, fd, read, out, then>>
  <2>1. pc = "wait" BY DEF Kept, Program, Execve
  <2> QED BY <2>1, WhileServing DEF Program, Execve
<1>1. ASSUME child' = "running", resp' = resp PROVE Kept'
  <2>1. TinyTypeOK' BY <1>0, <1>1 DEF TinyTypeOK, clientvars
  <2>2. OutTypeOK' BY <1>0, <1>1 DEF OutTypeOK
  <2>3. Progress' BY <1>0 DEF Progress
  <2>4. Program' BY <1>0, <1>1 DEF Program, clientvars
  <2>5. Serving BY <1>0, <1>1 DEF Serving
  <2> QED BY <1>0, <2>1, <2>2, <2>3, <2>4, <2>5, KeptServing
<1>2. ASSUME child' = "zombie",
             resp' = IF LogBuffered THEN [resp EXCEPT ![fd] = Append(@, "log")] ELSE resp
      PROVE  Kept'
  <2>1. CASE LogBuffered
    <3>1. ProgramHead \o <<"log">> \in Answers(request[fd]) BY <1>0, <2>1, Pages
    <3>2. resp' = [resp EXCEPT ![fd] = Append(@, "log")] BY <1>2, <2>1
    <3> QED BY <1>0, <1>2, <3>1, <3>2, ProgramEnds DEF Execve
  <2>2. CASE ~LogBuffered
    <3>1. ProgramHead \o <<>> \in Answers(request[fd]) BY <1>0, <2>2, Pages
    <3>2. resp' = resp BY <1>2, <2>2
    <3> QED BY <1>0, <1>2, <3>1, <3>2, ProgramEnds DEF Execve
  <2> QED BY <2>1, <2>2
<1> QED BY <1>1, <1>2 DEF Execve

LEMMA KeptAdder == ASSUME Kept, Adder PROVE Kept'
<1>0. /\ pc = "wait" /\ request[fd].get /\ request[fd].cgi /\ UNCHANGED <<clientvars, pc, fd, read, out, then>>
      /\ child = "running" /\ child' = "zombie"
  BY DEF Kept, Program, Adder
<1>1. Req.cgiargs = request[fd].query BY <1>0 DEF Req, parse_uri
<1>2. Dynamic(request[fd]) \in Answers(request[fd]) BY <1>0, Pages
<1>3. CASE Adds(request[fd].query)
  <2>1. ProgramHead \o <<"sum">> \in Answers(request[fd]) BY <1>2, <1>3 DEF Dynamic, ProgramHead
  <2>2. resp' = [resp EXCEPT ![fd] = Append(@, "sum")] BY <1>1, <1>3 DEF Adder
  <2> QED BY <1>0, <2>1, <2>2, ProgramEnds
<1>4. CASE ~Adds(request[fd].query)
  <2>1. ProgramHead \o <<>> \in Answers(request[fd]) BY <1>2, <1>4 DEF Dynamic, ProgramHead
  <2>2. resp' = resp BY <1>1, <1>4 DEF Adder
  <2> QED BY <1>0, <2>1, <2>2, ProgramEnds
<1> QED BY <1>3, <1>4

LEMMA KeptWait == ASSUME Kept, Wait PROVE Kept'
<1>0. /\ TinyTypeOK /\ OutTypeOK /\ fd \in Clients /\ resp[fd] \in Answers(request[fd])
      /\ pc' = "close" /\ child' = "none" /\ UNCHANGED <<clientvars, fd, resp, out, then, read>>
  BY WhileServing DEF Wait, Goto, Program
<1>1. TinyTypeOK' BY <1>0 DEF TinyTypeOK, clientvars
<1>2. OutTypeOK' BY <1>0 DEF OutTypeOK, Controls
<1>3. Progress' BY <1>0 DEF Progress, Answered, clientvars
<1>4. Program' BY <1>0 DEF Program
<1>5. Serving BY <1>0 DEF Serving
<1> QED BY <1>0, <1>1, <1>2, <1>3, <1>4, <1>5, KeptServing

LEMMA KeptClose == ASSUME Kept, Close PROVE Kept'
<1>0. /\ TinyTypeOK /\ OutTypeOK /\ Turns /\ fd \in Clients /\ conn[fd] = "open" /\ Answered(fd) /\ child = "none"
      /\ ClosedAnswered /\ UNCHANGED <<request, sent, gone, queue, resp, child, read, out, then>>
  BY WhileServing DEF Close, Goto, Progress, Kept
<1>1. conn' = [conn EXCEPT ![fd] = "closed"] /\ fd' = NoClient /\ pc' = "accept" BY DEF Close, Closed, Goto
<1>2. TinyTypeOK' BY <1>0, <1>1 DEF TinyTypeOK
<1>3. OutTypeOK' BY <1>0, <1>1 DEF OutTypeOK, Controls
<1>4. Turns'
  <2>1. \A i \in 1 .. Len(queue) : queue[i] # fd /\ queue[i] \in Clients BY <1>0 DEF Turns, TinyTypeOK
  <2>2. \A i \in 1 .. Len(queue) : conn'[queue[i]] = "queued" BY <1>0, <1>1, <2>1 DEF Turns, TinyTypeOK
  <2>3. \A c \in Clients : conn'[c] # "open" /\ (conn'[c] \in {"none", "queued"} => resp[c] = <<>>)
    BY <1>0, <1>1 DEF Turns, TinyTypeOK
  <2> QED BY <1>0, <1>1, <2>2, <2>3 DEF Turns
<1>5. Progress' /\ Program' BY <1>0, <1>1 DEF Progress, Program
<1>6. ClosedAnswered'
  <2>1. \A c \in Clients : conn'[c] = "closed" => conn[c] = "closed" \/ c = fd BY <1>0, <1>1 DEF TinyTypeOK
  <2> QED BY <1>0, <2>1 DEF ClosedAnswered, Answered
<1> QED BY <1>2, <1>3, <1>4, <1>5, <1>6 DEF Kept

LEMMA KeptUnchanged ==
  ASSUME Kept, UNCHANGED <<clientvars, resp, pc, fd, read, out, then, child>> PROVE Kept'
BY DEF Kept, clientvars, TinyTypeOK, OutTypeOK, Turns, Progress, Started, Program, ClosedAnswered, Answered

-----------------------------------------------------------------------------
LEMMA KeptNext == Kept /\ [Next]_vars => Kept'
<1> SUFFICES ASSUME Kept, [Next]_vars PROVE Kept' OBVIOUS
<1>1. CASE ServerNext
  BY <1>1, KeptAccept, KeptReadRequest, KeptHeaders, KeptStat, KeptWrite, KeptOpenFile, KeptWriteBody,
     KeptFork, KeptWait, KeptClose DEF ServerNext
<1>2. CASE ChildNext BY <1>2, KeptExecve, KeptAdder DEF ChildNext
<1>3. CASE ClientNext BY <1>3, KeptClient DEF ClientNext
<1>4. ASSUME NEW f \in DOMAIN files, ChangeFile(f) PROVE Kept' BY <1>4, KeptUnchanged DEF ChangeFile
<1>5. CASE UNCHANGED vars BY <1>5, KeptUnchanged DEF vars
<1> QED BY <1>1, <1>2, <1>3, <1>4, <1>5 DEF Next

\* tiny.c answers a connection with one whole answer before it closes it, or
\* with nothing if the client left before it asked, whatever clients, requests
\* and files there are; and it leaves no program behind.
THEOREM OneAnswerEach == Spec => []TinyInv
<1>1. Kept => TinyInv
  BY DEF Kept, TinyInv, OneWholeAnswer, ClosedAnswered, Answered, Program
<1> QED BY <1>1, KeptInit, KeptNext, PTL DEF Spec
=============================================================================

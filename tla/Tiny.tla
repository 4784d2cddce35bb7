-------------------------------- MODULE Tiny --------------------------------
(***************************************************************************)
(* tiny.c: a web server that handles one connection at a time, from a file *)
(* or by a CGI program.  Clients send their request line by line and may   *)
(* leave at any point; files may change while they are served.  Each       *)
(* Rio_writen is a step.  SIGPIPE is not ignored, and every wrapper exits  *)
(* when its call fails, so either ends the server: pc = "dead".            *)
(***************************************************************************)
EXTENDS Integers, Sequences, FiniteSets

CONSTANTS
  Clients, NoClient,
  Requests,    \* [get, cgi, path, slash, query]: GET?, the URI has "cgi-bin", it ends in '/'
  Lines,       \* of a request: the request line, headers, an empty line
  Files,       \* the contents of the directory at the start: name -> state
  LogBuffered  \* stdout is not a terminal: what is logged waits in its buffer

ASSUME TinyAssumption == Lines \in Nat /\ NoClient \notin Clients

VARIABLES
  conn,      \* of each client: "none", "queued", "open", "closed"
  request,   \* what it asks for
  sent,      \* lines it has sent
  gone,      \* it has closed its end
  resp,      \* what was written to it
  queue,     \* connections to accept
  files,     \* name -> "missing", "other", "denied", "empty", "data", "program", "corrupt"
  pc, fd,    \* the server, and the connection it serves
  read,      \* lines it has read
  out, then, \* writes to do, and what follows them
  child      \* "none", "started", "running", "zombie"

clientvars == <<conn, request, sent, gone, queue>>
vars == <<clientvars, resp, files, pc, fd, read, out, then, child>>

Init ==
  /\ conn = [c \in Clients |-> "none"] /\ request \in [Clients -> Requests]
  /\ sent = [c \in Clients |-> 0] /\ gone = [c \in Clients |-> FALSE]
  /\ resp = [c \in Clients |-> <<>>] /\ queue = <<>> /\ files = Files
  /\ pc = "accept" /\ fd = NoClient /\ read = 0 /\ out = <<>> /\ then = "close" /\ child = "none"

-----------------------------------------------------------------------------
(* The clients and the directory                                           *)

Connect(c) ==
  /\ conn[c] = "none" /\ pc # "dead"
  /\ conn' = [conn EXCEPT ![c] = "queued"] /\ queue' = Append(queue, c)
  /\ UNCHANGED <<request, sent, gone, resp, files, pc, fd, read, out, then, child>>
SendLine(c) ==
  /\ conn[c] \in {"queued", "open"} /\ ~gone[c] /\ sent[c] < Lines
  /\ sent' = [sent EXCEPT ![c] = @ + 1]
  /\ UNCHANGED <<conn, request, gone, queue, resp, files, pc, fd, read, out, then, child>>
Leave(c) ==
  /\ conn[c] \in {"queued", "open"} /\ ~gone[c] /\ gone' = [gone EXCEPT ![c] = TRUE]
  /\ UNCHANGED <<conn, request, sent, queue, resp, files, pc, fd, read, out, then, child>>
\* A file with data is truncated or removed.
ChangeFile(f) ==
  /\ files[f] = "data" /\ \E s \in {"empty", "missing"} : files' = [files EXCEPT ![f] = s]
  /\ UNCHANGED <<clientvars, resp, pc, fd, read, out, then, child>>

-----------------------------------------------------------------------------
(* main and doit                                                           *)

Goto(label) == pc' = label /\ UNCHANGED <<read, out, then>>
Send(parts, label) == out' = parts /\ then' = label /\ pc' = "write" /\ UNCHANGED read
\* A directory stands for its home.html; the program gets what follows '?'.
parse_uri(r) ==
  IF r.cgi THEN [cgi |-> TRUE, file |-> <<r.path>>, cgiargs |-> r.query]
  ELSE [cgi |-> FALSE, file |-> IF r.slash THEN <<r.path, "home.html">> ELSE <<r.path>>, cgiargs |-> ""]
Req == parse_uri(request[fd])
More == sent[fd] > read

Accept ==
  /\ pc = "accept" /\ queue # <<>>
  /\ fd' = Head(queue) /\ queue' = Tail(queue) /\ conn' = [conn EXCEPT ![Head(queue)] = "open"]
  /\ pc' = "request" /\ read' = 0
  /\ UNCHANGED <<request, sent, gone, resp, files, out, then, child>>

clienterror(status) == Send(<<status, "type", "length", "page">>, "close")

ReadRequest ==
  /\ pc = "request"
  /\ \/ /\ More /\ request[fd].get /\ pc' = "headers" /\ read' = 1 /\ UNCHANGED <<out, then>>
     \/ /\ More /\ ~request[fd].get /\ clienterror("501")
     \/ /\ ~More /\ gone[fd] /\ \E label \in {"close", "dead"} : Goto(label)
  /\ UNCHANGED <<clientvars, resp, files, fd, child>>

\* At the end of the file rio_readlineb returns 0 and leaves buf as it is, so
\* the loop does not end: unless buf, which is not initialised, still holds the
\* empty line of an earlier request.  A reset connection is an error.
read_requesthdrs ==
  /\ pc = "headers"
  /\ \/ /\ More /\ read' = read + 1 /\ UNCHANGED <<out, then>>
        /\ pc' = IF read' = Lines THEN "stat" ELSE pc
     \/ /\ ~More /\ gone[fd]
        /\ \/ \E label \in {"spin", "dead"} : Goto(label)
           \/ read = 1 /\ Goto("stat")
  /\ UNCHANGED <<clientvars, resp, files, fd, child>>

\* MUTANT: doit goes on after the error page
ForbiddenGoesOn == Send(<<"403", "type", "length", "page", "200 headers">>, "open")
Forbidden == clienterror("403")
stat ==
  /\ pc = "stat"
  /\ LET f == files[Req.file] IN
     \/ f = "missing" /\ clienterror("404")
     \/ /\ f \in {"other", "denied"} \cup (IF Req.cgi THEN {"data", "empty"} ELSE {})
        /\ Forbidden
     \/ ~Req.cgi /\ f = "empty" /\ Send(<<"200 headers">>, "open empty")
     \/ ~Req.cgi /\ f \in {"data", "program", "corrupt"} /\ Send(<<"200 headers">>, "open")
     \/ Req.cgi /\ f \in {"program", "corrupt"} /\ Send(<<"200", "server">>, "fork")
  /\ UNCHANGED <<clientvars, resp, files, fd, child>>

\* A write to a client that left is lost, or fails and ends the server.
Write ==
  /\ pc = "write"
  /\ \/ /\ out # <<>> /\ resp' = [resp EXCEPT ![fd] = Append(@, Head(out))]
        /\ out' = Tail(out) /\ UNCHANGED <<pc, then, read>>
     \/ out # <<>> /\ gone[fd] /\ Goto("dead") /\ UNCHANGED resp
     \/ out = <<>> /\ Goto(then) /\ UNCHANGED resp
  /\ UNCHANGED <<clientvars, files, fd, child>>

\* serve_static: Open, and Mmap, which refuses a size of 0.  The size is that of
\* the stat before.
OpenFile ==
  /\ pc \in {"open", "open empty"}
  /\ IF pc = "open empty" \/ files[Req.file] = "missing" THEN Goto("dead") ELSE Goto("mapped")
  /\ UNCHANGED <<clientvars, resp, files, fd, child>>
\* The pages of a file that was truncated meanwhile cannot be written.
WriteBody ==
  /\ pc = "mapped"
  /\ IF files[Req.file] = "empty" THEN Goto("dead") ELSE Send(<<"body">>, "close")
  /\ UNCHANGED <<clientvars, resp, files, fd, child>>

-----------------------------------------------------------------------------
(* serve_dynamic and the CGI program, cgi-bin/adder.c                      *)

Fork ==
  /\ pc = "fork" /\ child' = "started" /\ Goto("wait")
  /\ UNCHANGED <<clientvars, resp, files, fd>>
\* If Execve fails, the wrapper's exit flushes the log of the server, which the
\* child has a copy of, to the client.
Execve ==
  /\ child = "started"
  /\ \/ files[Req.file] = "program" /\ child' = "running" /\ UNCHANGED resp
     \/ /\ files[Req.file] = "corrupt" /\ child' = "zombie"
        /\ resp' = IF LogBuffered THEN [resp EXCEPT ![fd] = Append(@, "log")] ELSE resp
  /\ UNCHANGED <<clientvars, files, pc, fd, read, out, then>>
\* adder writes its page in one flush; without '&' in the arguments it is
\* killed by a null pointer.
Adds(cgiargs) == cgiargs = "1&2"
Adder ==
  /\ child = "running" /\ child' = "zombie"
  /\ resp' = IF Adds(Req.cgiargs) THEN [resp EXCEPT ![fd] = Append(@, "sum")] ELSE resp
  /\ UNCHANGED <<clientvars, files, pc, fd, read, out, then>>
Wait ==
  /\ pc = "wait" /\ child = "zombie" /\ child' = "none" /\ Goto("close")
  /\ UNCHANGED <<clientvars, resp, files, fd>>

\* MUTANT: the descriptor is left open
Forgotten(c) == conn[c]
Closed(c) == "closed"
Close ==
  /\ pc = "close" /\ Goto("accept") /\ fd' = NoClient /\ conn' = [conn EXCEPT ![fd] = Closed(fd)]
  /\ UNCHANGED <<request, sent, gone, queue, resp, files, child>>

ServerNext ==
  \/ Accept \/ ReadRequest \/ read_requesthdrs \/ stat \/ Write \/ OpenFile \/ WriteBody
  \/ Fork \/ Wait \/ Close
ChildNext == Execve \/ Adder
ClientNext == \E c \in Clients : Connect(c) \/ SendLine(c) \/ Leave(c)
Next == ServerNext \/ ChildNext \/ ClientNext \/ (\E f \in DOMAIN files : ChangeFile(f))

\* The server and the program run on; a client finishes its request or leaves.
Spec ==
  /\ Init /\ [][Next]_vars
  /\ WF_vars(ServerNext) /\ WF_vars(ChildNext) /\ \A c \in Clients : WF_vars(SendLine(c) \/ Leave(c))

-----------------------------------------------------------------------------
TinyTypeOK ==
  /\ conn \in [Clients -> {"none", "queued", "open", "closed"}]
  /\ request \in [Clients -> Requests] /\ sent \in [Clients -> 0 .. Lines]
  /\ gone \in [Clients -> BOOLEAN] /\ queue \in Seq(Clients) /\ fd \in Clients \cup {NoClient}
  /\ read \in 0 .. Lines /\ child \in {"none", "started", "running", "zombie"}

Page(status) == <<status, "type", "length", "page">>
Static == <<"200 headers", "body">>
Dynamic(r) == <<"200", "server">> \o (IF Adds(r.query) THEN <<"sum">> ELSE <<>>)
Answers(r) ==
  IF ~r.get THEN {Page("501")}
  ELSE {Page("404"), Page("403"), IF r.cgi THEN Dynamic(r) ELSE Static}
     \cup (IF r.cgi THEN {<<"200", "server">> \o (IF LogBuffered THEN <<"log">> ELSE <<>>)} ELSE {})

\* When the server closes a connection the client was sent one whole answer,
\* with all that the program writes, or nothing if it left before it asked;
\* and no program is left behind (doit:48, serve_dynamic:189).
OneWholeAnswer ==
  /\ \A c \in Clients :
       conn[c] = "closed" => resp[c] \in Answers(request[c]) \/ (resp[c] = <<>> /\ gone[c] /\ sent[c] = 0)
  /\ pc \in {"accept", "request"} => child = "none"

TinyInv == TinyTypeOK /\ OneWholeAnswer

\* The connections are served in turn: each is closed in the end, unless the
\* server ends, or waits for more headers of a client that left before the last
\* of them (tiny.c:104).  A client that has sent its request never has it spin.
LeftInHeaders == pc = "spin" /\ gone[fd] /\ sent[fd] \in 1 .. Lines - 1
EachClosed ==
  \A c \in Clients :
    (conn[c] = "queued") ~> (conn[c] = "closed" \/ pc = "dead" \/ LeftInHeaders)
=============================================================================

------------------------------- MODULE MCTiny -------------------------------
(* A method that is not implemented; a page, by its directory; a directory; *)
(* a page that is not there; a CGI program with and without arguments, and  *)
(* a file that is executable but no program.                                *)
EXTENDS Tiny, TLC
Get(cgi, path, slash, query) == [get |-> TRUE, cgi |-> cgi, path |-> path, slash |-> slash, query |-> query]
MCRequests == {
  [Get(FALSE, "/", TRUE, "") EXCEPT !.get = FALSE],
  Get(FALSE, "/", TRUE, ""), Get(FALSE, "/dir", FALSE, ""), Get(FALSE, "/none", FALSE, ""),
  Get(TRUE, "/cgi-bin/adder", FALSE, "1&2"), Get(TRUE, "/cgi-bin/adder", FALSE, ""),
  Get(TRUE, "/cgi-bin/broken", FALSE, "1&2") }
MCFiles ==
  <<"/", "home.html">> :> "data" @@ <<"/dir">> :> "other" @@ <<"/none">> :> "missing"
    @@ <<"/cgi-bin/adder">> :> "program" @@ <<"/cgi-bin/broken">> :> "corrupt"
=============================================================================

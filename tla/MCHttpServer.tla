----------------------------- MODULE MCHttpServer -----------------------------
(* Requests for TLC: a page with a query behind question marks, one that is   *)
(* refused, and a uri of question marks.  Pieces of them make others.         *)
EXTENDS HttpServer
CONSTANTS c1, c2

Get == Word("GET", FALSE, <<"GET">>)
Uri(parts) == Word("other", FALSE, parts)
Http == Word("HTTP/1", FALSE, <<"HTTP/1.1">>)
Host == Word("Host:", FALSE, <<"Host:">>)
Name == Word("other", FALSE, <<"nplinux1">>)
Ctrl == Word("other", TRUE, <<"ctrl">>)

Asks == {<<Get, Uri(<<"", "/panel.cgi", "q">>), Http, Host, Name>>,
         <<Get, Uri(<<"/panel.cgi">>), Http, Host, Ctrl>>,
         <<Get, Uri(<<"", "">>), Http, Host, Name>>}
=============================================================================

---------------------------- MODULE HttpServerWin ----------------------------
(***************************************************************************)
(* The CGI server of project 3 for Windows (np_project3/http_server_win.   *)
(* cpp): one process without children.  The panel is written by the        *)
(* handler of the request; for the console the handler builds a second     *)
(* io_context and runs it to its end (line 298), so that until the last    *)
(* session of that console is over no other handler of the server runs.    *)
(*                                                                         *)
(* The query goes to the console through the environment of the process.   *)
(* What is written to the client is a local string that is gone when the   *)
(* call returns: what the system does not take at once is garbage, "?".    *)
(*                                                                         *)
(* A session is that of module Console without the SOCKS server.  Requests *)
(* that arrive in pieces are in HttpServer, with the same parser.          *)
(***************************************************************************)
EXTENDS RequestParser, FiniteSets

CONSTANTS
  Clients,    \* each makes one connection
  NoClient,   \* not a client
  Requests,   \* client -> what the parser may make of what it sends
  Columnar,   \* bound: the sessions a query may ask for
  FileLines, Outputs, BufLen  \* as in Console

\* What the parser makes of a request; the query is what the panel's form sends.
Request ==
  [result : {"refused", "exception"}]
    \cup [result : {"accepted"}, cgi : STRING, query : Seq(Param)]

ASSUME HttpServerWinAssumption ==
  /\ NoClient \notin Clients /\ Columnar \in 0 .. MAX_SERVER
  /\ FileLines \in Nat \ {0} /\ BufLen \in Nat \ {0, 1}
  /\ Outputs \subseteq Seq({"o", "%", " "})
  /\ \A c \in Clients : \A r \in Requests[c] :
       /\ r \in Request
       /\ r.result = "accepted" /\ r.cgi = "/console.cgi" =>
            Len(Columns(ParseQueryString(r.query).slots)) <= Columnar

Session == 1 .. Columnar
NoRequest == [result |-> "none"]

VARIABLES
  up,      \* the server runs
  pc,      \* client -> away, queued, reading, over
  reset,   \* the clients whose connection has been reset
  asked,   \* client -> its request
  environ, \* QUERY_STRING in the environment of the process
  inside,  \* the client whose console the server is in
  out,     \* client -> status, panel or frame of the console
  ses,     \* the sessions of the console the server is in
  late     \* history: one of their scripts was not taken at once

client == <<pc, reset, asked>>
vars == <<up, client, environ, inside, out, ses, late>>

Unused == [slot |-> 0, pc |-> "over", sent |-> 0, page |-> << >>, stream |-> << >>,
           shell |-> "busy", ran |-> 0, lured |-> FALSE, missed |-> FALSE]
Fresh(slot) == [Unused EXCEPT !.slot = slot, !.pc = "resolve"]
Over(s) == [Unused EXCEPT !.slot = s.slot]

At(k) == INSTANCE Console WITH
  socks <- FALSE, pc <- ses[k].pc, sent <- ses[k].sent, page <- ses[k].page,
  stream <- ses[k].stream, shell <- ses[k].shell, ran <- ses[k].ran,
  lured <- ses[k].lured, missed <- ses[k].missed

Init ==
  /\ up = TRUE /\ pc = [c \in Clients |-> "away"]
  /\ reset = {} /\ asked = [c \in Clients |-> NoRequest]
  /\ environ = << >> /\ inside = NoClient /\ out = [c \in Clients |-> << >>]
  /\ ses = [k \in Session |-> Unused] /\ late = FALSE

-----------------------------------------------------------------------------
(* The clients: external.                                                   *)

\* A client connects and sends its request, or sends nothing.
Dial(c) ==
  /\ up /\ pc[c] = "away" /\ pc' = [pc EXCEPT ![c] = "queued"]
  /\ \E r \in Requests[c] \cup {NoRequest} : asked' = [asked EXCEPT ![c] = r]
  /\ UNCHANGED <<up, reset, environ, inside, out, ses, late>>

\* A client's machine resets the connection.  For one the server is writing
\* to, that is a write that is not taken.
Reset(c) ==
  /\ up /\ pc[c] = "reading" /\ inside = NoClient /\ reset' = reset \cup {c}
  /\ UNCHANGED <<up, pc, asked, environ, inside, out, ses, late>>

-----------------------------------------------------------------------------
(* The server.  The status is the first write to a socket and always taken. *)

AtRest == up /\ inside = NoClient

\* The page, or garbage if it is not taken at once.
Taken(what) == {what, <<"?">>}

Accept(c) ==
  /\ AtRest /\ pc[c] = "queued" /\ pc' = [pc EXCEPT ![c] = "reading"]
  /\ UNCHANGED <<up, reset, asked, environ, inside, out, ses, late>>

Due(c) == AtRest /\ pc[c] = "reading"

ReadFails(c) ==
  /\ Due(c) /\ asked[c] = NoRequest /\ c \in reset
  /\ pc' = [pc EXCEPT ![c] = "over"]
  /\ UNCHANGED <<up, reset, asked, environ, inside, out, ses, late>>

Refuse(c) ==
  /\ Due(c) /\ asked[c].result = "refused"
  /\ out' = [out EXCEPT ![c] = <<<<"403">>>>] /\ pc' = [pc EXCEPT ![c] = "over"]
  /\ UNCHANGED <<up, reset, asked, environ, inside, ses, late>>

\* The parser finds no program, or a connection that has been reset, perhaps
\* after the status, has no remote endpoint: nobody catches that, and the
\* process ends.
Throw(c) ==
  /\ Due(c) /\ up' = FALSE
  /\ \/ asked[c].result = "exception" /\ UNCHANGED <<reset, out>>
     \/ asked[c].result = "accepted" /\ c \in reset /\ UNCHANGED <<reset, out>>
     \/ /\ asked[c].result = "accepted" /\ c \notin reset
        /\ reset' = reset \cup {c} /\ out' = [out EXCEPT ![c] = <<<<"200">>>>]
  /\ UNCHANGED <<pc, asked, environ, inside, ses, late>>

Accepted(c) == Due(c) /\ asked[c].result = "accepted" /\ c \notin reset

\* Fault: a variable that the process has already is left as it is.
FaultSetCgiEnv(query) == environ' = IF environ = << >> THEN query ELSE environ

SetCgiEnv(query) == environ' = query

\* The form, and the frame of a console: one column for each session.
PanelPage == <<"panel">>
Frame(columns) == <<"frame", columns>>

\* /panel.cgi is the page with the form; another program is no page at all.
Panel(c) ==
  /\ Accepted(c) /\ asked[c].cgi # "/console.cgi"
  /\ SetCgiEnv(asked[c].query)
  /\ IF asked[c].cgi = "/panel.cgi"
     THEN \E page \in Taken(PanelPage) : out' = [out EXCEPT ![c] = <<<<"200">>, page>>]
     ELSE out' = [out EXCEPT ![c] = <<<<"200">>>>]
  /\ pc' = [pc EXCEPT ![c] = "over"]
  /\ UNCHANGED <<up, reset, asked, inside, ses, late>>

\* console_main: one session for each valid slot, and the frame of the page.
Console(c) ==
  /\ Accepted(c) /\ asked[c].cgi = "/console.cgi"
  /\ SetCgiEnv(asked[c].query)
  /\ LET columns == Columns(ParseQueryString(environ').slots) IN
     /\ \E page \in Taken(Frame(columns)) :
          out' = [out EXCEPT ![c] = <<<<"200">>, page>>]
     /\ ses' = [k \in Session |-> IF k <= Len(columns) THEN Fresh(columns[k]) ELSE Unused]
  /\ inside' = c
  /\ UNCHANGED <<up, client, late>>

\* The inner io_context has no work left, and its sessions are gone.
Return(c) ==
  /\ up /\ inside = c /\ \A k \in Session : ses[k].pc = "over"
  /\ inside' = NoClient /\ pc' = [pc EXCEPT ![c] = "over"]
  /\ ses' = [k \in Session |-> Unused] /\ late' = FALSE
  /\ UNCHANGED <<up, reset, asked, environ, out>>

-----------------------------------------------------------------------------
(* The sessions of a console.                                               *)

server == <<up, client, environ, inside, out>>

\* Session k goes on as s.
To(k, s) == up /\ inside # NoClient /\ ses' = [ses EXCEPT ![k] = s]

\* The handler of the lookup copies a shared_ptr that went out of scope (line
\* 283): it is still there, or what lies there ends the process.
Resolve(k) ==
  /\ ses[k].pc = "resolve" /\ up
  /\ \/ \E s \in {[ses[k] EXCEPT !.pc = "connect"], Over(ses[k])} :
          To(k, s) /\ UNCHANGED <<server, late>>
     \/ /\ up' = FALSE /\ ses' = [j \in Session |-> Over(ses[j])]
        /\ UNCHANGED <<client, environ, inside, out, late>>

Connect(k) ==
  /\ ses[k].pc = "connect"
  /\ \E s \in {[ses[k] EXCEPT !.pc = "read"], Over(ses[k])} : To(k, s)
  /\ UNCHANGED <<server, late>>

\* do_cl_write: session k goes on as s and shows the units.  After a script that
\* was not taken at once nothing is said of what the client sees.
Show(k, s, units) ==
  \E taken \in BOOLEAN :
    /\ late' = (late \/ ~taken)
    /\ To(k, [s EXCEPT !.page = IF late' THEN @ ELSE @ \o units])

DoRead(k) ==
  LET s == ses[k] IN
  /\ s.pc = "read"
  /\ \E n \in 1 .. BufLen :
       /\ n <= Len(s.stream)
       /\ LET units == SubSeq(s.stream, 1, n) IN
          Show(k, [s EXCEPT !.missed = @ \/ At(k)!Cuts(n),
                            !.stream = SubSeq(@, n + 1, Len(@)),
                            !.pc = IF At(k)!HasPrompt(units) THEN "write" ELSE "read"], units)
  /\ UNCHANGED server

\* Fault: a read that fails is started again.
FaultReadEof(k) ==
  /\ ses[k].pc = "read" /\ ses[k].stream = << >> /\ ses[k].shell = "gone"
  /\ To(k, ses[k]) /\ UNCHANGED <<server, late>>

ReadEof(k) ==
  /\ ses[k].pc = "read" /\ ses[k].stream = << >> /\ ses[k].shell = "gone"
  /\ To(k, Over(ses[k])) /\ UNCHANGED <<server, late>>

DoWrite(k) ==
  LET s == ses[k] IN
  /\ s.pc = "write"
  /\ \/ s.sent < FileLines /\ s.shell # "gone" /\ To(k, [s EXCEPT !.sent = @ + 1, !.pc = "shown"])
     \/ (s.sent = FileLines \/ s.shell = "gone") /\ To(k, Over(s))
  /\ UNCHANGED <<server, late>>

Shown(k) ==
  /\ ses[k].pc = "shown"
  /\ Show(k, [ses[k] EXCEPT !.pc = "read"], <<<<"cmd", ses[k].sent>>>>)
  /\ UNCHANGED server

Plays(k) == Resolve(k) \/ Connect(k) \/ DoRead(k) \/ ReadEof(k) \/ DoWrite(k) \/ Shown(k)

\* The remote shell: external, as in Console.
Shell(k) ==
  LET s == ses[k] IN
  /\ \/ /\ s.shell = "busy" /\ s.pc \in {"read", "write", "shown"}
        /\ \E o \in Outputs :
             To(k, [s EXCEPT !.shell = "prompt", !.lured = @ \/ At(k)!Lures(o),
                     !.stream = @ \o [i \in 1 .. Len(o) + 2 |->
                                        <<(o \o <<"%", " ">>)[i], s.ran>>]])
     \/ /\ s.shell = "prompt" /\ s.ran < s.sent
        /\ \E to \in {"busy"} \cup (IF s.ran + 1 = FileLines THEN {"gone"} ELSE {}) :
             To(k, [s EXCEPT !.ran = @ + 1, !.shell = to])
  /\ UNCHANGED <<server, late>>

Lose(k) ==
  /\ ses[k].pc # "over" /\ ses[k].shell # "gone"
  /\ To(k, [ses[k] EXCEPT !.shell = "gone"]) /\ UNCHANGED <<server, late>>

-----------------------------------------------------------------------------
Handler(c) ==
  \/ Accept(c) \/ ReadFails(c) \/ Refuse(c) \/ Throw(c) \/ Panel(c) \/ Console(c) \/ Return(c)

Next ==
  \/ \E c \in Clients : Dial(c) \/ Reset(c) \/ Handler(c)
  \/ \E k \in Session : Plays(k) \/ Shell(k) \/ Lose(k)

(* Both io_contexts run every handler that is due, and the remote shells go  *)
(* on.                                                                       *)
Spec ==
  /\ Init /\ [][Next]_vars
  /\ \A c \in Clients : WF_vars(Handler(c))
  /\ \A k \in Session : WF_vars(Plays(k)) /\ WF_vars(Shell(k))

-----------------------------------------------------------------------------
(* The console a client is shown is that of its own query, although the      *)
(* query goes through the one environment of the process: the frame and the  *)
(* sessions are those of the slots with no empty parameter, in their order.  *)
(* And each column reads as its session went, unless a script was not taken  *)
(* at once or an output of its shell held "% " (http_server_win.cpp:88,      *)
(* 144-157, 208, 247-296).                                                   *)
Wanted(c) ==
  Ascending({i \in Slot :
    \A j \in DOMAIN asked[c].query : asked[c].query[j].num = i => asked[c].query[j].value # ""})

OwnConsole ==
  /\ inside # NoClient =>
       /\ \A k \in 1 .. Len(Wanted(inside)) : ses[k].slot = Wanted(inside)[k]
       /\ out[inside][2] \in {<<"?">>, <<"frame", Wanted(inside)>>}
  /\ \A k \in Session : late \/ At(k)!Transcript

(* Who has asked is answered, however many consoles come before; for good    *)
(* only the console of another client holds the server, in a session that    *)
(* overlooked a prompt cut in two, or the server is down                     *)
(* (http_server_win.cpp:88, 298).                                            *)
Overlooked(k) == ses[k].missed /\ ses[k].pc = "read"

Served ==
  \A c \in Clients :
    asked[c] # NoRequest ~>
      \/ pc[c] = "over" \/ inside = c \/ ~up
      \/ [](inside # NoClient /\ \E k \in Session : Overlooked(k))
=============================================================================

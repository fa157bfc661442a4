------------------------------ MODULE HttpServer ------------------------------
(***************************************************************************)
(* The CGI server of project 3 (np_project3/http_server.cpp): one process  *)
(* runs the handlers one after the other; a request that is accepted is    *)
(* answered with "200 OK" and handed to a program in a child process, with *)
(* the client's socket on its descriptors 0 to 2 and the request in its    *)
(* environment.                                                            *)
(*                                                                         *)
(* Descriptor numbers are modelled: the parent closes the number of the    *)
(* socket after the fork (line 95), and the socket object closes the same  *)
(* number when the session ends, after the handler of the write of the     *)
(* status.  In between the number may have gone to another connection, so  *)
(* a session reads from and writes to whoever is behind its number then.   *)
(*                                                                         *)
(* So is the order of asio's queue.  async_accept, async_read_some and     *)
(* async_write try their system call at once and, when it has something,   *)
(* put their handler at the end of the queue; else the reactor puts the    *)
(* descriptor there when it is ready, and the call is made in its turn.    *)
(*                                                                         *)
(* A session reads ONCE.  data_ is not initialised and is read as a string *)
(* without an end: what an earlier session left there follows the words    *)
(* that have arrived.                                                      *)
(***************************************************************************)
EXTENDS RequestParser, FiniteSets

CONSTANTS
  Conns,      \* connections that clients make
  NoConn,     \* not a connection; in the queue: the acceptor
  Requests,   \* what a client may ask, as sequences of words
  Piece,      \* the words of a request that may arrive without the rest
  Programs,   \* the programs that exist
  ProcLimit   \* processes the server may have

ASSUME HttpServerAssumption ==
  /\ IsFiniteSet(Conns) /\ NoConn \notin Conns /\ ProcLimit \in Nat \ {0}
  /\ Piece \in Nat \ {0} /\ Requests \subseteq Seq(Words)

Fds == 1 .. Cardinality(Conns)

VARIABLES
  up,       \* the server runs
  acceptor, \* armed; taken: its handler is due; rearm: its handler is at do_accept
  queue,    \* the sessions with a handler or a descriptor due, in order
  pc,       \* connection -> how far the server is with it and its session
  net,      \* connection -> open, closed or reset by its client
  asked,    \* connection -> what its client sends
  sent,     \* connection -> words of it that have arrived
  got,      \* connection -> words of it that have been read
  table,    \* descriptor number -> the connection behind it in the server
  fd,       \* connection -> the number its session's socket holds, 0: none
  heard,    \* session -> what it has read: from whom, which words, the parser's verdict
  job,      \* session -> the child process for it: client, program and query
  holds,    \* session -> the connections its child has open
  out,      \* connection -> what has been written to it
  hit       \* history: connections closed at the end of another one's session

client == <<net, asked, sent>>
child == <<job, holds>>
vars == <<up, acceptor, queue, pc, client, got, table, fd, heard, child, out, hit>>

Nothing == [from |-> NoConn, after |-> 0, upto |-> 0, says |-> [result |-> "none"]]
NoJob == [state |-> "none", to |-> NoConn]
Running(c) == job[c].state = "running"
Children == {c \in Conns : Running(c)}

\* Its handler or its descriptor is in the queue; its handler is running.
Due     == {"accepted", "ready", "failed", "read", "written"}
Handled == {"status", "fork"}

TypeOK ==
  /\ up \in BOOLEAN /\ acceptor \in {"armed", "taken", "rearm"}
  /\ queue \in Seq(Conns \cup {NoConn})
  /\ pc \in [Conns -> {"away", "queued", "waiting", "over"} \cup Due \cup Handled]
  /\ net \in [Conns -> {"open", "closed", "reset"}]
  /\ \A c \in Conns : asked[c] \in Requests \cup {<< >>} /\ sent[c] \in 0 .. Len(asked[c])
  /\ got \in [Conns -> Nat]
  /\ table \in [Fds -> Conns \cup {NoConn}]
  /\ fd \in [Conns -> Fds \cup {0}]
  /\ \A c \in Conns : heard[c].from \in Conns \cup {NoConn} /\ heard[c].upto \in Nat
  /\ \A c \in Conns : job[c].state \in {"none", "running", "ended"}
  /\ Cardinality(Children) <= ProcLimit
  /\ holds \in [Conns -> SUBSET Conns]
  /\ hit \subseteq Conns

\* The socket listens, and do_accept is about to be called.
Init ==
  /\ up = TRUE /\ acceptor = "rearm" /\ queue = << >> /\ pc = [c \in Conns |-> "away"]
  /\ net = [c \in Conns |-> "open"] /\ asked = [c \in Conns |-> << >>]
  /\ sent = [c \in Conns |-> 0] /\ got = sent
  /\ table = [n \in Fds |-> NoConn] /\ fd = sent
  /\ heard = [c \in Conns |-> Nothing]
  /\ job = [c \in Conns |-> NoJob] /\ holds = [c \in Conns |-> {}]
  /\ out = [c \in Conns |-> << >>] /\ hit = {}

-----------------------------------------------------------------------------
(* The clients: external.                                                   *)

Dial(c) ==
  /\ up /\ pc[c] = "away" /\ pc' = [pc EXCEPT ![c] = "queued"]
  /\ \E r \in Requests : asked' = [asked EXCEPT ![c] = r]
  /\ UNCHANGED <<up, acceptor, queue, net, sent, got, table, fd, heard, child, out, hit>>

Send(c) ==
  /\ pc[c] # "away" /\ net[c] = "open" /\ sent[c] < Len(asked[c])
  /\ \E n \in {sent[c] + Piece, Len(asked[c])} :
       n <= Len(asked[c]) /\ sent' = [sent EXCEPT ![c] = n]
  /\ UNCHANGED <<up, acceptor, queue, pc, net, asked, got, table, fd, heard, child, out, hit>>

\* The client closes its side; or the connection is reset, also because a client
\* that has closed is written to.
Leave(c) ==
  /\ pc[c] # "away"
  /\ \/ net[c] = "open" /\ net' = [net EXCEPT ![c] = "closed"]
     \/ net[c] # "reset" /\ net' = [net EXCEPT ![c] = "reset"]
  /\ UNCHANGED <<up, acceptor, queue, pc, asked, sent, got, table, fd, heard, child, out, hit>>

-----------------------------------------------------------------------------
(* The queue.  A handler runs to its end before the next entry is taken.    *)

AtRest == up /\ acceptor # "rearm" /\ \A c \in Conns : pc[c] \notin Handled

\* Fault: a handler runs whenever it is due, as with a thread for each.
FaultTurn(c) == up /\ acceptor # "rearm" /\ queue # << >>

Turn(c) == AtRest /\ queue # << >> /\ c = Head(queue)

\* Who is behind the number of session c now.
Behind(c) == table[fd[c]]

Unread(b) == sent[b] > got[b]

\* Something is behind c's number to read, or no more, or nobody.
Readable(c) == LET b == Behind(c) IN b # NoConn => Unread(b) \/ net[b] # "open"

Backlog == {c \in Conns : pc[c] = "queued"}

\* The reactor finds the acceptor ready, or the descriptor of a session.  A
\* session whose number was closed may be told too: what the reactor keeps of
\* an earlier connection that a program has open can stand for it.
PollAcceptor ==
  /\ AtRest /\ Backlog # {} /\ \A i \in DOMAIN queue : queue[i] # NoConn
  /\ queue' = Append(queue, NoConn)
  /\ UNCHANGED <<up, acceptor, pc, client, got, table, fd, heard, child, out, hit>>

Poll(c) ==
  /\ AtRest /\ pc[c] = "waiting" /\ Readable(c)
  /\ pc' = [pc EXCEPT ![c] = "ready"] /\ queue' = Append(queue, c)
  /\ UNCHANGED <<up, acceptor, client, got, table, fd, heard, child, out, hit>>

-----------------------------------------------------------------------------
(* System calls.                                                            *)

Write(b, what) ==
  out' = [out EXCEPT ![b] = IF net[b] = "reset" THEN @ ELSE Append(@, what)]

\* close(n) by the session of c: whoever is behind the number is closed.
Closed(c) == table' = [table EXCEPT ![fd[c]] = NoConn]

\* The kernel gives the lowest number that is free.
Lowest(n) == table[n] = NoConn /\ \A k \in Fds : k < n => table[k] # NoConn

\* accept gives connection c, that was waiting for it, a number.
Number(c) ==
  /\ pc[c] = "queued"
  /\ \E n \in Fds : /\ Lowest(n)
                    /\ table' = [table EXCEPT ![n] = c]
                    /\ fd' = [fd EXCEPT ![c] = n]

\* What data_ holds beyond n words: nothing, or what another request left.
Beyond(n) == {<< >>} \cup {SubSeq(r, n + 1, Len(r)) : r \in Requests}

\* What the parser may say of the words m + 1 to n of q.
Verdicts ==
  [q \in Requests |-> [m \in 0 .. Len(q) |-> [n \in m + 1 .. Len(q) |->
     {ParseHttpHeader(SubSeq(q, m + 1, n) \o rest) : rest \in Beyond(n - m)}]]]

\* read, with b behind the number of session c, takes what has arrived;
Take(c, b) ==
  /\ b # NoConn /\ Unread(b)
  /\ pc' = [pc EXCEPT ![c] = "read"]
  /\ \E v \in Verdicts[asked[b]][got[b]][sent[b]] :
       heard' = [heard EXCEPT ![c] = [from |-> b, after |-> got[b], upto |-> sent[b], says |-> v]]
  /\ got' = [got EXCEPT ![b] = sent[b]]

\* or fails, at the end of what a client sent or on a closed number;
Fail(c, b) ==
  /\ b # NoConn => ~Unread(b) /\ net[b] # "open"
  /\ pc' = [pc EXCEPT ![c] = "failed"]
  /\ UNCHANGED <<got, heard>>

\* or would block, and is left to the reactor.
Wait(c, b) ==
  /\ b # NoConn /\ ~Unread(b) /\ net[b] = "open"
  /\ pc' = [pc EXCEPT ![c] = "waiting"]
  /\ UNCHANGED <<got, heard>>

-----------------------------------------------------------------------------
(* The acceptor.                                                            *)

\* The handler of accept: the session starts with its first and only read.
Start(c) ==
  /\ acceptor' = "rearm"
  /\ \/ (Take(c, c) \/ Fail(c, c)) /\ queue' = Append(Tail(queue), c)
     \/ Wait(c, c) /\ queue' = Tail(queue)

\* The acceptor was ready: accept is called now, and its handler follows.
AcceptReady(c) ==
  /\ Turn(NoConn) /\ acceptor = "armed" /\ Number(c) /\ Start(c)
  /\ UNCHANGED <<up, client, child, out, hit>>

\* It was, but accept has been called since.
AcceptedSince ==
  /\ Turn(NoConn) /\ (acceptor = "armed" => Backlog = {}) /\ queue' = Tail(queue)
  /\ UNCHANGED <<up, acceptor, pc, client, got, table, fd, heard, child, out, hit>>

\* The session ends and its socket closes the number it was made with.
End(c) ==
  /\ pc' = [pc EXCEPT ![c] = "over"] /\ queue' = Tail(queue)
  /\ Closed(c) /\ hit' = hit \cup ({Behind(c)} \ {c, NoConn})
  /\ UNCHANGED <<got, heard>>

\* The handler of a call that had a connection at once.  One whose number was
\* closed in the meantime cannot be registered with the reactor.
Accept(c) ==
  /\ Turn(c) /\ pc[c] = "accepted"
  /\ \/ Behind(c) = c /\ Start(c) /\ UNCHANGED <<table, hit>>
     \/ Behind(c) # c /\ End(c) /\ acceptor' = "rearm"
  /\ UNCHANGED <<up, client, fd, child, out>>

\* do_accept calls accept for the next connection, if there is one.
AcceptNext(c) ==
  /\ up /\ acceptor = "rearm" /\ Number(c)
  /\ acceptor' = "taken" /\ pc' = [pc EXCEPT ![c] = "accepted"] /\ queue' = Append(queue, c)
  /\ UNCHANGED <<up, client, got, heard, child, out, hit>>

Arm ==
  /\ up /\ acceptor = "rearm" /\ Backlog = {} /\ acceptor' = "armed"
  /\ UNCHANGED <<up, queue, pc, client, got, table, fd, heard, child, out, hit>>

-----------------------------------------------------------------------------
(* The sessions.                                                            *)

\* The descriptor was ready: the read is made now, and its handler follows.
Read(c) ==
  /\ Turn(c) /\ pc[c] = "ready"
  /\ LET b == Behind(c) IN
     \/ (Take(c, b) \/ Fail(c, b)) /\ UNCHANGED queue
     \/ Wait(c, b) /\ queue' = Tail(queue)
  /\ UNCHANGED <<up, acceptor, client, table, fd, child, out, hit>>

\* An exception that no handler catches ends io_context.run and the process;
\* the children go on.
Down ==
  /\ up' = FALSE /\ table' = [n \in Fds |-> NoConn]
  /\ UNCHANGED <<acceptor, queue, pc, client, got, fd, heard, child, out, hit>>

\* The status is written to whoever is behind the number, and the handler of the
\* write is due.
Status(c, code) ==
  /\ IF Behind(c) = NoConn THEN UNCHANGED out ELSE Write(Behind(c), <<code>>)
  /\ queue' = Append(Tail(queue), c)
  /\ UNCHANGED <<up, acceptor, client, got, table, fd, heard, child, hit>>

\* Fault: a request that is refused is not answered.
FaultRefuse(c) ==
  /\ Turn(c) /\ pc[c] = "read" /\ heard[c].says.result = "refused"
  /\ pc' = [pc EXCEPT ![c] = "written"] /\ queue' = Append(Tail(queue), c)
  /\ UNCHANGED <<up, acceptor, client, got, table, fd, heard, child, out, hit>>

Refuse(c) ==
  /\ Turn(c) /\ pc[c] = "read" /\ heard[c].says.result = "refused"
  /\ pc' = [pc EXCEPT ![c] = "written"] /\ Status(c, "403")

\* The parser throws on a uri without a program.
Throw(c) ==
  /\ Turn(c) /\ pc[c] = "read" /\ heard[c].says.result = "exception"
  /\ Down

Welcome(c) ==
  /\ Turn(c) /\ pc[c] = "read" /\ heard[c].says.result = "accepted"
  /\ pc' = [pc EXCEPT ![c] = "status"] /\ Status(c, "200")

\* Fault: a client that has closed its side is taken for one that is gone.
FaultEndpoints(c) ==
  /\ up /\ pc[c] = "status"
  /\ \/ Behind(c) = NoConn /\ Down
     \/ Behind(c) # NoConn /\ net[Behind(c)] # "open" /\ Down
     \/ /\ Behind(c) # NoConn /\ net[Behind(c)] = "open"
        /\ pc' = [pc EXCEPT ![c] = "fork"]
        /\ UNCHANGED <<up, acceptor, queue, client, got, table, fd, heard, child, out, hit>>

\* local_endpoint() throws on a closed number, remote_endpoint() also on a
\* connection that has been reset, perhaps just now.
Endpoints(c) ==
  /\ up /\ pc[c] = "status"
  /\ \/ Behind(c) = NoConn /\ Down
     \/ Behind(c) # NoConn /\ net[Behind(c)] = "reset" /\ Down
     \/ /\ Behind(c) # NoConn /\ net[Behind(c)] # "reset"
        /\ pc' = [pc EXCEPT ![c] = "fork"]
        /\ UNCHANGED <<up, acceptor, queue, client, got, table, fd, heard, child, out, hit>>

\* What the program will find on its descriptors and in its environment.
CgiEnv(c) ==
  [state |-> "running", to |-> Behind(c), cgi |-> heard[c].says.cgi, query |-> heard[c].says.query]

\* Fault: fork is taken to succeed always.
FaultFork(c) ==
  /\ up /\ pc[c] = "fork"
  /\ job' = [job EXCEPT ![c] = CgiEnv(c)]
  /\ holds' = [holds EXCEPT ![c] = {table[n] : n \in Fds} \ {NoConn}]
  /\ pc' = [pc EXCEPT ![c] = "written"] /\ Closed(c)
  /\ UNCHANGED <<up, acceptor, queue, client, got, fd, heard, out, hit>>

\* The child has every connection open that the parent has; the parent closes
\* its number.  At the limit fork is tried again after a child has ended.
Fork(c) ==
  /\ up /\ pc[c] = "fork" /\ Cardinality(Children) < ProcLimit
  /\ job' = [job EXCEPT ![c] = CgiEnv(c)]
  /\ holds' = [holds EXCEPT ![c] = {table[n] : n \in Fds} \ {NoConn}]
  /\ pc' = [pc EXCEPT ![c] = "written"] /\ Closed(c)
  /\ UNCHANGED <<up, acceptor, queue, client, got, fd, heard, out, hit>>

\* Fault: the session holds a reference to itself and is never let go.
FaultWritten(c) ==
  /\ Turn(c) /\ pc[c] \in {"written", "failed"}
  /\ pc' = [pc EXCEPT ![c] = "over"] /\ queue' = Tail(queue)
  /\ UNCHANGED <<up, acceptor, client, got, table, fd, heard, child, out, hit>>

\* The handler of the write, or of a read that failed, lets the session go.
Written(c) ==
  /\ Turn(c) /\ pc[c] \in {"written", "failed"} /\ End(c)
  /\ UNCHANGED <<up, acceptor, client, fd, child, out>>

-----------------------------------------------------------------------------
(* A program writes its page and ends; one that does not exist only ends.    *)
Run(c) ==
  /\ Running(c)
  /\ job' = [job EXCEPT ![c].state = "ended"] /\ holds' = [holds EXCEPT ![c] = {}]
  /\ IF job[c].cgi \in Programs THEN Write(job[c].to, <<job[c].cgi, job[c].query>>)
     ELSE UNCHANGED out
  /\ UNCHANGED <<up, acceptor, queue, pc, client, got, table, fd, heard, hit>>

Client(c) == Dial(c) \/ Send(c) \/ Leave(c)
Reply(c) == Refuse(c) \/ Throw(c) \/ Welcome(c)
Handler(c) == Accept(c) \/ Read(c) \/ Reply(c) \/ Endpoints(c) \/ Fork(c) \/ Written(c)

\* do_accept, with the call that the reactor makes for it.
Acceptor == AcceptedSince \/ Arm \/ \E c \in Conns : AcceptReady(c) \/ AcceptNext(c)

Next ==
  \/ PollAcceptor \/ Acceptor
  \/ \E c \in Conns : Client(c) \/ Poll(c) \/ Handler(c) \/ Run(c)

(* io_context.run polls the descriptors and takes what is due in its order,  *)
(* and a program comes to its end.  The reactor need not tell a session of a *)
(* number that is no longer its own.                                         *)
Spec ==
  /\ Init /\ [][Next]_vars
  /\ WF_vars(PollAcceptor) /\ WF_vars(Acceptor)
  /\ \A c \in Conns :
       /\ WF_vars(Poll(c) /\ Behind(c) = c) /\ WF_vars(Handler(c)) /\ WF_vars(Run(c))

-----------------------------------------------------------------------------
(* Nobody is answered whose words no session has read; and a client whose    *)
(* request was read in one piece gets its own answer and nothing else: 403   *)
(* or 200, then the page of the program its uri names, run with its query,   *)
(* although sessions write to whoever is behind their number.  The answer is *)
(* 200 exactly if the request is well formed; what lies in the buffer behind *)
(* it makes no difference unless it was too short (http_server.cpp:42-49,    *)
(* 59-85, 95).                                                               *)
Whole(c) ==
  \E s \in Conns : heard[s].from = c /\ heard[s].after = 0 /\ heard[s].upto = Len(asked[c])

OwnPage ==
  \A c \in Conns : out[c] # << >> =>
    /\ got[c] > 0
    /\ Whole(c) =>
         /\ out[c][1] \in {<<"200">>, <<"403">>} /\ Len(out[c]) <= 2
         /\ Len(out[c]) = 2 => out[c][1] = <<"200">>
    /\ Whole(c) /\ Len(asked[c]) >= 5 =>
         /\ out[c][1] = <<"200">> <=> WellFormed(asked[c])
         /\ Len(out[c]) = 2 => Page(asked[c][2].parts, out[c][2])

(* Nobody's connection ends without an answer, but a client's that left, one *)
(* that another session closed, and everybody's when the server goes down.   *)
Ended(c) ==
  /\ pc[c] \notin {"away", "queued"}
  /\ \A n \in Fds : table[n] # c
  /\ \A d \in Conns : c \notin holds[d]

AnsweredFirst ==
  \A c \in Conns : Ended(c) => out[c] # << >> \/ net[c] # "open" \/ c \in hit \/ ~up

(* A client that has been promised its page is not cut off: the number that  *)
(* a session closes a second time is never that of a connection which has    *)
(* been told 200 (http_server.cpp:45, 95).                                   *)
NeverCutOff == \A c \in hit : <<"200">> \notin ToSet(out[c])

(* The server goes down only in the handler of a read, over a uri of         *)
(* question marks, or over a client it cannot name: one that has been reset, *)
(* or one whose number another session has closed since it was read          *)
(* (http_server.cpp:47, 50, request_parser.cpp:113).                         *)
NoProgram(c) == \A p \in ToSet(asked[c][2].parts) : p = ""

Survives ==
  ~up => \E c \in Conns : LET b == heard[c].from IN
           /\ b # NoConn /\ pc[c] \in {"read", "status"}
           /\ \/ net[b] = "reset" \/ b \in hit
              \/ \E d \in Conns : d # c /\ job[d].to = b
              \/ pc[c] = "read" /\ (heard[c].after = 0 /\ heard[c].upto > 1 => NoProgram(b))

(* A request is dealt with: its connection is closed by the server and by    *)
(* every program that inherited it, also at the process limit, unless the    *)
(* server goes down.                                                         *)
Served == \A c \in Conns : up /\ sent[c] > 0 ~> Ended(c) \/ ~up
=============================================================================

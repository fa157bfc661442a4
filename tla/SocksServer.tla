----------------------------- MODULE SocksServer -----------------------------
(***************************************************************************)
(* The SOCKS 4 server up to the relay (np_project4/socks_server.cpp): the  *)
(* parent accepts and forks a process per client; the process reads one    *)
(* request, looks the destination up, asks the firewall, and becomes a     *)
(* connect_session, which looks the destination up again and connects, or  *)
(* a bind_session, which listens and accepts one connection.               *)
(*                                                                         *)
(* An exception that leaves a handler ends the process: main catches it.   *)
(***************************************************************************)
EXTENDS Integers, Sequences

CONSTANTS
  Conns,     \* the clients
  Addrs,     \* the IPv4 addresses
  AnyAddr,   \* 0.0.0.0: what a lookup without an IPv4 answer leaves
  NoAddr,    \* no address: the lookup fails, or nobody is connected
  Names,     \* destinations: domain names, and addresses in text
  Answers,   \* Answers[n]: the first IPv4 addresses a lookup of n may give
  HasConf,   \* is there a socks.conf
  Rules,     \* its rules: whether to permit, the operation, the addresses
  RunsOut    \* may the parent run out of descriptors or processes

Cds == {1, 2, 3}  \* CONNECT, BIND, anything else
Request == [cd : Cds, dst : Names]

ASSUME SocksServerAssumption ==
  /\ AnyAddr \notin Addrs /\ NoAddr \notin Addrs \cup {AnyAddr}
  /\ Answers \in [Names -> SUBSET (Addrs \cup {AnyAddr, NoAddr})]
  /\ Rules \in Seq([permit : BOOLEAN, cd : {1, 2}, addrs : SUBSET (Addrs \cup {AnyAddr})])
  /\ HasConf \in BOOLEAN /\ RunsOut \in BOOLEAN

VARIABLES
  listening,  \* the parent's acceptor is armed
  pc,         \* what each client's connection has come to
  req,        \* the request of each client
  target,     \* the address connect_session connects to
  peer,       \* the address at the other end of the relay
  replies     \* the reply codes sent to each client

vars == <<listening, pc, req, target, peer, replies>>

Init ==
  /\ listening = TRUE
  /\ pc = [c \in Conns |-> "away"]
  /\ \E r \in Request : req = [c \in Conns |-> r] /\ r.cd = 3
  /\ target = [c \in Conns |-> NoAddr] /\ peer = [c \in Conns |-> NoAddr]
  /\ replies = [c \in Conns |-> << >>]

Goto(c, l)  == pc' = [pc EXCEPT ![c] = l]
Reply(c, n) == replies' = [replies EXCEPT ![c] = Append(@, n)]

\* A client connects: external.  The kernel queues it while the parent listens.
Dial(c) ==
  /\ pc[c] = "away" /\ listening
  /\ Goto(c, "queued")
  /\ UNCHANGED <<listening, req, target, peer, replies>>

\* Fault: the acceptor is not armed again.
FaultAccept(c) ==
  /\ listening /\ pc[c] = "queued"
  /\ listening' = FALSE /\ Goto(c, "read")
  /\ UNCHANGED <<req, target, peer, replies>>

\* The child serves the client and closes its acceptor; the parent arms the
\* acceptor again.
Accept(c) ==
  /\ listening /\ pc[c] = "queued" /\ Goto(c, "read")
  /\ UNCHANGED <<listening, req, target, peer, replies>>

\* accept fails, with a client waiting or without, or fork fails after it: the
\* acceptor is not armed again, the parent has nothing left to do and exits, and
\* whoever waits is reset.
GiveUp ==
  /\ RunsOut /\ listening /\ listening' = FALSE
  /\ pc' = [c \in Conns |-> IF pc[c] = "queued" THEN "refused" ELSE pc[c]]
  /\ UNCHANGED <<req, target, peer, replies>>

\* Fault: a rule that matches and denies lets the search go on.
FaultCheckFirewall(cd, a) ==
  LET from[i \in 1 .. Len(Rules) + 1] ==
        /\ i <= Len(Rules)
        /\ \/ Rules[i].cd = cd /\ a \in Rules[i].addrs /\ Rules[i].permit
           \/ from[i + 1]
  IN  HasConf => from[1]

\* The rules are read in order; the first for the operation that matches the
\* address decides; no rule, no; no file, yes.
CheckFirewall(cd, a) ==
  LET from[i \in 1 .. Len(Rules) + 1] ==
        /\ i <= Len(Rules)
        /\ IF Rules[i].cd = cd /\ a \in Rules[i].addrs THEN Rules[i].permit
           ELSE from[i + 1]
  IN  HasConf => from[1]

\* The one read of the session, and its handler; or the client hangs up.  A
\* request that arrives in pieces is parsed after the first, whatever else data_
\* holds: that only changes which member of Request is read.
Read(c) ==
  /\ pc[c] = "read"
  /\ \/ Goto(c, "over") /\ UNCHANGED <<req, replies>>
     \/ \E r \in Request :
          /\ req' = [req EXCEPT ![c] = r]
          /\ \/ r.cd = 3 /\ Goto(c, "over") /\ UNCHANGED replies
             \/ /\ r.cd # 3
                /\ \E a \in Answers[r.dst] :
                     \/ a = NoAddr /\ Goto(c, "over") /\ UNCHANGED replies
                     \/ /\ a # NoAddr /\ ~CheckFirewall(r.cd, a)
                        /\ Goto(c, "over") /\ Reply(c, 91)
                     \/ /\ a # NoAddr /\ CheckFirewall(r.cd, a)
                        /\ Goto(c, IF r.cd = 1 THEN "resolve" ELSE "bound")
                        /\ UNCHANGED replies
  /\ UNCHANGED <<listening, target, peer>>

\* connect_session looks the name up again, asynchronously.
Resolve(c) ==
  /\ pc[c] = "resolve"
  /\ \E a \in Answers[req[c].dst] :
       IF a = NoAddr THEN Goto(c, "over") /\ UNCHANGED target
       ELSE Goto(c, "connect") /\ target' = [target EXCEPT ![c] = a]
  /\ UNCHANGED <<listening, req, peer, replies>>

\* Fault: a failed connection is answered like an established one.
FaultConnect(c) ==
  /\ pc[c] = "connect"
  /\ Goto(c, "reply") /\ Reply(c, 90)
  /\ peer' \in {peer, [peer EXCEPT ![c] = target[c]]}
  /\ UNCHANGED <<listening, req, target>>

\* Established: reply 90.  Refused: the handler sets cd = 91, but printMessage
\* asks for the address of a socket that is not connected, which throws, and
\* the process ends before the reply.  Nothing answers at 0.0.0.0, port 0.
Connect(c) ==
  /\ pc[c] = "connect"
  /\ \/ /\ target[c] # AnyAddr
        /\ peer' = [peer EXCEPT ![c] = target[c]]
        /\ Goto(c, "reply") /\ Reply(c, 90)
     \/ Goto(c, "over") /\ UNCHANGED <<peer, replies>>
  /\ UNCHANGED <<listening, req, target>>

\* bind_session listens on a free port and tells the client which.
Bind(c) ==
  /\ pc[c] = "bound"
  /\ Goto(c, "accept") /\ Reply(c, 90)
  /\ UNCHANGED <<listening, req, target, peer>>

\* The first to connect to the port is the peer; the second reply tells.
AcceptPeer(c) ==
  /\ pc[c] = "accept"
  /\ \E a \in Addrs : peer' = [peer EXCEPT ![c] = a]
  /\ Goto(c, "reply") /\ Reply(c, 90)
  /\ UNCHANGED <<listening, req, target>>

\* The reply is written and both loops start, or the client is away.
Replied(c) ==
  /\ pc[c] = "reply"
  /\ Goto(c, "relay") \/ Goto(c, "over")
  /\ UNCHANGED <<listening, req, target, peer, replies>>

Relayed(c) ==
  /\ pc[c] = "relay" /\ Goto(c, "over")
  /\ UNCHANGED <<listening, req, target, peer, replies>>

\* A client that is gone is noticed only where a read or a write is pending.
Session(c) == Resolve(c) \/ Connect(c) \/ Bind(c) \/ Replied(c)

Next ==
  \/ GiveUp
  \/ \E c \in Conns :
       Dial(c) \/ Accept(c) \/ Read(c) \/ Session(c) \/ AcceptPeer(c) \/ Relayed(c)

(* Every process runs its handlers; nobody has to send a request, connect  *)
(* to a bound port or hang up.                                              *)
Spec == Init /\ [][Next]_vars
             /\ \A c \in Conns : WF_vars(Accept(c)) /\ WF_vars(Session(c))

-----------------------------------------------------------------------------
(* A rule permits the operation on the address and none before it denies,  *)
(* or there are no rules.                                                  *)
Permitted(cd, a) ==
  \/ ~HasConf
  \/ \E i \in DOMAIN Rules :
       /\ Rules[i].permit /\ Rules[i].cd = cd /\ a \in Rules[i].addrs
       /\ \A j \in 1 .. i - 1 : Rules[j].cd = cd => a \notin Rules[j].addrs

(* socks_server.cpp:462 asks the firewall: a CONNECT request is relayed to  *)
(* an address that the rules permit, or of a name that has another address  *)
(* that they permit, for the name is looked up again after the check.       *)
PermittedOnly ==
  \A c \in Conns : pc[c] = "relay" /\ req[c].cd = 1 =>
    \/ Permitted(1, peer[c])
    \/ \E a \in Answers[req[c].dst] \ {NoAddr, peer[c]} : Permitted(1, a)

(* The codes tell what became of the request: 90 comes first only when the  *)
(* rules permit one of the destination's addresses, a client is in the      *)
(* relay after one 90 (CONNECT) or two (BIND) and nothing else, with a peer *)
(* at the other end, and a 91 is the only reply and the end.                *)
Truthful ==
  \A c \in Conns :
    /\ 90 \in {replies[c][i] : i \in DOMAIN replies[c]} =>
         \E a \in Answers[req[c].dst] \ {NoAddr} : Permitted(req[c].cd, a)
    /\ pc[c] = "relay" =>
         /\ peer[c] # NoAddr
         /\ replies[c] = IF req[c].cd = 1 THEN <<90>> ELSE <<90, 90>>
    /\ 91 \in {replies[c][i] : i \in DOMAIN replies[c]} =>
         replies[c] = <<91>> /\ pc[c] = "over"

(* Whatever the other sessions do or fail to do, nobody who connects is left *)
(* waiting: sessions live in processes of their own and the parent arms its *)
(* acceptor again, until it runs out of descriptors or processes, and then  *)
(* it exits and everybody who waits is told so (socks_server.cpp:630, 646). *)
Accepted == \A c \in Conns : pc[c] = "queued" ~> pc[c] # "queued"

(* socks_server.cpp:86, 88 "send sock4 reply", "print server message for    *)
(* connect operation", with cd = 91 set at line 79 when the connection      *)
(* fails: a client whose connection is being tried gets a reply.            *)
ConnectAnswered ==
  \A c \in Conns : pc[c] = "connect" ~> Len(replies[c]) > 0
=============================================================================

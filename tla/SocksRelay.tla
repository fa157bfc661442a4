----------------------------- MODULE SocksRelay -----------------------------
(***************************************************************************)
(* The relay of the SOCKS server (np_project4/socks_server.cpp,            *)
(* connect_session and bind_session): two loops of asynchronous calls, one *)
(* per direction, read from one socket and write to the other.             *)
(*                                                                         *)
(* Both loops use the one buffer data_.  A read puts its bytes there when  *)
(* the kernel has some, possibly as soon as it is started; its handler     *)
(* runs later and starts the write, which sends whatever data_ then holds, *)
(* as much at a time as the socket takes.                                  *)
(*                                                                         *)
(* A direction is named after the peer its bytes come from: "c", the       *)
(* client, or "s", the remote server.  A unit <<d, i>> is the i-th piece   *)
(* of data peer d sends.                                                   *)
(***************************************************************************)
EXTENDS Integers, Sequences

CONSTANTS
  BufLen,      \* units data_ holds
  MaxSent      \* bound: units a peer sends

ASSUME SocksRelayAssumption ==
  BufLen \in Nat \ {0} /\ MaxSent \in Nat

Peer == {"c", "s"}
Other(d) == CHOOSE p \in Peer : p # d
Unit == Peer \X (1 .. MaxSent)
NoUnit == <<"c", 0>>

VARIABLES
  sent,   \* units each peer has sent
  gone,   \* the peers that have closed
  taken,  \* units read from each peer
  data,   \* data_, shared by the directions
  phase,  \* reading, filled (read, handler not yet run), writing, written
          \* (handler not yet run), ended (end of file), dead (write failed)
  len,    \* length of the direction's read: what its write has to send
  off,    \* units of it sent
  out,    \* units that went out to the other peer
  cut,    \* sides the relay has shut: cut.recv from, cut.send to a peer
  crossed \* history: a peer has sent while the other's data was on its way

peerVars == <<sent, gone, crossed>>
vars == <<peerVars, taken, data, phase, len, off, out, cut>>

TypeOK ==
  /\ sent \in [Peer -> 0 .. MaxSent] /\ gone \subseteq Peer
  /\ taken \in [Peer -> 0 .. MaxSent]
  /\ data \in [1 .. BufLen -> Unit \cup {NoUnit}]
  /\ phase \in [Peer -> {"reading", "filled", "writing", "written", "ended", "dead"}]
  /\ len \in [Peer -> 0 .. BufLen] /\ off \in [Peer -> 0 .. BufLen]
  /\ out \in [Peer -> Seq(Unit)] /\ \A d \in Peer : off[d] <= len[d]
  /\ cut \in [recv : SUBSET Peer, send : SUBSET Peer] /\ crossed \in BOOLEAN

\* The reply 90 is out: do_echo_read and do_remote_read have been called.
Init ==
  /\ sent = [d \in Peer |-> 0] /\ gone = {} /\ taken = [d \in Peer |-> 0]
  /\ data = [i \in 1 .. BufLen |-> NoUnit]
  /\ phase = [d \in Peer |-> "reading"]
  /\ len = [d \in Peer |-> 0] /\ off = [d \in Peer |-> 0]
  /\ out = [d \in Peer |-> << >>]
  /\ cut = [recv |-> {}, send |-> {}] /\ crossed = FALSE

Closed == \A d \in Peer : phase[d] \in {"ended", "dead"}

-----------------------------------------------------------------------------
(* The peers: external. *)

Send(d) ==
  /\ sent[d] < MaxSent /\ d \notin gone
  /\ crossed' = (crossed \/ Len(out[Other(d)]) # sent[Other(d)])
  /\ sent' = [sent EXCEPT ![d] = @ + 1]
  /\ UNCHANGED <<gone, taken, data, phase, len, off, out, cut>>

Leave(d) ==
  /\ d \notin gone /\ gone' = gone \cup {d}
  /\ UNCHANGED <<sent, crossed, taken, data, phase, len, off, out, cut>>

-----------------------------------------------------------------------------
(* The relay. *)

\* Fault: the count of units sent is not reset.
FaultFill(d) ==
  /\ phase[d] = "reading" /\ taken[d] < sent[d]
  /\ \E n \in 1 .. BufLen :
       /\ n <= sent[d] - taken[d]
       /\ data' = [i \in 1 .. BufLen |-> IF i <= n THEN <<d, taken[d] + i>> ELSE data[i]]
       /\ len' = [len EXCEPT ![d] = n]
       /\ taken' = [taken EXCEPT ![d] = @ + n]
  /\ phase' = [phase EXCEPT ![d] = "filled"]
  /\ UNCHANGED <<peerVars, off, out, cut>>

\* The kernel gives the outstanding read n units.
Fill(d) ==
  /\ phase[d] = "reading" /\ taken[d] < sent[d]
  /\ \E n \in 1 .. BufLen :
       /\ n <= sent[d] - taken[d]
       /\ data' = [i \in 1 .. BufLen |-> IF i <= n THEN <<d, taken[d] + i>> ELSE data[i]]
       /\ len' = [len EXCEPT ![d] = n]
       /\ taken' = [taken EXCEPT ![d] = @ + n]
  /\ off' = [off EXCEPT ![d] = 0]
  /\ phase' = [phase EXCEPT ![d] = "filled"]
  /\ UNCHANGED <<peerVars, out, cut>>

\* Fault: the other socket is left alone at end of file.
FaultEnd(d) ==
  /\ phase[d] = "reading"
  /\ \/ taken[d] = sent[d] /\ (d \in gone \/ d \in cut.recv)
     \/ d \in gone /\ phase[Other(d)] = "dead"
  /\ phase' = [phase EXCEPT ![d] = "ended"]
  /\ cut' = [cut EXCEPT !.send = @ \cup {d}]
  /\ UNCHANGED <<peerVars, taken, data, len, off, out>>

\* End of file, or an error once a write has told that the peer is away: both
\* sockets are shut on the sides of the other direction.  When that one has
\* finished too the sockets are closed, here or with the session object.
End(d) ==
  /\ phase[d] = "reading"
  /\ \/ taken[d] = sent[d] /\ (d \in gone \/ d \in cut.recv)
     \/ d \in gone /\ phase[Other(d)] = "dead"
  /\ phase' = [phase EXCEPT ![d] = "ended"]
  /\ cut' = [send |-> cut.send \cup {d}, recv |-> cut.recv \cup {Other(d)}]
  /\ UNCHANGED <<peerVars, taken, data, len, off, out>>

\* The handler of the read starts the write of length units of data_.
StartWrite(d) ==
  /\ phase[d] = "filled"
  /\ phase' = [phase EXCEPT ![d] = "writing"]
  /\ UNCHANGED <<peerVars, taken, data, len, off, out, cut>>

\* Fault: one write_some in place of async_write.
FaultFlush(d) ==
  /\ phase[d] = "writing" /\ Other(d) \notin cut.send
  /\ \E n \in 1 .. len[d] - off[d] :
       /\ out' = [out EXCEPT ![d] = @ \o SubSeq(data, off[d] + 1, off[d] + n)]
       /\ off' = [off EXCEPT ![d] = @ + n]
  /\ phase' = [phase EXCEPT ![d] = "written"]
  /\ UNCHANGED <<peerVars, taken, data, len, cut>>

\* The socket takes n more units.
Flush(d) ==
  /\ phase[d] = "writing" /\ Other(d) \notin cut.send
  /\ \E n \in 1 .. len[d] - off[d] :
       /\ out' = [out EXCEPT ![d] = @ \o SubSeq(data, off[d] + 1, off[d] + n)]
       /\ off' = [off EXCEPT ![d] = @ + n]
       /\ phase' = [phase EXCEPT ![d] = IF off[d] + n = len[d] THEN "written" ELSE @]
  /\ UNCHANGED <<peerVars, taken, data, len, cut>>

\* The write fails: the relay shut that side, or the peer is away.  The
\* direction stops; no flag is set and nothing is shut.
FailWrite(d) ==
  /\ phase[d] = "writing"
  /\ Other(d) \in cut.send \cup gone
  /\ phase' = [phase EXCEPT ![d] = "dead"]
  /\ UNCHANGED <<peerVars, taken, data, len, off, out, cut>>

\* The handler of the write starts the next read.
NextRead(d) ==
  /\ phase[d] = "written"
  /\ phase' = [phase EXCEPT ![d] = "reading"]
  /\ UNCHANGED <<peerVars, taken, data, len, off, out, cut>>

Relay(d) == Fill(d) \/ End(d) \/ StartWrite(d) \/ Flush(d) \/ FailWrite(d) \/ NextRead(d)

\* The session is over: not a deadlock.
Over == Closed /\ UNCHANGED vars

Next == Over \/ \E d \in Peer : Send(d) \/ Leave(d) \/ Relay(d)

(* io_context.run executes every handler that is ready, and a peer that    *)
(* stays reads what it is sent.  Nobody has to send or to leave.            *)
Spec == Init /\ [][Next]_vars /\ \A d \in Peer : WF_vars(Relay(d))

-----------------------------------------------------------------------------
(* While the peers speak in turn, what goes out to a peer is a beginning of *)
(* what the other one sent: no byte lost in the middle, repeated, or from   *)
(* the wrong direction (socks_server.cpp: do_remote_write, do_echo_write).  *)
Intact ==
  ~crossed => \A d \in Peer : \A i \in 1 .. Len(out[d]) : out[d][i] = <<d, i>>

(* socks_server.cpp:155: "write data read from client to remote server":    *)
(* what goes out to the server was read from the client.                    *)
FromClient == \A i \in 1 .. Len(out["c"]) : out["c"][i][1] = "c"

(* When peers that speak in turn have come to the end of the session, one   *)
(* has closed and the other has stayed, all that the first had sent has     *)
(* gone out to the other.  (When they do not, a write to the peer that has  *)
(* closed may fail first and a reset discard what it had sent.)             *)
LastWord ==
  \A d \in Peer : Closed /\ gone = {d} /\ ~crossed => Len(out[d]) = sent[d]

(* One peer closing ends the session, even if the other never closes: both  *)
(* loops finish and the sockets are closed.                                 *)
Teardown == \A d \in Peer : d \in gone ~> Closed
=============================================================================

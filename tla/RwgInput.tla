------------------------------- MODULE RwgInput -------------------------------
(***************************************************************************)
(* How lines typed by the clients of the single-process server reach the   *)
(* shell (np_single_proc_server.cpp:83-180, npShell_single_proc.cpp:44).   *)
(*                                                                         *)
(* The server selects, and serves the ready clients in the order of their  *)
(* descriptors: it puts the client's socket on descriptor 0 and calls      *)
(* fgets(stdin).  stdin has ONE buffer, filled with all that the socket    *)
(* holds; what a line leaves over is there for the next turn, whoever's it *)
(* is.  fgets blocks, and everybody with it, when a line is incomplete; so *)
(* does waitpid while the command runs.                                    *)
(*                                                                         *)
(* A line arrives whole, or in a head and a tail (two TCP segments).  The  *)
(* clients are logged in throughout; login and exit are in RwgServer.      *)
(***************************************************************************)
EXTENDS Integers, Sequences, SequencesExt

CONSTANTS
  Clients,   \* the descriptors of the clients, in the order of the scan
  MaxTyped,  \* bound: lines each client types
  MaxBurst   \* bound: burst

ASSUME RwgInputAssumption ==
  /\ Clients \subseteq Nat
  /\ MaxTyped \in Nat /\ MaxBurst \in Nat \ {0}

VARIABLES
  burst,   \* lines a client sends before it has the prompt for the first
  sent,    \* client -> lines it has completed
  half,    \* client -> it has sent the head of the next line
  sock,    \* client -> segments in its socket
  stdin,   \* segments in the buffer of stdin
  rfds,    \* clients select reported and the scan has not reached
  pc,      \* "select", "scan", "fgets" or "run"
  turn,    \* the client being served
  ran      \* what was executed: for whom, and the segments of the line

input == <<burst, sent, half, sock>>
vars == <<input, stdin, rfds, pc, turn, ran>>

Segment == [from : Clients, line : 1 .. MaxTyped, ends : BOOLEAN]

TypeOK ==
  /\ burst \in 1 .. MaxBurst
  /\ sent \in [Clients -> 0 .. MaxTyped]
  /\ half \in [Clients -> BOOLEAN]
  /\ sock \in [Clients -> Seq(Segment)]
  /\ stdin \in Seq(Segment)
  /\ rfds \subseteq Clients
  /\ pc \in {"select", "scan", "fgets", "run"}
  /\ turn \in Clients
  /\ ran \in Seq([for : Clients, line : Seq(Segment)])

Init ==
  /\ burst \in 1 .. MaxBurst
  /\ sent = [c \in Clients |-> 0] /\ half = [c \in Clients |-> FALSE]
  /\ sock = [c \in Clients |-> <<>>] /\ stdin = <<>>
  /\ rfds = {} /\ pc = "select" /\ turn \in Clients /\ ran = <<>>

-----------------------------------------------------------------------------
(* The clients: external.  Those that wait for the prompt after every line  *)
(* have burst 1.                                                            *)

Prompts(c) == Cardinality({k \in 1 .. Len(ran) : ran[k].for = c})
                - (IF pc = "run" /\ turn = c THEN 1 ELSE 0)

Send(c, ends) ==
  /\ sent[c] < MaxTyped
  /\ half[c] => ends
  /\ half[c] \/ sent[c] < Prompts(c) + burst
  /\ sock' = [sock EXCEPT ![c] = Append(@, [from |-> c, line |-> sent[c] + 1, ends |-> ends])]
  /\ sent' = [sent EXCEPT ![c] = IF ends THEN @ + 1 ELSE @]
  /\ half' = [half EXCEPT ![c] = ~ends]
  /\ UNCHANGED <<burst, stdin, rfds, pc, turn, ran>>

-----------------------------------------------------------------------------
\* Fault: the listening socket is not left out of the scan.
FaultSelectMaster ==
  /\ pc = "select" /\ pc' = "scan"
  /\ {c \in Clients : sock[c] # <<>>} # {}
  /\ rfds' = {c \in Clients : sock[c] # <<>>} \cup {3}
  /\ UNCHANGED <<input, stdin, turn, ran>>

\* Fault: the scan ends one descriptor early.
FaultSelectLast ==
  /\ pc = "select" /\ pc' = "scan"
  /\ rfds' = {c \in Clients : sock[c] # <<>> /\ \E d \in Clients : c < d} /\ rfds' # {}
  /\ UNCHANGED <<input, stdin, turn, ran>>

\* select returns the clients with input; with none it blocks.
Select ==
  /\ pc = "select" /\ pc' = "scan"
  /\ rfds' = {c \in Clients : sock[c] # <<>>} /\ rfds' # {}
  /\ UNCHANGED <<input, stdin, turn, ran>>

\* The next descriptor of the scan: its socket becomes descriptor 0.
Turn ==
  /\ pc = "scan"
  /\ \/ /\ rfds = {} /\ pc' = "select" /\ UNCHANGED <<rfds, turn>>
     \/ \E c \in rfds :
          /\ \A d \in rfds : c <= d
          /\ turn' = c /\ rfds' = rfds \ {c} /\ pc' = "fgets"
  /\ UNCHANGED <<input, stdin, ran>>

LineIn(segments) == \E k \in 1 .. Len(segments) : segments[k].ends

\* Fault: all that has been read is taken for one line, as with read(2).
FaultLineEnd(segments) == Len(segments)

\* fgets ends at the first end of a line.
LineEnd(segments) == SelectInSeq(segments, LAMBDA g : g.ends)

\* Fault: the socket is not put on descriptor 0, another one is still there.
FaultFill ==
  /\ pc = "fgets" /\ ~LineIn(stdin)
  /\ \E c \in Clients :
       /\ sock[c] # <<>>
       /\ stdin' = stdin \o sock[c]
       /\ sock' = [sock EXCEPT ![c] = <<>>]
  /\ UNCHANGED <<burst, sent, half, rfds, pc, turn, ran>>

\* fgets without a complete line in the buffer reads all the socket holds;
\* with nothing there it blocks.
Fill ==
  /\ pc = "fgets" /\ ~LineIn(stdin) /\ sock[turn] # <<>>
  /\ stdin' = stdin \o sock[turn]
  /\ sock' = [sock EXCEPT ![turn] = <<>>]
  /\ UNCHANGED <<burst, sent, half, rfds, pc, turn, ran>>

\* fgets returns the first line of the buffer; it is executed for the client
\* whose turn it is.
Fgets ==
  /\ pc = "fgets" /\ LineIn(stdin)
  /\ LET k == LineEnd(stdin) IN
       /\ ran' = Append(ran, [for |-> turn, line |-> SubSeq(stdin, 1, k)])
       /\ stdin' = SubSeq(stdin, k + 1, Len(stdin))
  /\ pc' = "run"
  /\ UNCHANGED <<input, rfds, turn>>

\* The programs of the line end, or are left to run; descriptor 0 is restored.
Run ==
  /\ pc = "run" /\ pc' = "scan"
  /\ UNCHANGED <<input, stdin, rfds, turn, ran>>

\* Every client has typed all its lines and the server waits for more.
Quiet ==
  /\ \A c \in Clients : sent[c] = MaxTyped /\ sock[c] = <<>>
  /\ pc = "select"
  /\ UNCHANGED vars

Server == Select \/ Turn \/ Fill \/ Fgets \/ Run

Next == Server \/ (\E c \in Clients, e \in BOOLEAN : Send(c, e)) \/ Quiet

(* The server runs; programs that are waited for end.                       *)
ServerFairness == WF_vars(Server)

(* A client that has sent half a line sends the rest.                       *)
ClientFairness == \A c \in Clients : WF_vars(half[c] /\ Send(c, TRUE))

Spec == Init /\ [][Next]_vars /\ ServerFairness /\ ClientFairness

-----------------------------------------------------------------------------
(* What is executed for a client is one line, whole, of that client         *)
(* (np_single_proc_server.cpp:119, 123: "deal with client request",         *)
(* "redirect stdin, stdout, stderr to fd").                                 *)
RedirectedLine ==
  \A k \in 1 .. Len(ran) : LET r == ran[k] IN
    /\ \A g \in ToSet(r.line) : g.from = r.for /\ g.line = r.line[1].line
    /\ \A j \in 1 .. Len(r.line) : r.line[j].ends <=> j = Len(r.line)

(* So it is, as long as everybody waits for the prompt before typing again: *)
(* then nothing is left over for another's turn, however lines are cut      *)
(* (npShell_single_proc.cpp:44).                                            *)
OwnLine == burst = 1 => RedirectedLine

(* A client's lines are executed in the order typed, each once, also those  *)
(* it sends ahead of the prompt and those read in another client's turn     *)
(* (npShell_single_proc.cpp:44).                                            *)
InOrder ==
  \A k \in 1 .. Len(ran) : LET g == Last(ran[k].line) IN
    g.line = Cardinality({j \in 1 .. k : Last(ran[j].line).from = g.from})

(* Every line that is completed is executed, if everybody waits for the     *)
(* prompt before typing again: one read ahead stays in the buffer until     *)
(* somebody else has a turn.                                                *)
Executed(c, n) == \E k \in 1 .. Len(ran) :
                    Last(ran[k].line).from = c /\ Last(ran[k].line).line = n

Answered ==
  \A c \in Clients, n \in 1 .. MaxTyped : burst = 1 /\ sent[c] >= n ~> Executed(c, n)
=============================================================================

----------------------------- MODULE SimpleServer -----------------------------
(***************************************************************************)
(* The server of project 2 that serves one client after the other          *)
(* (np_project2/np_simple_server.c): it accepts a connection, forks a      *)
(* shell on it (np_project2/npShell.c, the shell of project 1 with fflush  *)
(* and the removal of "\r") and waits for that shell before it accepts the *)
(* next.                                                                   *)
(*                                                                         *)
(* The module is NpShell with a server around it.  Lines and processes are *)
(* numbered on from shell to shell: those up to base belong to shells that *)
(* have ended.  Their programs go on, as children of init, and take up     *)
(* processes; pc = "done" says that there is no shell.                     *)
(***************************************************************************)
EXTENDS NpShell

CONSTANT
  NClients  \* clients, numbered in the order they connect

Clients == 1 .. NClients

VARIABLES
  conn,    \* client -> away, queued, serving, left
  server,  \* what the server waits for: a connection or its shell
  base     \* lines read by the shells before the present one

serverVars == <<conn, server, base>>
allVars == <<vars, serverVars>>

Mine(x) == pc # "done" /\ x[1] > base

ServerInit ==
  /\ conn = [c \in Clients |-> "away"] /\ server = "accept" /\ base = 0
  /\ pc = "done" /\ lineNo = 0 /\ stage = 1 /\ pre = NoPipe /\ pi = NoPipe /\ pipeN = {}
  /\ typed = [i \in 1 .. MaxLines |->
                [cmd |-> "setenv", stages |-> 1, out |-> "tty", n |-> 0]]
  /\ fds = [x \in Proc \cup {Shell} |-> {}]
  /\ stdin = [x \in Proc |-> NoPipe] /\ stdout = stdin
  /\ st = [x \in Proc |-> "none"]
  /\ todo = [x \in Proc |-> 0] /\ buf = [p \in Proc |-> 0]

Dial(c) ==
  /\ conn[c] = "away" /\ (\A d \in Clients : d < c => conn[d] # "away")
  /\ conn' = [conn EXCEPT ![c] = "queued"]
  /\ UNCHANGED <<vars, server, base>>

\* A shell starts at its prompt, with no pipe.
NewShell == base' = lineNo /\ pc' = "prompt"

\* accept takes the first of the queue, and the shell is forked: there is a place
\* for it when there is one for the programs of a shell.
Accept(c) ==
  /\ server = "accept" /\ conn[c] = "queued" /\ (\A d \in Clients : d < c => conn[d] = "left")
  /\ server' = "wait" /\ conn' = [conn EXCEPT ![c] = "serving"]
  /\ NewShell
  /\ UNCHANGED <<lineNo, typed, stage, pre, pi, pipeN, fds, procVars, st, todo, buf>>

\* Fault: the server waits for any child, and then for its shell again.
FaultWaitShell ==
  /\ server = "wait" /\ pc = "done"
  /\ conn' = [c \in Clients |-> IF conn[c] = "serving" THEN "left" ELSE conn[c]]
  /\ UNCHANGED <<vars, server, base>>

\* waitpid(pid) returns when the shell has ended.
WaitShell ==
  /\ server = "wait" /\ pc = "done" /\ server' = "accept"
  /\ conn' = [c \in Clients |-> IF conn[c] = "serving" THEN "left" ELSE conn[c]]
  /\ UNCHANGED <<vars, base>>

-----------------------------------------------------------------------------
(* The shell.  It waits for its own children only; those of the shells       *)
(* before it are reaped by init.                                             *)

MyChildren == {x \in Children : Mine(x)}

WaitMine ==
  \/ \E x \in MyChildren : st[x] = "zombie" /\ st' = [st EXCEPT ![x] = "reaped"]
  \/ MyChildren = {} /\ UNCHANGED st

Retry ==
  /\ pc = "fork" /\ Cardinality(Children) >= ProcLimit
  /\ WaitMine
  /\ UNCHANGED <<shellVars, fds, procVars, todo, buf>>

WaitOutput ==
  /\ pc = "waitany" /\ pc' = "prompt"
  /\ WaitMine
  /\ UNCHANGED <<lineNo, typed, stage, pre, pi, pipeN, fds, procVars, todo, buf>>

Step == OpenPipe \/ Fork \/ Retry \/ WaitStage \/ WaitOutput

\* childHandler reaps the shell's zombies, init the others.
Reaped(mine) ==
  /\ \E x \in Proc : st[x] = "zombie" /\ Mine(x) = mine
  /\ st' = [x \in Proc |-> IF st[x] = "zombie" /\ Mine(x) = mine THEN "reaped" ELSE st[x]]
  /\ UNCHANGED <<shellVars, fds, procVars, todo, buf>>

ShellNext ==
  \/ ReadLine \/ Exit \/ Step \/ Reaped(TRUE) \/ Reaped(FALSE)
  \/ \E x \in Proc : Run(x) \/ Fail(x)

\* All clients have left and everything has ended.
Idle ==
  /\ pc = "done" /\ (\A c \in Clients : conn[c] = "left")
  /\ (\A x \in Proc : st[x] \notin {"run", "zombie"}) /\ UNCHANGED allVars

ServerNext ==
  \/ \E c \in Clients : Dial(c) \/ Accept(c)
  \/ WaitShell
  \/ ShellNext /\ UNCHANGED serverVars
  \/ Idle

(* Server, shell, init and every program go on; no client has to type, and   *)
(* none has to leave.                                                         *)
ServerSpec ==
  /\ ServerInit /\ [][ServerNext]_allVars
  /\ WF_allVars(\E c \in Clients : Accept(c)) /\ WF_allVars(WaitShell)
  /\ WF_allVars(Step /\ UNCHANGED serverVars)
  /\ WF_allVars(Reaped(FALSE) /\ UNCHANGED serverVars)
  /\ \A x \in Proc : WF_allVars(Run(x) /\ UNCHANGED serverVars)

-----------------------------------------------------------------------------
(* A program of the present shell is killed by SIGPIPE only when the program *)
(* meant to read its output has run and gone: until the reader's line comes  *)
(* the shell keeps the read end.                                             *)
ReaderExpected ==
  \A x \in Proc : Mine(x) /\ st[x] = "run" /\ Broken(x) =>
     \E y \in Proc : Meant(x, y) /\ st[y] \in {"zombie", "reaped"}

(* A program that waits with a full pipe for a reader that has not been      *)
(* forked.                                                                   *)
Jammed ==
  \E x \in Proc :
    /\ st[x] = "run" /\ todo[x] > 0 /\ stdout[x] # NoPipe /\ buf[stdout[x]] = Cap
    /\ \A y \in Proc : stdin[y] # stdout[x]

(* Every line ends: the shell comes back to its prompt, also at the process  *)
(* limit and with the programs of earlier clients still running.  It does    *)
(* not when a program has filled a pipe for a line still to come: that       *)
(* program keeps the ends of other pipes, and its process, for good, and the *)
(* shell may wait for a program that waits for those (npShell.c:250-270,     *)
(* 216).                                                                     *)
LineEnds == pc \in {"open", "fork", "wait", "waitany"} ~> pc = "prompt" \/ []Jammed

(* A program whose shell has ended ends too, with the same exception: two    *)
(* programs may keep each other, one with the read end of the pipe the other *)
(* fills, the other with the write end of the pipe the one reads, and then   *)
(* they stay for good.                                                       *)
Orphan(x) == st[x] \in {"run", "zombie"} /\ ~Mine(x)

OrphansEnd == (\E x \in Proc : Orphan(x)) ~> (\A x \in Proc : ~Orphan(x)) \/ []Jammed

(* A client waits only for the clients before it, and for good only behind   *)
(* one that stays for good (np_simple_server.c:86).                          *)
Turns ==
  \A c \in Clients :
    conn[c] = "queued" ~>
      conn[c] = "serving" \/ \E d \in Clients \ {c} : [](conn[d] = "serving")
=============================================================================

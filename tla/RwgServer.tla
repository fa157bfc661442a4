------------------------------ MODULE RwgServer ------------------------------
(***************************************************************************)
(* The tables of the single-process chat server of project 2               *)
(* (np_single_proc_server.cpp, npShell_single_proc.cpp): client slots, the *)
(* descriptor map, the descriptors select watches, the user pipes and every*)
(* user's numbered pipes, with the descriptors the server holds open.      *)
(*                                                                         *)
(* One process serves everybody, so a whole accept and a whole command     *)
(* line are single steps for the other users.  What a command's programs   *)
(* do is not here; how lines reach the server is module RwgInput.          *)
(*                                                                         *)
(* Descriptors are the members of Fds, any free one of which open, accept  *)
(* and pipe may return; the standard ones, msock and stdin_copy are never  *)
(* closed by these handlers and stay outside.  who, tell and yell change   *)
(* no table.                                                               *)
(***************************************************************************)
EXTENDS Integers, FiniteSets

CONSTANTS
  N,      \* MAXIMUM_USER: client slots
  MaxN,   \* bound: the N of a numbered pipe
  Fds,    \* bound: descriptors the server may have open
  Names,  \* bound: the names users choose
  Lines   \* bound: the command lines users type

Users   == 1 .. N
NoFd    == 0             \* user_pipe entry: no pipe
Absent  == 0             \* fd_map: no entry for the descriptor
NoSlot  == -1            \* fd_map: the id findSmallestUnusedId fails with
NoName  == "(no name)"

\* A program line: `<in`, given first (lead) or after the output symbol, on
\* the first of stages programs; then the last one's output.  A numbered pipe
\* ahead by 0 is `!` (`|0` is an ordinary pipe).  A line with a program behind a
\* numbered or a user pipe (`a |2 b`) is left out.
LineType == [cmd : {"exec", "setenv"}, in : 0 .. N + 1, lead : BOOLEAN,
             stages : 1 .. 2, out : {"tty", "file", "num", "user"},
             n : 0 .. MaxN, to : 0 .. N + 1]

ASSUME RwgServerAssumption ==
  /\ N \in Nat \ {0} /\ MaxN \in Nat
  /\ NoFd \notin Fds
  /\ Lines \subseteq LineType

VARIABLES
  up,         \* the loop still runs as written
  active,     \* clients[i].active
  cfd,        \* clients[i].fd
  name,       \* clients[i].name
  fd_map,     \* descriptor -> slot
  afds,       \* the client descriptors select watches
  user_pipe,  \* <<i, j>> -> read end of the pipe from i to j
  pipeN,      \* clients[i].pipeN_list_head
  open        \* the descriptors of Fds the server has open

clients == <<active, cfd, name, fd_map, afds>>
vars == <<up, clients, user_pipe, pipeN, open>>

Entry == [count : Int, r : Fds, w : Fds]

TypeOK ==
  /\ up \in BOOLEAN
  /\ active \in [Users -> BOOLEAN]
  /\ cfd \in [Users -> Fds \cup {NoFd}]
  /\ name \in [Users -> Names \cup {NoName}]
  /\ fd_map \in [Fds -> Users \cup {Absent, NoSlot}]
  /\ afds \subseteq Fds
  /\ user_pipe \in [Users \X Users -> Fds \cup {NoFd}]
  /\ pipeN \in [Users -> SUBSET Entry]
  /\ open \subseteq Fds

Init ==
  /\ up = TRUE
  /\ active = [i \in Users |-> FALSE]
  /\ cfd = [i \in Users |-> NoFd]
  /\ name = [i \in Users |-> NoName]
  /\ fd_map = [f \in Fds |-> Absent]
  /\ afds = {}
  /\ user_pipe = [p \in Users \X Users |-> NoFd]
  /\ pipeN = [i \in Users |-> {}]
  /\ open = {}

Free(i) == ~active[i] /\ \A j \in 1 .. i - 1 : active[j]

\* Fault: the map gets client.id, which is one more than the slot.
FaultAccept ==
  /\ up
  /\ \E i \in Users, f \in Fds \ open :
       /\ Free(i)
       /\ active' = [active EXCEPT ![i] = TRUE]
       /\ cfd' = [cfd EXCEPT ![i] = f]
       /\ name' = [name EXCEPT ![i] = NoName]
       /\ pipeN' = [pipeN EXCEPT ![i] = {}]
       /\ fd_map' = [fd_map EXCEPT ![f] = i + 1]
       /\ afds' = afds \cup {f}
       /\ open' = open \cup {f}
  /\ UNCHANGED <<up, user_pipe>>

\* accept, with a slot for the client: the smallest unused id.
Accept ==
  /\ up
  /\ \E i \in Users, f \in Fds \ open :
       /\ Free(i)
       /\ active' = [active EXCEPT ![i] = TRUE]
       /\ cfd' = [cfd EXCEPT ![i] = f]
       /\ name' = [name EXCEPT ![i] = NoName]
       /\ pipeN' = [pipeN EXCEPT ![i] = {}]
       /\ fd_map' = [fd_map EXCEPT ![f] = i]
       /\ afds' = afds \cup {f}
       /\ open' = open \cup {f}
  /\ UNCHANGED <<up, user_pipe>>

\* accept with every slot taken: clients[-1] is written.  When the server
\* survives that, the connection is watched but belongs to no slot.
AcceptFull ==
  /\ up
  /\ \A i \in Users : active[i]
  /\ \E f \in Fds \ open :
       /\ up' \in BOOLEAN
       /\ fd_map' = [fd_map EXCEPT ![f] = NoSlot]
       /\ afds' = afds \cup {f}
       /\ open' = open \cup {f}
  /\ UNCHANGED <<active, cfd, name, user_pipe, pipeN>>

\* accept fails (FD_SET(-1)), or a client is gone without exit (fgets returns
\* NULL and the uninitialised buffer is executed, a write raises SIGPIPE):
\* what follows is undefined.
Undefined ==
  /\ up /\ up' = FALSE
  /\ UNCHANGED <<clients, user_pipe, pipeN, open>>

\* Fault: the new name is compared with the user's own only.
FaultName(i) ==
  /\ up /\ active[i]
  /\ \E s \in Names : s # name[i] /\ name' = [name EXCEPT ![i] = s]
  /\ UNCHANGED <<up, active, cfd, fd_map, afds, user_pipe, pipeN, open>>

\* name: refused when another active user has it.
Name(i) ==
  /\ up /\ active[i]
  /\ \E s \in Names :
       /\ \A j \in Users : active[j] /\ cfd[j] # cfd[i] => name[j] # s
       /\ name' = [name EXCEPT ![i] = s]
  /\ UNCHANGED <<up, active, cfd, fd_map, afds, user_pipe, pipeN, open>>

EntryFds(list) == {e.r : e \in list} \cup {e.w : e \in list}

\* Every entry comes one line closer.  Counts below -1 are never told apart.
Closer(e) == [e EXCEPT !.count = IF @ > -1 THEN @ - 1 ELSE -1]

Countdown(list) == {Closer(e) : e \in list}

\* Fault: only the pipes from the user are cleared.
FaultRowAndColumn(i) == {p \in Users \X Users : p[1] = i}

\* The user pipes from and to user i.
RowAndColumn(i) == {p \in Users \X Users : p[1] = i \/ p[2] = i}

\* Fault: the descriptor stays in the map.
FaultExit(i) ==
  /\ up /\ active[i]
  /\ active' = [active EXCEPT ![i] = FALSE]
  /\ afds' = afds \ {cfd[i]}
  /\ pipeN' = [pipeN EXCEPT ![i] = {}]
  /\ user_pipe' = [p \in Users \X Users |->
                     IF p \in RowAndColumn(i) THEN NoFd ELSE user_pipe[p]]
  /\ open' = open \ (EntryFds(pipeN[i]) \cup {cfd[i]}
                       \cup {user_pipe[p] : p \in RowAndColumn(i)})
  /\ UNCHANGED <<up, cfd, name, fd_map>>

\* exit, with the cleanup in the server's loop.
Exit(i) ==
  /\ up /\ active[i]
  /\ active' = [active EXCEPT ![i] = FALSE]
  /\ fd_map' = [fd_map EXCEPT ![cfd[i]] = Absent]
  /\ afds' = afds \ {cfd[i]}
  /\ pipeN' = [pipeN EXCEPT ![i] = {}]
  /\ user_pipe' = [p \in Users \X Users |->
                     IF p \in RowAndColumn(i) THEN NoFd ELSE user_pipe[p]]
  /\ open' = open \ (EntryFds(pipeN[i]) \cup {cfd[i]}
                       \cup {user_pipe[p] : p \in RowAndColumn(i)})
  /\ UNCHANGED <<up, cfd, name>>

\* setenv, printenv
SetEnv(i) ==
  /\ up /\ active[i]
  /\ \E l \in Lines : l.cmd = "setenv"
  /\ pipeN' = [pipeN EXCEPT ![i] = Countdown(@)]
  /\ UNCHANGED <<up, clients, user_pipe, open>>

\* `<in`: the pipe is taken out of the table when the sender is there and it
\* exists; otherwise the program reads /dev/null.
Receives(i, l) ==
  /\ l.in \in Users /\ active[l.in]
  /\ user_pipe[<<l.in, i>>] # NoFd

\* Fault: the entry stays in the table.
FaultAfterRead(i, l) == user_pipe

AfterRead(i, l) ==
  IF Receives(i, l) THEN [user_pipe EXCEPT ![<<l.in, i>>] = NoFd] ELSE user_pipe

\* Fault: a pipe that is waiting is replaced.
FaultSends(i, l) == l.out = "user" /\ l.to \in Users /\ active[l.to]

\* `>to`: a pipe is made when the receiver is there and none is waiting.
Sends(i, l) ==
  /\ l.out = "user" /\ l.to \in Users /\ active[l.to]
  /\ AfterRead(i, l)[<<i, l.to>>] = NoFd

\* The list entry whose line has come is taken by the first program, unless
\* the line starts with `<`.  (DistinctCounts: there is at most one.)
TakeDue(l, list) ==
  IF l.in # 0 /\ l.lead THEN list ELSE {e \in list : e.count # 0}

\* Fault: the list is not searched.
FaultAdds(l, list) == l.out = "num"

\* `|n`, `!n`: an entry with the same count is shared, else one is added.
Adds(l, list) == l.out = "num" /\ \A e \in list : e.count # l.n

AddNumbered(l, list, r, w) ==
  IF Adds(l, list) THEN list \cup {[count |-> l.n, r |-> r, w |-> w]} ELSE list

\* The search of a one-program line precedes the removal of the due entry,
\* that of the last of two programs comes after it.
Searched(l, list) == IF l.stages = 1 THEN list ELSE TakeDue(l, list)

NewList(l, list, r, w) ==
  IF l.stages = 1 THEN TakeDue(l, AddNumbered(l, list, r, w))
  ELSE AddNumbered(l, TakeDue(l, list), r, w)

\* Fault: read_fd is closed after the last of several programs only.
FaultKeepsReadEnd(l) == l.stages = 1

\* The loop is left at `>` before read_fd is closed.
KeepsReadEnd(l) == l.stages = 1 /\ l.out = "file"

\* The read end the server closes.
ReadEnd(i, l) ==
  IF Receives(i, l) /\ ~KeepsReadEnd(l) THEN {user_pipe[<<l.in, i>>]} ELSE {}

\* A line with programs.  Of a new numbered pipe both ends stay open, of a
\* new user pipe the read end; its write end and the pipes between programs
\* come and go inside the step.
Exec(i, l) ==
  LET list == Countdown(pipeN[i])
      adds == Adds(l, Searched(l, list))
  IN
  /\ up /\ active[i] /\ l.cmd = "exec"
  /\ \E r \in IF adds \/ Sends(i, l) THEN Fds \ open ELSE {NoFd},
        w \in IF adds THEN Fds \ open ELSE {NoFd} :
       /\ adds => r # w
       /\ pipeN' = [pipeN EXCEPT ![i] = NewList(l, list, r, w)]
       /\ user_pipe' = IF Sends(i, l) THEN [AfterRead(i, l) EXCEPT ![<<i, l.to>>] = r]
                       ELSE AfterRead(i, l)
       /\ open' = (open \ (EntryFds(list) \cup ReadEnd(i, l)))
                  \cup EntryFds(NewList(l, list, r, w))
                  \cup (IF Sends(i, l) THEN {r} ELSE {})
  /\ UNCHANGED <<up, clients>>

Next ==
  \/ Accept \/ AcceptFull \/ Undefined
  \/ \E i \in Users : Name(i) \/ Exit(i) \/ SetEnv(i) \/ (\E l \in Lines : Exec(i, l))

Spec == Init /\ [][Next]_vars

-----------------------------------------------------------------------------
(* The slots, the descriptor map and the watched set say the same: what is  *)
(* read from a descriptor is executed for the user it belongs to, for no    *)
(* logged-out user, and every logged-in user is heard (the loop of          *)
(* np_single_proc_server.cpp:121-180 asks all three tables).                *)
TablesAgree ==
  /\ \A f \in Fds : f \in afds <=> fd_map[f] # Absent
  /\ \A i \in Users : active[i] => cfd[i] \in afds
  /\ \A i \in Users, f \in Fds : fd_map[f] = i <=> active[i] /\ cfd[i] = f

(* A user pipe exists only between two users who are logged in: one who     *)
(* takes over a number inherits no pipe (np_single_proc_server.cpp:159-172).*)
PipesBelongToUsers ==
  \A p \in Users \X Users : user_pipe[p] # NoFd => active[p[1]] /\ active[p[2]]

(* Every descriptor in a table is open and stands in one place only: no     *)
(* close() of one user's connection or pipe hits another's, and accept and  *)
(* pipe return none that is still in a table.                               *)
Pair(e) == {e.r, e.w}

NoAlias ==
  /\ afds \subseteq open
  /\ \A p \in Users \X Users : user_pipe[p] # NoFd => user_pipe[p] \in open \ afds
  /\ \A p, q \in Users \X Users : user_pipe[p] = user_pipe[q] => p = q \/ user_pipe[p] = NoFd
  /\ \A i \in Users : \A e \in pipeN[i] :
       /\ e.r # e.w /\ Pair(e) \subseteq open \ afds
       /\ \A p \in Users \X Users : user_pipe[p] \notin Pair(e)
  /\ \A i, j \in Users : \A e \in pipeN[i], d \in pipeN[j] :
       Pair(e) \cap Pair(d) # {} => i = j /\ e = d

(* A descriptor is lost, open and in no table, only by a line that reads a   *)
(* user pipe and writes a file, which leaves the loop before the pipe's read *)
(* end is closed (npShell_single_proc.cpp:676, 685: "if read user pipe open, *)
(* close read end"); no other step loses one, and none gets one back.        *)
Lost ==
  open \ (afds \cup {user_pipe[p] : p \in Users \X Users}
                \cup UNION {EntryFds(pipeN[i]) : i \in Users})

LostToFile(i, l) == Exec(i, l) /\ l.out = "file" /\ Receives(i, l)

NoLeak ==
  [][/\ Lost \subseteq Lost'
     /\ Lost' # Lost => \E i \in Users, l \in Lines : LostToFile(i, l)]_vars

(* Two logged-in users have the same name only while it is the default.     *)
NamesUnique ==
  \A i, j \in Users :
    active[i] /\ active[j] /\ name[i] = name[j] => i = j \/ name[i] = NoName

(* Of two numbered pipes of a user that still wait for a line, no two wait  *)
(* for the same.                                                            *)
DistinctCounts ==
  \A i \in Users : \A e, d \in pipeN[i] : e.count = d.count => e = d \/ e.count < 0

(* The tables implement the abstract user pipes.                            *)
Mail == INSTANCE UserPipes WITH
  in <- {i \in Users : active[i]}, parcel <- user_pipe,
  Parcels <- Fds, Nothing <- NoFd
MailKept == Mail!Spec
=============================================================================

------------------------------- MODULE NpShell -------------------------------
(***************************************************************************)
(* The shell of project 1 (np_project1/npShell.c, npShell.h): it reads a   *)
(* command line, opens its pipes, forks one process per stage and waits    *)
(* for them, unless the output goes to a numbered pipe (`|N`, `!N`), whose *)
(* reader is the first stage of the N-th next line.                        *)
(*                                                                         *)
(* The kernel's part is explicit: which process holds which pipe end open, *)
(* how full a pipe is, which children run, are zombies or are reaped.      *)
(* What the programs do (read to end of file, write, exit) is external.    *)
(*                                                                         *)
(* A line is reduced to what the shell distinguishes: setenv and printenv  *)
(* ("setenv"), or stages programs joined by `|` whose last output is the   *)
(* terminal, a file, or a numbered pipe n lines ahead (n = 0 is a bare     *)
(* `!`, or `!0`; `|0` is an ordinary pipe).  Left out are a line with a    *)
(* program behind a numbered pipe (`a |2 b`, npShell.c:72-76), which makes *)
(* that pipe the next stage's as well, and the end of the input (line 33). *)
(* Process and pipe identities are <<line, stage>> of their origin.        *)
(***************************************************************************)
EXTENDS Integers, FiniteSets

CONSTANTS
  MaxLines,   \* bound: command lines read
  MaxStages,  \* bound: programs joined by | in one line
  MaxN,       \* bound: the N of a numbered pipe
  Cap,        \* units a pipe holds
  Output,     \* units a program that reads no pipe writes
  ProcLimit,  \* child processes the system allows
  Lines       \* the command lines that may be typed

LineType == [cmd : {"exec", "setenv"}, stages : 1 .. MaxStages,
             out : {"tty", "file", "num"}, n : 0 .. MaxN]

ASSUME NpShellAssumption ==
  /\ MaxLines \in Nat /\ MaxStages \in Nat \ {0} /\ MaxN \in Nat
  /\ Cap \in Nat \ {0} /\ Output \in Nat /\ ProcLimit \in Nat \ {0}
  /\ Lines \subseteq LineType

Proc   == (1 .. MaxLines) \X (1 .. MaxStages)
Shell  == <<0, 0>>
NoPipe == <<0, 0>>
Ends(p) == {p} \X {"r", "w"}
AllEnds == Proc \X {"r", "w"}

VARIABLES
  pc,      \* where the shell's loop is
  lineNo,  \* command lines read so far
  typed,   \* the lines read: only the last one is the program's own state
  stage,   \* the stage being forked or waited for
  pre,     \* pre_pi: the pipe from the previous stage, or NoPipe
  pi,      \* pi: the pipe this stage writes, or NoPipe
  pipeN,   \* pipeN_list_head: the numbered pipes waiting for their reader
  fds,     \* the pipe ends each process holds open
  stdin,   \* the pipe a process reads, or NoPipe
  stdout,  \* the pipe a process writes, or NoPipe
  st,      \* what became of each process
  todo,    \* units a process has yet to write
  buf      \* units in each pipe

shellVars == <<pc, lineNo, typed, stage, pre, pi, pipeN>>
procVars  == <<stdin, stdout>>
vars == <<shellVars, fds, procVars, st, todo, buf>>

TypeOK ==
  /\ pc \in {"prompt", "open", "fork", "wait", "waitany", "done"}
  /\ lineNo \in 0 .. MaxLines
  /\ typed \in [1 .. MaxLines -> LineType]
  /\ stage \in 1 .. MaxStages
  /\ pre \in Proc \cup {NoPipe} /\ pi \in Proc \cup {NoPipe}
  /\ pipeN \subseteq [count : Int, fd : Proc]
  /\ fds \in [Proc \cup {Shell} -> SUBSET AllEnds]
  /\ stdin \in [Proc -> Proc \cup {NoPipe}]
  /\ stdout \in [Proc -> Proc \cup {NoPipe}]
  /\ st \in [Proc -> {"none", "run", "zombie", "reaped"}]
  /\ todo \in [Proc -> Nat]
  /\ buf \in [Proc -> 0 .. Cap]

Init ==
  /\ pc = "prompt" /\ lineNo = 0
  /\ typed = [i \in 1 .. MaxLines |->
                [cmd |-> "setenv", stages |-> 1, out |-> "tty", n |-> 0]]
  /\ stage = 1 /\ pre = NoPipe /\ pi = NoPipe /\ pipeN = {}
  /\ fds = [x \in Proc \cup {Shell} |-> {}]
  /\ stdin = [x \in Proc |-> NoPipe] /\ stdout = [x \in Proc |-> NoPipe]
  /\ st = [x \in Proc |-> "none"]
  /\ todo = [x \in Proc |-> 0] /\ buf = [p \in Proc |-> 0]

Children == {x \in Proc : st[x] \in {"run", "zombie"}}
line     == typed[lineNo]
Last     == stage = line.stages
Me       == <<lineNo, stage>>      \* the process of the current stage

\* Fault: the countdown is forgotten.
FaultCountdown(list) == list

Countdown(list) == {[e EXCEPT !.count = @ - 1] : e \in list}

\* A line with a program: every list entry comes one line closer.
ReadLine ==
  /\ pc = "prompt" /\ lineNo < MaxLines
  /\ lineNo' = lineNo + 1
  /\ \E l \in Lines :
       /\ typed' = [typed EXCEPT ![lineNo + 1] = l]
       /\ pc' = IF l.cmd = "exec" THEN "open" ELSE "prompt"
  /\ stage' = 1 /\ pre' = NoPipe /\ pi' = NoPipe
  /\ pipeN' = Countdown(pipeN)
  /\ UNCHANGED <<fds, procVars, st, todo, buf>>

\* exit: the numbered pipes are closed, the children are left running.
Exit ==
  /\ pc = "prompt"
  /\ pc' = "done" /\ pipeN' = {}
  /\ fds' = [fds EXCEPT ![Shell] = @ \ UNION {Ends(e.fd) : e \in pipeN}]
  /\ UNCHANGED <<lineNo, typed, stage, pre, pi, procVars, st, todo, buf>>

Opens(p) == fds' = [fds EXCEPT ![Shell] = @ \cup Ends(p)]

\* Fault: a numbered pipe is opened without searching the list.
FaultOpenPipe ==
  /\ pc = "open" /\ pc' = "fork" /\ pre' = pi
  /\ \/ /\ ~Last \/ line.out = "num"
        /\ pi' = Me /\ Opens(Me)
        /\ pipeN' = IF Last THEN pipeN \cup {[count |-> line.n, fd |-> Me]} ELSE pipeN
     \/ /\ Last /\ line.out # "num"
        /\ pi' = NoPipe /\ UNCHANGED <<pipeN, fds>>
  /\ UNCHANGED <<lineNo, typed, stage, procVars, st, todo, buf>>

\* The pipe a stage writes: a new one to the next stage, the numbered pipe
\* with the same target if the list has one, else a new one put in the list.
OpenPipe ==
  /\ pc = "open" /\ pc' = "fork" /\ pre' = pi
  /\ \/ /\ ~Last
        /\ pi' = Me /\ Opens(Me) /\ UNCHANGED pipeN
     \/ /\ Last /\ line.out = "num"
        /\ \E e \in pipeN : e.count = line.n /\ pi' = e.fd
        /\ UNCHANGED <<pipeN, fds>>
     \/ /\ Last /\ line.out = "num"
        /\ \A e \in pipeN : e.count # line.n
        /\ pi' = Me /\ Opens(Me)
        /\ pipeN' = pipeN \cup {[count |-> line.n, fd |-> Me]}
     \/ /\ Last /\ line.out # "num"
        /\ pi' = NoPipe /\ UNCHANGED <<pipeN, fds>>
  /\ UNCHANGED <<lineNo, typed, stage, procVars, st, todo, buf>>

\* Fault: the child keeps the write end of the pipe it reads.
FaultInherited(source, sink) ==
  (fds[Shell] \ {<<source, "r">>, <<pi, "r">>})
     \cup {<<p, "r">> : p \in {source} \ {NoPipe}}
     \cup {<<p, "w">> : p \in {sink} \ {NoPipe}}

\* The child's ends: all the shell's, but of the pipe it reads and of the
\* pipe it writes only the end that was duplicated onto 0 or 1.
Inherited(source, sink) ==
  (fds[Shell] \ (Ends(source) \cup Ends(pi)))
     \cup {<<p, "r">> : p \in {source} \ {NoPipe}}
     \cup {<<p, "w">> : p \in {sink} \ {NoPipe}}

\* Fault: the shell keeps the pipe the child reads.
FaultSpawnKeeps(source) ==
  LET sink == IF source = pi THEN NoPipe ELSE pi IN
  /\ st' = [st EXCEPT ![Me] = "run"]
  /\ stdin' = [stdin EXCEPT ![Me] = source]
  /\ stdout' = [stdout EXCEPT ![Me] = sink]
  /\ todo' = [todo EXCEPT ![Me] = IF source = NoPipe THEN Output ELSE 0]
  /\ fds' = [fds EXCEPT ![Me] = Inherited(source, sink)]

\* Fault: the shell also closes the pipe the child writes.
FaultSpawnCloses(source) ==
  LET sink == IF source = pi THEN NoPipe ELSE pi IN
  /\ st' = [st EXCEPT ![Me] = "run"]
  /\ stdin' = [stdin EXCEPT ![Me] = source]
  /\ stdout' = [stdout EXCEPT ![Me] = sink]
  /\ todo' = [todo EXCEPT ![Me] = IF source = NoPipe THEN Output ELSE 0]
  /\ fds' = [fds EXCEPT ![Me] = Inherited(source, sink),
                        ![Shell] = @ \ (Ends(source) \cup Ends(pi))]

\* fork succeeds: the child is set up, the shell closes the pipe the child
\* reads.  A sink that is also the source is already closed when it would be
\* duplicated, and the child has no standard output.
Spawn(source) ==
  LET sink == IF source = pi THEN NoPipe ELSE pi IN
  /\ st' = [st EXCEPT ![Me] = "run"]
  /\ stdin' = [stdin EXCEPT ![Me] = source]
  /\ stdout' = [stdout EXCEPT ![Me] = sink]
  /\ todo' = [todo EXCEPT ![Me] = IF source = NoPipe THEN Output ELSE 0]
  /\ fds' = [fds EXCEPT ![Me] = Inherited(source, sink),
                        ![Shell] = @ \ Ends(source)]

\* Fault: one stage too many.
FaultNextStage ==
  \/ stage <= line.stages /\ pc' = "open" /\ stage' = stage + 1
  \/ stage > line.stages /\ pc' = "prompt" /\ UNCHANGED stage

\* After the last stage the shell waits, unless the line has a numbered pipe.
NextStage ==
  \/ ~Last /\ pc' = "open" /\ stage' = stage + 1
  \/ Last /\ line.out = "num" /\ pc' = "prompt" /\ UNCHANGED stage
  \/ Last /\ line.out # "num" /\ pc' = "wait" /\ stage' = 1

Fork ==
  /\ pc = "fork" /\ Cardinality(Children) < ProcLimit
  /\ \/ /\ pre # NoPipe
        /\ Spawn(pre) /\ UNCHANGED pipeN
     \/ /\ pre = NoPipe
        /\ \E e \in pipeN : e.count = 0 /\ Spawn(e.fd) /\ pipeN' = pipeN \ {e}
     \/ /\ pre = NoPipe
        /\ \A e \in pipeN : e.count # 0
        /\ Spawn(NoPipe) /\ UNCHANGED pipeN
  /\ NextStage
  /\ UNCHANGED <<lineNo, typed, pre, pi, buf>>

\* waitpid(-1): any zombie is reaped; with no child left it returns at once.
WaitAnyChild ==
  \/ \E x \in Proc : st[x] = "zombie" /\ st' = [st EXCEPT ![x] = "reaped"]
  \/ Children = {} /\ UNCHANGED st

\* fork fails at the process limit; the shell waits for a child and retries.
ForkRetry ==
  /\ pc = "fork" /\ Cardinality(Children) >= ProcLimit
  /\ WaitAnyChild
  /\ UNCHANGED <<shellVars, fds, procVars, todo, buf>>

\* waitpid(p->pid) in the order of the stages.  After `>` one more entry of
\* the list, the file name, has a pid that was never set: waitpid fails at
\* once, or, when the field is 0 or -1, waits for any child.
WaitStage ==
  /\ pc = "wait" /\ st[Me] # "run"
  /\ st' = [st EXCEPT ![Me] = "reaped"]
  /\ \/ ~Last /\ stage' = stage + 1 /\ UNCHANGED pc
     \/ Last /\ UNCHANGED stage /\ pc' = "prompt"
     \/ Last /\ UNCHANGED stage /\ line.out = "file" /\ pc' = "waitany"
  /\ UNCHANGED <<lineNo, typed, pre, pi, pipeN, fds, procVars, todo, buf>>

WaitFile ==
  /\ pc = "waitany" /\ pc' = "prompt"
  /\ WaitAnyChild
  /\ UNCHANGED <<lineNo, typed, stage, pre, pi, pipeN, fds, procVars, todo, buf>>

\* childHandler: SIGCHLD reaps every zombie.
Reap ==
  /\ \E x \in Proc : st[x] = "zombie"
  /\ pc # "done"
  /\ st' = [x \in Proc |-> IF st[x] = "zombie" THEN "reaped" ELSE st[x]]
  /\ UNCHANGED <<shellVars, fds, procVars, todo, buf>>

-----------------------------------------------------------------------------
(* The programs: external.  One that reads no pipe writes Output units and  *)
(* exits; one that reads a pipe copies it until end of file.                *)

Open(p, end) == \E x \in DOMAIN fds : <<p, end>> \in fds[x]

Write(x) ==
  /\ st[x] = "run" /\ todo[x] > 0
  /\ IF stdout[x] = NoPipe THEN UNCHANGED buf
     ELSE /\ Open(stdout[x], "r") /\ buf[stdout[x]] < Cap
          /\ buf' = [buf EXCEPT ![stdout[x]] = @ + 1]
  /\ todo' = [todo EXCEPT ![x] = @ - 1]
  /\ UNCHANGED <<shellVars, fds, procVars, st>>

Read(x) ==
  /\ st[x] = "run" /\ todo[x] = 0
  /\ stdin[x] # NoPipe /\ buf[stdin[x]] > 0
  /\ buf' = [buf EXCEPT ![stdin[x]] = @ - 1]
  /\ todo' = [todo EXCEPT ![x] = 1]
  /\ UNCHANGED <<shellVars, fds, procVars, st>>

Ended(x) == \* nothing left to write, and end of file if it reads a pipe
  /\ todo[x] = 0
  /\ stdin[x] # NoPipe => buf[stdin[x]] = 0 /\ ~Open(stdin[x], "w")

Broken(x) == \* SIGPIPE: the pipe it writes has no reader
  todo[x] > 0 /\ stdout[x] # NoPipe /\ ~Open(stdout[x], "r")

Die(x) ==
  /\ st[x] = "run"
  /\ st' = [st EXCEPT ![x] = "zombie"]
  /\ fds' = [fds EXCEPT ![x] = {}]
  /\ UNCHANGED <<shellVars, procVars, todo, buf>>

Finish(x) == (Ended(x) \/ Broken(x)) /\ Die(x)

\* An unknown command, or a program that stops early.
Fail(x) == ~(Ended(x) \/ Broken(x)) /\ Die(x)

\* Everything has ended: not a deadlock.
Finished ==
  /\ pc = "done" /\ \A x \in Proc : st[x] # "run"
  /\ UNCHANGED vars

ShellStep == OpenPipe \/ Fork \/ ForkRetry \/ WaitStage \/ WaitFile
Run(x) == Write(x) \/ Read(x) \/ Finish(x)

Next == \/ ReadLine \/ Exit \/ ShellStep \/ Reap
        \/ \E x \in Proc : Run(x) \/ Fail(x)
        \/ Finished

(* The shell and every program keep running; nobody has to type a line. *)
Fairness == /\ WF_vars(ShellStep)
            /\ \A x \in Proc : WF_vars(Run(x))

Spec == Init /\ [][Next]_vars /\ Fairness

-----------------------------------------------------------------------------
(* Two numbered pipes of the list never wait for the same line: the search  *)
(* before pipe() merges them, and the countdown keeps them apart, so taking *)
(* the first entry with count 0 (npShell.c:237, npShell.h:171) is taking    *)
(* the only one.                                                            *)
DistinctCounts ==
  \A e, f \in pipeN : e.count = f.count \/ e.fd = f.fd => e = f

(* What process x writes is read by process y exactly when the lines say    *)
(* so: y is the next stage of the same line, or x is the last stage of a    *)
(* line with `|N` and y the first stage of the N-th next line.              *)
Feeds(x, y) == stdout[x] # NoPipe /\ stdin[y] = stdout[x]

Meant(x, y) ==
  LET l == typed[x[1]] IN
  \/ x[2] < l.stages /\ y = <<x[1], x[2] + 1>>
  \/ x[2] = l.stages /\ l.out = "num" /\ l.n > 0 /\ y = <<x[1] + l.n, 1>>

OnTime ==
  \A x, y \in Proc : st[x] # "none" /\ st[y] # "none" => (Feeds(x, y) <=> Meant(x, y))

(* The shell's own open pipe ends are both of every pipe of the list and,   *)
(* inside a line, of the pipes from the stage just forked and to the next:  *)
(* no end leaks and none is closed that a later line needs.                 *)
ShellHolds ==
  LET inLine == CASE pc = "open" -> {pi} [] pc = "fork" -> {pre, pi} [] OTHER -> {} IN
  fds[Shell] = (({e.fd : e \in pipeN} \cup inLine) \ {NoPipe}) \X {"r", "w"}

(* The list implements the abstract numbered pipes: an entry whose count is *)
(* c is output promised to line lineNo + c.                                 *)
Promises == INSTANCE NumberedPipes WITH
  MaxN <- MaxN, clock <- lineNo, due <- {lineNo + e.count : e \in pipeN}
PromisesKept == Promises!Spec
=============================================================================

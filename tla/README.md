# Formal models of NCTU-Network-Programming-2020

TLA+ modules, TLC configurations and TLAPS proofs for the four projects of the repository: a
shell with numbered pipes (`np_project1`), two chat servers built on it (`np_project2`), a remote
batch console behind a CGI web server (`np_project3`) and a SOCKS 4 server with a console that
uses it (`np_project4`). The code is the reference; every definition that models code is listed
with its lines in `PROJECT.json` ("map").

## 1. Inventory

| part | state | operations | talks to |
|---|---|---|---|
| `npShell` (p1 `npShell.c`, `npShell.h`) | the list of numbered pipes with their countdown, the two pipes in hand, the process list of the line | read a line, setenv/printenv/exit, open pipe, fork, wait, SIGCHLD | children through pipes and `waitpid` |
| shell of the simple server (p2 `npShell.c`) | the same | the same | a client through descriptors 0-2 |
| `np_simple_server.c` | listening socket | accept, fork, wait | one shell per client |
| single-process server, tables (p2 `np_single_proc_server.cpp`, `npShell_single_proc.cpp`) | client slots, descriptor map, watched set, user pipes, each user's numbered pipes | login, name, a command line with its pipes, exit | all clients in one process; the kernel's descriptor table |
| single-process server, input | `select` set, the client on descriptor 0, stdin's buffer | select, turn, fgets, run | clients through TCP |
| who, tell, yell, broadcasts | none | write to sockets | clients |
| environment of a client | `env_map`, the process environment | set before, unset after each line | every client shares the process environment |
| `socks_server.cpp` up to the relay | a process per client: request, two lookups, reply | accept+fork, read, firewall, resolve, connect, bind | client, resolver, `socks.conf` |
| its relay | one buffer, two loops, `end_flag` | read, write, end of file, write error | client and remote server |
| `console.cpp` (p4; p3 is the same without SOCKS) | command file, data read, HTML printed | resolve, connect, request, read, write | SOCKS server, remote shell, web page |
| `http_server.cpp` (p3) | sessions in one process, the number each socket holds, a CGI process each | accept, read, fork+exec, close | clients, console |
| `http_server_win.cpp` (p3) | server and consoles in one process, its environment | accept, read, panel, console run to its end | clients, remote shells |
| request parsers | a state per word, the slots of a query | one word, one parameter | both servers and the consoles |
| CGI environment | the variables of a CGI program | set, get | server and console |

**What is hard.** Numbered pipes outlive the line that opened them and are shared by several
lines; each end has to be closed in the right process at the right moment, or a reader waits for
ever, or a writer is killed. The chat server gives out slots, descriptors and pipes that earlier
users left, and the kernel gives out descriptor numbers again at once. Input for all clients goes
through one stdio buffer. The relay runs two asynchronous loops over one buffer. Handlers of the
consoles wait for a prompt that TCP may cut and that a program may print. The CGI server closes descriptor numbers twice, and
other connections get those numbers in between; the one for Windows runs one event loop inside a
handler of another. The list "hazards" of `PROJECT.json` names each place.

**What makes each part correct.**
* shell: a program reads exactly the output meant for it; the shell keeps exactly the ends still
  needed; every line comes back to the prompt.
* chat server tables: slots, map and watched set agree; a pipe stands between two users who are
  present; no descriptor is in two tables and none is lost; names are unique; user pipes behave
  as mail boxes of one parcel.
* chat server input: a line runs for its own client, whole, in order, and every line is answered.
* SOCKS: the first matching rule decides, reply codes are true, a client is not refused for what
  others do; the relay keeps bytes intact and ends when one peer ends.
* simple server: clients one after the other; what a client's programs still do when its shell has
  ended does not disturb the next.
* environment: a line sees the variables of its own client and of nobody else.
* console: a line per prompt, never ahead of the shell unless an output looks like a prompt; the
  page in the order of the session; the file played to its end.
* CGI servers: each client gets the answer to its own request and the page of its own query, no
  connection ends unanswered, a client that is promised its page is not cut off, the server stays
  up but for the causes named.

## 2. Modules

| module | models | builds on |
|---|---|---|
| `NumberedPipes` | what numbered pipes promise: `clock`, `due`; Tick, Promise, Deliver, Quit | |
| `NpShell` | the shell with the kernel's pipes | |
| `SimpleServer` | the server that forks a shell per client and waits for it | `NpShell` |
| `UserPipes` | what user pipes promise: `in`, `parcel`; Login, Logout, Command | |
| `RwgServer` | the tables of the single-process server | |
| `RwgInput` | its select loop and `fgets` | |
| `RwgTurn` | the one environment of its clients | `RwgInput` |
| `SocksServer` | the SOCKS server up to the relay | |
| `SocksRelay` | the relay | |
| `Console` | a session of the console, with the SOCKS server or without | |
| `RequestParser` | request and query string | |
| `HttpServer` | the CGI server with descriptors and child processes | `RequestParser` |
| `HttpServerWin` | the CGI server for Windows with its consoles | `RequestParser`, an instance of `Console` per column |
| `NpShellProof` | theorems about `NpShell` and `SimpleServer` | `SimpleServer` |
| `RwgTurnProof` | theorems about `RwgInput` and `RwgTurn` | `RwgTurn` |
| `HttpServerProof` | theorems about the request parser and `HttpServer` | `HttpServer` |
| `HttpServerWinProof` | theorems about the query string and `HttpServerWin` | `HttpServerWin`, a constant instance of `ConsoleProof` |
| `RwgServerProof`, `SocksServerProof`, `SocksRelayProof`, `ConsoleProof` | theorems about the module of that name | |
| `MC*` | finite sets of lines, lookups, rules, requests and outputs for TLC | |

Definitions named `Fault...` are deviations a plausible mistake in the code would give (a pipe
not closed, a list not searched, a table entry not cleared). No specification uses them; each one
put in place of the definition that follows it breaks a property ("mutants" in `PROJECT.json`),
which shows that the property depends on that code.

**NpShell.** `pc` is the place in the loop: `prompt` (fgets), `open` and `fork` (one pass of the
loop `npShell.c:168`), `wait` and `waitany` (the wait at 337). `pre` and `pi` are `pre_pi` and
`pi`, `pipeN` the list `pipeN_list_head` as a set (at most one entry per count, which is a
property: `DistinctCounts`). A line is reduced to the number of programs and where the last one
writes; only `!` and `!0` give a count of 0, `|0` is an ordinary pipe. ReadLine is 29-138 (the countdown at 91 is part of it, and setenv and printenv return
after it), OpenPipe is 169-213, Fork is one `fork()` with all that child (222-303) and parent
(304-325) do with pipe ends, so a step: nothing of it depends on another process. WaitStage is
the `waitpid` of each process; WaitFile the one more that `>` leads to, because the list entry
of the file name is walked too and its `pid` was never set: its outcome is a choice. Reap is
`childHandler`. `fds` says who holds which end: the child inherits all the shell's ends and
closes what the code closes, so that the ends a background writer keeps of other lines' pipes are
there. Programs are external: they write `Output` units, or copy what they read until end of
file, or stop at any time.

**SimpleServer.** The shell of project 2 is that of project 1, line for line but for `fflush` and
the carriage return, so the module takes over the actions of `NpShell` and puts accept, fork and
`waitpid` around them. Shells follow each other: lines are numbered on, `base` is the number of
lines read by shells that have ended, and the programs of those lines are orphans that init reaps
and that still count against the process limit. `WaitMine` is a shell's own wait, which no orphan
can satisfy.

**RwgServer.** One process serves all, so accept and a whole command line are one step for the
others. `Accept` is `findSmallestUnusedId`, `createClient`, `insertFdMap` and FD_SET together;
`AcceptFull` the same with id -1; `Exit` the cleanup at `np_single_proc_server.cpp:143-173` with
the closing of the numbered pipes in the shell; `Exec` the descriptor work of a line with one or
two programs, with the order of search, removal, leaving the loop at `>` and closing as in the
code. Any free descriptor may be returned by accept or pipe, not only the lowest; `open` is what
the server has open. The clients' own programs do not appear. `Undefined` ends the run of the
model where the code's behaviour is undefined (a failed accept, a client gone without exit);
`AcceptFull` may end it too, or leave a connection without slot.

**RwgInput.** Lines arrive whole or as a head and a tail. `Fill` is the read inside `fgets`: all
that the socket holds goes to the one buffer of stdin, which `close(0); dup(fd)` does not empty.
`Fgets` takes the first line there. `burst`, chosen at the start, is how many lines a client may have
under way before the prompt for the first. `turn` is the client whose descriptor is on 0.

**RwgTurn.** `environ` is the environment of the process, `env_map` each slot's. `Begin` is the
start of a turn with the default PATH and the settings put over what is there; `SetEnv` and `Look`
are what a line may do and end with the cleanup (`Cleaned`): the variables of the map are unset,
also those the server was started with, whose values are thereby gone for everybody (`touched`
keeps account of that, and `OwnEnv` says it). `Login` gives the slot to a new client.

**SocksServer.** `pc[c]` is how far the process of client c has come. `Read` is the handler of
the one read, with parsing (by its outcome), first lookup, firewall and dispatch. `CheckFirewall`
is the loop over the rules as a recursive function; `Permitted` says the same declaratively and
is what properties use. `Connect` shows both branches of the handler of `async_connect`: the one
of a failure ends the process, because `printMessage` asks for the address of a socket that is
not connected. `GiveUp` is the parent that runs out of descriptors or processes (`RunsOut`): after an
accept that fails, with a client waiting or without, and after a fork that fails, `do_accept` is not
called again, the `io_context` has nothing left, and whoever waits is reset.

**SocksRelay.** A direction is in the phase `reading`, `filled`, `writing`, `written`, `ended` or
`dead`. Reading into `data_` (`Fill`) and the handler that starts the write (`StartWrite`) are two
steps, as asio completes the read first and runs the handler later; `Flush` sends part of what
`data_` holds at that moment. `end_flag[i]` is the phase `ended`; sockets are closed when both
loops have finished, explicitly or with the session object (`Closed`).

**Console.** One session; sessions share only standard output and a handler prints at once. The
stream of the shell is cut into reads anywhere; `missed` remembers that a prompt was cut. Outputs are
any text over `o`, `%` and a blank, so that a command may print `% ` itself, which the session takes for
a prompt (`console.cpp:82`): it sends the next line then and there, and `lured` remembers it. `socks`
chooses between the console of project 4, which asks the SOCKS server (`Through`), and that of
project 3, which connects itself (`Direct`); everything after the connection is the same code.

**RequestParser.** A request is the sequence of its words; a word has a kind, whether it holds
control characters, and its parts between question marks. `ParserStep` takes one word in one state,
`ParseHttpHeader` runs it over all of them, and the uri is split at its first part that is not
empty; a uri without one is the exception that `strtok`'s null pointer leads to. `WellFormed` and
`Page` say the same without states and search, and are what properties use. `ParseQueryString`
takes the parameters of the panel one by one: a slot that is never named stays valid with empty
fields, one with an empty parameter does not.

**HttpServer.** `table` is the server's descriptor table, `fd[c]` the number the session's socket
object holds. `Fork` closes the number in the parent (line 95), `Written` is the end of the session,
whose socket object closes the same number again: whoever is behind it by then is closed, and
`hit` remembers that. `queue` is the order in which asio runs what is due. `async_read_some` is called
in the handler of accept and makes its `read` at once: what has arrived is taken (`Take`), and with it
handed to the parser when its handler comes; else the call fails (`Fail`), or the reactor is asked
(`Wait`) and puts the descriptor at the end of the queue when there is something (`Poll`); `Read` is
then the call in its turn. `async_accept` does the same: `do_accept` is called at the end of the
handler of accept and takes the next connection that waits (`AcceptNext`, whose session starts with
`Accept`) or arms the acceptor (`Arm`, `PollAcceptor`, `AcceptReady`); at the
start it is about to be called, and clients may wait already. So a session whose number was closed by another may have been read before; its handler runs all the same, writes its status to
whoever is behind the number, and `local_endpoint()` throws when that is nobody. The handler of a
good request has three steps, between which clients and programs go on: the 200 (`Welcome`), the
endpoints (`Endpoints`: a reset that comes after the 200 throws here), `Fork`. `Beyond` is what
`data_`, never initialised and read as a string without an end, may hold behind the words that
arrived. `holds` are the connections a child has inherited. An exception that nobody catches ends the
process (`Down`).

**HttpServerWin.** One process; `inside` is the client whose console the handler is running, with
an `io_context` of its own, and until its sessions are over nothing else runs. Column k is an
instance of `Console` over `ses[k]`. The query goes through `environ`. A script is written from a
local string that is gone when the call returns: what the system does not take at once is garbage
(`Taken`; `late` in `Show`). The status and the endpoints are one handler: a client that is reset before
or right after the 200 ends the server (`Throw`). `Resolve` may end it too, because the handler copies
a `shared_ptr` that went out of scope.

## 3. Runs

| run | bounds | shows |
|---|---|---|
| `NpShell_lines` | 3 lines of up to 3 programs, `!`, `\|1` and `\|2`, pipes of 3 units, 1 unit of output, process limit 3 | `TypeOK`, `DistinctCounts`, `OnTime`, `ShellHolds` |
| `SimpleServer_clients` | 2 clients, 3 lines of up to 2 programs in all, pipes of 1 unit, 2 units of output, process limit 2 | `ReaderExpected`, `LineEnds`, `OrphansEnd`, `Turns`, `PromisesKept` |
| `RwgServer_tables` | 3 slots, 5 descriptors, 2 names (one the default), counts to 2 | `TypeOK`, `TablesAgree`, `PipesBelongToUsers`, `NoAlias`, `NamesUnique`, `DistinctCounts`, `NoLeak`, `MailKept` |
| `RwgInput_prompt` | 2 clients, 2 lines each, one at a time or two, 2 variables of 2 values | `TurnTypeOK`, `OwnLine`, `InOrder`, `OwnEnv`, `Answered` |
| `RwgInput_burst` | 2 clients, 2 lines each, one at a time or two | `RedirectedLine` violated |
| `SocksRelay_session` | 3 units per peer, buffer of 2 | `TypeOK`, `Intact`, `LastWord`, `Teardown` |
| `SocksRelay_both` | 2 units per peer | `FromClient` violated |
| `SocksServer_sessions` | 2 clients, 2 addresses, 3 names, 4 rules, an accept or a fork may fail | `PermittedOnly`, `Truthful`, `Accepted` |
| `SocksServer_reply` | the same, none fails | `ConnectAnswered` violated |
| `Console_play` | 3 lines, outputs of up to 4 units, one with a lone `%` and one with `% `, reads of up to 3, both consoles | `Paced`, `Transcript`, `Played` |
| `HttpServer_pages` | 2 connections, 1 child at a time, 3 requests (a page, one refused, one without a program), whole or in two pieces | `TypeOK`, `OwnPage`, `AnsweredFirst`, `NeverCutOff`, `Survives`, `Served` |
| `HttpServerWin_page` | 2 clients, consoles of one and two columns, files of 1 line, no outputs but prompts | `OwnConsole`, `Served` |

Why the bounds are enough. A numbered pipe needs two lines to be opened and read, a third to
merge with it or to pass over it; three programs give a program with a pipe on each side. In
`SimpleServer_clients` a program writes more than a pipe holds and the process limit is met by every
line of two programs that follows one still running, in the same shell or in the next; three lines
give a shell with programs left behind and one that has to live with them. Three slots give sender,
receiver and a third whose pipes must not be touched, and every slot is taken over again;
descriptors are few enough to be all in use, so that numbers come back. In the relay the buffer is
smaller than what a peer sends, so a read leaves a rest behind, and a write may take one unit of
two. In `RwgInput_prompt` a client may have two lines on their way, so that one is read ahead, runs in
another's turn and could be lost, joined or overtaken. In `HttpServer_pages` the second connection gets
the number the first one closes twice, before and after it is read, and the process limit is met by the
second request; longer chains of connections on one number are left to the theorems. A program that
does not exist is left out of the run: it ends without a page. In `HttpServerWin_page` a console has two columns, so
that the sessions of one event loop mix, and the second client waits behind it; outputs of more than the
prompt, among them those that hold `% `, would make it too large, are played in `Console_play`, which is
the same code for a session, and are covered for `HttpServerWin` by the theorem. Descriptors are
interchangeable in the code (nothing but equality is asked of them), hence the symmetry set of
`RwgServer_tables`, whose temporal properties are about single steps.

The violated ones are disagreements between a comment and the code, described under "findings":
input a client sends ahead is executed for another; the relay's shared buffer sends a server its own
bytes; a refused CONNECT is not answered.

Limits of the code that passing properties name as exceptions, each also under "hazards":
* Jammed pipes. A program keeps every pipe of its shell open. One that has filled its pipe, with the
  reader's line still to come, keeps its process and the ends of the other pipes: the shell may then
  wait for a child that never ends, and after `exit` two such programs can keep each other for good.
  `LineEnds` and `OrphansEnd` except a state that stays `Jammed`.
* A user pipe read into a file (`cmd <i > file`) leaves its read end open for good: the loop is left
  at `>` before line 685 closes it. `NoLeak` is the action property that no other step ever loses a
  descriptor.
* A line typed ahead of the prompt waits in stdin's buffer until somebody has a turn, and runs for that
  client. `OwnLine` and `Answered` are about clients that wait (`burst = 1`); `InOrder` and `OwnEnv`
  hold for all.
* A client that stops in the middle of a line stops the whole chat server (`Answered` assumes that
  it goes on), and a client without `exit` that closes its connection leads to undefined behaviour,
  where `RwgServer` ends its run.
* A name with several addresses is checked for one and may be connected at another
  (`PermittedOnly` says so).
* A program that prints `% ` is taken for the prompt: the console sends the next line while the shell is
  busy and shows it in the middle of the output. `Paced`, `Transcript` and `OwnConsole` hold until that
  happens (`lured`).
* A prompt cut in two is not noticed (`Played` and the `Served` of `HttpServerWin` except it; there
  it holds all other clients too).
* A peer that closes while being written to may lose what it sent last (`LastWord` and `Intact` are
  about peers that speak in turn).
* The double close of `HttpServer` closes a connection accepted in between, also one whose request has
  been read already. `NeverCutOff` says that it is never one that has been told 200; `AnsweredFirst`
  and `Served` name it. When the session that was hit has been read, its handler throws.
* The CGI server goes down for everybody over a client that is reset before `remote_endpoint()` is
  asked for, also after its 200, over a number that another session has closed, and over a uri of
  question marks alone (`Survives` says that nothing else does).
* The SOCKS server ends when an accept or a fork fails: line 630 has no else, and the branch at 650 does
  not call `do_accept`. `Accepted` says that nobody is left waiting by that.
* An entry of the numbered pipes whose count has gone below zero (a setenv or printenv on the line that
  should have read it) stays in the list until exit; `DistinctCounts` and `ShellHolds` permit it.

Fairness. `NpShell` and `SimpleServer`: the shell's own steps, the server's, init's reaping and every
program's steps are weakly fair, as the kernel schedules every process; typing a line, exit, a
client's connection and a program's early end are not, nor is the signal handler. `RwgInput` and
`RwgTurn`: the server's step is weakly fair (one process in a loop; programs waited for are taken to
end) and a half-sent line is completed. `SocksServer`, `SocksRelay`, `Console`, `HttpServer`:
`io_context::run` runs each ready handler, so the handlers are weakly fair; so are the remote shell
of a console and the CGI programs, which come to their end. `HttpServerWin` has one event loop
inside another; each runs the handlers due in it, and the outer one is weakly fair only while it is
at rest, by the guards. Clients and peers have no fairness, except that a peer which stays reads
what it is sent. `CHECK_DEADLOCK FALSE` stands where the system really stops: the chat server in
undefined behaviour, SOCKS sessions that all have ended, CGI servers with all clients served or
gone down.

## 4. Proofs

TLAPS proves, for every value of the constants that the named assumption of the module allows:

| theorem | states |
|---|---|
| `NpShellProof!TypeCorrect`, `CountsAlwaysDistinct`, `ShellAlwaysHolds`, `AlwaysOnTime` | `TypeOK`, `DistinctCounts`, `ShellHolds`, `OnTime` are invariants of the shell |
| `NpShellProof!ListImplementsPromises` | `Spec => PromisesKept`: the list refines `NumberedPipes` |
| `NpShellProof!ServerKeeps`, `ReaderAlwaysExpected` | the first three also with the server around the shell (`ServerSpec`), and `ReaderExpected` |
| `NpShellProof!ServerListImplementsPromises` | `ServerSpec => PromisesKept`: so do the shells of all clients together |
| `RwgServerProof!TypeCorrect`, `TablesAlwaysAgree`, `PipesAlwaysBelongToUsers`, `NeverAlias` | the four table invariants |
| `RwgServerProof!NamesAlwaysUnique`, `CountsAlwaysDistinct` | inductive by themselves with `TypeOK` |
| `RwgServerProof!TablesImplementMail` | `Spec => MailKept`: the tables refine `UserPipes` |
| `RwgServerProof!LeaksOnlyToFiles` | `Spec => NoLeak`, an action property |
| `RwgTurnProof!InputTypeCorrect`, `AlwaysInOrder`, `AlwaysOwnLine` | `TypeOK`, `InOrder` and `OwnLine` of the input loop alone (`Spec`) |
| `RwgTurnProof!TurnTypeCorrect`, `TurnInOrder`, `TurnOwnLine`, `AlwaysOwnEnv` | the same with the environment (`TurnSpec`), and `OwnEnv` |
| `SocksServerProof!FirewallIsFirstMatch` | `CheckFirewall` (the loop) and `Permitted` agree for all rules |
| `SocksServerProof!AlwaysPermitted`, `AlwaysTruthful` | `PermittedOnly`, `Truthful` |
| `SocksRelayProof!TypeCorrect`, `AlwaysIntact`, `LastWordArrives` | `TypeOK`, `Intact`, `LastWord` |
| `ConsoleProof!AlwaysPaced`, `AlwaysTranscript` | `Paced`, `Transcript` |
| `HttpServerProof!ParserAccepts` | the parser and `WellFormed` with `Page` agree for all requests of five words and more |
| `HttpServerProof!TypeCorrect`, `AlwaysOwnPage`, `AlwaysAnsweredFirst`, `AlwaysNeverCutOff`, `AlwaysSurvives` | all invariants of `HttpServer` |
| `HttpServerWinProof!AlwaysOwnConsole` | `OwnConsole` |

*NpShell.* `ShellHolds` is not inductive: whether `Fork` may close the pipe it hands over depends
on the two pipes in hand being different from every other entry, and `OpenPipe` may only add an
entry when its identity is fresh. `IInv` adds `InLine` (inside a line the line number, the stage
and the line agree), `InHand` (what `pre` and `pi` can be: a pipe of this line, or for the last
stage an entry of the list), `Opened` (pipes are named after a stage that has been reached, so the
name of the stage at hand is new). One lemma per action shows that it keeps `IInv`. The refinement
maps an entry with count c to the due line `lineNo + c`: reading a line leaves the sum alone,
`OpenPipe` promises, `Fork` delivers the entry with count 0, which is the only one because of
`DistinctCounts`.

`OnTime` is about programs forked many lines ago, whose pipes `IInv` has forgotten. `History`
keeps them: programs are forked line by line and stage by stage (`Order`); a program reads from
the stage before it or from a numbered pipe, and while it runs it holds the end it reads
(`Sources`); a pipe has at most one reader (`OneReader`) and one that is still in the list has
none (`Waiting`); and the pipe of a last stage waits in the list, is read by the line it was meant
for, or was dropped with the list (`Sinks`). `Waiting` makes an exception of the pipe that `!0`
opens, whose line has begun.

*SimpleServer.* Lines are numbered on from one shell to the next, so `History` takes the number of
lines read before the present shell as a parameter: `History(base)` of the server is what
`History(0)` is of one shell, and each lemma about an action of the shell is used for both. `SInv`
is `IInv` with `History(base)`; between two shells nothing is in hand and the list is empty.
`ReaderExpected` follows from it: until the reader is forked the shell has the read end, in its
list or in hand, and from then on the reader has it while it runs. With the server around it the
refinement is the same, and the server's own steps leave the list alone.

*RwgServer.* `IInv` is `TypeOK`, `TablesAgree`, `PipesBelongToUsers` and `NoAlias` together:
`Exit` keeps `NoAlias` only because the map and the slots agree on the descriptor closed, and
`Accept` keeps `PipesBelongToUsers` only because the slot's pipes were cleared when it was left.
`NoAlias` is the one that needs a fresh descriptor to be in no table, i.e. `open` to cover them.
The refinement maps the active slots to `in` and the table to `parcel`; a line is one `Command`.

`NoLeak` needs one fact more, `Clean`: a user who has left has no numbered pipes, or accept, which
empties the list of its slot, would forget their descriptors.

*RwgInput.* `OrderInv` says where each client's lines are: those that have run, then what has not
run of what it has completed waits, in order, first in stdin's buffer and then in its socket. This
holds for any `burst`: a line read ahead runs in someone else's turn, but not out of order.
`OneInv` is for `burst = 1`, clients that wait for the prompt of a line before they type the
next: then a client has at most one line on its way, and the buffer is empty outside `fgets`, so
`OwnLine` holds. `RwgInput_burst` shows that without the condition it does not. The prompts a
client has seen are counted with `Cardinality`, whose facts about adding one index are in the
library.

*RwgTurn.* Each step of `TurnSpec` is a step of `RwgInput` or leaves its variables alone, so the
three theorems above carry over. `OwnEnv` speaks of the time a line runs. `EnvInv` adds that
`env_map` is what its client asked for, that every variable asked for counts as touched
(`SetIsTouched`), and what the environment holds between two turns (`Between`), from which the
next turn starts.

*SocksServer.* The recursion of `CheckFirewall` has the declarative answer as a solution, and any
solution agrees with it: the least rule where two differed would decide itself. `SInv` then says of
each phase of a session what the lookups and the firewall have said before it, and which replies
have gone out.

*SocksRelay.* `RInv` adds to `Intact` that what lies in the buffer is units of a peer (`Units`); how much
of a direction has been sent, taken and has gone out (`Counted`); that while the peers speak in turn
one of them has nothing on its way (`InTurns`), so that the buffer between a read and the end of its
write is the other's (`Own`), which is why sharing it does no harm; and why a loop has ended
(`Cause`), from which `LastWord` follows.

*Console.* `CInv` adds what of the shell's output is unread (`Unread`: of the command it ran last, with
nothing behind its prompt), that session and shell are at most one command apart (`InStep`), and
that the page reads as the first `Listed` commands and their outputs (`OnPage`). The invariant is
`lured \/ CInv`: once an output has held `% ` nothing is claimed, and until then the only `% ` in the
stream is the prompt.

*RequestParser* (in `HttpServerProof`). After five words the parser stands still (accepted or
refused), so the recursion has a solution that is written down, and every solution ends as it stands
after the fifth word; fewer than five are never accepted. `FirstPartIs` says what the search for the program finds.

*HttpServer.* The double close is safe or not by the order of the queue, so `IInv` is about that
order. `OrderOK` says that between the read of a session and its handler the acceptor gets no
turn: the one connection that may be accepted then is the one `do_accept` takes at the end of the same
handler, while the session's number is in use. A number that an older session closes after that stays
free until the handler has run. So (`Steady`) from its
read to its fork a session has behind its number the connection it read from, or nobody, when another
session has closed that number, in which case `local_endpoint()` throws. With `TableOK` (who is in the
table is there under the number of its own session, who was hit is not) `Steady` tells whom the status
and the page go to. `CutOff` adds what makes `NeverCutOff` inductive: a connection that has been told
200 and is still in the table has a handler at work on its number, which closes it by the fork before
any other handler runs, so that no second close can meet it. `HeardOK` says that no word is read
twice, and `OutOK` ties what a client has been told to the verdict of the parser on its request, which `ParserAccepts`
turns into `OwnPage`; `Answered` says of everybody who is not in the table why. `Survives` is shown
step by step from `Steady` and `ParserThrows`. That handlers run to their end one after the other is
what all this depends on: with a thread for each handler that is due (`FaultTurn`) `NeverCutOff` is violated.

*HttpServerWin.* First the query string: the loop of `parseQueryString` has its states whatever
the number of parameters, and leaves valid just the slots for which no parameter is empty
(`ColumnsAre`). Both are inductions over data, done by taking the least number of parameters for
which they fail (the library's theorem that < is well-founded on the naturals). `WInv` then says
that the sessions of the console that is running are those of its client's query (`Has`), because
the environment is read in the handler that has just written it, and that each session is in step
with its shell and its column (`InSession`, which excepts a session whose shell has printed `% `)
unless a script was not taken at once (`late`). What a
shell says and how a page grows are the facts of `ConsoleProof`; they are about values, so
`HttpServerWinProof` takes them from an instance in which the variables of a session are
constants. The assumptions on the constants are that queries have the panel's form (slots 0 to 4,
fields h, p and f) and that `Columnar`, up to the code's five, bounds the columns they ask for.

Only model-checked. Every invariant that a passing run checks is proved, and of its action
properties and refinements `NoLeak`, `MailKept` and `PromisesKept`. What is left is liveness
(`LineEnds`, `OrphansEnd`, `Turns`, `Answered`, `Teardown`, `Accepted`, `Played`, the two
`Served`), which is out of the prover's reach.

## 5. Not modelled

The text of who, tell, yell and the broadcasts: they change no table and are written within one turn.
Of the CGI environment everything but program and query, which is only printed. The frame of the
pages. How `strtok` cuts text into words, and the query into parameters. Failing `pipe()`, `setenv`
and `open`, and memory, are left out throughout; `fork` fails where the code looks at it. In
`SocksServer` a request is read once, as in the code: when it comes in pieces the first is parsed
with whatever `data_` holds after it, which is another member of `Request`, chosen freely. In
`HttpServerWin` a request is read whole, because pieces are the same there as in `HttpServer`.

Of the shells: a program behind a numbered pipe on one line (`a |2 b`; `npShell.c:72-76`, 184-213,
307-310, and the same in project 2). The parser accepts it, the pipe is put in the list and is also
the one before `b`, so the shell closes both its ends after `b` while the list keeps their numbers. No
line of `LineType` has that form. Nor is the end of the input (`npShell.c:33`: the result of `fgets`
is not looked at, and what is left in the buffer is cut by a character and executed) in `NpShell`.

Of the chat server: what `createClient` destroys when it writes to `clients[-1]` (the client one more
than `MAXIMUM_USER`); `AcceptFull` has the outcomes for the tables, and no property is about the
memory. A client that is gone without `exit` ends the modelled run (`Undefined`).

## 6. Plan

Done: the shell with its abstract numbered pipes, the server around it, the chat server's tables with
abstract user pipes, its input loop and environment, SOCKS server, relay, consoles, request parser and
both CGI servers, each with the proofs above.

What is left: an abstract pair of byte streams which `SocksRelay` refines while peers speak in turn.

------------------------------- MODULE Console -------------------------------
(***************************************************************************)
(* A session of the remote batch console (np_project4/console.cpp,         *)
(* np_project3/console.cpp: the CGI program that plays a file of commands  *)
(* to a remote shell and prints what is said as HTML).  That of project 4  *)
(* reaches the shell through a SOCKS server; from then on both do the same.*)
(*                                                                         *)
(* When it has its connection the session reads what the shell sends,      *)
(* shows it, and when that read holds "% " sends the next line of the file *)
(* and shows it too.  Sessions share only standard output, and a handler   *)
(* prints a whole script at a time.                                        *)
(*                                                                         *)
(* What is said is cut into units <<kind, n>>: the prompt's two characters *)
(* "%" and " ", which a program may print as well, anything else that is   *)
(* printed, "o", or a command line, "cmd"; n numbers the command (0:       *)
(* before the first).                                                      *)
(***************************************************************************)
EXTENDS Integers, Sequences, FiniteSets

CONSTANTS
  FileLines,  \* lines of the command file
  Outputs,    \* what a command may print, as sequences over "o", "%" and " "
  BufLen      \* units of data_

ASSUME ConsoleAssumption ==
  /\ FileLines \in Nat \ {0} /\ Outputs \subseteq Seq({"o", "%", " "})
  /\ BufLen \in Nat \ {0, 1}

VARIABLES
  socks,   \* the console of project 4: it reaches the shell through a SOCKS server
  pc,      \* what the session waits for
  sent,    \* lines of the file sent
  page,    \* what has been shown
  stream,  \* what the shell has sent and the session not read
  shell,   \* the remote shell: busy, prompt (waiting for a line), gone
  ran,     \* commands it has taken
  lured,   \* history: what a command printed held "% " itself
  missed   \* history: a prompt has been cut in two by a read

vars == <<socks, pc, sent, page, stream, shell, ran, lured, missed>>
shellVars == <<shell, ran, lured>>

Init ==
  /\ socks \in BOOLEAN /\ pc = "resolve" /\ sent = 0 /\ page = << >>
  /\ stream = << >> /\ shell = "busy" /\ ran = 0
  /\ lured = FALSE /\ missed = FALSE

-----------------------------------------------------------------------------
(* The remote shell: external.  It prints, shows its prompt, waits for a    *)
(* line; the last line is exit, which ends it, or is not.                   *)

Say(units) == stream' = stream \o [i \in DOMAIN units |-> <<units[i], ran>>]

\* An output that the console takes for a prompt.
Lures(o) == \E i \in 1 .. Len(o) - 1 : o[i] = "%" /\ o[i + 1] = " "

Prompt ==
  /\ shell = "busy" /\ pc \in {"read", "write", "shown"}
  /\ \E o \in Outputs : Say(o \o <<"%", " ">>) /\ lured' = (lured \/ Lures(o))
  /\ shell' = "prompt"
  /\ UNCHANGED <<socks, pc, sent, page, ran, missed>>

Take ==
  /\ shell = "prompt" /\ ran < sent
  /\ ran' = ran + 1
  /\ \/ shell' = "busy"
     \/ ran' = FileLines /\ shell' = "gone"
  /\ UNCHANGED <<socks, pc, sent, page, stream, lured, missed>>

\* The connection breaks, or the shell is killed.
Lose ==
  /\ shell # "gone" /\ shell' = "gone"
  /\ UNCHANGED <<socks, pc, sent, page, stream, ran, lured, missed>>

-----------------------------------------------------------------------------
(* The session. *)

\* Each step of the way to the shell is one asynchronous call; a failure of
\* one, or a reply other than 90, ends the session without a word.
Direct ==
  \/ pc = "resolve" /\ pc' = "connect"
  \/ pc = "connect" /\ pc' = "read"

Through ==
  \/ pc = "resolve" /\ pc' = "connect"
  \/ pc = "connect" /\ pc' = "request"
  \/ pc = "request" /\ pc' = "reply"
  \/ pc = "reply" /\ pc' = "read"

Dial ==
  /\ \/ ~socks /\ Direct
     \/ socks /\ Through
     \/ pc \in {"resolve", "connect", "request", "reply"} /\ pc' = "over"
  /\ UNCHANGED <<socks, sent, page, stream, shellVars, missed>>

HasPrompt(s) == \E i \in 1 .. Len(s) - 1 : s[i][1] = "%" /\ s[i + 1][1] = " "

\* A read of n units ends inside a prompt.
Cuts(n) == n < Len(stream) /\ HasPrompt(SubSeq(stream, n, n + 1))

\* Fault: any "%" is taken for the prompt.
FaultDoRead ==
  /\ pc = "read" /\ stream # << >>
  /\ \E n \in 1 .. BufLen :
       /\ n <= Len(stream) /\ missed' = (missed \/ Cuts(n))
       /\ page' = page \o SubSeq(stream, 1, n)
       /\ stream' = SubSeq(stream, n + 1, Len(stream))
       /\ pc' = IF \E i \in 1 .. n : stream[i][1] = "%" THEN "write" ELSE "read"
  /\ UNCHANGED <<socks, sent, shellVars>>

\* The handler of a read shows it, and looks for "% " in it.
DoRead ==
  /\ pc = "read" /\ stream # << >>
  /\ \E n \in 1 .. BufLen :
       /\ n <= Len(stream) /\ missed' = (missed \/ Cuts(n))
       /\ page' = page \o SubSeq(stream, 1, n)
       /\ stream' = SubSeq(stream, n + 1, Len(stream))
       /\ pc' = IF HasPrompt(SubSeq(stream, 1, n)) THEN "write" ELSE "read"
  /\ UNCHANGED <<socks, sent, shellVars>>

ReadEof ==
  /\ pc = "read" /\ stream = << >> /\ shell = "gone"
  /\ pc' = "over"
  /\ UNCHANGED <<socks, sent, page, stream, shellVars, missed>>

\* Fault: the next read is started without waiting for the write.
FaultDoWrite ==
  /\ pc = "write"
  /\ \/ sent < FileLines /\ shell # "gone" /\ sent' = sent + 1 /\ pc' = "read"
     \/ (sent = FileLines \/ shell = "gone") /\ pc' = "over" /\ UNCHANGED sent
  /\ UNCHANGED <<socks, page, stream, shellVars, missed>>

\* The next line is written; at the end of the file, or when the write fails,
\* the session ends.
DoWrite ==
  /\ pc = "write"
  /\ \/ sent < FileLines /\ shell # "gone" /\ sent' = sent + 1 /\ pc' = "shown"
     \/ (sent = FileLines \/ shell = "gone") /\ pc' = "over" /\ UNCHANGED sent
  /\ UNCHANGED <<socks, page, stream, shellVars, missed>>

\* Fault: the line is shown and no read is started.
FaultShown ==
  /\ pc = "shown" /\ pc' = "over"
  /\ page' = Append(page, <<"cmd", sent>>)
  /\ UNCHANGED <<socks, sent, stream, shellVars, missed>>

\* The handler of the write shows the line and starts the next read.
Shown ==
  /\ pc = "shown" /\ pc' = "read"
  /\ page' = Append(page, <<"cmd", sent>>)
  /\ UNCHANGED <<socks, sent, stream, shellVars, missed>>

Session == Dial \/ DoRead \/ ReadEof \/ DoWrite \/ Shown
Shell == Prompt \/ Take

\* Nothing is left to do: the session is over.
Over == pc = "over" /\ UNCHANGED vars

\* Console and shell wait for each other for good: a prompt was not noticed.
Stuck ==
  /\ pc = "read" /\ stream = << >> /\ shell = "prompt" /\ ran = sent
  /\ UNCHANGED vars

Next == Session \/ Shell \/ Lose \/ Over \/ Stuck

(* io_context.run runs the handlers, and the remote shell goes on until it  *)
(* is told to exit.                                                          *)
Spec == Init /\ [][Next]_vars /\ WF_vars(Session) /\ WF_vars(Shell)

-----------------------------------------------------------------------------
(* A line of the file is sent only to a shell that waits for a line and has *)
(* taken all the lines before it: the commands of the file never run ahead  *)
(* of the shell, until an output holds "% " itself (console.cpp:82-88).     *)
Paced ==
  ~lured /\ pc = "write" => shell \in {"prompt", "gone"} /\ ran = sent /\ stream = << >>

(* The page reads as the session went: what is shown between command k and  *)
(* command k + 1 is what the shell said after taking the one and before     *)
(* taking the other, and no command is missing.  An output that holds "% "  *)
(* ends that: the next command is shown in the middle of it.                *)
Transcript ==
  ~lured => \A i \in DOMAIN page :
    LET before == Cardinality({j \in 1 .. i - 1 : page[j][1] = "cmd"}) IN
    page[i][2] = IF page[i][1] = "cmd" THEN before + 1 ELSE before

(* A session that has reached its shell plays the file to the end, unless   *)
(* the shell goes away or a prompt arrives in two reads, neither of which   *)
(* then holds "% " (console.cpp:81-88).                                     *)
Played == pc = "read" ~> sent = FileLines \/ shell = "gone" \/ missed
=============================================================================

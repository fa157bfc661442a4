---------------------------- MODULE NumberedPipes ----------------------------
(***************************************************************************)
(* What the numbered pipes of npShell promise, without any pipe.           *)
(*                                                                         *)
(* A shell reads command lines, counted by clock.  A line may promise its  *)
(* output to a line n later (`cmd |n`, `cmd !n`); the set due holds the    *)
(* lines output has been promised to.  Promises to one line are merged.    *)
(* A promise is kept on its own line and on no other; one that is not      *)
(* taken on its line (the line ran no program) stays for good.  Only the   *)
(* end of the shell drops the rest.                                        *)
(***************************************************************************)
EXTENDS Naturals

CONSTANT MaxN  \* the furthest line ahead output can be promised to

VARIABLES clock, due

vars == <<clock, due>>

TypeOK == clock \in Nat /\ due \subseteq Nat

Init == clock = 0 /\ due = {}

\* The next command line is read.
Tick == clock' = clock + 1 /\ UNCHANGED due

\* The current line promises its output to the line n later.
Promise(n) == due' = due \cup {clock + n} /\ UNCHANGED clock

\* The current line takes what was promised to it.
Deliver == clock \in due /\ due' = due \ {clock} /\ UNCHANGED clock

\* The shell ends.
Quit == due' = {} /\ UNCHANGED clock

Next == Tick \/ (\E n \in 0 .. MaxN : Promise(n)) \/ Deliver \/ Quit

Spec == Init /\ [][Next]_vars
=============================================================================

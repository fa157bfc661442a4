---------------------------- MODULE MCSimpleServer ----------------------------
(* The lines typed by the clients of the simple server. *)
EXTENDS SimpleServer

Exec(k, o, i) == [cmd |-> "exec", stages |-> k, out |-> o, n |-> i]

\* two programs and a file, or one program for a later line
ShortLines == {Exec(2, "file", 0), Exec(1, "num", 1), Exec(1, "num", 2)}
=============================================================================

------------------------------ MODULE MCNpShell ------------------------------
(* The lines typed in the runs of NpShell. *)
EXTENDS NpShell

Exec(k, o, i) == [cmd |-> "exec", stages |-> k, out |-> o, n |-> i]
Env == [cmd |-> "setenv", stages |-> 1, out |-> "tty", n |-> 0]

\* setenv; one program with every kind of end; three programs
AllLines == {Env, Exec(2, "tty", 0), Exec(1, "file", 0), Exec(3, "num", 1)}
              \cup {Exec(1, "num", i) : i \in 0 .. MaxN}
=============================================================================

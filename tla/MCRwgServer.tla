----------------------------- MODULE MCRwgServer -----------------------------
(* The command lines typed in the runs of RwgServer. *)
EXTENDS RwgServer, TLC

Symmetry == Permutations(Fds)

Line(i, lead, k, o, n, j) ==
  [cmd |-> "exec", in |-> i, lead |-> lead, stages |-> k, out |-> o, n |-> n, to |-> j]

EnvLine == [Line(0, FALSE, 1, "tty", 0, 0) EXCEPT !.cmd = "setenv"]

\* user pipes: read, written, both in either order, to and from anybody
MailLines ==
  {Line(i, TRUE, 1, "user", 0, j) : i \in 0 .. N, j \in 1 .. N + 1}
    \cup {Line(i, FALSE, 1, "user", 0, j) : i \in 1 .. N, j \in 1 .. N}
    \cup {Line(i, TRUE, 2, "tty", 0, 0) : i \in 1 .. N + 1}

\* numbered pipes: one and two programs, with and without `<`
NumberLines ==
  {EnvLine} \cup {Line(0, FALSE, k, "tty", 0, 0) : k \in 1 .. 2}
    \cup {Line(0, FALSE, k, "num", n, 0) : k \in 1 .. 2, n \in 0 .. MaxN}
    \cup {Line(1, lead, 1, "num", n, 0) : lead \in BOOLEAN, n \in 0 .. MaxN}
    \cup {Line(0, FALSE, 1, "user", 0, 1)}

AllLines == MailLines \cup NumberLines \cup {Line(1, TRUE, 1, "file", 0, 0)}
=============================================================================

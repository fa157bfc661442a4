------------------------------ MODULE MCRwgTurn ------------------------------
(* The server's own environment for TLC: LANG is set, SHOW is not. *)
EXTENDS RwgTurn
StartEnv == [v \in Vars |-> IF v = "LANG" THEN "x" ELSE Unset]
=============================================================================

------------------------------ MODULE MCConsole ------------------------------
(* Small outputs for TLC: nothing, text with a lone "%", and text with what *)
(* looks like a prompt.                                                     *)
EXTENDS Console
SmallOutputs == {<< >>, <<"o", "%", "o">>, <<"o", "%", " ", "o">>}
=============================================================================

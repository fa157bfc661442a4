------------------------------- MODULE RwgTurn -------------------------------
(***************************************************************************)
(* The environment variables of the clients of the single-process server   *)
(* (np_single_proc_server.cpp:128-141, npShell_single_proc.cpp:28-39,      *)
(* 254-300), added to the turns of RwgInput.                               *)
(*                                                                         *)
(* The process has one environment.  Each client's settings are kept in    *)
(* its env_map; at the start of its turn they are put into the environment *)
(* over what is there, and at the end the variables of the map are removed *)
(* and PATH is set to its default.  A slot may be given to a new client    *)
(* between two lines.                                                      *)
(***************************************************************************)
EXTENDS RwgInput

CONSTANTS
  Vars,    \* variables, "PATH" among them
  Values,  \* what clients set them to
  Start    \* the server's own environment: variable -> value or Unset

Unset   == "unset"
Default == "bin:."

ASSUME RwgTurnAssumption ==
  /\ "PATH" \in Vars /\ Unset \notin Values
  /\ Start \in [Vars -> Values \cup {Unset, Default}]

VARIABLES
  environ,  \* the environment of the server's process
  env_map,  \* client -> its settings
  wants,    \* history: client -> what it has set since it logged in
  touched   \* history: the variables any client has ever set

envVars == <<environ, env_map, wants, touched>>
turnVars == <<vars, envVars>>

Empty == [v \in Vars |-> Unset]

\* The settings of a map over an environment.
Over(e, settings) == [v \in Vars |-> IF settings[v] = Unset THEN e[v] ELSE settings[v]]

TurnTypeOK ==
  /\ TypeOK
  /\ environ \in [Vars -> Values \cup {Unset, Default}]
  /\ env_map \in [Clients -> [Vars -> Values \cup {Unset}]]
  /\ wants \in [Clients -> [Vars -> Values \cup {Unset}]]
  /\ touched \subseteq Vars

TurnInit ==
  /\ Init
  /\ environ = Start
  /\ env_map = [c \in Clients |-> Empty] /\ wants = env_map /\ touched = {}

\* The shell starts a turn with the default PATH and the client's settings.
Begin ==
  /\ Turn
  /\ environ' = IF pc' = "fgets"
                THEN Over([environ EXCEPT !["PATH"] = Default], env_map[turn'])
                ELSE environ
  /\ UNCHANGED <<env_map, wants, touched>>

\* The end of a turn: the variables of the client's map are removed, also those
\* the server had before; PATH gets its default.
Cleaned(e, settings) ==
  [v \in Vars |-> IF v = "PATH" THEN Default
                  ELSE IF settings[v] # Unset THEN Unset ELSE e[v]]

\* setenv: the environment and the client's map.
SetEnv ==
  \E v \in Vars, x \in Values :
    LET settings == [env_map[turn] EXCEPT ![v] = x] IN
    /\ Run
    /\ environ' = Cleaned([environ EXCEPT ![v] = x], settings)
    /\ env_map' = [env_map EXCEPT ![turn] = settings]
    /\ wants' = [wants EXCEPT ![turn][v] = x]
    /\ touched' = touched \cup {v}

\* printenv, or a program: it sees the environment as it is.
Look ==
  /\ Run
  /\ environ' = Cleaned(environ, env_map[turn])
  /\ UNCHANGED <<env_map, wants, touched>>

\* Fault: the map of the slot is kept for the next client.
FaultLogin(c) ==
  /\ pc = "select" /\ ~half[c] /\ sock[c] = << >> /\ wants[c] # Empty
  /\ wants' = [wants EXCEPT ![c] = Empty]
  /\ UNCHANGED <<vars, environ, env_map, touched>>

\* The client has left and its slot is another's: the map is cleared.
Login(c) ==
  /\ pc = "select" /\ ~half[c] /\ sock[c] = << >> /\ wants[c] # Empty
  /\ wants' = [wants EXCEPT ![c] = Empty]
  /\ env_map' = [env_map EXCEPT ![c] = Empty]
  /\ UNCHANGED <<vars, environ, touched>>

Rest == Select \/ Fill \/ Fgets

TurnServer == Begin \/ SetEnv \/ Look \/ (Rest /\ UNCHANGED envVars)

TurnNext ==
  \/ TurnServer
  \/ \E c \in Clients : (\E e \in BOOLEAN : Send(c, e) /\ UNCHANGED envVars) \/ Login(c)
  \/ Quiet /\ UNCHANGED envVars

TurnSpec ==
  /\ TurnInit /\ [][TurnNext]_turnVars
  /\ WF_turnVars(TurnServer)
  /\ \A c \in Clients : WF_turnVars(half[c] /\ Send(c, TRUE) /\ UNCHANGED envVars)

-----------------------------------------------------------------------------
(* While a client's line runs, every variable has the value this client has *)
(* given it since it logged in, and nobody else's.  One it has not set has  *)
(* the value the server was started with, the default for PATH; but one any *)
(* client has ever set is gone for all who have not set it: the cleanup     *)
(* removes it and does not put the server's value back                      *)
(* (np_single_proc_server.cpp:131-141).                                     *)
Own(c, v) ==
  CASE wants[c][v] # Unset -> wants[c][v]
    [] wants[c][v] = Unset /\ v = "PATH" -> Default
    [] wants[c][v] = Unset /\ v # "PATH" -> IF v \in touched THEN Unset ELSE Start[v]

OwnEnv == pc \in {"fgets", "run"} => \A v \in Vars : environ[v] = Own(turn, v)
=============================================================================

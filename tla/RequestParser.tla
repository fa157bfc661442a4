---------------------------- MODULE RequestParser ----------------------------
(***************************************************************************)
(* What the HTTP servers and the consoles make of a request and of its     *)
(* query string (request_parser.cpp of projects 3 and 4).                  *)
(*                                                                         *)
(* A request is the sequence of its words, as strtok(" \n") cuts them.  A  *)
(* word has a kind (what its beginning tells the parser), whether it holds *)
(* control characters, and its parts between question marks: "" is an      *)
(* empty part, and a carriage return alone is a word with that one part.   *)
(***************************************************************************)
EXTENDS Integers, Sequences, SequencesExt

Words == [kind : STRING, ctrl : BOOLEAN, parts : Seq(STRING)]
Word(kind, ctrl, parts) == [kind |-> kind, ctrl |-> ctrl, parts |-> parts]

-----------------------------------------------------------------------------
(* Words to request.                                                        *)

\* The uri is split at its question marks: leading ones are skipped, the first
\* part that is not empty is the program, what follows it the query.
FirstPart(parts) == SelectInSeq(parts, LAMBDA p : p # "")
CGI(parts) == parts[FirstPart(parts)]
QueryString(parts) == SubSeq(parts, FirstPart(parts) + 1, Len(parts))

ParserStart == [state |-> "REQUEST_METHOD", parts |-> << >>]

Refused(s) == [s EXCEPT !.state = "refused"]

\* Fault: the host is not looked at.
FaultParserStep(s, w) ==
  CASE s.state = "REQUEST_METHOD" /\ w.kind = "GET" -> [s EXCEPT !.state = "REQUEST_URI"]
    [] s.state = "REQUEST_URI" /\ ~w.ctrl -> [state |-> "SERVER_PROTOCOL", parts |-> w.parts]
    [] s.state = "SERVER_PROTOCOL" /\ w.kind = "HTTP/1" -> [s EXCEPT !.state = "PRE_HTTP_HOST"]
    [] s.state = "PRE_HTTP_HOST" /\ w.kind = "Host:" -> [s EXCEPT !.state = "HTTP_HOST"]
    [] s.state = "HTTP_HOST" -> [s EXCEPT !.state = "accepted"]
    [] s.state = "accepted" -> s
    [] OTHER -> Refused(s)

\* One word per state; the fifth ends the work, and the rest is not looked at.
ParserStep(s, w) ==
  CASE s.state = "REQUEST_METHOD" /\ w.kind = "GET" -> [s EXCEPT !.state = "REQUEST_URI"]
    [] s.state = "REQUEST_URI" /\ ~w.ctrl -> [state |-> "SERVER_PROTOCOL", parts |-> w.parts]
    [] s.state = "SERVER_PROTOCOL" /\ w.kind = "HTTP/1" -> [s EXCEPT !.state = "PRE_HTTP_HOST"]
    [] s.state = "PRE_HTTP_HOST" /\ w.kind = "Host:" -> [s EXCEPT !.state = "HTTP_HOST"]
    [] s.state = "HTTP_HOST" /\ ~w.ctrl -> [s EXCEPT !.state = "accepted"]
    [] s.state = "accepted" -> s
    [] OTHER -> Refused(s)

\* Accepted, refused, or an exception: the uri holds nothing but question marks
\* and strtok returns no program.
ParseHttpHeader(words) ==
  LET after[n \in 0 .. Len(words)] ==
        IF n = 0 THEN ParserStart ELSE ParserStep(after[n - 1], words[n])
      s == after[Len(words)] IN
  IF s.state # "accepted" THEN [result |-> "refused"]
  ELSE IF FirstPart(s.parts) = 0 THEN [result |-> "exception"]
  ELSE [result |-> "accepted", cgi |-> CGI(s.parts), query |-> QueryString(s.parts)]

\* What a request is by its five words, without the states.
WellFormed(words) ==
  /\ Len(words) >= 5
  /\ words[1].kind = "GET" /\ words[3].kind = "HTTP/1" /\ words[4].kind = "Host:"
  /\ ~words[2].ctrl /\ ~words[5].ctrl

\* The program and the query a uri stands for, without the search.
Page(parts, page) ==
  \E k \in DOMAIN parts :
    /\ parts[k] # "" /\ \A j \in 1 .. k - 1 : parts[j] = ""
    /\ page = <<parts[k], SubSeq(parts, k + 1, Len(parts))>>

-----------------------------------------------------------------------------
(* The query string of the panel to the sessions of the console.  A         *)
(* parameter is [key, num, value]: h<num>=value, p<num>=value, f<num>=value *)
(* of session num, or sh=value, sp=value of the SOCKS server (project 4).   *)

MAX_SERVER == 5
Slot == 0 .. MAX_SERVER - 1

\* What the form of the panel sends for a slot.
Param == [key : {"h", "p", "f"}, num : Slot, value : STRING]

NoSlots == [i \in Slot |-> [h |-> "", p |-> "", f |-> "", valid |-> TRUE]]

Filled(slot, a) == [slot EXCEPT ![a.key] = a.value, !.valid = @ /\ a.value # ""]

SetParam(q, a) ==
  IF a.key \in {"sh", "sp"} THEN [q EXCEPT !.socks[a.key] = a.value]
  ELSE [q EXCEPT !.slots[a.num] = Filled(@, a)]

\* Every slot is valid to begin with, one that is never named stays so; a slot
\* with an empty parameter is not, whatever follows.
ParseQueryString(params) ==
  LET after[n \in 0 .. Len(params)] ==
        IF n = 0 THEN [slots |-> NoSlots, socks |-> [sh |-> "", sp |-> ""]]
        ELSE SetParam(after[n - 1], params[n]) IN
  after[Len(params)]

\* The valid slots, in order: the columns s0, s1, ... of the page.
Ascending(S) == SetToSortSeq(S, <)
Columns(slots) == Ascending({i \in Slot : slots[i].valid})
=============================================================================

--------------------------- MODULE MCHttpServerWin ---------------------------
(* Requests for TLC: consoles with two columns and with one, the panel, a     *)
(* program that does not exist, a request that is refused.                    *)
EXTENDS HttpServerWin, TLC
CONSTANTS c1, c2

P(key, num, value) == [key |-> key, num |-> num, value |-> value]
Play(query) == [result |-> "accepted", cgi |-> "/console.cgi", query |-> query]

\* Slots 1 and 3 filled in, the rest empty; a slot with one empty field.
Two == <<P("h", 0, ""), P("h", 1, "a"), P("p", 1, "1"), P("h", 2, ""), P("h", 3, "b"), P("h", 4, "")>>
One == <<P("h", 0, "a"), P("p", 0, ""), P("f", 0, "t"), P("h", 1, ""), P("h", 2, "c"),
         P("h", 3, ""), P("h", 4, "")>>

Asks ==
  c1 :> {Play(Two), [result |-> "refused"]} @@
  c2 :> {Play(One),
         [result |-> "accepted", cgi |-> "/panel.cgi", query |-> << >>],
         [result |-> "accepted", cgi |-> "/nothing.cgi", query |-> One],
         [result |-> "exception"]}

\* The prompt alone; outputs with "% " in them are played in MCConsole.
ShortOutputs == {<< >>}
=============================================================================

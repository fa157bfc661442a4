------------------------- MODULE HttpServerWinProof -------------------------
(***************************************************************************)
(* Theorems about the CGI server without children, for any number of       *)
(* clients, requests of the panel's form, files, outputs, lengths of the   *)
(* buffer and cuts of the streams.                                         *)
(*                                                                         *)
(* The query of a console passes through the parser, whose loop is shown   *)
(* to leave valid just the slots without an empty parameter.  Its sessions *)
(* are as in ConsoleProof, whose facts about what a shell says and how a   *)
(* page grows are used here for each session; after a script that was not  *)
(* taken at once, or an output with "% ", nothing is said.                 *)
(***************************************************************************)
EXTENDS HttpServerWin, SequenceTheorems, FiniteSetTheorems, WellFoundedInduction, TLAPS

\* The facts of ConsoleProof about units, streams and pages are about values.
Facts == INSTANCE ConsoleProof WITH
  socks <- FALSE, pc <- "over", sent <- 0, page <- << >>,
  stream <- << >>, shell <- "gone", ran <- 0, lured <- FALSE, missed <- FALSE

(* A set of numbers that has a member has a least one.                      *)
LEMMA LeastNat ==
  ASSUME NEW T \in SUBSET Nat, T # {}
  PROVE  \E m \in T : \A k \in T : ~(k < m)
<1>1. PICK m \in T : \A k \in T : <<k, m>> \notin OpToRel(<, Nat)
  BY NatLessThanWellFounded, WFMin
<1>2. \A k \in T : ~(k < m)
  BY <1>1 DEF OpToRel
<1> QED
  BY <1>2

-----------------------------------------------------------------------------
(* The query string.                                                        *)

\* None of the provers knows that "" is a STRING.
Text == STRING \cup {""}
Field == [h : Text, p : Text, f : Text, valid : BOOLEAN]
Parsed == [slots : [Slot -> Field], socks : [sh : Text, sp : Text]]
Start == [slots |-> NoSlots, socks |-> [sh |-> "", sp |-> ""]]

\* One pass over the first n parameters, given the sessions before each.
Through(q, f, n) == [k \in 0 .. n |-> IF k = 0 THEN Start ELSE SetParam(f[k - 1], q[k])]

(* The loop over the parameters has its states, whatever their number.      *)
LEMMA LoopRuns ==
  ASSUME NEW q \in Seq(Param), NEW n \in Nat, n <= Len(q)
  PROVE  \E f : f = Through(q, f, n)
<1> DEFINE Bad == {k \in Nat : ~\E f : f = Through(q, f, k)}
<1> SUFFICES ASSUME Bad # {} PROVE FALSE
  OBVIOUS
<1>1. PICK m \in Bad : \A k \in Bad : ~(k < m)
  <2>1. Bad \in SUBSET Nat
    OBVIOUS
  <2> HIDE DEF Bad
  <2> QED
    BY <2>1, LeastNat
<1>2. m \in Nat /\ ~\E f : f = Through(q, f, m)
  OBVIOUS
<1>3. CASE m = 0
  <2> DEFINE f == [k \in 0 .. 0 |-> Start]
  <2>1. f = Through(q, f, 0)
    BY DEF Through
  <2> QED
    BY <1>2, <1>3, <2>1
<1>4. CASE m # 0
  <2>1. m - 1 \in Nat /\ m - 1 < m
    BY <1>2, <1>4
  <2>2. m - 1 \notin Bad
    BY <1>1, <2>1
  <2>3. PICK f : f = Through(q, f, m - 1)
    BY <2>1, <2>2
  <2> DEFINE g == [k \in 0 .. m |-> IF k = m THEN SetParam(f[m - 1], q[m]) ELSE f[k]]
  <2>4. \A k \in 0 .. m : g[k] = IF k = 0 THEN Start ELSE SetParam(g[k - 1], q[k])
    <3> TAKE k \in 0 .. m
    <3>1. k # m => k \in 0 .. m - 1 /\ g[k] = f[k]
      BY <2>1
    <3>2. k # m => f[k] = IF k = 0 THEN Start ELSE SetParam(f[k - 1], q[k])
      <4>1. ASSUME NEW i \in 0 .. m - 1
            PROVE  f[i] = IF i = 0 THEN Start ELSE SetParam(f[i - 1], q[i])
        BY <2>3 DEF Through
      <4> QED
        BY <3>1, <4>1
    <3>3. k # 0 => k - 1 \in 0 .. m /\ g[k - 1] = f[k - 1]
      BY <1>2
    <3>4. g[m] = SetParam(f[m - 1], q[m])
      BY <1>2
    <3> HIDE DEF g
    <3> QED
      BY <1>4, <3>1, <3>2, <3>3, <3>4
  <2>5. g = [k \in 0 .. m |-> g[k]]
    OBVIOUS
  <2> HIDE DEF g
  <2>6. g = Through(q, g, m)
    BY <2>4, <2>5 DEF Through
  <2> QED
    BY <1>2, <2>6
<1> QED
  BY <1>3, <1>4

(* One parameter: the slot it names stays valid if it is not empty, the     *)
(* others stay as they are.                                                 *)
LEMMA OneParam ==
  ASSUME NEW s \in Parsed, NEW a \in Param
  PROVE  LET t == SetParam(s, a) IN
         /\ t \in Parsed
         /\ \A i \in Slot :
              t.slots[i].valid <=> s.slots[i].valid /\ (a.num = i => a.value # "")
<1> DEFINE old == s.slots[a.num]
           new == Filled(old, a)
           t == SetParam(s, a)
<1>1. /\ a.key \in {"h", "p", "f"} /\ a.num \in Slot /\ a.value \in Text
      /\ a.key \notin {"sh", "sp"}
  BY DEF Param, Text
<1>2. s.slots \in [Slot -> Field] /\ old \in Field /\ s.socks \in [sh : Text, sp : Text]
  BY <1>1 DEF Parsed
<1>3. t = [s EXCEPT !.slots[a.num] = new]
  BY <1>1, Zenon DEF SetParam
<1>5. new \in Field /\ (new.valid <=> old.valid /\ a.value # "")
  <2> HIDE DEF old
  <2>1. CASE a.key = "h"
    BY <1>1, <1>2, <2>1 DEF Field, Filled
  <2>2. CASE a.key = "p"
    BY <1>1, <1>2, <2>2 DEF Field, Filled
  <2>3. CASE a.key = "f"
    BY <1>1, <1>2, <2>3 DEF Field, Filled
  <2> QED
    BY <1>1, <2>1, <2>2, <2>3
<1> HIDE DEF new
<1>6. t.slots = [s.slots EXCEPT ![a.num] = new] /\ t.socks = s.socks
      /\ t = [slots |-> t.slots, socks |-> t.socks]
  <2> HIDE DEF t
  <2> QED
    BY <1>3 DEF Parsed
<1> HIDE DEF t
<1>7. t \in Parsed
  <2>1. t.slots \in [Slot -> Field]
    BY <1>1, <1>2, <1>5, <1>6
  <2> QED
    BY <1>2, <1>6, <2>1 DEF Parsed
<1>8. ASSUME NEW i \in Slot
      PROVE  t.slots[i].valid <=> s.slots[i].valid /\ (a.num = i => a.value # "")
  <2>1. CASE i = a.num
    BY <1>1, <1>2, <1>5, <1>6, <2>1
  <2>2. CASE i # a.num
    BY <1>1, <1>2, <1>6, <2>2
  <2> QED
    BY <2>1, <2>2
<1> QED
  BY <1>7, <1>8 DEF t

\* The slots with no empty parameter.
Complete(q) == {i \in Slot : \A j \in DOMAIN q : q[j].num = i => q[j].value # ""}

(* After all parameters the valid slots are those with no empty one.        *)
LEMMA ValidSlots ==
  ASSUME NEW q \in Seq(Param)
  PROVE  {i \in Slot : ParseQueryString(q).slots[i].valid} = Complete(q)
<1> DEFINE len == Len(q)
           run == CHOOSE f : f = Through(q, f, len)
           Good(n) == /\ run[n] \in Parsed
                      /\ \A i \in Slot : run[n].slots[i].valid <=>
                           \A j \in 1 .. n : q[j].num = i => q[j].value # ""
           Bad == {n \in 0 .. len : ~Good(n)}
<1>1. len \in Nat /\ DOMAIN q = 1 .. len /\ \A j \in 1 .. len : q[j] \in Param
  BY LenProperties, ElementOfSeq
<1>2. ParseQueryString(q) = run[len]
  BY DEF ParseQueryString, Through, Start
<1>3. run = Through(q, run, len)
  <2>1. \E f : f = Through(q, f, len)
    BY <1>1, LoopRuns
  <2> QED
    BY <2>1
<1> HIDE DEF run
<1>4. \A n \in 0 .. len : run[n] = IF n = 0 THEN Start ELSE SetParam(run[n - 1], q[n])
  BY <1>3 DEF Through
<1>5. Good(0)
  <2>1. run[0] = Start
    BY <1>1, <1>4
  <2>2. /\ Start.slots = NoSlots /\ Start.socks = [sh |-> "", sp |-> ""]
        /\ Start = [slots |-> Start.slots, socks |-> Start.socks]
    BY DEF Start
  <2> DEFINE none == ""
  <2>3. NoSlots = [i \in Slot |-> [h |-> none, p |-> none, f |-> none, valid |-> TRUE]]
    BY Zenon DEF NoSlots
  <2>n. none \in Text
    BY Zenon DEF Text
  <2>4. Start.socks = [sh |-> none, sp |-> none]
    BY Zenon, <2>2
  <2> HIDE DEF none
  <2>5. NoSlots \in [Slot -> Field] /\ \A i \in Slot : NoSlots[i].valid
    BY <2>3, <2>n DEF Field
  <2>6. Start.socks \in [sh : Text, sp : Text]
    BY <2>4, <2>n
  <2>7. Start \in Parsed
    BY <2>2, <2>5, <2>6 DEF Parsed
  <2>8. \A j \in 1 .. 0 : FALSE
    OBVIOUS
  <2> QED
    BY <2>1, <2>2, <2>5, <2>7, <2>8
<1>6. ASSUME NEW n \in 1 .. len, Good(n - 1) PROVE Good(n)
  <2>1. /\ run[n] = SetParam(run[n - 1], q[n]) /\ q[n] \in Param
    BY <1>1, <1>4
  <2> DEFINE s == run[n - 1]
             a == q[n]
             t == SetParam(s, a)
  <2>2. /\ t \in Parsed
        /\ \A i \in Slot :
             t.slots[i].valid <=> s.slots[i].valid /\ (a.num = i => a.value # "")
    BY <1>6, <2>1, OneParam
  <2>3. \A j : j \in 1 .. n <=> j \in 1 .. n - 1 \/ j = n
    BY <1>1
  <2>4. \A i \in Slot : s.slots[i].valid <=>
          \A j \in 1 .. n - 1 : q[j].num = i => q[j].value # ""
    BY <1>6
  <2>5. run[n] = t
    BY <2>1
  <2> HIDE DEF t, s
  <2>6. ASSUME NEW i \in Slot
        PROVE  t.slots[i].valid <=> \A j \in 1 .. n : q[j].num = i => q[j].value # ""
    BY <2>2, <2>3, <2>4
  <2> QED
    BY <2>2, <2>5, <2>6
<1> HIDE DEF Good
<1>7. Bad = {}
  <2> SUFFICES ASSUME Bad # {} PROVE FALSE
    OBVIOUS
  <2>1. Bad \in SUBSET Nat
    BY <1>1
  <2>2. PICK m \in Bad : \A k \in Bad : ~(k < m)
    <3> HIDE DEF Bad
    <3> QED
      BY <2>1, LeastNat
  <2>3. m \in 0 .. len /\ ~Good(m) /\ m # 0
    BY <1>5
  <2>4. m \in 1 .. len /\ m - 1 \in 0 .. len /\ m - 1 < m
    BY <1>1, <2>3
  <2>5. Good(m - 1)
    BY <2>2, <2>4
  <2> QED
    BY <1>6, <2>3, <2>4, <2>5
<1>8. Good(len)
  BY <1>1, <1>7
<1>9. \A i \in Slot : ParseQueryString(q).slots[i].valid <=>
        \A j \in DOMAIN q : q[j].num = i => q[j].value # ""
  BY <1>1, <1>2, <1>8 DEF Good
<1> QED
  BY <1>9 DEF Complete

\* The columns a query asks for.
Asked(q) == Ascending(Complete(q))

LEMMA ColumnsAre ==
  ASSUME NEW q \in Seq(Param) PROVE Columns(ParseQueryString(q).slots) = Asked(q)
BY ValidSlots DEF Columns, Asked

LEMMA WantedIs == \A c : Wanted(c) = Asked(asked[c].query)
BY DEF Wanted, Asked, Complete

-----------------------------------------------------------------------------
(* The inductive invariant.                                                 *)

Shape(s) ==
  s = [slot |-> s.slot, pc |-> s.pc, sent |-> s.sent, page |-> s.page, stream |-> s.stream,
       shell |-> s.shell, ran |-> s.ran, lured |-> s.lured, missed |-> s.missed]

\* What holds of a session whose shell has shown no "% " but its prompts, as CInv
\* of ConsoleProof.
InStep(s) ==
  /\ s.sent \in Nat /\ s.ran \in Nat /\ s.stream \in Seq(Facts!Unit)
  /\ s.shell \in {"busy", "prompt", "gone"}
  /\ Facts!Unread(s.stream, s.ran)
  /\ s.stream # << >> => s.shell # "busy" /\ s.ran = s.sent /\ s.pc # "write"
  /\ s.shell = "busy" => s.stream = << >> /\ s.ran = s.sent /\ s.pc # "write"
  /\ s.sent = s.ran \/ (s.sent = s.ran + 1 /\ s.pc # "write")
  /\ Facts!OnPage(s.page, Facts!Listed(s.sent, s.pc))
InSession(s) == s.lured \/ InStep(s)

Forms ==
  /\ inside \in Clients \cup {NoClient}
  /\ pc = [c \in Clients |-> pc[c]] /\ out = [c \in Clients |-> out[c]]
  /\ asked = [c \in Clients |-> asked[c]] /\ ses = [k \in Session |-> ses[k]]
  /\ \A c \in Clients : asked[c] \in Requests[c] \cup {NoRequest}
  /\ \A k \in Session : Shape(ses[k])

\* Client c has the console for its own query.
Has(c) ==
  LET columns == Asked(asked[c].query) IN
  /\ pc[c] = "reading"
  /\ \A k \in 1 .. Len(columns) : k \in Session /\ ses[k].slot = columns[k]
  /\ out[c][2] \in {<<"?">>, <<"frame", columns>>}

WInv ==
  /\ Forms
  /\ \A k \in Session : late \/ InSession(ses[k])
  /\ inside # NoClient => Has(inside)

LEMMA UnusedInSession ==
  ASSUME NEW s, s.sent = 0, s.ran = 0, s.stream = << >>, s.page = << >>, s.shell = "busy",
         s.pc \notin {"write", "shown"}
  PROVE  InSession(s)
<1>1. Len(s.stream) = 0 /\ s.stream \in Seq(Facts!Unit)
  OBVIOUS
<1>2. Facts!Unread(s.stream, s.ran)
  <2> DEFINE t == s.stream
  <2>1. /\ \A i \in 1 .. Len(t) : FALSE
        /\ \A i \in 1 .. Len(t) - 1 : FALSE
    BY <1>1
  <2> HIDE DEF t
  <2>2. \A n : Facts!Unread(t, n)
    BY <2>1 DEF Facts!Unread
  <2> QED
    BY <2>2 DEF t
<1>3. Facts!OnPage(s.page, Facts!Listed(s.sent, s.pc))
  <2>1. Facts!Listed(s.sent, s.pc) = 0
    BY DEF Facts!Listed
  <2> QED
    BY <2>1, HttpServerWinAssumption, Facts!PageEmpty
<1> QED
  BY <1>1, <1>2, <1>3 DEF InSession, InStep

LEMMA InitWInv == Init => WInv
<1> SUFFICES ASSUME Init PROVE WInv
  OBVIOUS
<1>1. /\ inside = NoClient /\ ses = [k \in Session |-> Unused]
      /\ pc = [c \in Clients |-> "away"] /\ out = [c \in Clients |-> << >>]
      /\ asked = [c \in Clients |-> NoRequest]
  BY DEF Init
<1>2. Shape(Unused)
  BY DEF Shape, Unused
<1>3. Forms
  BY <1>1, <1>2 DEF Forms
<1>4. InSession(Unused)
  BY UnusedInSession DEF Unused
<1> QED
  BY <1>1, <1>3, <1>4 DEF WInv

-----------------------------------------------------------------------------
(* The steps of a session.                                                  *)

(* A session that goes on as it may leaves everything else as it is.        *)
LEMMA OneSession ==
  ASSUME WInv, NEW k \in Session, NEW s, To(k, s), UNCHANGED server,
         Shape(s), s.slot = ses[k].slot, late => late', late' \/ InSession(s)
  PROVE  WInv'
<1>1. UNCHANGED <<pc, asked, inside, out>> /\ ses' = [ses EXCEPT ![k] = s]
  BY DEF To, server, client
<1>2. Forms
  BY DEF WInv
<1>3. /\ ses' = [j \in Session |-> ses'[j]]
      /\ \A j \in Session : ses'[j] = IF j = k THEN s ELSE ses[j]
  BY <1>1, <1>2 DEF Forms
<1>4. \A j \in Session : Shape(ses'[j]) /\ ses'[j].slot = ses[j].slot
  BY <1>2, <1>3 DEF Forms
<1>5. Forms'
  BY <1>1, <1>2, <1>3, <1>4 DEF Forms
<1>6. \A j \in Session : late' \/ InSession(ses'[j])
  BY <1>3 DEF WInv
<1>7. ASSUME inside' # NoClient PROVE Has(inside)'
  <2>1. Has(inside) /\ inside' = inside
    BY <1>1, <1>7 DEF WInv
  <2> QED
    BY <1>1, <1>4, <2>1 DEF Has
<1> QED
  BY <1>5, <1>6, <1>7 DEF WInv

LEMMA OverIs ==
  ASSUME NEW s, NEW t, t = Over(s)
  PROVE  Shape(t) /\ t.slot = s.slot /\ InSession(t)
<1> DEFINE u == Unused
<1>1. u = [slot |-> 0, pc |-> "over", sent |-> 0, page |-> << >>, stream |-> << >>,
           shell |-> "busy", ran |-> 0, lured |-> FALSE, missed |-> FALSE]
  BY DEF Unused
<1> HIDE DEF u
<1>2. t = [u EXCEPT !.slot = s.slot]
  BY DEF Over, u
<1>3. /\ Shape(t) /\ t.slot = s.slot /\ t.pc = "over" /\ t.sent = 0 /\ t.page = << >>
      /\ t.stream = << >> /\ t.shell = "busy" /\ t.ran = 0
  BY <1>1, <1>2 DEF Shape
<1> QED
  BY <1>3, UnusedInSession

(* A session that ends, and one of which only the next handler changes.     *)
LEMMA Ends ==
  ASSUME WInv, NEW k \in Session, To(k, Over(ses[k])), UNCHANGED <<server, late>>
  PROVE  WInv'
<1>1. PICK t : t = Over(ses[k])
  OBVIOUS
<1>2. Shape(t) /\ t.slot = ses[k].slot /\ InSession(t)
  BY <1>1, OverIs
<1>3. To(k, t) /\ UNCHANGED server /\ (late => late')
  BY <1>1
<1> QED
  BY <1>2, <1>3, OneSession

LEMMA GoesOn ==
  ASSUME WInv, NEW k \in Session, NEW at, To(k, [ses[k] EXCEPT !.pc = at]),
         at \notin {"write", "shown"}, ses[k].pc \notin {"write", "shown"},
         UNCHANGED <<server, late>>
  PROVE  WInv'
<1>1. PICK s, t : s = ses[k] /\ t = [s EXCEPT !.pc = at]
  OBVIOUS
<1>2. Shape(s) /\ (late \/ InSession(s))
  BY <1>1 DEF WInv, Forms
<1>3. /\ Shape(t) /\ t.slot = s.slot /\ t.pc = at /\ t.sent = s.sent /\ t.page = s.page
      /\ t.stream = s.stream /\ t.shell = s.shell /\ t.ran = s.ran /\ t.lured = s.lured
  BY <1>1, <1>2 DEF Shape
<1>4. Facts!Listed(t.sent, t.pc) = Facts!Listed(s.sent, s.pc)
  BY <1>1, <1>3 DEF Facts!Listed
<1>5. late \/ InSession(t)
  <2>1. InStep(s) => InStep(t)
    BY <1>1, <1>3, <1>4 DEF InStep
  <2> QED
    BY <1>2, <1>3, <2>1 DEF InSession
<1>6. To(k, t) /\ UNCHANGED server /\ (late => late') /\ (late' \/ InSession(t))
  BY <1>1, <1>5
<1> QED
  BY <1>1, <1>3, <1>6, OneSession

LEMMA ResolveKeeps == ASSUME WInv, NEW k \in Session, Resolve(k) PROVE WInv'
<1>1. CASE To(k, Over(ses[k])) /\ UNCHANGED <<server, late>>
  BY <1>1, Ends
<1>2. CASE To(k, [ses[k] EXCEPT !.pc = "connect"]) /\ UNCHANGED <<server, late>>
  BY <1>2, GoesOn DEF Resolve
<1>3. CASE ses' = [j \in Session |-> Over(ses[j])] /\ UNCHANGED <<client, environ, inside, out, late>>
  <2>1. \A j \in Session : Shape(ses'[j]) /\ ses'[j].slot = ses[j].slot /\ InSession(ses'[j])
    <3> TAKE j \in Session
    <3>1. PICK t : t = Over(ses[j])
      OBVIOUS
    <3>2. ses'[j] = t
      BY <1>3, <3>1
    <3> QED
      BY <3>1, <3>2, OverIs
  <2>2. UNCHANGED <<pc, asked, inside, out>> /\ ses' = [j \in Session |-> ses'[j]]
    BY <1>3 DEF client
  <2>3. Forms'
    BY <2>1, <2>2 DEF WInv, Forms
  <2>4. ASSUME inside' # NoClient PROVE Has(inside)'
    <3>1. Has(inside) /\ inside' = inside
      BY <2>2, <2>4 DEF WInv
    <3> QED
      BY <2>1, <2>2, <3>1 DEF Has
  <2> QED
    BY <2>1, <2>3, <2>4 DEF WInv
<1> QED
  BY <1>1, <1>2, <1>3 DEF Resolve

LEMMA ConnectKeeps == ASSUME WInv, NEW k \in Session, Connect(k) PROVE WInv'
<1>1. CASE To(k, Over(ses[k])) /\ UNCHANGED <<server, late>>
  BY <1>1, Ends
<1>2. CASE To(k, [ses[k] EXCEPT !.pc = "read"]) /\ UNCHANGED <<server, late>>
  BY <1>2, GoesOn DEF Connect
<1> QED
  BY <1>1, <1>2 DEF Connect

LEMMA ReadEofKeeps == ASSUME WInv, NEW k \in Session, ReadEof(k) PROVE WInv'
BY Ends DEF ReadEof

LEMMA DoWriteKeeps == ASSUME WInv, NEW k \in Session, DoWrite(k) PROVE WInv'
<1>1. CASE To(k, Over(ses[k]))
  BY <1>1, Ends DEF DoWrite
<1>2. CASE ~To(k, Over(ses[k]))
  <2>1. PICK s : s = ses[k]
    OBVIOUS
  <2>2. PICK t : t = [s EXCEPT !.sent = @ + 1, !.pc = "shown"]
    OBVIOUS
  <2>3. To(k, t) /\ s.pc = "write" /\ UNCHANGED <<server, late>>
    BY <1>2, <2>1, <2>2 DEF DoWrite
  <2>4. Shape(s) /\ (late \/ InSession(s))
    BY <2>1 DEF WInv, Forms
  <2>5. /\ Shape(t) /\ t.slot = s.slot /\ t.pc = "shown" /\ t.sent = s.sent + 1
        /\ t.page = s.page /\ t.stream = s.stream /\ t.shell = s.shell /\ t.ran = s.ran
        /\ t.lured = s.lured
    BY <2>2, <2>4 DEF Shape
  <2>6. ASSUME InStep(s) PROVE InStep(t)
    <3>1. s.sent = s.ran /\ s.sent \in Nat /\ s.shell # "busy" /\ s.stream = << >>
      BY <2>3, <2>6 DEF InStep
    <3>2. Facts!Listed(t.sent, t.pc) = Facts!Listed(s.sent, s.pc)
      BY <2>3, <2>5, <3>1 DEF Facts!Listed
    <3> QED
      BY <2>5, <2>6, <3>1, <3>2 DEF InStep
  <2>7. UNCHANGED server /\ (late => late') /\ (late' \/ InSession(t))
    BY <2>3, <2>4, <2>5, <2>6 DEF InSession
  <2> QED
    BY <2>1, <2>3, <2>5, <2>7, OneSession
<1> QED
  BY <1>1, <1>2

(* What is shown belongs on the page, as long as every script was taken.     *)
LEMMA ShowKeeps ==
  ASSUME WInv, NEW k \in Session, NEW r, NEW units, Show(k, r, units), UNCHANGED server,
         Shape(r), r.slot = ses[k].slot,
         ~late /\ ~r.lured =>
           \A t : /\ Shape(t) /\ t.pc = r.pc /\ t.sent = r.sent /\ t.stream = r.stream
                  /\ t.shell = r.shell /\ t.ran = r.ran /\ t.page = r.page \o units
                  => InStep(t)
  PROVE  WInv'
<1>1. PICK t : /\ t = [r EXCEPT !.page = IF late' THEN @ ELSE @ \o units]
               /\ To(k, t) /\ (late => late')
  BY DEF Show
<1>2. /\ Shape(t) /\ t.slot = r.slot /\ t.pc = r.pc /\ t.sent = r.sent
      /\ t.stream = r.stream /\ t.shell = r.shell /\ t.ran = r.ran /\ t.lured = r.lured
      /\ t.page = IF late' THEN r.page ELSE r.page \o units
  BY <1>1 DEF Shape
<1>3. late' \/ InSession(t)
  BY <1>1, <1>2 DEF InSession
<1> QED
  BY <1>1, <1>2, <1>3, OneSession

LEMMA ShownKeeps == ASSUME WInv, NEW k \in Session, Shown(k) PROVE WInv'
<1>1. PICK s : s = ses[k]
  OBVIOUS
<1>2. PICK r : r = [s EXCEPT !.pc = "read"]
  OBVIOUS
<1> DEFINE units == <<<<"cmd", s.sent>>>>
<1>3. s.pc = "shown" /\ Show(k, r, units) /\ UNCHANGED server
  BY <1>1, <1>2 DEF Shown
<1>4. Shape(s) /\ (late \/ InSession(s))
  BY <1>1 DEF WInv, Forms
<1>5. /\ Shape(r) /\ r.slot = s.slot /\ r.pc = "read" /\ r.sent = s.sent /\ r.page = s.page
      /\ r.stream = s.stream /\ r.shell = s.shell /\ r.ran = s.ran /\ r.lured = s.lured
  BY <1>2, <1>4 DEF Shape
<1>6. ASSUME ~late, ~r.lured, NEW t, Shape(t), t.pc = r.pc, t.sent = r.sent, t.stream = r.stream,
             t.shell = r.shell, t.ran = r.ran, t.page = r.page \o units
      PROVE  InStep(t)
  <2>1. InStep(s)
    BY <1>4, <1>5, <1>6 DEF InSession
  <2>2. s.sent \in Nat /\ Facts!OnPage(s.page, s.sent - 1)
    BY <1>3, <2>1 DEF InStep, Facts!Listed
  <2>3. Facts!OnPage(Append(s.page, <<"cmd", s.sent - 1 + 1>>), s.sent - 1 + 1)
    BY <2>2, HttpServerWinAssumption, Facts!PageCmd
  <2>4. s.sent - 1 + 1 = s.sent
    BY <2>2
  <2>5. Facts!OnPage(Append(s.page, <<"cmd", s.sent>>), s.sent)
    BY <2>3, <2>4
  <2>6. t.page = Append(s.page, <<"cmd", s.sent>>)
    <3>1. s.page \in Seq(Facts!Unit)
      BY <2>2 DEF Facts!OnPage
    <3>2. \A u, v : u \in Seq(Facts!Unit) => Append(u, v) = u \o <<v>>
      OBVIOUS
    <3> QED
      BY <1>5, <1>6, <3>1, <3>2
  <2>7. Facts!OnPage(t.page, Facts!Listed(t.sent, t.pc))
    BY <1>5, <1>6, <2>5, <2>6 DEF Facts!Listed
  <2> QED
    BY <1>3, <1>5, <1>6, <2>1, <2>7 DEF InStep
<1> HIDE DEF units
<1> QED
  BY <1>1, <1>3, <1>5, <1>6, ShowKeeps

LEMMA DoReadKeeps == ASSUME WInv, NEW k \in Session, DoRead(k) PROVE WInv'
<1>1. PICK s : s = ses[k]
  OBVIOUS
<1>2. PICK n \in 1 .. BufLen :
        LET units == SubSeq(s.stream, 1, n) IN
        /\ n <= Len(s.stream)
        /\ Show(k, [s EXCEPT !.missed = @ \/ At(k)!Cuts(n),
                             !.stream = SubSeq(@, n + 1, Len(@)),
                             !.pc = IF At(k)!HasPrompt(units) THEN "write" ELSE "read"], units)
  BY <1>1 DEF DoRead
<1> DEFINE units == SubSeq(s.stream, 1, n)
<1>3. PICK m : m = (s.missed \/ At(k)!Cuts(n))
  OBVIOUS
<1>4. At(k)!HasPrompt(units) = Facts!HasPrompt(units)
  BY DEF At!HasPrompt, Facts!HasPrompt
<1>5. PICK at : at = IF Facts!HasPrompt(units) THEN "write" ELSE "read"
  OBVIOUS
<1>6. PICK r : r = [s EXCEPT !.missed = m, !.stream = SubSeq(@, n + 1, Len(@)), !.pc = at]
  OBVIOUS
<1>7. Show(k, r, units) /\ UNCHANGED server /\ s.pc = "read"
  BY <1>1, <1>2, <1>3, <1>4, <1>5, <1>6 DEF DoRead
<1>8. Shape(s) /\ (late \/ InSession(s))
  BY <1>1 DEF WInv, Forms
<1>9. /\ Shape(r) /\ r.slot = s.slot /\ r.pc = at /\ r.sent = s.sent /\ r.page = s.page
      /\ r.stream = SubSeq(s.stream, n + 1, Len(s.stream)) /\ r.shell = s.shell /\ r.ran = s.ran
      /\ r.lured = s.lured
  BY <1>6, <1>8 DEF Shape
<1>10. ASSUME ~late, ~r.lured, NEW t, Shape(t), t.pc = r.pc, t.sent = r.sent, t.stream = r.stream,
              t.shell = r.shell, t.ran = r.ran, t.page = r.page \o units
       PROVE  InStep(t)
  <2>1. InStep(s)
    BY <1>8, <1>9, <1>10 DEF InSession
  <2>2. /\ s.stream \in Seq(Facts!Unit) /\ Facts!Unread(s.stream, s.ran)
        /\ s.sent \in Nat /\ Facts!OnPage(s.page, s.sent)
    BY <1>7, <2>1 DEF InStep, Facts!Listed
  <2>3. n \in 1 .. Len(s.stream)
    <3>1. BufLen \in Nat /\ Len(s.stream) \in Nat
      BY <2>2, LenProperties, HttpServerWinAssumption
    <3> QED
      BY <1>2, <3>1
  <2>4. s.stream # << >>
    BY <2>2, <2>3
  <2>5. s.ran = s.sent /\ s.shell # "busy"
    BY <2>1, <2>4 DEF InStep
  <2>6. /\ units \in Seq(Facts!Unit) /\ t.stream \in Seq(Facts!Unit) /\ Len(units) = n
        /\ \A i \in 1 .. n : units[i] = s.stream[i]
        /\ Facts!Unread(t.stream, s.ran)
        /\ Facts!HasPrompt(units) => t.stream = << >>
    BY <1>9, <1>10, <2>2, <2>3, HttpServerWinAssumption, Facts!Taken
  <2> HIDE DEF units
  <2>7. \A i \in 1 .. Len(units) : units[i][1] # "cmd" /\ units[i][2] = s.sent
    <3> TAKE i \in 1 .. Len(units)
    <3>1. i \in 1 .. Len(s.stream) /\ units[i] = s.stream[i]
      BY <2>2, <2>3, <2>6, LenProperties
    <3>2. s.stream[i][1] # "cmd" /\ s.stream[i][2] = s.ran
      BY <2>2, <3>1 DEF Facts!Unread
    <3> QED
      BY <2>5, <3>1, <3>2
  <2>8. Facts!OnPage(s.page \o units, s.sent)
    BY <2>2, <2>6, <2>7, HttpServerWinAssumption, Facts!PageSaid
  <2>9. Facts!OnPage(t.page, Facts!Listed(t.sent, t.pc))
    BY <1>5, <1>9, <1>10, <2>8 DEF Facts!Listed
  <2>10. t.pc = "write" => t.stream = << >>
    BY <1>5, <1>9, <1>10, <2>6
  <2> QED
    BY <1>9, <1>10, <2>1, <2>2, <2>5, <2>6, <2>9, <2>10 DEF InStep
<1> HIDE DEF units
<1> QED
  BY <1>1, <1>7, <1>9, <1>10, ShowKeeps

(* The remote shell: it speaks when nothing it has said is unread.          *)
LEMMA SpeaksKeeps ==
  ASSUME WInv, NEW k \in Session, ses[k].shell = "busy", NEW o \in Outputs,
         To(k, [ses[k] EXCEPT !.shell = "prompt", !.lured = @ \/ At(k)!Lures(o),
                  !.stream = @ \o [i \in 1 .. Len(o) + 2 |->
                                     <<(o \o <<"%", " ">>)[i], ses[k].ran>>]]),
         UNCHANGED <<server, late>>
  PROVE  WInv'
<1>1. PICK s : s = ses[k]
  OBVIOUS
<1> DEFINE u == o \o <<"%", " ">>
           said == [i \in 1 .. Len(o) + 2 |-> <<u[i], s.ran>>]
<1>2. PICK f : f = said
  OBVIOUS
<1>9. PICK l : l = (s.lured \/ At(k)!Lures(o))
  OBVIOUS
<1>3. PICK t : t = [s EXCEPT !.shell = "prompt", !.lured = l, !.stream = @ \o f]
  OBVIOUS
<1>4. To(k, t)
  BY <1>1, <1>2, <1>3, <1>9
<1>5. Shape(s) /\ (late \/ InSession(s)) /\ s.shell = "busy"
  BY <1>1 DEF WInv, Forms
<1>6. /\ Shape(t) /\ t.slot = s.slot /\ t.pc = s.pc /\ t.sent = s.sent /\ t.page = s.page
      /\ t.stream = s.stream \o f /\ t.shell = "prompt" /\ t.ran = s.ran /\ t.lured = l
  BY <1>3, <1>5 DEF Shape
<1>7. ASSUME InStep(s), ~At(k)!Lures(o) PROVE InStep(t)
  <2>1. /\ s.stream = << >> /\ s.ran = s.sent /\ s.ran \in Nat /\ s.pc # "write"
        /\ Facts!OnPage(s.page, Facts!Listed(s.sent, s.pc))
    BY <1>5, <1>7 DEF InStep
  <2>2. f \in Seq(Facts!Unit) /\ Facts!Unread(f, s.ran)
    <3>0. ~Facts!Lures(o)
      BY <1>7 DEF At!Lures, Facts!Lures
    <3>1. /\ DOMAIN Facts!Prompted(o) = 1 .. Len(o) + 2
          /\ Facts!Speech(o, s.ran) \in Seq(Facts!Unit)
          /\ Facts!Unread(Facts!Speech(o, s.ran), s.ran)
      BY <2>1, <3>0, HttpServerWinAssumption, Facts!Says
    <3>2. Facts!Prompted(o) = u
      BY DEF Facts!Prompted
    <3>3. f = Facts!Speech(o, s.ran)
      <4> HIDE DEF u
      <4> QED
        BY <1>2, <3>1, <3>2 DEF Facts!Speech
    <3> QED
      BY <3>1, <3>3
  <2>3. t.stream = f
    BY <1>6, <2>1, <2>2, ConcatEmptySeq
  <2> QED
    BY <1>5, <1>6, <2>1, <2>2, <2>3 DEF InStep
<1>8. UNCHANGED server /\ (late => late') /\ (late' \/ InSession(t))
  BY <1>5, <1>6, <1>7, <1>9 DEF InSession
<1> QED
  BY <1>1, <1>4, <1>6, <1>8, OneSession

LEMMA TakesKeeps ==
  ASSUME WInv, NEW k \in Session, ses[k].shell = "prompt", ses[k].ran < ses[k].sent,
         NEW to \in {"busy", "gone"},
         To(k, [ses[k] EXCEPT !.ran = @ + 1, !.shell = to]), UNCHANGED <<server, late>>
  PROVE  WInv'
<1>1. PICK s : s = ses[k]
  OBVIOUS
<1>2. PICK t : t = [s EXCEPT !.ran = @ + 1, !.shell = to]
  OBVIOUS
<1>3. To(k, t)
  BY <1>1, <1>2
<1>4. Shape(s) /\ (late \/ InSession(s)) /\ s.shell = "prompt" /\ s.ran < s.sent
  BY <1>1 DEF WInv, Forms
<1>5. /\ Shape(t) /\ t.slot = s.slot /\ t.pc = s.pc /\ t.sent = s.sent /\ t.page = s.page
      /\ t.stream = s.stream /\ t.shell = to /\ t.ran = s.ran + 1
      /\ t.lured = s.lured
  BY <1>2, <1>4 DEF Shape
<1>6. ASSUME InStep(s) PROVE InStep(t)
  <2>1. /\ s.ran \in Nat /\ s.sent \in Nat /\ s.sent = s.ran + 1 /\ s.pc # "write"
        /\ s.stream = << >>
    BY <1>4, <1>6 DEF InStep
  <2>2. Facts!Unread(t.stream, t.ran)
    <3> DEFINE q == t.stream
    <3>1. q = << >>
      BY <1>5, <2>1
    <3>2. /\ \A i \in 1 .. Len(q) : FALSE
          /\ \A i \in 1 .. Len(q) - 1 : FALSE
      BY <3>1
    <3> HIDE DEF q
    <3>3. \A n : Facts!Unread(q, n)
      BY <3>2 DEF Facts!Unread
    <3> QED
      BY <3>3 DEF q
  <2> QED
    BY <1>5, <1>6, <2>1, <2>2 DEF InStep
<1>7. UNCHANGED server /\ (late => late') /\ (late' \/ InSession(t))
  BY <1>4, <1>5, <1>6 DEF InSession
<1> QED
  BY <1>1, <1>3, <1>5, <1>7, OneSession

LEMMA ShellKeeps == ASSUME WInv, NEW k \in Session, Shell(k) PROVE WInv'
<1>1. CASE ses[k].shell = "busy"
  <2>1. PICK o \in Outputs :
          To(k, [ses[k] EXCEPT !.shell = "prompt", !.lured = @ \/ At(k)!Lures(o),
                   !.stream = @ \o [i \in 1 .. Len(o) + 2 |->
                                      <<(o \o <<"%", " ">>)[i], ses[k].ran>>]])
    BY <1>1 DEF Shell
  <2>2. UNCHANGED <<server, late>>
    BY DEF Shell
  <2> QED
    BY <1>1, <2>1, <2>2, SpeaksKeeps
<1>2. CASE ses[k].shell # "busy"
  <2>1. PICK to \in {"busy", "gone"} : To(k, [ses[k] EXCEPT !.ran = @ + 1, !.shell = to])
    BY <1>2 DEF Shell
  <2>2. ses[k].shell = "prompt" /\ ses[k].ran < ses[k].sent /\ UNCHANGED <<server, late>>
    BY <1>2 DEF Shell
  <2> QED
    BY <2>1, <2>2, TakesKeeps
<1> QED
  BY <1>1, <1>2

LEMMA LoseKeeps == ASSUME WInv, NEW k \in Session, Lose(k) PROVE WInv'
<1>1. PICK s : s = ses[k]
  OBVIOUS
<1>2. PICK t : t = [s EXCEPT !.shell = "gone"]
  OBVIOUS
<1>3. To(k, t) /\ UNCHANGED <<server, late>>
  BY <1>1, <1>2 DEF Lose
<1>4. Shape(s) /\ (late \/ InSession(s))
  BY <1>1 DEF WInv, Forms
<1>5. /\ Shape(t) /\ t.slot = s.slot /\ t.pc = s.pc /\ t.sent = s.sent /\ t.page = s.page
      /\ t.stream = s.stream /\ t.shell = "gone" /\ t.ran = s.ran
      /\ t.lured = s.lured
  BY <1>2, <1>4 DEF Shape
<1>6. InSession(s) => InSession(t)
  <2>1. InStep(s) => InStep(t)
    BY <1>5 DEF InStep
  <2> QED
    BY <1>5, <2>1 DEF InSession
<1> QED
  BY <1>1, <1>3, <1>4, <1>5, <1>6, OneSession

-----------------------------------------------------------------------------
(* The steps of the clients and of the server.                              *)

(* No step of another client's touches the console the server is in.        *)
LEMMA DialKeeps == ASSUME WInv, NEW c \in Clients, Dial(c) PROVE WInv'
<1>1. /\ pc[c] = "away" /\ pc' = [pc EXCEPT ![c] = "queued"]
      /\ UNCHANGED <<inside, out, ses, late>>
  BY DEF Dial
<1>2. PICK r \in Requests[c] \cup {NoRequest} : asked' = [asked EXCEPT ![c] = r]
  BY DEF Dial
<1>3. Forms
  BY DEF WInv
<1>4. \A d \in Clients : d # c => pc'[d] = pc[d] /\ asked'[d] = asked[d]
  BY <1>1, <1>2, <1>3 DEF Forms
<1>5. asked' = [d \in Clients |-> asked'[d]] /\ asked'[c] = r
  BY <1>2, <1>3 DEF Forms
<1>6. pc' = [d \in Clients |-> pc'[d]]
  BY <1>1, <1>3 DEF Forms
<1>7. \A d \in Clients : asked'[d] \in Requests[d] \cup {NoRequest}
  BY <1>3, <1>4, <1>5 DEF Forms
<1>8. Forms'
  BY <1>1, <1>3, <1>5, <1>6, <1>7 DEF Forms
<1>9. ASSUME inside' # NoClient PROVE Has(inside)'
  <2>1. PICK d \in Clients : d = inside /\ Has(d)
    BY <1>1, <1>3, <1>9 DEF WInv, Forms
  <2>2. inside' = d /\ pc'[d] = pc[d] /\ asked'[d] = asked[d]
    BY <1>1, <1>4, <2>1 DEF Has
  <2> QED
    BY <1>1, <2>1, <2>2 DEF Has
<1> QED
  BY <1>1, <1>8, <1>9 DEF WInv

\* A step of the server outside of a console, which leaves no client in one.
Outside ==
  /\ inside = NoClient /\ UNCHANGED <<asked, inside, ses, late>>
  /\ pc' = [c \in Clients |-> pc'[c]] /\ out' = [c \in Clients |-> out'[c]]

LEMMA OutsideKeeps == ASSUME WInv, Outside PROVE WInv'
<1>1. Forms'
  BY DEF WInv, Forms, Outside
<1> QED
  BY <1>1 DEF WInv, Outside

LEMMA HandlersOutside ==
  ASSUME WInv, NEW c \in Clients,
         Reset(c) \/ Accept(c) \/ ReadFails(c) \/ Refuse(c) \/ Throw(c) \/ Panel(c)
  PROVE  Outside
<1>1. inside = NoClient /\ UNCHANGED <<asked, inside, ses, late>>
  BY DEF Reset, Accept, ReadFails, Refuse, Throw, Panel, Accepted, Due, AtRest, client
<1>2. pc = [d \in Clients |-> pc[d]] /\ out = [d \in Clients |-> out[d]]
  BY DEF WInv, Forms
<1>3. pc' = pc \/ \E x : pc' = [pc EXCEPT ![c] = x]
  BY DEF Reset, Accept, ReadFails, Refuse, Throw, Panel, client
<1>4. out' = out \/ \E x : out' = [out EXCEPT ![c] = x]
  BY DEF Reset, Accept, ReadFails, Refuse, Throw, Panel
<1>5. pc' = [d \in Clients |-> pc'[d]]
  BY <1>2, <1>3
<1>6. out' = [d \in Clients |-> out'[d]]
  BY <1>2, <1>4
<1> QED
  BY <1>1, <1>5, <1>6 DEF Outside

LEMMA ReturnKeeps == ASSUME WInv, NEW c \in Clients, Return(c) PROVE WInv'
<1>1. /\ inside' = NoClient /\ pc' = [pc EXCEPT ![c] = "over"]
      /\ ses' = [k \in Session |-> Unused] /\ UNCHANGED <<asked, out>>
  BY DEF Return
<1>2. Shape(Unused) /\ InSession(Unused)
  BY UnusedInSession DEF Shape, Unused
<1>3. \A k \in Session : ses'[k] = Unused
  BY <1>1
<1>4. Forms'
  BY <1>1, <1>2, <1>3 DEF WInv, Forms
<1> QED
  BY <1>1, <1>2, <1>3, <1>4 DEF WInv

(* The console of client c: its query goes through the environment of the   *)
(* process and comes out as the sessions and the frame.                     *)
LEMMA ConsoleKeeps == ASSUME WInv, NEW c \in Clients, Console(c) PROVE WInv'
<1> DEFINE q == asked[c].query
           columns == Asked(q)
<1>1. /\ Accepted(c) /\ asked[c].cgi = "/console.cgi" /\ inside' = c
      /\ UNCHANGED <<up, pc, reset, asked, late>> /\ environ' = q
  BY DEF Console, SetCgiEnv, client
<1>2. pc[c] = "reading" /\ asked[c].result = "accepted"
  BY <1>1 DEF Accepted, Due
<1>3. asked[c] \in Requests[c] /\ asked[c] \in Request
  <2>1. asked[c] \in Requests[c] \cup {NoRequest}
    BY DEF WInv, Forms
  <2>2. NoRequest.result = "none"
    BY DEF NoRequest
  <2>3. asked[c] # NoRequest
    BY <1>2, <2>2
  <2> QED
    BY <2>1, <2>3, HttpServerWinAssumption
<1>4. q \in Seq(Param)
  BY <1>2, <1>3 DEF Request
<1>5. Columns(ParseQueryString(q).slots) = columns
  BY <1>4, ColumnsAre
<1>6. Len(columns) <= Columnar
  BY <1>1, <1>2, <1>3, <1>5, HttpServerWinAssumption
<1> HIDE DEF columns
<1>7. /\ \E page \in Taken(Frame(columns)) : out' = [out EXCEPT ![c] = <<<<"200">>, page>>]
      /\ ses' = [k \in Session |-> IF k <= Len(columns) THEN Fresh(columns[k]) ELSE Unused]
  BY <1>1, <1>5 DEF Console
<1>8. \A i : Shape(Fresh(i)) /\ Fresh(i).slot = i /\ InSession(Fresh(i))
  <2> SUFFICES ASSUME NEW i, NEW s, s = Fresh(i) PROVE Shape(s) /\ s.slot = i /\ InSession(s)
    OBVIOUS
  <2> DEFINE u == Unused
  <2>1. u = [slot |-> 0, pc |-> "over", sent |-> 0, page |-> << >>, stream |-> << >>,
             shell |-> "busy", ran |-> 0, lured |-> FALSE, missed |-> FALSE]
    BY DEF Unused
  <2> HIDE DEF u
  <2>2. s = [u EXCEPT !.slot = i, !.pc = "resolve"]
    BY DEF Fresh, u
  <2>3. /\ Shape(s) /\ s.slot = i /\ s.pc = "resolve" /\ s.sent = 0 /\ s.page = << >>
        /\ s.stream = << >> /\ s.shell = "busy" /\ s.ran = 0
    BY <2>1, <2>2 DEF Shape
  <2> QED
    BY <2>3, UnusedInSession
<1>9. Shape(Unused) /\ InSession(Unused)
  BY UnusedInSession DEF Shape, Unused
<1>10. ASSUME NEW k \in Session PROVE Shape(ses'[k]) /\ InSession(ses'[k])
  BY <1>7, <1>8, <1>9
<1>11. ASSUME NEW k \in 1 .. Len(columns) PROVE k \in Session /\ ses'[k].slot = columns[k]
  <2>1. k \in Session /\ k <= Len(columns)
    <3>1. Columnar \in Nat
      <4>1. Columnar \in 0 .. MAX_SERVER
        BY HttpServerWinAssumption
      <4> QED
        BY <4>1 DEF MAX_SERVER
    <3> QED
      BY <1>6, <3>1 DEF Session
  <2> QED
    BY <1>7, <1>8, <2>1
<1>12. out'[c][2] \in {<<"?">>, <<"frame", columns>>} /\ out' = [d \in Clients |-> out'[d]]
  <2>1. PICK page \in Taken(Frame(columns)) : out' = [out EXCEPT ![c] = <<<<"200">>, page>>]
    BY <1>7
  <2>2. out = [d \in Clients |-> out[d]]
    BY DEF WInv, Forms
  <2>3. out'[c] = <<<<"200">>, page>> /\ out' = [d \in Clients |-> out'[d]]
    BY <2>1, <2>2
  <2>4. page \in {<<"?">>, <<"frame", columns>>}
    BY DEF Taken, Frame
  <2> QED
    BY <2>3, <2>4
<1>13. ses' = [k \in Session |-> ses'[k]]
  BY <1>7
<1>14. Forms'
  BY <1>1, <1>10, <1>12, <1>13 DEF WInv, Forms
<1>15. Has(c)'
  BY <1>1, <1>2, <1>11, <1>12 DEF Has, columns
<1> QED
  BY <1>1, <1>10, <1>14, <1>15 DEF WInv

LEMMA QuietKeeps == ASSUME WInv, UNCHANGED vars PROVE WInv'
BY DEF WInv, Forms, Has, vars, client

LEMMA AlwaysWInv == Spec => []WInv
<1>1. ASSUME WInv, NEW c \in Clients, Dial(c) \/ Reset(c) \/ Handler(c) PROVE WInv'
  BY <1>1, DialKeeps, HandlersOutside, OutsideKeeps, ConsoleKeeps, ReturnKeeps DEF Handler
<1>2. ASSUME WInv, NEW k \in Session, Plays(k) \/ Shell(k) \/ Lose(k) PROVE WInv'
  BY <1>2, ResolveKeeps, ConnectKeeps, DoReadKeeps, ReadEofKeeps, DoWriteKeeps, ShownKeeps,
     ShellKeeps, LoseKeeps DEF Plays
<1>3. WInv /\ [Next]_vars => WInv'
  BY <1>1, <1>2, QuietKeeps DEF Next
<1> QED
  BY InitWInv, <1>3, PTL DEF Spec

(* The console a client is shown is that of its own query, whoever else has *)
(* asked and however the query passed through the environment, and each     *)
(* column reads as its session went, as long as every script was taken at   *)
(* once and no output of its shell held "% ".                               *)
THEOREM AlwaysOwnConsole == Spec => []OwnConsole
<1>1. WInv => OwnConsole
  <2> SUFFICES ASSUME WInv PROVE OwnConsole
    OBVIOUS
  <2>1. ASSUME inside # NoClient
        PROVE  /\ \A k \in 1 .. Len(Wanted(inside)) : ses[k].slot = Wanted(inside)[k]
               /\ out[inside][2] \in {<<"?">>, <<"frame", Wanted(inside)>>}
    <3>1. Has(inside) /\ Wanted(inside) = Asked(asked[inside].query)
      BY <2>1, WantedIs DEF WInv
    <3> QED
      BY <3>1 DEF Has
  <2>2. ASSUME NEW k \in Session, ~late, ~ses[k].lured PROVE At(k)!Transcript
    <3>1. InStep(ses[k])
      BY <2>2 DEF WInv, InSession
    <3>2. PICK p : p = ses[k].page
      OBVIOUS
    <3>3. p \in Seq(Facts!Unit) /\ Facts!Told(p)
      BY <3>1, <3>2 DEF InStep, Facts!OnPage
    <3>4. \A S : At(k)!Cardinality(S) = Cardinality(S) /\ Facts!Cardinality(S) = Cardinality(S)
      BY DEF At!Cardinality, Facts!Cardinality, Cardinality
    <3>5. ASSUME NEW i \in DOMAIN p
          PROVE  LET before == Cardinality({j \in 1 .. i - 1 : p[j][1] = "cmd"}) IN
                 p[i][2] = IF p[i][1] = "cmd" THEN before + 1 ELSE before
      <4>1. i \in 1 .. Len(p)
        BY <3>3, LenProperties
      <4> QED
        BY <3>3, <3>4, <4>1 DEF Facts!Told, Facts!Cmds
    <3> QED
      BY <3>2, <3>4, <3>5 DEF At!Transcript
  <2>3. ASSUME NEW k \in Session, ses[k].lured PROVE At(k)!Transcript
    BY <2>3 DEF At!Transcript
  <2> QED
    BY <2>1, <2>2, <2>3 DEF OwnConsole
<1> QED
  BY <1>1, AlwaysWInv, PTL
=============================================================================

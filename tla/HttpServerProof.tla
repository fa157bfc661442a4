--------------------------- MODULE HttpServerProof ---------------------------
(***************************************************************************)
(* Theorems about the CGI server of project 3, for any clients, requests,  *)
(* programs and number of processes.                                       *)
(*                                                                         *)
(* A session may close a number that it has closed before, and then it is  *)
(* another connection's: one that waits to be read, or one that has been   *)
(* read and whose session is about to write.  The invariant is about the   *)
(* order of the queue (OrderOK): nothing is accepted between the handler   *)
(* that read and the handler that answers, so between the two nobody else  *)
(* can stand behind the number (Steady); and a handler that has written    *)
(* 200 closes the number before another one runs (AcceptorOK, CutOff).     *)
(***************************************************************************)
EXTENDS HttpServer, SequenceTheorems, FiniteSetTheorems, WellFoundedInduction, TLAPS

(* The first part is about what the server hears: what the parser of        *)
(* request_parser.cpp accepts, for every sequence of words: its state       *)
(* machine against the declarative WellFormed, and its split of the uri     *)
(* against what Page says.  The second part is the server.                  *)
(* A set of numbers that has a member has a least one.                      *)
LEMMA LeastNat ==
  ASSUME NEW T \in SUBSET Nat, T # {}
  PROVE  \E m \in T : \A k \in T : ~(k < m)
<1>1. PICK m \in T : \A k \in T : <<k, m>> \notin OpToRel(<, Nat)
  BY NatLessThanWellFounded, WFMin
<1>2. \A k \in T : ~(k < m)
  BY <1>1 DEF OpToRel
<1> QED
  BY <1>2

-----------------------------------------------------------------------------
At(state, parts) == [state |-> state, parts |-> parts]

(* One word takes the parser one state further or to the refusal; at the    *)
(* end nothing moves it.                                                    *)
LEMMA Steps ==
  ASSUME NEW p, NEW w
  PROVE  /\ ParserStep(At("REQUEST_METHOD", p), w) =
              IF w.kind = "GET" THEN At("REQUEST_URI", p) ELSE At("refused", p)
         /\ ParserStep(At("REQUEST_URI", p), w) =
              IF ~w.ctrl THEN At("SERVER_PROTOCOL", w.parts) ELSE At("refused", p)
         /\ ParserStep(At("SERVER_PROTOCOL", p), w) =
              IF w.kind = "HTTP/1" THEN At("PRE_HTTP_HOST", p) ELSE At("refused", p)
         /\ ParserStep(At("PRE_HTTP_HOST", p), w) =
              IF w.kind = "Host:" THEN At("HTTP_HOST", p) ELSE At("refused", p)
         /\ ParserStep(At("HTTP_HOST", p), w) =
              IF ~w.ctrl THEN At("accepted", p) ELSE At("refused", p)
         /\ ParserStep(At("accepted", p), w) = At("accepted", p)
         /\ ParserStep(At("refused", p), w) = At("refused", p)
<1>1. \A a, b : [At(a, p) EXCEPT !.state = b] = At(b, p)
  BY DEF At
<1>2. \A a : At(a, p).state = a
  BY DEF At
<1>3. ParserStep(At("REQUEST_METHOD", p), w) =
         IF w.kind = "GET" THEN At("REQUEST_URI", p) ELSE At("refused", p)
  <2> DEFINE s == At("REQUEST_METHOD", p)
  <2>1. s.state = "REQUEST_METHOD" /\ Refused(s) = At("refused", p)
    BY <1>1, <1>2 DEF Refused
  <2>2. [s EXCEPT !.state = "REQUEST_URI"] = At("REQUEST_URI", p)
    BY <1>1
  <2> HIDE DEF s
  <2>3. ParserStep(s, w) = IF w.kind = "GET" THEN At("REQUEST_URI", p) ELSE At("refused", p)
    <3>1. CASE w.kind = "GET"
      BY <2>1, <2>2, <3>1 DEF ParserStep
    <3>2. CASE w.kind # "GET"
      BY <2>1, <3>2 DEF ParserStep
    <3> QED
      BY <3>1, <3>2
  <2> QED
    BY <2>3 DEF s
<1>4. ParserStep(At("REQUEST_URI", p), w) =
         IF ~w.ctrl THEN At("SERVER_PROTOCOL", w.parts) ELSE At("refused", p)
  <2> DEFINE s == At("REQUEST_URI", p)
  <2>1. s.state = "REQUEST_URI" /\ Refused(s) = At("refused", p)
    BY <1>1, <1>2 DEF Refused
  <2> HIDE DEF s
  <2>3. ParserStep(s, w) = IF ~w.ctrl THEN At("SERVER_PROTOCOL", w.parts) ELSE At("refused", p)
    <3>1. CASE ~w.ctrl
      BY <2>1, <3>1 DEF ParserStep, At
    <3>2. CASE w.ctrl
      BY <2>1, <3>2 DEF ParserStep
    <3> QED
      BY <3>1, <3>2
  <2> QED
    BY <2>3 DEF s
<1>5. ParserStep(At("SERVER_PROTOCOL", p), w) =
         IF w.kind = "HTTP/1" THEN At("PRE_HTTP_HOST", p) ELSE At("refused", p)
  <2> DEFINE s == At("SERVER_PROTOCOL", p)
  <2>1. s.state = "SERVER_PROTOCOL" /\ Refused(s) = At("refused", p)
    BY <1>1, <1>2 DEF Refused
  <2>2. [s EXCEPT !.state = "PRE_HTTP_HOST"] = At("PRE_HTTP_HOST", p)
    BY <1>1
  <2> HIDE DEF s
  <2>3. ParserStep(s, w) = IF w.kind = "HTTP/1" THEN At("PRE_HTTP_HOST", p) ELSE At("refused", p)
    <3>1. CASE w.kind = "HTTP/1"
      BY <2>1, <2>2, <3>1 DEF ParserStep
    <3>2. CASE w.kind # "HTTP/1"
      BY <2>1, <3>2 DEF ParserStep
    <3> QED
      BY <3>1, <3>2
  <2> QED
    BY <2>3 DEF s
<1>6. ParserStep(At("PRE_HTTP_HOST", p), w) =
         IF w.kind = "Host:" THEN At("HTTP_HOST", p) ELSE At("refused", p)
  <2> DEFINE s == At("PRE_HTTP_HOST", p)
  <2>1. s.state = "PRE_HTTP_HOST" /\ Refused(s) = At("refused", p)
    BY <1>1, <1>2 DEF Refused
  <2>2. [s EXCEPT !.state = "HTTP_HOST"] = At("HTTP_HOST", p)
    BY <1>1
  <2> HIDE DEF s
  <2>3. ParserStep(s, w) = IF w.kind = "Host:" THEN At("HTTP_HOST", p) ELSE At("refused", p)
    <3>1. CASE w.kind = "Host:"
      BY <2>1, <2>2, <3>1 DEF ParserStep
    <3>2. CASE w.kind # "Host:"
      BY <2>1, <3>2 DEF ParserStep
    <3> QED
      BY <3>1, <3>2
  <2> QED
    BY <2>3 DEF s
<1>7. ParserStep(At("HTTP_HOST", p), w) =
         IF ~w.ctrl THEN At("accepted", p) ELSE At("refused", p)
  <2> DEFINE s == At("HTTP_HOST", p)
  <2>1. s.state = "HTTP_HOST" /\ Refused(s) = At("refused", p)
    BY <1>1, <1>2 DEF Refused
  <2>2. [s EXCEPT !.state = "accepted"] = At("accepted", p)
    BY <1>1
  <2> HIDE DEF s
  <2>3. ParserStep(s, w) = IF ~w.ctrl THEN At("accepted", p) ELSE At("refused", p)
    <3>1. CASE ~w.ctrl
      BY <2>1, <2>2, <3>1 DEF ParserStep
    <3>2. CASE w.ctrl
      BY <2>1, <3>2 DEF ParserStep
    <3> QED
      BY <3>1, <3>2
  <2> QED
    BY <2>3 DEF s
<1>8. ParserStep(At("accepted", p), w) = At("accepted", p)
  <2> DEFINE s == At("accepted", p)
  <2>1. s.state = "accepted" /\ Refused(s) = At("refused", p)
    BY <1>1, <1>2 DEF Refused
  <2> HIDE DEF s
  <2> QED
    BY <2>1 DEF ParserStep, s
<1>9. ParserStep(At("refused", p), w) = At("refused", p)
  <2> DEFINE s == At("refused", p)
  <2>1. s.state = "refused" /\ Refused(s) = At("refused", p)
    BY <1>1, <1>2 DEF Refused
  <2> HIDE DEF s
  <2> QED
    BY <2>1 DEF ParserStep, s
<1> QED
  BY <1>3, <1>4, <1>5, <1>6, <1>7, <1>8, <1>9

\* The parser after the first five words.
After5(ws) ==
  ParserStep(ParserStep(ParserStep(ParserStep(ParserStep(ParserStart,
    ws[1]), ws[2]), ws[3]), ws[4]), ws[5])

LEMMA FiveWords ==
  ASSUME NEW ws \in Seq(Words), Len(ws) >= 5
  PROVE  /\ WellFormed(ws) => After5(ws) = At("accepted", ws[2].parts)
         /\ ~WellFormed(ws) => \E p : After5(ws) = At("refused", p)
<1> DEFINE s1 == ParserStep(ParserStart, ws[1])
           s2 == ParserStep(s1, ws[2])
           s3 == ParserStep(s2, ws[3])
           s4 == ParserStep(s3, ws[4])
           s5 == ParserStep(s4, ws[5])
           no == << >>
           q == ws[2].parts
<1>0. After5(ws) = s5 /\ ParserStart = At("REQUEST_METHOD", no)
  BY DEF After5, ParserStart, At
<1>1. s1 = IF ws[1].kind = "GET" THEN At("REQUEST_URI", no) ELSE At("refused", no)
  BY <1>0, Steps
<1> HIDE DEF s1
<1>2. CASE ws[1].kind # "GET"
  <2>1. s2 = At("refused", no)
    BY <1>1, <1>2, Steps
  <2> HIDE DEF s2
  <2>2. s3 = At("refused", no)
    BY <2>1, Steps
  <2> HIDE DEF s3
  <2>3. s4 = At("refused", no)
    BY <2>2, Steps
  <2> HIDE DEF s4
  <2>4. s5 = At("refused", no)
    BY <2>3, Steps
  <2> QED
    BY <1>0, <1>2, <2>4 DEF WellFormed
<1>3. CASE ws[1].kind = "GET" /\ ws[2].ctrl
  <2>1. s2 = At("refused", no)
    BY <1>1, <1>3, Steps
  <2> HIDE DEF s2
  <2>2. s3 = At("refused", no)
    BY <2>1, Steps
  <2> HIDE DEF s3
  <2>3. s4 = At("refused", no)
    BY <2>2, Steps
  <2> HIDE DEF s4
  <2>4. s5 = At("refused", no)
    BY <2>3, Steps
  <2> QED
    BY <1>0, <1>3, <2>4 DEF WellFormed
<1>4. CASE ws[1].kind = "GET" /\ ~ws[2].ctrl
  <2>1. s2 = At("SERVER_PROTOCOL", q)
    BY <1>1, <1>4, Steps
  <2> HIDE DEF s2
  <2>2. s3 = IF ws[3].kind = "HTTP/1" THEN At("PRE_HTTP_HOST", q) ELSE At("refused", q)
    BY <2>1, Steps
  <2> HIDE DEF s3
  <2>3. s4 = IF ws[3].kind = "HTTP/1" /\ ws[4].kind = "Host:" THEN At("HTTP_HOST", q)
             ELSE At("refused", q)
    BY <2>2, Steps
  <2> HIDE DEF s4
  <2>4. s5 = IF ws[3].kind = "HTTP/1" /\ ws[4].kind = "Host:" /\ ~ws[5].ctrl
             THEN At("accepted", q) ELSE At("refused", q)
    BY <2>3, Steps
  <2> QED
    BY <1>0, <1>4, <2>4 DEF WellFormed
<1> QED
  BY <1>2, <1>3, <1>4

(* Fewer than five words are never enough.                                  *)
LEMMA FourWords ==
  ASSUME NEW a, NEW b, NEW c, NEW d
  PROVE  LET s1 == ParserStep(ParserStart, a)
             s2 == ParserStep(s1, b)
             s3 == ParserStep(s2, c)
             s4 == ParserStep(s3, d) IN
         /\ ParserStart.state # "accepted" /\ s1.state # "accepted" /\ s2.state # "accepted"
         /\ s3.state # "accepted" /\ s4.state # "accepted"
<1> DEFINE s1 == ParserStep(ParserStart, a)
           s2 == ParserStep(s1, b)
           s3 == ParserStep(s2, c)
           s4 == ParserStep(s3, d)
           Is(s, state) == \E p : s = At(state, p)
<1>1. Is(ParserStart, "REQUEST_METHOD")
  BY DEF ParserStart, At
<1>2. Is(s1, "REQUEST_URI") \/ Is(s1, "refused")
  BY <1>1, Steps
<1> HIDE DEF s1
<1>3. Is(s2, "SERVER_PROTOCOL") \/ Is(s2, "refused")
  BY <1>2, Steps
<1> HIDE DEF s2
<1>4. Is(s3, "PRE_HTTP_HOST") \/ Is(s3, "refused")
  BY <1>3, Steps
<1> HIDE DEF s3
<1>5. Is(s4, "HTTP_HOST") \/ Is(s4, "refused")
  BY <1>4, Steps
<1> HIDE DEF s4
<1>6. \A s, state : Is(s, state) /\ state # "accepted" => s.state # "accepted"
  BY DEF At
<1>7. ParserStart.state # "accepted"
  BY <1>1, <1>6
<1>8. s1.state # "accepted" /\ s2.state # "accepted" /\ s3.state # "accepted"
      /\ s4.state # "accepted"
  <2> HIDE DEF Is
  <2> QED
    BY <1>2, <1>3, <1>4, <1>5, <1>6
<1> QED
  BY <1>7, <1>8 DEF s1, s2, s3, s4

(* The first part that is not empty, if there is one.                       *)
LEMMA FirstPartIs ==
  ASSUME NEW parts \in Seq(STRING)
  PROVE  /\ FirstPart(parts) = 0 => \A j \in 1 .. Len(parts) : parts[j] = ""
         /\ FirstPart(parts) # 0 =>
              /\ FirstPart(parts) \in 1 .. Len(parts) /\ parts[FirstPart(parts)] # ""
              /\ \A j \in 1 .. FirstPart(parts) - 1 : parts[j] = ""
<1> DEFINE none == ""
           I == {i \in 1 .. Len(parts) : parts[i] # none}
           first == FirstPart(parts)
<1>1. first = IF I # {} THEN Min(I) ELSE 0
  BY Zenon DEF FirstPart, SelectInSeq
<1> HIDE DEF none, first
<1>2. CASE I = {}
  <2>1. first = 0
    BY <1>1, <1>2
  <2>2. ASSUME NEW j \in 1 .. Len(parts) PROVE parts[j] = none
    BY <1>2
  <2> QED
    BY <2>1, <2>2, Zenon DEF none, first
<1>3. CASE I # {}
  <2>1. first = CHOOSE m \in I : \A k \in I : m <= k
    BY <1>1, <1>3, Zenon DEF Min
  <2>2. Len(parts) \in Nat /\ I \in SUBSET Nat
    OBVIOUS
  <2>3. PICK m \in I : \A k \in I : ~(k < m)
    <3> HIDE DEF I
    <3> QED
      BY <1>3, <2>2, LeastNat
  <2>4. \A k \in I : m <= k
    <3>1. m \in Nat /\ \A k \in I : k \in Nat
      BY <2>2
    <3> HIDE DEF I
    <3> QED
      BY <2>3, <3>1
  <2>5. first \in I /\ \A k \in I : first <= k
    <3> HIDE DEF I
    <3> QED
      BY <2>1, <2>3, <2>4
  <2>6. first \in 1 .. Len(parts) /\ parts[first] # none
    BY <2>5
  <2>7. ASSUME NEW j \in 1 .. first - 1 PROVE parts[j] = none
    <3>1. j \in 1 .. Len(parts) /\ ~(first <= j)
      BY <2>2, <2>6
    <3>2. j \notin I
      BY <2>5, <3>1
    <3> QED
      BY <3>1, <3>2
  <2>8. first # 0
    BY <2>2, <2>6
  <2> QED
    BY <2>6, <2>7, <2>8, Zenon DEF none, first
<1> QED
  BY <1>2, <1>3

-----------------------------------------------------------------------------
\* One pass over the words, given the states before each of them.
Pass(ws, f) ==
  [n \in 0 .. Len(ws) |-> IF n = 0 THEN ParserStart ELSE ParserStep(f[n - 1], ws[n])]

\* What is said of a request by the state at its end.
Verdict(s) ==
  IF s.state # "accepted" THEN [result |-> "refused"]
  ELSE IF FirstPart(s.parts) = 0 THEN [result |-> "exception"]
  ELSE [result |-> "accepted", cgi |-> CGI(s.parts), query |-> QueryString(s.parts)]

(* After five words the parser stands still, so its recursion has a solution *)
(* and ends as it stands after the fifth; before the fifth nothing is        *)
(* accepted.                                                                 *)
LEMMA StandsStill ==
  ASSUME NEW ws \in Seq(Words)
  PROVE  IF Len(ws) >= 5 THEN ParseHttpHeader(ws) = Verdict(After5(ws))
         ELSE ParseHttpHeader(ws) = [result |-> "refused"]
<1> DEFINE len == Len(ws)
           s1 == ParserStep(ParserStart, ws[1])
           s2 == ParserStep(s1, ws[2])
           s3 == ParserStep(s2, ws[3])
           s4 == ParserStep(s3, ws[4])
           end == ParserStep(s4, ws[5])
           sol == [n \in 0 .. len |-> IF n = 0 THEN ParserStart ELSE IF n = 1 THEN s1
                                      ELSE IF n = 2 THEN s2 ELSE IF n = 3 THEN s3
                                      ELSE IF n = 4 THEN s4 ELSE end]
           run == CHOOSE f : f = Pass(ws, f)
<1>1. len \in Nat /\ end = After5(ws)
  BY DEF After5
<1>2. ParseHttpHeader(ws) = Verdict(run[len])
  BY DEF ParseHttpHeader, Pass, Verdict
<1>3. len >= 5 => \A w : ParserStep(end, w) = end
  BY <1>1, FiveWords, Steps
<1>4. /\ s1 = ParserStep(ParserStart, ws[1]) /\ s2 = ParserStep(s1, ws[2])
      /\ s3 = ParserStep(s2, ws[3]) /\ s4 = ParserStep(s3, ws[4])
      /\ end = ParserStep(s4, ws[5])
  OBVIOUS
<1> HIDE DEF s1, s2, s3, s4, end
<1>5. sol = Pass(ws, sol)
  <2> SUFFICES ASSUME NEW n \in 0 .. len PROVE sol[n] = Pass(ws, sol)[n]
    BY DEF Pass
  <2>1. n = 0 \/ n = 1 \/ n = 2 \/ n = 3 \/ n = 4 \/ n = 5 \/ n > 5
    BY <1>1
  <2>2. Pass(ws, sol)[n] = IF n = 0 THEN ParserStart ELSE ParserStep(sol[n - 1], ws[n])
    BY DEF Pass
  <2>3. n # 0 => n - 1 \in 0 .. len
    BY <1>1
  <2>4. n > 5 => sol[n] = end /\ sol[n - 1] = end
    BY <1>1, <2>3
  <2>5. CASE n <= 5
    BY <1>1, <1>4, <2>1, <2>2, <2>3, <2>5
  <2> QED
    BY <1>1, <1>3, <2>1, <2>2, <2>4, <2>5
<1>6. run = Pass(ws, run)
  <2> HIDE DEF sol
  <2> QED
    BY <1>5
<1> HIDE DEF run
<1>7. \A n \in 0 .. len :
        run[n] = IF n = 0 THEN ParserStart ELSE ParserStep(run[n - 1], ws[n])
  BY <1>6 DEF Pass
<1>8. /\ run[0] = ParserStart
      /\ len >= 1 => run[1] = s1
      /\ len >= 2 => run[2] = s2
      /\ len >= 3 => run[3] = s3
      /\ len >= 4 => run[4] = s4
      /\ len >= 5 => run[5] = end
  <2>1. run[0] = ParserStart
    BY <1>1, <1>7
  <2>2. len >= 1 => run[1] = s1
    BY <1>1, <1>4, <1>7, <2>1
  <2>3. len >= 2 => run[2] = s2
    BY <1>1, <1>4, <1>7, <2>2
  <2>4. len >= 3 => run[3] = s3
    BY <1>1, <1>4, <1>7, <2>3
  <2>5. len >= 4 => run[4] = s4
    BY <1>1, <1>4, <1>7, <2>4
  <2>6. len >= 5 => run[5] = end
    BY <1>1, <1>4, <1>7, <2>5
  <2> QED
    BY <2>1, <2>2, <2>3, <2>4, <2>5, <2>6
<1>9. CASE len >= 5
  <2> DEFINE Bad == {n \in 5 .. len : run[n] # end}
  <2>1. ASSUME Bad # {} PROVE FALSE
    <3>1. Bad \in SUBSET Nat
      BY <1>1
    <3>2. PICK m \in Bad : \A k \in Bad : ~(k < m)
      <4> HIDE DEF Bad
      <4> QED
        BY <2>1, <3>1, LeastNat
    <3>3. m \in 5 .. len /\ run[m] # end /\ m # 5
      BY <1>8, <1>9
    <3>4. m - 1 \in 5 .. len /\ m - 1 < m /\ m \in 0 .. len /\ m # 0
      BY <1>1, <3>3
    <3>5. run[m - 1] = end
      BY <3>2, <3>4
    <3>6. run[m] = ParserStep(run[m - 1], ws[m])
      BY <1>7, <3>4
    <3> QED
      BY <1>3, <1>9, <3>3, <3>5, <3>6
  <2>2. run[len] = end
    BY <1>1, <1>9, <2>1
  <2> QED
    BY <1>1, <1>2, <1>9, <2>2
<1>10. CASE ~(len >= 5)
  <2>0. \A n \in Nat : ~(n >= 5) => n = 0 \/ n = 1 \/ n = 2 \/ n = 3 \/ n = 4
    OBVIOUS
  <2>1. len = 0 \/ len = 1 \/ len = 2 \/ len = 3 \/ len = 4
    BY <1>1, <1>10, <2>0
  <2>2. run[len].state # "accepted"
    <3>1. /\ ParserStart.state # "accepted" /\ s1.state # "accepted" /\ s2.state # "accepted"
          /\ s3.state # "accepted" /\ s4.state # "accepted"
      BY <1>4, FourWords
    <3> HIDE DEF len, sol
    <3>2. CASE len = 0
      BY <1>8, <3>1, <3>2
    <3>3. CASE len # 0
      <4>1. /\ len = 1 => run[len] = s1
            /\ len = 2 => run[len] = s2
            /\ len = 3 => run[len] = s3
            /\ len = 4 => run[len] = s4
        BY <1>8
      <4> QED
        BY <2>1, <3>1, <3>3, <4>1
    <3> QED
      BY <3>2, <3>3
  <2> DEFINE s == run[len]
  <2> HIDE DEF s
  <2>3. s.state # "accepted"
    BY <2>2 DEF s
  <2>4. Verdict(s) = [result |-> "refused"]
    BY <2>3 DEF Verdict
  <2> QED
    BY <1>2, <1>10, <2>4 DEF s
<1> QED
  BY <1>9, <1>10

(* The parser accepts what is well formed by its five words, whatever else   *)
(* follows them, and hands on the program its uri names with the query after *)
(* it; a uri without a program is an exception; everything else is refused   *)
(* (request_parser.cpp:20-140).                                              *)
THEOREM ParserAccepts ==
  ASSUME NEW ws \in Seq(Words), Len(ws) >= 5
  PROVE  LET r == ParseHttpHeader(ws) IN
         /\ r.result = "refused" <=> ~WellFormed(ws)
         /\ r.result = "accepted" => Page(ws[2].parts, <<r.cgi, r.query>>)
<1> DEFINE parts == ws[2].parts
<1>1. CASE ~WellFormed(ws)
  <2>1. PICK p : After5(ws) = At("refused", p)
    BY <1>1, FiveWords
  <2>2. ParseHttpHeader(ws) = [result |-> "refused"]
    <3> DEFINE s == At("refused", p)
    <3>1. ParseHttpHeader(ws) = Verdict(s)
      BY <2>1, StandsStill
    <3>2. s.state # "accepted"
      BY DEF At
    <3> HIDE DEF s
    <3>3. Verdict(s) = [result |-> "refused"]
      BY <3>2 DEF Verdict
    <3> QED
      BY <3>1, <3>3
  <2> QED
    BY <1>1, <2>2
<1>2. CASE WellFormed(ws)
  <2>1. ParseHttpHeader(ws) = Verdict(At("accepted", parts))
    BY <1>2, FiveWords, StandsStill
  <2>2. CASE FirstPart(parts) = 0
    <3>1. ParseHttpHeader(ws) = [result |-> "exception"]
      BY <2>1, <2>2 DEF Verdict, At
    <3> QED
      BY <1>2, <3>1
  <2>3. CASE FirstPart(parts) # 0
    <3>1. ParseHttpHeader(ws) =
            [result |-> "accepted", cgi |-> CGI(parts), query |-> QueryString(parts)]
      BY <2>1, <2>3 DEF Verdict, At
    <3>2. parts \in Seq(STRING)
      <4>1. ws[2] \in Words
        BY ElementOfSeq
      <4> QED
        BY <4>1 DEF Words
    <3>3. Page(parts, <<CGI(parts), QueryString(parts)>>)
      <4> DEFINE k == FirstPart(parts)
      <4>1. k \in 1 .. Len(parts)
        BY <2>3, <3>2, FirstPartIs, Zenon
      <4>2. k \in DOMAIN parts
        BY <3>2, <4>1
      <4>3. parts[k] # "" /\ \A j \in 1 .. k - 1 : parts[j] = ""
        BY <2>3, <3>2, FirstPartIs, Zenon
      <4> HIDE DEF parts
      <4> QED
        BY <4>2, <4>3, Zenon DEF Page, CGI, QueryString
    <3> QED
      BY <1>2, <3>1, <3>3
  <2> QED
    BY <2>2, <2>3
<1> QED
  BY <1>1, <1>2

(* Only a request whose second word is there and holds no program raises the *)
(* exception.                                                                *)
LEMMA ParserThrows ==
  ASSUME NEW ws \in Seq(Words), ParseHttpHeader(ws).result = "exception"
  PROVE  Len(ws) >= 5 /\ \A i \in 1 .. Len(ws[2].parts) : ws[2].parts[i] = ""
<1> DEFINE parts == ws[2].parts
<1>1. Len(ws) >= 5
  BY StandsStill
<1>2. WellFormed(ws)
  BY <1>1, ParserAccepts
<1>3. ParseHttpHeader(ws) = Verdict(At("accepted", parts))
  BY <1>1, <1>2, FiveWords, StandsStill
<1>4. FirstPart(parts) = 0
  <2> SUFFICES ASSUME FirstPart(parts) # 0 PROVE FALSE
    OBVIOUS
  <2>1. ParseHttpHeader(ws) =
          [result |-> "accepted", cgi |-> CGI(parts), query |-> QueryString(parts)]
    BY <1>3 DEF Verdict, At
  <2> QED
    BY <2>1
<1>5. parts \in Seq(STRING)
  <2>1. ws[2] \in Words
    BY <1>1, ElementOfSeq
  <2> QED
    BY <2>1 DEF Words
<1> QED
  BY <1>1, <1>4, <1>5, FirstPartIs, Zenon

-----------------------------------------------------------------------------
\* Entry x is in the queue; it is there before entry y; no entry is there twice.
In(q, x) == \E i \in 1 .. Len(q) : q[i] = x
Before(q, x, y) == \E i, j \in 1 .. Len(q) : i < j /\ q[i] = x /\ q[j] = y
Once(q) == \A i, j \in 1 .. Len(q) : q[i] = q[j] => i = j

(* What is taken from the front and put at the end of the queue.            *)
LEMMA Ordered ==
  ASSUME NEW q, NEW x, NEW y, Before(q, x, y)
  PROVE  In(q, x) /\ In(q, y)
BY DEF Before, In

LEMMA FrontOf ==
  ASSUME NEW S, NEW q \in Seq(S), Once(q), q # << >>
  PROVE  /\ In(q, Head(q))
         /\ \A x : ~Before(q, x, Head(q))
         /\ \A y : In(q, y) /\ y # Head(q) => Before(q, Head(q), y)
<1>1. Len(q) \in Nat /\ Len(q) >= 1 /\ Head(q) = q[1] /\ 1 \in 1 .. Len(q)
  BY HeadTailProperties, EmptySeq, LenProperties
<1>2. In(q, Head(q))
  BY <1>1 DEF In
<1>3. ASSUME NEW x, Before(q, x, Head(q)) PROVE FALSE
  <2>1. PICK i, j \in 1 .. Len(q) : i < j /\ q[j] = q[1]
    BY <1>1, <1>3 DEF Before
  <2>2. j = 1
    BY <1>1, <2>1 DEF Once
  <2> QED
    BY <1>1, <2>1, <2>2
<1>4. ASSUME NEW y, In(q, y), y # Head(q) PROVE Before(q, Head(q), y)
  <2>1. PICK j \in 1 .. Len(q) : q[j] = y
    BY <1>4 DEF In
  <2>2. j # 1 /\ 1 < j
    BY <1>1, <1>4, <2>1
  <2> QED
    BY <1>1, <2>1, <2>2 DEF Before
<1> QED
  BY <1>2, <1>3, <1>4

LEMMA TailOf ==
  ASSUME NEW S, NEW q \in Seq(S), Once(q), q # << >>
  PROVE  /\ Tail(q) \in Seq(S) /\ Once(Tail(q)) /\ ~In(Tail(q), Head(q))
         /\ \A x : In(Tail(q), x) <=> In(q, x) /\ x # Head(q)
         /\ \A x, y : Before(Tail(q), x, y) <=> Before(q, x, y) /\ x # Head(q)
<1> DEFINE t == Tail(q)
           n == Len(q)
<1>1. /\ n \in Nat /\ n >= 1 /\ Head(q) = q[1] /\ t \in Seq(S) /\ Len(t) = n - 1
      /\ \A i \in 1 .. n - 1 : t[i] = q[i + 1]
  BY HeadTailProperties, EmptySeq, LenProperties
<1> HIDE DEF t
<1>2. Once(t)
  <2> SUFFICES ASSUME NEW i \in 1 .. Len(t), NEW j \in 1 .. Len(t), t[i] = t[j] PROVE i = j
    BY DEF Once
  <2>1. i + 1 \in 1 .. n /\ j + 1 \in 1 .. n /\ q[i + 1] = q[j + 1]
    BY <1>1
  <2>2. i + 1 = j + 1
    BY <2>1 DEF Once
  <2> QED
    BY <1>1, <2>2
<1>3. ASSUME NEW x PROVE In(t, x) <=> In(q, x) /\ x # q[1]
  <2>1. ASSUME NEW i \in 1 .. Len(t), t[i] = x PROVE In(q, x) /\ x # q[1]
    <3>1. i + 1 \in 1 .. n /\ q[i + 1] = x /\ 1 \in 1 .. n /\ i + 1 # 1
      BY <1>1, <2>1
    <3> QED
      BY <3>1 DEF In, Once
  <2>2. ASSUME NEW i \in 1 .. n, q[i] = x, x # q[1] PROVE In(t, x)
    <3>1. i # 1 /\ i - 1 \in 1 .. n - 1 /\ i - 1 \in 1 .. Len(t) /\ (i - 1) + 1 = i
      BY <1>1, <2>2
    <3>2. t[i - 1] = q[(i - 1) + 1]
      BY <1>1, <3>1
    <3>3. t[i - 1] = x
      BY <2>2, <3>1, <3>2
    <3> QED
      BY <3>1, <3>3 DEF In
  <2> QED
    BY <2>1, <2>2 DEF In
<1>4. ASSUME NEW x, NEW y PROVE Before(t, x, y) <=> Before(q, x, y) /\ x # q[1]
  <2>1. ASSUME NEW i \in 1 .. Len(t), NEW j \in 1 .. Len(t), i < j, t[i] = x, t[j] = y
        PROVE  Before(q, x, y) /\ x # q[1]
    <3>1. i + 1 \in 1 .. n /\ j + 1 \in 1 .. n /\ i + 1 < j + 1 /\ q[i + 1] = x /\ q[j + 1] = y
      BY <1>1, <2>1
    <3>2. 1 \in 1 .. n /\ i + 1 # 1
      BY <1>1
    <3> QED
      BY <3>1, <3>2 DEF Before, Once
  <2>2. ASSUME NEW i \in 1 .. n, NEW j \in 1 .. n, i < j, q[i] = x, q[j] = y, x # q[1]
        PROVE  Before(t, x, y)
    <3>1. /\ i # 1 /\ i - 1 \in 1 .. Len(t) /\ j - 1 \in 1 .. Len(t) /\ i - 1 < j - 1
          /\ (i - 1) + 1 = i /\ (j - 1) + 1 = j
      BY <1>1, <2>2
    <3>2. t[i - 1] = q[(i - 1) + 1] /\ t[j - 1] = q[(j - 1) + 1]
      BY <1>1, <3>1
    <3>3. t[i - 1] = x /\ t[j - 1] = y
      BY <2>2, <3>1, <3>2
    <3> QED
      BY <3>1, <3>3 DEF Before
  <2> QED
    BY <2>1, <2>2 DEF Before
<1> QED
  BY <1>1, <1>2, <1>3, <1>4 DEF t

LEMMA EndOf ==
  ASSUME NEW S, NEW q \in Seq(S), Once(q), NEW z \in S, ~In(q, z)
  PROVE  /\ Append(q, z) \in Seq(S) /\ Once(Append(q, z)) /\ Append(q, z) # << >>
         /\ \A x : In(Append(q, z), x) <=> In(q, x) \/ x = z
         /\ \A x, y : Before(Append(q, z), x, y) <=> Before(q, x, y) \/ (In(q, x) /\ y = z)
<1> DEFINE a == Append(q, z)
           n == Len(q)
<1>1. /\ n \in Nat /\ a \in Seq(S) /\ Len(a) = n + 1 /\ a[n + 1] = z
      /\ \A i \in 1 .. n : a[i] = q[i]
  BY AppendProperties, LenProperties
<1> HIDE DEF a
<1>2. \A i \in 1 .. n : q[i] # z
  BY DEF In
<1>3. Once(a)
  <2> SUFFICES ASSUME NEW i \in 1 .. Len(a), NEW j \in 1 .. Len(a), a[i] = a[j] PROVE i = j
    BY DEF Once
  <2>1. i \in 1 .. n \/ i = n + 1
    BY <1>1
  <2>2. j \in 1 .. n \/ j = n + 1
    BY <1>1
  <2> QED
    BY <1>1, <1>2, <2>1, <2>2 DEF Once
<1>4. a # << >>
  BY <1>1, EmptySeq
<1>5. ASSUME NEW x PROVE In(a, x) <=> In(q, x) \/ x = z
  <2>1. \A i \in 1 .. n + 1 : i \in 1 .. n \/ i = n + 1
    BY <1>1
  <2>2. n + 1 \in 1 .. n + 1 /\ \A i \in 1 .. n : i \in 1 .. n + 1
    BY <1>1
  <2> QED
    BY <1>1, <2>1, <2>2 DEF In
<1>6. ASSUME NEW x, NEW y PROVE Before(a, x, y) <=> Before(q, x, y) \/ (In(q, x) /\ y = z)
  <2>1. ASSUME NEW i \in 1 .. Len(a), NEW j \in 1 .. Len(a), i < j, a[i] = x, a[j] = y
        PROVE  Before(q, x, y) \/ (In(q, x) /\ y = z)
    <3>1. i \in 1 .. n /\ (j \in 1 .. n \/ j = n + 1)
      BY <1>1, <2>1
    <3> QED
      BY <1>1, <2>1, <3>1 DEF Before, In
  <2>2. ASSUME NEW i \in 1 .. n, NEW j \in 1 .. n, i < j, q[i] = x, q[j] = y
        PROVE  Before(a, x, y)
    <3>1. i \in 1 .. Len(a) /\ j \in 1 .. Len(a) /\ a[i] = x /\ a[j] = y
      BY <1>1, <2>2
    <3> QED
      BY <2>2, <3>1 DEF Before
  <2>3. ASSUME NEW i \in 1 .. n, q[i] = x, y = z PROVE Before(a, x, y)
    <3>1. i \in 1 .. Len(a) /\ n + 1 \in 1 .. Len(a) /\ i < n + 1 /\ a[i] = x /\ a[n + 1] = y
      BY <1>1, <2>3
    <3> QED
      BY <3>1 DEF Before
  <2> QED
    BY <2>1, <2>2, <2>3 DEF Before, In
<1> QED
  BY <1>1, <1>3, <1>4, <1>5, <1>6 DEF a

LEMMA Appended ==
  /\ \A x : Append(<< >>, x) = <<x>>
  /\ \A x, y : Append(<<x>>, y) = <<x, y>>
<1>1. ASSUME NEW x PROVE Append(<< >>, x) = <<x>>
  OBVIOUS
<1>2. ASSUME NEW x, NEW y PROVE Append(<<x>>, y) = <<x, y>>
  <2> DEFINE S == {x, y}
             one == <<x>>
             both == Append(one, y)
             two == <<x, y>>
  <2>1. one \in Seq(S) /\ Len(one) = 1 /\ one[1] = x
    OBVIOUS
  <2>2. two \in Seq(S) /\ Len(two) = 2 /\ two[1] = x /\ two[2] = y
    OBVIOUS
  <2>3. y \in S
    OBVIOUS
  <2> HIDE DEF S, one, two
  <2>4. both \in Seq(S) /\ Len(both) = Len(one) + 1 /\ both[Len(one) + 1] = y
    BY <2>1, <2>3, AppendProperties
  <2>5. \A i \in 1 .. Len(one) : both[i] = one[i]
    BY <2>1, <2>3, AppendProperties
  <2>6. both[1] = one[1]
    BY <2>1, <2>5
  <2> HIDE DEF both
  <2>7. \A i \in 1 .. 2 : both[i] = two[i]
    <3>1. \A i \in 1 .. 2 : i = 1 \/ i = 2
      OBVIOUS
    <3> QED
      BY <2>1, <2>2, <2>4, <2>6, <3>1
  <2>8. both = two
    BY <2>1, <2>2, <2>4, <2>7, SeqEqual
  <2> QED
    BY <2>8 DEF both, one, two
<1> QED
  BY <1>1, <1>2


-----------------------------------------------------------------------------
Early == {"away", "queued"}
Reading == {"read", "status", "fork"}

Shape ==
  /\ DOMAIN asked = Conns /\ DOMAIN sent = Conns /\ DOMAIN heard = Conns
  /\ DOMAIN job = Conns /\ DOMAIN out = Conns
  /\ \A c \in Conns : \E S : out[c] \in Seq(S)

\* An entry of the queue for every session with something due, and one number for
\* every connection.
QueueOK == Once(queue) /\ \A c \in Conns : In(queue, c) <=> pc[c] \in Due \cup Handled

TableOK ==
  /\ \A n \in Fds : table[n] # NoConn => fd[table[n]] = n
  /\ \A c \in Conns : IF pc[c] \in Early THEN fd[c] = 0 /\ c \notin hit
                      ELSE fd[c] \in Fds
  /\ \A c \in hit : table[fd[c]] # c

\* One handler runs at a time, and one connection is accepted at a time.
AcceptorOK ==
  /\ \A c \in Conns : pc[c] = "accepted" => acceptor = "taken"
  /\ \A c, d \in Conns : pc[c] = "accepted" /\ pc[d] = "accepted" => c = d
  /\ acceptor = "rearm" => \A c \in Conns : pc[c] \notin Handled
  /\ \A c, d \in Conns : pc[c] \in Handled /\ pc[d] \in Handled => c = d

\* The acceptor is told of a connection that is still there, unless it has been
\* accepted since; nothing is accepted before the handler of a read has run.
OrderOK ==
  /\ In(queue, NoConn) =>
       Backlog # {} \/ \E e \in Conns : pc[e] = "accepted" /\ Before(queue, NoConn, e)
  /\ \A d \in Conns : pc[d] = "read" =>
       /\ Before(queue, NoConn, d) => acceptor # "armed"
       /\ \A e \in Conns : pc[e] = "accepted" => Before(queue, d, e)
       /\ acceptor = "rearm" => table[fd[d]] = heard[d].from

\* So nobody else is behind the number between the read and the status.
Lost(c, b) == b \in hit \/ \E d \in Conns : d # c /\ job[d].to = b

Steady ==
  \A c \in Conns : pc[c] \in Reading =>
    LET b == heard[c].from IN
    /\ b \in Conns
    /\ up => table[fd[c]] = b \/ (table[fd[c]] = NoConn /\ pc[c] # "fork" /\ Lost(c, b))
    /\ pc[c] = "read" /\ (\E x : Before(queue, x, c)) => b = c
    /\ pc[c] # "read" => heard[c].says.result = "accepted"

\* No word is read twice, and no session reads twice.
HeardOK ==
  /\ \A c \in Conns :
       IF heard[c].from = NoConn THEN heard[c].upto = 0 /\ pc[c] \notin Reading
       ELSE LET b == heard[c].from IN
            /\ b \in Conns /\ pc[b] # "away"
            /\ heard[c].after \in Nat /\ heard[c].upto \in Nat
            /\ heard[c].after < heard[c].upto /\ heard[c].upto <= got[b]
            /\ heard[c].says \in Verdicts[asked[b]][heard[c].after][heard[c].upto]
            /\ pc[c] \in Reading \cup {"written", "over"}
  /\ \A c, d \in Conns : heard[c].from = heard[d].from /\ heard[c].from # NoConn /\ c # d =>
       heard[c].upto <= heard[d].after \/ heard[d].upto <= heard[c].after
  /\ \A b \in Conns :
       /\ got[b] <= sent[b] /\ (pc[b] \in Early => got[b] = 0)
       /\ IF pc[b] = "away" THEN asked[b] = << >> ELSE asked[b] \in Requests

JobOK ==
  \A c \in Conns : job[c] # NoJob =>
    /\ DOMAIN job[c] = {"state", "to", "cgi", "query"}
    /\ job[c].state \in {"running", "ended"} /\ pc[c] \in {"written", "over"}
    /\ job[c].to \in Conns /\ job[c].to = heard[c].from
    /\ heard[c].says.result = "accepted"
    /\ job[c].cgi = heard[c].says.cgi /\ job[c].query = heard[c].says.query

\* What a connection has got that one session only has read from.
Sole(s) == heard[s].from # NoConn /\ heard[s].after = 0 /\ heard[s].upto = got[heard[s].from]

Says(v, state, o) ==
  \/ v.result = "refused" /\ o = << <<"403">> >>
  \/ v.result = "accepted" /\ o = << <<"200">> >>
  \/ v.result = "accepted" /\ state = "ended" /\ o = << <<"200">>, <<v.cgi, v.query>> >>

OutOK ==
  /\ \A c \in Conns : out[c] # << >> => got[c] > 0
  /\ \A s \in Conns : Sole(s) =>
       LET b == heard[s].from IN
       /\ pc[s] = "read" => out[b] = << >>
       /\ out[b] # << >> => Says(heard[s].says, job[s].state, out[b])
       /\ job[s].state = "running" /\ out[b] = << >> => net[b] = "reset"

Answered ==
  \A c \in Conns :
    /\ up /\ pc[c] \notin Early /\ table[fd[c]] # c =>
         out[c] # << >> \/ net[c] # "open" \/ c \in hit
    /\ pc[c] \in Handled /\ table[fd[c]] # NoConn =>
         LET b == table[fd[c]] IN out[b] # << >> \/ net[b] = "reset"
    /\ pc[c] = "written" /\ table[fd[c]] = c => out[c] # << >> \/ net[c] = "reset"
    /\ pc[c] = "failed" /\ table[fd[c]] = c => net[c] # "open"

CutOff ==
  /\ NeverCutOff
  /\ \A b \in Conns :
       up /\ <<"200">> \in ToSet(out[b]) /\ pc[b] \notin Early /\ table[fd[b]] = b =>
         \E s \in Conns : pc[s] \in Handled /\ fd[s] = fd[b]

IInv ==
  /\ TypeOK /\ Shape /\ QueueOK /\ TableOK /\ AcceptorOK /\ OrderOK
  /\ Steady /\ HeardOK /\ JobOK /\ OutOK /\ Answered /\ CutOff

-----------------------------------------------------------------------------
USE HttpServerAssumption

LEMMA InitInv == Init => IInv
<1> SUFFICES ASSUME Init PROVE IInv
  OBVIOUS
<1> USE DEF Init
<1>1. TypeOK
  <2>1. Children = {}
    BY DEF Children, Running, NoJob
  <2>2. Cardinality(Children) <= ProcLimit
    BY <2>1, FS_EmptySet
  <2>3. heard = [c \in Conns |-> Nothing] /\ Nothing.from = NoConn /\ Nothing.upto = 0
    BY DEF Nothing
  <2> QED
    BY <2>2, <2>3 DEF TypeOK, NoJob
<1>2. Shape
  <2>1. << >> \in Seq({})
    OBVIOUS
  <2> QED
    BY <2>1 DEF Shape
<1>3. Once(queue) /\ \A x : ~In(queue, x)
  BY DEF Once, In
<1>4. QueueOK /\ AcceptorOK /\ OrderOK
  <2> QED
    BY <1>3 DEF QueueOK, AcceptorOK, OrderOK, Due, Handled
<1>5. TableOK /\ Steady
  BY DEF TableOK, Steady, Early, Reading
<1>6. heard = [c \in Conns |-> Nothing] /\ Nothing.from = NoConn /\ Nothing.upto = 0
  BY DEF Nothing
<1>7. HeardOK
  BY <1>6 DEF HeardOK, Reading
<1>8. JobOK /\ OutOK
  BY <1>6 DEF JobOK, OutOK, Sole
<1>9. Answered
  BY DEF Answered, Early, Handled
<1>10. CutOff
  <2>1. ToSet(<< >>) = {}
    BY DEF ToSet
  <2> QED
    BY <2>1 DEF CutOff, NeverCutOff, Early
<1> QED
  BY <1>1, <1>2, <1>4, <1>5, <1>7, <1>8, <1>9, <1>10 DEF IInv
-----------------------------------------------------------------------------
(* The clients.                                                             *)
LEMMA DialKeeps == ASSUME IInv, NEW c \in Conns, Dial(c) PROVE IInv'
<1> USE DEF Dial, client, child
<1>0. PICK r \in Requests : asked' = [asked EXCEPT ![c] = r]
  OBVIOUS
<1>1. /\ pc[c] = "away" /\ pc' = [pc EXCEPT ![c] = "queued"]
      /\ pc \in [Conns -> {"away", "queued", "waiting", "over"} \cup Due \cup Handled]
      /\ asked[c] = << >> /\ Len(r) \in Nat /\ sent[c] = 0 /\ DOMAIN asked = Conns
  BY DEF IInv, TypeOK, Shape, HeardOK
<1>2. TypeOK'
  <2>1. Children' = Children
    BY DEF Children, Running
  <2> QED
    BY <1>0, <1>1, <2>1 DEF IInv, TypeOK
<1>3. Shape' /\ QueueOK'
  BY <1>0, <1>1 DEF IInv, Shape, QueueOK, Due, Handled
<1>4. TableOK' /\ AcceptorOK' /\ JobOK'
  BY <1>1 DEF IInv, TableOK, AcceptorOK, JobOK, Early, Handled
<1>5. OrderOK'
  BY <1>1 DEF IInv, OrderOK, Backlog
<1>6. Steady'
  BY <1>1 DEF IInv, Steady, Reading, Lost
<1>7. HeardOK'
  BY <1>0, <1>1 DEF IInv, HeardOK, Reading, Early
<1>8. OutOK'
  BY <1>1 DEF IInv, OutOK, Sole
<1>9. Answered' /\ CutOff'
  BY <1>1 DEF IInv, Answered, CutOff, NeverCutOff, Early, Handled
<1> QED
  BY <1>2, <1>3, <1>4, <1>5, <1>6, <1>7, <1>8, <1>9 DEF IInv

LEMMA SendKeeps == ASSUME IInv, NEW c \in Conns, Send(c) PROVE IInv'
<1> USE DEF Send, client, child
<1>1. PICK n \in {sent[c] + Piece, Len(asked[c])} :
        n <= Len(asked[c]) /\ sent' = [sent EXCEPT ![c] = n]
  OBVIOUS
<1>2. asked[c] \in Requests /\ Len(asked[c]) \in Nat /\ sent[c] \in Nat
  BY DEF IInv, TypeOK, HeardOK
<1>3. n \in 0 .. Len(asked[c]) /\ sent[c] < n
  BY <1>1, <1>2
<1>4. TypeOK'
  <2>1. Children' = Children
    BY DEF Children, Running
  <2>2. DOMAIN sent = Conns
    BY DEF IInv, Shape
  <2> QED
    BY <1>1, <1>3, <2>1, <2>2 DEF IInv, TypeOK
<1>5. Shape' /\ QueueOK' /\ TableOK' /\ AcceptorOK' /\ JobOK'
  BY <1>1 DEF IInv, Shape, QueueOK, TableOK, AcceptorOK, JobOK
<1>6. OrderOK' /\ Steady'
  BY DEF IInv, OrderOK, Backlog, Steady, Lost
<1>7. HeardOK'
  <2>1. \A b \in Conns : got[b] <= sent'[b]
    BY <1>1, <1>2, <1>3 DEF IInv, TypeOK, Shape, HeardOK
  <2> QED
    BY <2>1 DEF IInv, HeardOK
<1>8. OutOK' /\ Answered' /\ CutOff'
  BY DEF IInv, OutOK, Sole, Answered, CutOff, NeverCutOff
<1> QED
  BY <1>4, <1>5, <1>6, <1>7, <1>8 DEF IInv

LEMMA LeaveKeeps == ASSUME IInv, NEW c \in Conns, Leave(c) PROVE IInv'
<1> USE DEF Leave, client, child
<1>1. /\ net' \in [Conns -> {"open", "closed", "reset"}]
      /\ \A b \in Conns : /\ net[b] # "open" => net'[b] # "open"
                          /\ net[b] = "reset" => net'[b] = "reset"
  BY DEF IInv, TypeOK
<1>2. TypeOK'
  <2>1. Children' = Children
    BY DEF Children, Running
  <2> QED
    BY <1>1, <2>1 DEF IInv, TypeOK
<1>3. Shape' /\ QueueOK' /\ TableOK' /\ AcceptorOK' /\ JobOK'
  BY DEF IInv, Shape, QueueOK, TableOK, AcceptorOK, JobOK
<1>4. OrderOK' /\ Steady' /\ HeardOK' /\ CutOff'
  BY DEF IInv, OrderOK, Backlog, Steady, Lost, HeardOK, CutOff, NeverCutOff
<1>5. OutOK'
  <2>1. \A s \in Conns : Sole(s) => heard[s].from \in Conns
    BY DEF IInv, HeardOK, Sole
  <2> QED
    BY <1>1, <2>1 DEF IInv, OutOK, Sole
<1>6. Answered'
  <2>1. \A d \in Conns : pc[d] \in Handled => fd[d] \in Fds
    BY DEF IInv, TableOK, Early, Handled
  <2>2. \A d \in Conns : pc[d] \in Handled /\ table[fd[d]] # NoConn => table[fd[d]] \in Conns
    BY <2>1 DEF IInv, TypeOK
  <2> QED
    BY <1>1, <2>2 DEF IInv, Answered
<1> QED
  BY <1>2, <1>3, <1>4, <1>5, <1>6 DEF IInv

-----------------------------------------------------------------------------
(* The reactor.                                                             *)
LEMMA PollAcceptorKeeps == ASSUME IInv, PollAcceptor PROVE IInv'
<1> USE DEF PollAcceptor, client, child
<1>1. queue \in Seq(Conns \cup {NoConn}) /\ Once(queue) /\ ~In(queue, NoConn)
  BY LenProperties DEF IInv, TypeOK, QueueOK, In
<1>2. /\ queue' \in Seq(Conns \cup {NoConn}) /\ Once(queue')
      /\ \A x : In(queue', x) <=> In(queue, x) \/ x = NoConn
      /\ \A x, y : Before(queue', x, y) <=> Before(queue, x, y) \/ (In(queue, x) /\ y = NoConn)
  BY <1>1, EndOf
<1>3. \A y : ~Before(queue, NoConn, y)
  BY <1>1, Ordered
<1>4. TypeOK'
  <2>1. Children' = Children
    BY DEF Children, Running
  <2> QED
    BY <1>2, <2>1 DEF IInv, TypeOK
<1>5. QueueOK' /\ Shape' /\ TableOK' /\ AcceptorOK' /\ JobOK' /\ HeardOK'
  BY <1>2 DEF IInv, QueueOK, Shape, TableOK, AcceptorOK, JobOK, HeardOK
<1>6. OrderOK'
  <2>1. Backlog' = Backlog /\ Backlog # {}
    BY DEF Backlog
  <2>2. \A d \in Conns : d # NoConn /\ ~Before(queue', NoConn, d)
    BY <1>2, <1>3
  <2> QED
    BY <1>2, <2>1, <2>2 DEF IInv, OrderOK
<1>7. Steady'
  <2>1. \A d \in Conns : \A x : Before(queue', x, d) <=> Before(queue, x, d)
    BY <1>2
  <2> QED
    BY <2>1 DEF IInv, Steady, Lost
<1>8. OutOK' /\ Answered' /\ CutOff'
  BY DEF IInv, OutOK, Sole, Answered, CutOff, NeverCutOff
<1> QED
  BY <1>4, <1>5, <1>6, <1>7, <1>8 DEF IInv

LEMMA PollKeeps == ASSUME IInv, NEW c \in Conns, Poll(c) PROVE IInv'
<1> USE DEF Poll, client, child
<1>0. /\ pc[c] = "waiting" /\ pc' = [pc EXCEPT ![c] = "ready"]
      /\ pc \in [Conns -> {"away", "queued", "waiting", "over"} \cup Due \cup Handled]
  BY DEF IInv, TypeOK
<1>1. queue \in Seq(Conns \cup {NoConn}) /\ Once(queue) /\ ~In(queue, c)
  BY <1>0 DEF IInv, TypeOK, QueueOK, Due, Handled
<1>2. /\ queue' \in Seq(Conns \cup {NoConn}) /\ Once(queue')
      /\ \A x : In(queue', x) <=> In(queue, x) \/ x = c
      /\ \A x, y : Before(queue', x, y) <=> Before(queue, x, y) \/ (In(queue, x) /\ y = c)
  BY <1>1, EndOf
<1>4. TypeOK'
  <2>1. Children' = Children
    BY DEF Children, Running
  <2>2. pc' \in [Conns -> {"away", "queued", "waiting", "over"} \cup Due \cup Handled]
    BY <1>0 DEF Due
  <2> QED
    BY <1>2, <2>1, <2>2 DEF IInv, TypeOK
<1>5. QueueOK'
  BY <1>0, <1>2 DEF IInv, QueueOK, Due, Handled
<1>6. Shape' /\ TableOK' /\ AcceptorOK' /\ JobOK' /\ HeardOK'
  BY <1>0 DEF IInv, Shape, TableOK, AcceptorOK, JobOK, HeardOK, Early, Handled, Reading
<1>7. OrderOK'
  <2>1. Backlog' = Backlog
    BY <1>0 DEF Backlog
  <2>2. \A d \in Conns : pc'[d] \in {"read", "accepted"} => pc[d] = pc'[d] /\ d # c
    BY <1>0
  <2>3. \A d \in Conns : pc[d] \in {"read", "accepted"} => pc[d] = pc'[d] /\ d # c
    BY <1>0
  <2>4. c # NoConn
    OBVIOUS
  <2> QED
    BY <1>2, <2>1, <2>2, <2>3, <2>4 DEF IInv, OrderOK
<1>8. Steady'
  <2>1. \A d \in Conns : pc'[d] \in Reading => pc[d] = pc'[d] /\ d # c
    BY <1>0 DEF Reading
  <2> QED
    BY <1>2, <2>1 DEF IInv, Steady, Lost
<1>9. OutOK'
  BY <1>0 DEF IInv, OutOK, Sole
<1>10. Answered' /\ CutOff'
  BY <1>0 DEF IInv, Answered, CutOff, NeverCutOff, Early, Handled
<1> QED
  BY <1>4, <1>5, <1>6, <1>7, <1>8, <1>9, <1>10 DEF IInv

-----------------------------------------------------------------------------
(* The acceptor.                                                            *)
LEMMA AcceptedSinceKeeps == ASSUME IInv, AcceptedSince PROVE IInv'
<1> USE DEF AcceptedSince, client, child
<1>1. /\ queue \in Seq(Conns \cup {NoConn}) /\ Once(queue) /\ queue # << >>
      /\ Head(queue) = NoConn /\ queue' = Tail(queue)
  BY DEF IInv, TypeOK, QueueOK, Turn
<1>2. /\ queue' \in Seq(Conns \cup {NoConn}) /\ Once(queue') /\ ~In(queue', NoConn)
      /\ \A x : In(queue', x) <=> In(queue, x) /\ x # NoConn
      /\ \A x, y : Before(queue', x, y) <=> Before(queue, x, y) /\ x # NoConn
  BY <1>1, TailOf
<1>4. TypeOK'
  <2>1. Children' = Children
    BY DEF Children, Running
  <2> QED
    BY <1>2, <2>1 DEF IInv, TypeOK
<1>5. QueueOK' /\ Shape' /\ TableOK' /\ AcceptorOK' /\ JobOK' /\ HeardOK'
  BY <1>2 DEF IInv, QueueOK, Shape, TableOK, AcceptorOK, JobOK, HeardOK
<1>6. OrderOK'
  <2>2. \A d \in Conns : d # NoConn
    OBVIOUS
  <2> QED
    BY <1>2, <2>2 DEF IInv, OrderOK
<1>7. Steady'
  BY <1>2 DEF IInv, Steady, Lost
<1>8. OutOK' /\ Answered' /\ CutOff'
  BY DEF IInv, OutOK, Sole, Answered, CutOff, NeverCutOff
<1> QED
  BY <1>4, <1>5, <1>6, <1>7, <1>8 DEF IInv

LEMMA ArmKeeps == ASSUME IInv, Arm PROVE IInv'
<1> USE DEF Arm, client, child
<1>1. TypeOK'
  <2>1. Children' = Children
    BY DEF Children, Running
  <2> QED
    BY <2>1 DEF IInv, TypeOK
<1>2. \A c \in Conns : pc[c] # "accepted"
  BY DEF IInv, AcceptorOK
<1>3. ~In(queue, NoConn)
  BY <1>2 DEF IInv, OrderOK
<1>4. OrderOK'
  <2>1. Backlog' = Backlog /\ \A d \in Conns : ~Before(queue, NoConn, d)
    BY <1>3, Ordered DEF Backlog
  <2> QED
    BY <1>2, <1>3, <2>1 DEF IInv, OrderOK
<1>5. QueueOK' /\ Shape' /\ TableOK' /\ AcceptorOK' /\ JobOK' /\ HeardOK'
  BY <1>2 DEF IInv, QueueOK, Shape, TableOK, AcceptorOK, JobOK, HeardOK
<1>6. Steady' /\ OutOK' /\ Answered' /\ CutOff'
  BY DEF IInv, Steady, Lost, OutOK, Sole, Answered, CutOff, NeverCutOff
<1> QED
  BY <1>1, <1>4, <1>5, <1>6 DEF IInv

(* The new number is nobody's.                                              *)
LEMMA NewNumber ==
  ASSUME IInv, NEW c \in Conns, Number(c)
  PROVE  \E n \in Fds :
           /\ table[n] = NoConn /\ table' = [table EXCEPT ![n] = c]
           /\ fd' = [fd EXCEPT ![c] = n] /\ fd'[c] = n /\ table'[n] = c
           /\ table' \in [Fds -> Conns \cup {NoConn}] /\ fd' \in [Conns -> Fds \cup {0}]
           /\ pc[c] = "queued" /\ fd[c] = 0 /\ c \notin hit
           /\ \A k \in Fds : k # n => table'[k] = table[k] /\ table[k] # c
           /\ \A d \in Conns : d # c => fd'[d] = fd[d]
<1>1. PICK n \in Fds : /\ Lowest(n) /\ table' = [table EXCEPT ![n] = c]
                       /\ fd' = [fd EXCEPT ![c] = n]
  BY DEF Number
<1>2. table \in [Fds -> Conns \cup {NoConn}] /\ fd \in [Conns -> Fds \cup {0}]
  BY DEF IInv, TypeOK
<1>3. table[n] = NoConn
  BY <1>1 DEF Lowest
<1>4. pc[c] = "queued" /\ fd[c] = 0 /\ c \notin hit
  BY DEF IInv, TableOK, Early, Number
<1>5. 0 \notin Fds
  BY DEF Fds
<1>6. \A k \in Fds : table[k] # c
  BY <1>4, <1>5 DEF IInv, TableOK
<1> QED
  BY <1>1, <1>2, <1>3, <1>4, <1>6

(* What a new number changes.                                               *)
LEMMA NumberKeeps ==
  ASSUME IInv, NEW c \in Conns, Number(c), DOMAIN pc' = Conns, hit' = hit, 
         \A d \in Conns : d # c => pc'[d] = pc[d], pc'[c] \notin Early
  PROVE  TableOK'
<1>1. PICK n \in Fds :
        /\ fd'[c] = n /\ table'[n] = c /\ pc[c] = "queued" /\ c \notin hit /\ table[n] = NoConn
        /\ \A k \in Fds : k # n => table'[k] = table[k] /\ table[k] # c
        /\ \A d \in Conns : d # c => fd'[d] = fd[d]
  BY NewNumber
<1>2. \A k \in Fds : table[k] \in Conns \cup {NoConn}
  BY DEF IInv, TypeOK
<1>3. \A k \in Fds : table'[k] # NoConn => fd'[table'[k]] = k
  BY <1>1, <1>2 DEF IInv, TableOK
<1>4. \A d \in Conns : IF pc'[d] \in Early THEN fd'[d] = 0 /\ d \notin hit ELSE fd'[d] \in Fds
  BY <1>1 DEF IInv, TableOK
<1>5. \A d \in hit : table'[fd'[d]] # d
  <2> SUFFICES ASSUME NEW d \in hit PROVE table'[fd'[d]] # d
    OBVIOUS
  <2>1. d \in Conns /\ d # c
    BY <1>1 DEF IInv, TypeOK
  <2>2. fd'[d] = fd[d] /\ fd[d] \in Fds /\ table[fd[d]] # d
    BY <1>1, <2>1 DEF IInv, TableOK
  <2> QED
    BY <1>1, <2>1, <2>2
<1> QED
  BY <1>3, <1>4, <1>5 DEF TableOK

LEMMA AcceptNextKeeps == ASSUME IInv, NEW c \in Conns, AcceptNext(c) PROVE IInv'
<1> USE DEF AcceptNext, client, child
<1>1. PICK n \in Fds :
        /\ table[n] = NoConn /\ fd'[c] = n /\ table'[n] = c
        /\ table' \in [Fds -> Conns \cup {NoConn}] /\ fd' \in [Conns -> Fds \cup {0}]
        /\ pc[c] = "queued" /\ fd[c] = 0 /\ c \notin hit
        /\ \A k \in Fds : k # n => table'[k] = table[k] /\ table[k] # c
        /\ \A d \in Conns : d # c => fd'[d] = fd[d]
  BY NewNumber
<1>2. /\ pc' = [pc EXCEPT ![c] = "accepted"]
      /\ pc \in [Conns -> {"away", "queued", "waiting", "over"} \cup Due \cup Handled]
      /\ pc' \in [Conns -> {"away", "queued", "waiting", "over"} \cup Due \cup Handled]
  BY DEF IInv, TypeOK, Due
<1>3. queue \in Seq(Conns \cup {NoConn}) /\ Once(queue) /\ ~In(queue, c)
  BY <1>1 DEF IInv, TypeOK, QueueOK, Due, Handled
<1>4. /\ queue' \in Seq(Conns \cup {NoConn}) /\ Once(queue')
      /\ \A x : In(queue', x) <=> In(queue, x) \/ x = c
      /\ \A x, y : Before(queue', x, y) <=> Before(queue, x, y) \/ (In(queue, x) /\ y = c)
  BY <1>3, EndOf
<1>5. \A d \in Conns : pc[d] # "accepted" /\ pc[d] \notin Handled
  BY DEF IInv, AcceptorOK
<1>6. TypeOK'
  <2>1. Children' = Children
    BY DEF Children, Running
  <2> QED
    BY <1>1, <1>2, <1>4, <2>1 DEF IInv, TypeOK
<1>7. Shape' /\ QueueOK'
  BY <1>2, <1>4 DEF IInv, Shape, QueueOK, Due, Handled
<1>8. TableOK'
  BY <1>2, NumberKeeps DEF Early
<1>9. AcceptorOK' /\ JobOK'
  BY <1>1, <1>2, <1>5 DEF IInv, AcceptorOK, JobOK, Handled
<1>10. HeardOK'
  BY <1>1, <1>2 DEF IInv, HeardOK, Reading, Early
<1>11. OrderOK'
  <2>1. In(queue', NoConn) => Before(queue', NoConn, c)
    BY <1>4
  <2>2. ASSUME NEW d \in Conns, pc'[d] = "read"
        PROVE  \A e \in Conns : pc'[e] = "accepted" => Before(queue', d, e)
    <3>1. pc[d] = "read" /\ In(queue, d)
      BY <1>2, <2>2 DEF IInv, QueueOK, Due
    <3>2. Before(queue', d, c)
      BY <1>4, <3>1
    <3> QED
      BY <1>2, <1>5, <3>2
  <2> QED
    BY <1>2, <2>1, <2>2 DEF OrderOK
<1>12. \A d \in Conns : pc[d] # "away" /\ pc[d] # "queued" => fd'[d] = fd[d] /\ fd[d] \in Fds /\ d # c
  BY <1>1 DEF IInv, TableOK, Early
<1>13. Steady'
  <2> SUFFICES ASSUME NEW d \in Conns, pc'[d] \in Reading
               PROVE  LET b == heard[d].from IN
                      /\ b \in Conns
                      /\ up' => table'[fd'[d]] = b
                      /\ pc'[d] = "read" /\ (\E x : Before(queue', x, d)) => b = d
                      /\ pc'[d] # "read" => heard[d].says.result = "accepted"
    BY DEF Steady, Lost
  <2>1. pc'[d] = "read" /\ pc[d] = "read" /\ d # c
    BY <1>2, <1>5 DEF Reading, Handled
  <2>2. table[fd[d]] = heard[d].from /\ heard[d].from \in Conns
    BY <2>1 DEF IInv, OrderOK, Steady, Reading
  <2>3. fd'[d] = fd[d] /\ fd[d] # n /\ fd[d] \in Fds
    BY <1>1, <1>12, <2>1, <2>2
  <2> QED
    BY <1>1, <1>4, <2>1, <2>2, <2>3 DEF IInv, Steady, Reading
<1>14. OutOK'
  <2>1. \A s \in Conns : pc'[s] = "read" => pc[s] = "read"
    BY <1>2
  <2> QED
    BY <2>1 DEF IInv, OutOK, Sole
<1>15. Answered'
  <2> SUFFICES ASSUME NEW d \in Conns
               PROVE  /\ up /\ pc'[d] \notin Early /\ table'[fd'[d]] # d =>
                            out[d] # << >> \/ net[d] # "open" \/ d \in hit
                      /\ pc'[d] \notin Handled
                      /\ pc'[d] = "written" /\ table'[fd'[d]] = d =>
                            out[d] # << >> \/ net[d] = "reset"
                      /\ pc'[d] = "failed" /\ table'[fd'[d]] = d => net[d] # "open"
    BY DEF Answered
  <2>1. CASE d = c
    BY <1>1, <1>2, <2>1 DEF Handled
  <2>2. CASE d # c /\ pc[d] \in Early
    BY <1>2, <2>2 DEF Early, Handled
  <2>3. CASE d # c /\ pc[d] \notin Early
    <3>1. pc'[d] = pc[d] /\ fd'[d] = fd[d] /\ fd[d] \in Fds /\ (table'[fd[d]] = d <=> table[fd[d]] = d)
      BY <1>1, <1>2, <1>12, <2>3 DEF Early
    <3> QED
      BY <1>5, <2>3, <3>1 DEF IInv, Answered
  <2> QED
    BY <2>1, <2>2, <2>3
<1>16. CutOff'
  <2>1. NeverCutOff'
    BY DEF IInv, CutOff, NeverCutOff
  <2>2. ASSUME NEW b \in Conns, <<"200">> \in ToSet(out[b]), pc'[b] \notin Early,
               table'[fd'[b]] = b
        PROVE  FALSE
    <3>1. out[b] # << >>
      BY <2>2 DEF ToSet
    <3>2. b # c
      <4>1. (out[c] # << >> => got[c] > 0) /\ got[c] = 0
        BY <1>1 DEF IInv, OutOK, HeardOK, Early
      <4> QED
        BY <3>1, <4>1
    <3> QED
      BY <1>1, <1>2, <1>5, <1>12, <2>2, <3>2 DEF IInv, CutOff, Early
  <2> QED
    BY <2>1, <2>2 DEF CutOff
<1> QED
  BY <1>6, <1>7, <1>8, <1>9, <1>10, <1>11, <1>13, <1>14, <1>15, <1>16 DEF IInv

-----------------------------------------------------------------------------
(* What a read changes: what is heard is heard once.                        *)
Hears(c, b) == Take(c, b) \/ Fail(c, b) \/ Wait(c, b)

LEMMA HearsKeeps ==
  ASSUME IInv, NEW c \in Conns, NEW b, b # NoConn => b \in Conns /\ (b = c \/ pc[b] \notin Early),
         pc[c] \in {"queued", "accepted", "ready"}, Hears(c, b), UNCHANGED <<client, child, out>>
  PROVE  /\ pc' \in [Conns -> {"away", "queued", "waiting", "over"} \cup Due \cup Handled]
         /\ pc'[c] \in {"read", "failed", "waiting"}
         /\ pc'[c] = "read" => Take(c, b) /\ heard'[c].from = b
         /\ pc'[c] = "failed" => Fail(c, b)
         /\ \A d \in Conns : d # c => pc'[d] = pc[d] /\ heard'[d] = heard[d]
         /\ got' \in [Conns -> Nat]
         /\ \A d \in Conns : heard'[d].from \in Conns \cup {NoConn} /\ heard'[d].upto \in Nat
         /\ Shape' /\ HeardOK' /\ JobOK' /\ OutOK'
<1> USE DEF client, child
<1>1. /\ pc \in [Conns -> {"away", "queued", "waiting", "over"} \cup Due \cup Handled]
      /\ got \in [Conns -> Nat] /\ DOMAIN heard = Conns
      /\ \A d \in Conns : heard[d].from \in Conns \cup {NoConn} /\ heard[d].upto \in Nat
      /\ \A d \in Conns : sent[d] \in Nat /\ Len(asked[d]) \in Nat
  <2>1. \A d \in Conns : Len(asked[d]) \in Nat
    BY DEF IInv, HeardOK
  <2> QED
    BY <2>1 DEF IInv, TypeOK, Shape
<1>2. heard[c].from = NoConn /\ heard[c].upto = 0 /\ job[c] = NoJob
  BY DEF IInv, HeardOK, JobOK, Reading
<1>3. CASE Take(c, b)
  <2>1. PICK v \in Verdicts[asked[b]][got[b]][sent[b]] :
          heard' = [heard EXCEPT ![c] = [from |-> b, after |-> got[b], upto |-> sent[b], says |-> v]]
    BY <1>3 DEF Take
  <2>2. /\ b \in Conns /\ sent[b] > got[b] /\ pc' = [pc EXCEPT ![c] = "read"]
        /\ got' = [got EXCEPT ![b] = sent[b]]
    BY <1>3 DEF Take, Unread
  <2>3. /\ heard'[c].from = b /\ heard'[c].after = got[b] /\ heard'[c].upto = sent[b]
        /\ heard'[c].says = v /\ DOMAIN heard' = Conns
        /\ \A d \in Conns : d # c => heard'[d] = heard[d]
    BY <1>1, <2>1
  <2>4. /\ pc' \in [Conns -> {"away", "queued", "waiting", "over"} \cup Due \cup Handled]
        /\ pc'[c] = "read" /\ \A d \in Conns : d # c => pc'[d] = pc[d]
    BY <1>1, <2>2 DEF Due
  <2>5. /\ got' \in [Conns -> Nat] /\ got'[b] = sent[b]
        /\ \A d \in Conns : got[d] <= got'[d] /\ (d # b => got'[d] = got[d])
    BY <1>1, <2>2
  <2>6. Shape'
    BY <2>3 DEF IInv, Shape
  <2>7. HeardOK'
    <3>1. \A d \in Conns :
            IF heard'[d].from = NoConn THEN heard'[d].upto = 0 /\ pc'[d] \notin Reading
            ELSE LET a == heard'[d].from IN
                 /\ a \in Conns /\ pc'[a] # "away"
                 /\ heard'[d].after \in Nat /\ heard'[d].upto \in Nat
                 /\ heard'[d].after < heard'[d].upto /\ heard'[d].upto <= got'[a]
                 /\ heard'[d].says \in Verdicts[asked[a]][heard'[d].after][heard'[d].upto]
                 /\ pc'[d] \in Reading \cup {"written", "over"}
      <4> TAKE d \in Conns
      <4>1. CASE d = c
        <5>1. pc'[b] # "away"
          BY <2>2, <2>4 DEF Early
        <5> QED
          BY <1>1, <2>2, <2>3, <2>4, <2>5, <4>1, <5>1 DEF Reading
      <4>2. CASE d # c /\ heard[d].from = NoConn
        BY <2>3, <2>4, <4>2 DEF IInv, HeardOK
      <4>3. CASE d # c /\ heard[d].from # NoConn
        <5> DEFINE a == heard[d].from
        <5>1. /\ a \in Conns /\ pc[a] # "away"
              /\ heard[d].after \in Nat /\ heard[d].upto \in Nat
              /\ heard[d].after < heard[d].upto /\ heard[d].upto <= got[a]
              /\ heard[d].says \in Verdicts[asked[a]][heard[d].after][heard[d].upto]
              /\ pc[d] \in Reading \cup {"written", "over"}
          BY <4>3 DEF IInv, HeardOK
        <5>2. heard'[d] = heard[d] /\ pc'[d] = pc[d]
          BY <2>3, <2>4, <4>3
        <5>3. pc'[a] # "away"
          BY <2>4, <5>1
        <5>4. heard[d].upto <= got'[a]
          BY <1>1, <2>5, <5>1
        <5> QED
          BY <4>3, <5>1, <5>2, <5>3, <5>4
      <4> QED
        BY <4>1, <4>2, <4>3
    <3>2. ASSUME NEW d \in Conns, heard[d].from = b PROVE heard[d].upto <= got[b]
      BY <2>2, <3>2 DEF IInv, HeardOK
    <3>3. \A d, e \in Conns : heard'[d].from = heard'[e].from /\ heard'[d].from # NoConn /\ d # e =>
            heard'[d].upto <= heard'[e].after \/ heard'[e].upto <= heard'[d].after
      <4> SUFFICES ASSUME NEW d \in Conns, NEW e \in Conns, heard'[d].from = heard'[e].from,
                          heard'[d].from # NoConn, d # e
                   PROVE  heard'[d].upto <= heard'[e].after \/ heard'[e].upto <= heard'[d].after
        OBVIOUS
      <4>1. CASE d = c
        BY <2>3, <3>2, <4>1
      <4>2. CASE e = c
        BY <2>3, <3>2, <4>2
      <4>3. CASE d # c /\ e # c
        BY <2>3, <4>3 DEF IInv, HeardOK
      <4> QED
        BY <4>1, <4>2, <4>3
    <3>4. \A d \in Conns :
            /\ got'[d] <= sent[d] /\ (pc'[d] \in Early => got'[d] = 0)
            /\ IF pc'[d] = "away" THEN asked[d] = << >> ELSE asked[d] \in Requests
      <4> TAKE d \in Conns
      <4>1. got'[d] <= sent[d]
        BY <1>1, <2>5 DEF IInv, HeardOK
      <4>2. pc'[d] \in Early => got'[d] = 0
        <5>1. pc'[d] \in Early => d # c /\ d # b /\ pc[d] \in Early
          BY <2>2, <2>4 DEF Early
        <5> QED
          BY <2>5, <5>1 DEF IInv, HeardOK
      <4>3. IF pc'[d] = "away" THEN asked[d] = << >> ELSE asked[d] \in Requests
        BY <2>4 DEF IInv, HeardOK
      <4> QED
        BY <4>1, <4>2, <4>3
    <3> QED
      BY <3>1, <3>3, <3>4 DEF HeardOK
  <2>8. JobOK'
    BY <1>2, <2>3, <2>4 DEF IInv, JobOK
  <2>9. OutOK'
    <3>1. \A d \in Conns : out[d] # << >> => got'[d] > 0
      BY <1>1, <2>5 DEF IInv, OutOK
    <3>2. ASSUME NEW s \in Conns, Sole(s)'
          PROVE  LET a == heard'[s].from IN
                 /\ pc'[s] = "read" => out[a] = << >>
                 /\ out[a] # << >> => Says(heard'[s].says, job[s].state, out[a])
                 /\ job[s].state = "running" /\ out[a] = << >> => net[a] = "reset"
      <4>1. CASE s = c
        <5>1. got[b] = 0 /\ out[b] = << >>
          BY <2>2, <2>3, <3>2, <4>1 DEF IInv, OutOK, Sole
        <5>2. NoJob.state # "running"
          BY DEF NoJob
        <5> QED
          BY <1>2, <2>3, <4>1, <5>1, <5>2
      <4>2. CASE s # c
        <5>1. heard'[s] = heard[s] /\ pc'[s] = pc[s]
          BY <2>3, <2>4, <4>2
        <5>2. heard[s].from # b
          <6> SUFFICES ASSUME heard[s].from = b PROVE FALSE
            OBVIOUS
          <6>1. heard[s].upto <= got[b] /\ heard[s].upto = sent[b]
            BY <2>2, <2>5, <3>2, <5>1 DEF IInv, HeardOK, Sole
          <6> QED
            BY <1>1, <2>2, <6>1
        <5>3. Sole(s)
          <6>1. heard[s].from \in Conns
            BY <1>1, <3>2, <5>1 DEF Sole
          <6> QED
            BY <2>5, <3>2, <5>1, <5>2, <6>1 DEF Sole
        <5>4. LET a == heard[s].from IN
                 /\ pc[s] = "read" => out[a] = << >>
                 /\ out[a] # << >> => Says(heard[s].says, job[s].state, out[a])
                 /\ job[s].state = "running" /\ out[a] = << >> => net[a] = "reset"
          BY <5>3 DEF IInv, OutOK
        <5> QED
          BY <5>1, <5>4
      <4> QED
        BY <4>1, <4>2
    <3> QED
      BY <3>1, <3>2 DEF OutOK
  <2>10. \A d \in Conns : heard'[d].from \in Conns \cup {NoConn} /\ heard'[d].upto \in Nat
    BY <1>1, <2>2, <2>3
  <2> QED
    BY <1>3, <2>2, <2>3, <2>4, <2>5, <2>6, <2>7, <2>8, <2>9, <2>10
<1>4. CASE Fail(c, b) \/ Wait(c, b)
  <2>1. /\ pc'[c] \in {"failed", "waiting"} /\ got' = got /\ heard' = heard
        /\ pc' \in [Conns -> {"away", "queued", "waiting", "over"} \cup Due \cup Handled]
        /\ \A d \in Conns : d # c => pc'[d] = pc[d]
        /\ pc'[c] = "failed" => Fail(c, b)
    BY <1>1, <1>4 DEF Fail, Wait, Due
  <2>2. Shape' /\ JobOK'
    BY <1>2, <2>1 DEF IInv, Shape, JobOK
  <2>3. HeardOK'
    <3>1. \A d \in Conns : /\ pc'[d] \in Early => pc[d] \in Early
                           /\ pc'[d] \in Reading => pc[d] \in Reading
                           /\ pc'[d] = "away" <=> pc[d] = "away"
      BY <2>1 DEF Early, Reading
    <3>2. \A d \in Conns : heard[d].from # NoConn => d # c
      BY <1>2
    <3> QED
      BY <2>1, <3>1, <3>2 DEF IInv, HeardOK
  <2>4. OutOK'
    <3>1. \A s \in Conns : pc'[s] = "read" => pc[s] = "read"
      BY <2>1
    <3> QED
      BY <2>1, <3>1 DEF IInv, OutOK, Sole
  <2> QED
    BY <1>1, <2>1, <2>2, <2>3, <2>4
<1> QED
  BY <1>3, <1>4 DEF Hears

-----------------------------------------------------------------------------
(* The turn of the first entry: nothing else is being handled.              *)
LEMMA InTurn ==
  ASSUME IInv, NEW h, Turn(h)
  PROVE  /\ up /\ acceptor # "rearm" /\ \A d \in Conns : pc[d] \notin Handled
         /\ queue \in Seq(Conns \cup {NoConn}) /\ Once(queue) /\ queue # << >> /\ h = Head(queue)
         /\ In(queue, h) /\ h \in Conns \cup {NoConn}
         /\ \A x : ~Before(queue, x, h)
         /\ \A y : In(queue, y) /\ y # h => Before(queue, h, y)
         /\ Tail(queue) \in Seq(Conns \cup {NoConn}) /\ Once(Tail(queue)) /\ ~In(Tail(queue), h)
         /\ \A x : In(Tail(queue), x) <=> In(queue, x) /\ x # h
         /\ \A x, y : Before(Tail(queue), x, y) <=> Before(queue, x, y) /\ x # h
<1>1. /\ up /\ acceptor # "rearm" /\ \A d \in Conns : pc[d] \notin Handled
      /\ queue # << >> /\ h = Head(queue)
  BY DEF Turn, AtRest
<1>2. queue \in Seq(Conns \cup {NoConn}) /\ Once(queue)
  BY DEF IInv, TypeOK, QueueOK
<1>3. Head(queue) \in Conns \cup {NoConn}
  BY <1>1, <1>2
<1> QED
  BY <1>1, <1>2, <1>3, FrontOf, TailOf

(* A session starts with its number its own.                                *)
LEMMA StartKeeps ==
  ASSUME IInv, NEW c \in Conns, NEW h, Turn(h), Start(c), 
         UNCHANGED <<up, client, child, out, hit>>,
         \/ h = NoConn /\ acceptor = "armed" /\ Number(c)
         \/ h = c /\ pc[c] = "accepted" /\ Behind(c) = c /\ UNCHANGED <<table, fd>>
  PROVE  IInv'
<1> USE DEF client, child
<1>1. Hears(c, c) /\ acceptor' = "rearm"
  BY DEF Start, Hears
<1>2. pc[c] \in {"queued", "accepted"} /\ c # NoConn
  BY DEF Number
<1>3. /\ pc' \in [Conns -> {"away", "queued", "waiting", "over"} \cup Due \cup Handled]
      /\ pc'[c] \in {"read", "failed", "waiting"}
      /\ pc'[c] = "read" => Take(c, c) /\ heard'[c].from = c
      /\ pc'[c] = "failed" => Fail(c, c)
      /\ \A d \in Conns : d # c => pc'[d] = pc[d] /\ heard'[d] = heard[d]
      /\ got' \in [Conns -> Nat]
      /\ \A d \in Conns : heard'[d].from \in Conns \cup {NoConn} /\ heard'[d].upto \in Nat
      /\ Shape' /\ HeardOK' /\ JobOK' /\ OutOK'
  BY <1>1, <1>2, HearsKeeps
<1>4. /\ up /\ acceptor # "rearm" /\ \A d \in Conns : pc[d] \notin Handled
      /\ In(queue, h) /\ \A x : ~Before(queue, x, h)
      /\ \A y : In(queue, y) /\ y # h => Before(queue, h, y)
      /\ Tail(queue) \in Seq(Conns \cup {NoConn}) /\ Once(Tail(queue)) /\ ~In(Tail(queue), h)
      /\ \A x : In(Tail(queue), x) <=> In(queue, x) /\ x # h
      /\ \A x, y : Before(Tail(queue), x, y) <=> Before(queue, x, y) /\ x # h
  BY InTurn
<1>5. ~In(Tail(queue), c)
  <2>1. CASE h = NoConn
    BY <1>4, <2>1 DEF IInv, QueueOK, Due, Handled, Number
  <2> QED
    BY <1>4, <2>1
<1>6. /\ queue' \in Seq(Conns \cup {NoConn}) /\ Once(queue')
      /\ \A x : In(queue', x) <=> (In(queue, x) /\ x # h) \/ (x = c /\ pc'[c] \in Due)
  <2>1. CASE Wait(c, c) /\ queue' = Tail(queue)
    <3>1. pc'[c] = "waiting" /\ "waiting" \notin Due
      BY <2>1 DEF Wait, Due, IInv, TypeOK
    <3> QED
      BY <1>4, <2>1, <3>1
  <2>2. CASE (Take(c, c) \/ Fail(c, c)) /\ queue' = Append(Tail(queue), c)
    <3>1. pc'[c] \in Due
      BY <2>2 DEF Take, Fail, Due, IInv, TypeOK
    <3>2. /\ queue' \in Seq(Conns \cup {NoConn}) /\ Once(queue')
          /\ \A x : In(queue', x) <=> In(Tail(queue), x) \/ x = c
      <4> DEFINE t == Tail(queue)
      <4>1. t \in Seq(Conns \cup {NoConn}) /\ Once(t) /\ ~In(t, c) /\ c \in Conns \cup {NoConn}
        BY <1>4, <1>5
      <4>2. queue' = Append(t, c)
        BY <2>2
      <4> HIDE DEF t
      <4>3. /\ queue' \in Seq(Conns \cup {NoConn}) /\ Once(queue')
            /\ \A x : In(queue', x) <=> In(t, x) \/ x = c
        BY <4>1, <4>2, EndOf
      <4> QED
        BY <4>3 DEF t
    <3> QED
      BY <1>4, <3>1, <3>2
  <2> QED
    BY <2>1, <2>2 DEF Start
\* Nothing that was read is left, nothing else was accepted.
<1>7. \A d \in Conns : pc[d] # "read" /\ (pc[d] = "accepted" => d = c /\ h = c)
  <2> SUFFICES ASSUME NEW d \in Conns PROVE pc[d] # "read" /\ (pc[d] = "accepted" => d = c /\ h = c)
    OBVIOUS
  <2>1. pc[d] = "read" => In(queue, d) /\ d # NoConn
    BY DEF IInv, QueueOK, Due
  <2>2. CASE h = NoConn /\ acceptor = "armed"
    <3>1. pc[d] = "read" => Before(queue, NoConn, d)
      BY <1>4, <2>1, <2>2
    <3> QED
      BY <2>2, <3>1 DEF IInv, OrderOK, AcceptorOK
  <2>3. CASE h = c /\ pc[c] = "accepted"
    <3>1. pc[d] = "read" => Before(queue, d, c)
      BY <2>3 DEF IInv, OrderOK
    <3> QED
      BY <1>4, <2>3, <3>1 DEF IInv, AcceptorOK
  <2> QED
    BY <2>2, <2>3
<1>8. /\ table' \in [Fds -> Conns \cup {NoConn}] /\ fd' \in [Conns -> Fds \cup {0}]
      /\ table'[fd'[c]] = c /\ c \notin hit
      /\ \A d \in Conns : d # c => fd'[d] = fd[d] /\ (fd[d] \in Fds => (table'[fd[d]] = d <=> table[fd[d]] = d))
  <2>1. CASE h = NoConn /\ Number(c)
    <3>1. PICK n \in Fds :
           /\ table[n] = NoConn /\ fd'[c] = n /\ table'[n] = c
           /\ table' \in [Fds -> Conns \cup {NoConn}] /\ fd' \in [Conns -> Fds \cup {0}]
           /\ c \notin hit
           /\ \A k \in Fds : k # n => table'[k] = table[k] /\ table[k] # c
           /\ \A d \in Conns : d # c => fd'[d] = fd[d]
      BY <2>1, NewNumber
    <3> QED
      BY <3>1
  <2>2. CASE h = c /\ Behind(c) = c /\ UNCHANGED <<table, fd>>
    <3>1. c \notin hit
      BY <2>2 DEF IInv, TableOK, Behind
    <3> QED
      BY <2>2, <3>1 DEF IInv, TypeOK, Behind
  <2> QED
    BY <2>1, <2>2
<1>9. TypeOK'
  <2>1. Children' = Children
    BY DEF Children, Running
  <2>2. /\ up' \in BOOLEAN /\ acceptor' \in {"armed", "taken", "rearm"}
        /\ net' \in [Conns -> {"open", "closed", "reset"}]
        /\ \A d \in Conns : asked'[d] \in Requests \cup {<< >>} /\ sent'[d] \in 0 .. Len(asked'[d])
        /\ \A d \in Conns : job'[d].state \in {"none", "running", "ended"}
        /\ Cardinality(Children') <= ProcLimit
        /\ holds' \in [Conns -> SUBSET Conns] /\ hit' \subseteq Conns
    BY <1>1, <2>1 DEF IInv, TypeOK
  <2> QED
    BY <1>3, <1>6, <1>8, <2>2 DEF TypeOK
<1>10. QueueOK'
  <2>1. ASSUME NEW d \in Conns PROVE In(queue', d) <=> pc'[d] \in Due \cup Handled
    <3>1. CASE d = c
      <4>1. ~(In(queue, c) /\ c # h)
        BY <1>4, <1>5
      <4>2. pc'[c] \notin Handled
        BY <1>3 DEF Handled
      <4> QED
        BY <1>6, <3>1, <4>1, <4>2
    <3>2. CASE d # c
      <4>1. d # h
        BY <3>2
      <4> QED
        BY <1>3, <1>6, <3>2, <4>1 DEF IInv, QueueOK
    <3> QED
      BY <3>1, <3>2
  <2> QED
    BY <1>6, <2>1 DEF QueueOK
<1>11. TableOK'
  <2>1. pc'[c] \notin Early
    BY <1>3 DEF Early
  <2>2. CASE Number(c)
    BY <1>3, <2>1, <2>2, NumberKeeps
  <2>3. CASE pc[c] = "accepted" /\ UNCHANGED <<table, fd>>
    <3>1. \A d \in Conns : pc'[d] \in Early <=> pc[d] \in Early
      BY <1>3, <2>1, <2>3 DEF Early
    <3> QED
      BY <2>3, <3>1 DEF IInv, TableOK
  <2> QED
    BY <2>2, <2>3
<1>12. AcceptorOK'
  <2>1. \A d \in Conns : pc'[d] # "accepted" /\ pc'[d] \notin Handled
    BY <1>3, <1>4, <1>7 DEF Handled
  <2> QED
    BY <2>1 DEF AcceptorOK
<1>13. OrderOK'
  <2>1. In(queue', NoConn) => Backlog' # {}
    <3> SUFFICES ASSUME In(queue', NoConn) PROVE Backlog' # {}
      OBVIOUS
    <3>1. In(queue, NoConn) /\ h = c /\ pc[c] = "accepted"
      BY <1>2, <1>6
    <3>2. \A e \in Conns : pc[e] = "accepted" => e = c
      BY <1>7
    <3>3. ~Before(queue, NoConn, c)
      BY <1>4, <3>1
    <3>4. Backlog # {}
      BY <3>1, <3>2, <3>3 DEF IInv, OrderOK
    <3>5. \A d \in Conns : pc[d] = "queued" => pc'[d] = "queued"
      BY <1>3, <3>1
    <3> QED
      BY <3>4, <3>5 DEF Backlog
  <2>2. \A d \in Conns : pc'[d] = "read" => d = c
    BY <1>3, <1>7
  <2>3. \A e \in Conns : pc'[e] # "accepted"
    BY <1>3, <1>7
  <2> QED
    BY <1>1, <1>3, <1>8, <2>1, <2>2, <2>3 DEF OrderOK
<1>14. Steady'
  <2>1. \A d \in Conns : pc'[d] \in Reading => d = c /\ pc'[c] = "read"
    BY <1>3, <1>4, <1>7 DEF Reading, Handled
  <2> QED
    BY <1>3, <1>8, <2>1 DEF Steady
<1>15. Answered'
  <2> SUFFICES ASSUME NEW d \in Conns
               PROVE  /\ up /\ pc'[d] \notin Early /\ table'[fd'[d]] # d =>
                            out[d] # << >> \/ net[d] # "open" \/ d \in hit
                      /\ pc'[d] \notin Handled
                      /\ pc'[d] = "written" /\ table'[fd'[d]] = d =>
                            out[d] # << >> \/ net[d] = "reset"
                      /\ pc'[d] = "failed" /\ table'[fd'[d]] = d => net[d] # "open"
    BY DEF Answered
  <2>1. CASE d = c
    BY <1>3, <1>8, <2>1 DEF Handled, Fail
  <2>2. CASE d # c /\ pc[d] \in Early
    BY <1>3, <2>2 DEF Early, Handled
  <2>3. CASE d # c /\ pc[d] \notin Early
    <3>1. pc'[d] = pc[d] /\ fd'[d] = fd[d] /\ fd[d] \in Fds /\ (table'[fd[d]] = d <=> table[fd[d]] = d)
      BY <1>3, <1>8, <2>3 DEF IInv, TableOK
    <3> QED
      BY <1>4, <2>3, <3>1 DEF IInv, Answered
  <2> QED
    BY <2>1, <2>2, <2>3
<1>16. CutOff'
  <2>1. NeverCutOff'
    BY DEF IInv, CutOff, NeverCutOff
  <2>2. ASSUME NEW b \in Conns, <<"200">> \in ToSet(out[b]), pc'[b] \notin Early,
               table'[fd'[b]] = b
        PROVE  FALSE
    <3>1. out[b] # << >>
      BY <2>2 DEF ToSet
    <3>2. CASE pc[b] \in Early
      <4>1. (out[b] # << >> => got[b] > 0) /\ got[b] = 0
        BY <3>2 DEF IInv, OutOK, HeardOK
      <4> QED
        BY <3>1, <4>1
    <3>3. CASE pc[b] \notin Early
      <4>1. table[fd[b]] = b
        <5>1. CASE b = c
          BY <1>2, <3>3, <5>1 DEF Behind, Early, Number
        <5>2. CASE b # c
          BY <1>8, <2>2, <3>3, <5>2 DEF IInv, TableOK
        <5> QED
          BY <5>1, <5>2
      <4> QED
        BY <1>4, <2>2, <3>3, <4>1 DEF IInv, CutOff
    <3> QED
      BY <3>2, <3>3
  <2> QED
    BY <2>1, <2>2 DEF CutOff
<1> QED
  BY <1>3, <1>9, <1>10, <1>11, <1>12, <1>13, <1>14, <1>15, <1>16 DEF IInv

LEMMA AcceptReadyKeeps == ASSUME IInv, NEW c \in Conns, AcceptReady(c) PROVE IInv'
BY StartKeeps DEF AcceptReady

-----------------------------------------------------------------------------
(* The sessions.                                                            *)
LEMMA ReadKeeps == ASSUME IInv, NEW c \in Conns, Read(c) PROVE IInv'
<1> USE DEF Read, client, child
<1> DEFINE b == Behind(c)
<1>0. Turn(c) /\ pc[c] = "ready" /\ Hears(c, b) /\ UNCHANGED <<acceptor, table, fd, up, hit>>
  BY DEF Hears
<1>1. fd[c] \in Fds /\ (b # NoConn => b \in Conns /\ pc[b] \notin Early)
  <2>1. fd[c] \in Fds /\ 0 \notin Fds
    BY <1>0 DEF IInv, TableOK, Early, Fds
  <2> QED
    BY <2>1 DEF IInv, TypeOK, TableOK, Behind
<1> HIDE DEF b
<1>3. /\ pc' \in [Conns -> {"away", "queued", "waiting", "over"} \cup Due \cup Handled]
      /\ pc'[c] \in {"read", "failed", "waiting"}
      /\ pc'[c] = "read" => Take(c, b) /\ heard'[c].from = b
      /\ pc'[c] = "failed" => Fail(c, b)
      /\ \A d \in Conns : d # c => pc'[d] = pc[d] /\ heard'[d] = heard[d]
      /\ got' \in [Conns -> Nat]
      /\ \A d \in Conns : heard'[d].from \in Conns \cup {NoConn} /\ heard'[d].upto \in Nat
      /\ Shape' /\ HeardOK' /\ JobOK' /\ OutOK'
  BY <1>0, <1>1, HearsKeeps
<1>4. /\ up /\ acceptor # "rearm" /\ \A d \in Conns : pc[d] \notin Handled
      /\ In(queue, c) /\ \A x : ~Before(queue, x, c)
      /\ queue \in Seq(Conns \cup {NoConn}) /\ Once(queue)
      /\ \A y : In(queue, y) /\ y # c => Before(queue, c, y)
      /\ Tail(queue) \in Seq(Conns \cup {NoConn}) /\ Once(Tail(queue)) /\ ~In(Tail(queue), c)
      /\ \A x : In(Tail(queue), x) <=> In(queue, x) /\ x # c
      /\ \A x, y : Before(Tail(queue), x, y) <=> Before(queue, x, y) /\ x # c
  BY <1>0, InTurn
<1>5. \/ pc'[c] \in {"read", "failed"} /\ queue' = queue
      \/ pc'[c] = "waiting" /\ queue' = Tail(queue)
  <2>1. pc \in [Conns -> {"away", "queued", "waiting", "over"} \cup Due \cup Handled]
    BY DEF IInv, TypeOK
  <2>2. CASE (Take(c, b) \/ Fail(c, b)) /\ UNCHANGED queue
    BY <2>1, <2>2 DEF Take, Fail
  <2>3. CASE Wait(c, b) /\ queue' = Tail(queue)
    BY <2>1, <2>3 DEF Wait
  <2> QED
    BY <2>2, <2>3 DEF b
<1>6. /\ queue' \in Seq(Conns \cup {NoConn}) /\ Once(queue')
      /\ \A x : x # c => (In(queue', x) <=> In(queue, x))
      /\ In(queue', c) <=> pc'[c] \in {"read", "failed"}
      /\ \A x, y : x # c => (Before(queue', x, y) <=> Before(queue, x, y))
      /\ \A x : ~Before(queue', x, c)
      /\ \A y : pc'[c] = "read" => (Before(queue', c, y) <=> Before(queue, c, y))
  BY <1>4, <1>5
<1>7. TypeOK'
  <2>1. Children' = Children
    BY DEF Children, Running
  <2>2. /\ up' \in BOOLEAN /\ acceptor' \in {"armed", "taken", "rearm"}
        /\ net' \in [Conns -> {"open", "closed", "reset"}]
        /\ \A d \in Conns : asked'[d] \in Requests \cup {<< >>} /\ sent'[d] \in 0 .. Len(asked'[d])
        /\ \A d \in Conns : job'[d].state \in {"none", "running", "ended"}
        /\ table' \in [Fds -> Conns \cup {NoConn}] /\ fd' \in [Conns -> Fds \cup {0}]
        /\ Cardinality(Children') <= ProcLimit
        /\ holds' \in [Conns -> SUBSET Conns] /\ hit' \subseteq Conns
    BY <2>1 DEF IInv, TypeOK
  <2> QED
    BY <1>3, <1>6, <2>2 DEF TypeOK
<1>8. QueueOK'
  <2>1. ASSUME NEW d \in Conns PROVE In(queue', d) <=> pc'[d] \in Due \cup Handled
    <3>1. CASE d = c
      BY <1>3, <1>6, <3>1 DEF Due, Handled
    <3>2. CASE d # c
      BY <1>3, <1>6, <3>2 DEF IInv, QueueOK
    <3> QED
      BY <3>1, <3>2
  <2> QED
    BY <1>6, <2>1 DEF QueueOK
<1>9. \A d \in Conns : pc'[d] \in Early <=> pc[d] \in Early
  BY <1>0, <1>3 DEF Early
<1>10. TableOK'
  BY <1>9 DEF IInv, TableOK
<1>11. AcceptorOK'
  <2>1. \A d \in Conns : pc'[d] \notin Handled /\ (pc'[d] = "accepted" => pc[d] = "accepted")
    BY <1>3, <1>4 DEF Handled
  <2> QED
    BY <2>1 DEF IInv, AcceptorOK
<1>12. OrderOK'
  <2>1. Backlog' = Backlog
    BY <1>0, <1>3 DEF Backlog
  <2>2. \A e \in Conns : pc'[e] = "accepted" <=> pc[e] = "accepted"
    BY <1>0, <1>3
  <2>3. c # NoConn
    OBVIOUS
  <2>4. In(queue', NoConn) =>
           Backlog' # {} \/ \E e \in Conns : pc'[e] = "accepted" /\ Before(queue', NoConn, e)
    BY <1>6, <2>1, <2>2, <2>3 DEF IInv, OrderOK
  <2>5. ASSUME NEW d \in Conns, pc'[d] = "read"
        PROVE  /\ Before(queue', NoConn, d) => acceptor' # "armed"
               /\ \A e \in Conns : pc'[e] = "accepted" => Before(queue', d, e)
               /\ acceptor' # "rearm"
    <3>1. CASE d = c
      <4>1. \A e \in Conns : pc[e] = "accepted" => In(queue, e) /\ e # c
        BY <1>0 DEF IInv, QueueOK, Due
      <4> QED
        BY <1>4, <1>6, <2>2, <2>5, <3>1, <4>1
    <3>2. CASE d # c
      BY <1>3, <1>4, <1>6, <2>2, <2>3, <2>5, <3>2 DEF IInv, OrderOK
    <3> QED
      BY <3>1, <3>2
  <2> QED
    BY <2>4, <2>5 DEF OrderOK
<1>13. Steady'
  <2> SUFFICES ASSUME NEW d \in Conns, pc'[d] \in Reading
               PROVE  LET a == heard'[d].from IN
                      /\ a \in Conns
                      /\ up => table[fd[d]] = a \/ (table[fd[d]] = NoConn /\ pc'[d] # "fork" /\ Lost(d, a))
                      /\ pc'[d] = "read" /\ (\E x : Before(queue', x, d)) => a = d
                      /\ pc'[d] # "read" => heard'[d].says.result = "accepted"
    BY DEF Steady, Lost
  <2>1. CASE d = c
    <3>1. pc'[c] = "read" /\ Take(c, b) /\ heard'[c].from = b
      BY <1>3, <2>1 DEF Reading
    <3>2. b # NoConn /\ b = table[fd[c]]
      BY <3>1 DEF Take, Behind, b
    <3> QED
      BY <1>1, <1>6, <2>1, <3>1, <3>2
  <2>2. CASE d # c
    <3>1. \A x : Before(queue', x, d) => Before(queue, x, d)
      BY <1>4, <1>5
    <3> QED
      BY <1>3, <2>2, <3>1 DEF IInv, Steady
  <2> QED
    BY <2>1, <2>2
<1>14. Answered'
  <2> SUFFICES ASSUME NEW d \in Conns
               PROVE  /\ up /\ pc'[d] \notin Early /\ table[fd[d]] # d =>
                            out[d] # << >> \/ net[d] # "open" \/ d \in hit
                      /\ pc'[d] \notin Handled
                      /\ pc'[d] = "written" /\ table[fd[d]] = d =>
                            out[d] # << >> \/ net[d] = "reset"
                      /\ pc'[d] = "failed" /\ table[fd[d]] = d => net[d] # "open"
    BY DEF Answered
  <2>1. CASE d = c
    <3>1. up /\ pc'[d] \notin Early /\ table[fd[d]] # d =>
                            out[d] # << >> \/ net[d] # "open" \/ d \in hit
      BY <1>9 DEF IInv, Answered
    <3>2. pc'[c] = "failed" /\ table[fd[c]] = c => net[c] # "open"
      BY <1>3 DEF Fail, Behind, b
    <3> QED
      BY <1>3, <2>1, <3>1, <3>2 DEF Handled
  <2>2. CASE d # c
    BY <1>3, <1>4, <2>2 DEF IInv, Answered
  <2> QED
    BY <2>1, <2>2
<1>15. CutOff'
  <2>1. \A s \in Conns : pc[s] \notin Handled
    BY <1>4
  <2> QED
    BY <1>9, <2>1 DEF IInv, CutOff, NeverCutOff
<1> QED
  BY <1>3, <1>7, <1>8, <1>10, <1>11, <1>12, <1>13, <1>14, <1>15 DEF IInv

(* The end of a session.                                                    *)
LEMMA EndKeeps ==
  ASSUME IInv, NEW c \in Conns, Turn(c), End(c), pc[c] \in {"accepted", "written", "failed"},
         \/ pc[c] = "accepted" /\ Behind(c) # c /\ acceptor' = "rearm"
         \/ pc[c] # "accepted" /\ UNCHANGED acceptor,
         UNCHANGED <<up, client, fd, child, out>>
  PROVE  IInv'
<1> USE DEF End, Closed, client, child
<1>0. 0 \notin Fds
  BY DEF Fds
<1>1. /\ pc' = [pc EXCEPT ![c] = "over"]
      /\ pc \in [Conns -> {"away", "queued", "waiting", "over"} \cup Due \cup Handled]
      /\ pc' \in [Conns -> {"away", "queued", "waiting", "over"} \cup Due \cup Handled]
      /\ pc'[c] = "over" /\ \A d \in Conns : d # c => pc'[d] = pc[d]
  BY DEF IInv, TypeOK
<1>2. /\ fd[c] \in Fds /\ Behind(c) = table[fd[c]] /\ Behind(c) \in Conns \cup {NoConn}
      /\ table' \in [Fds -> Conns \cup {NoConn}] /\ table'[fd[c]] = NoConn
      /\ \A k \in Fds : k # fd[c] => table'[k] = table[k]
      /\ hit' = hit \cup ({Behind(c)} \ {c, NoConn})
  BY DEF IInv, TypeOK, TableOK, Early, Behind
<1>3. Behind(c) # NoConn => fd[Behind(c)] = fd[c] /\ pc[Behind(c)] \notin Early
  BY <1>0, <1>2 DEF IInv, TableOK
<1>4. /\ up /\ acceptor # "rearm" /\ \A d \in Conns : pc[d] \notin Handled
      /\ In(queue, c) /\ \A x : ~Before(queue, x, c)
      /\ \A y : In(queue, y) /\ y # c => Before(queue, c, y)
      /\ Tail(queue) \in Seq(Conns \cup {NoConn}) /\ Once(Tail(queue)) /\ ~In(Tail(queue), c)
      /\ \A x : In(Tail(queue), x) <=> In(queue, x) /\ x # c
      /\ \A x, y : Before(Tail(queue), x, y) <=> Before(queue, x, y) /\ x # c
  BY InTurn
<1>5. queue' = Tail(queue) /\ c # NoConn
  OBVIOUS
<1>6. hit' \subseteq Conns /\ hit \subseteq hit'
  BY <1>2 DEF IInv, TypeOK
<1>7. TypeOK'
  <2>1. Children' = Children
    BY DEF Children, Running
  <2> QED
    BY <1>1, <1>2, <1>4, <1>5, <1>6, <2>1 DEF IInv, TypeOK
<1>8. Shape' /\ QueueOK'
  <2>1. ASSUME NEW d \in Conns PROVE In(queue', d) <=> pc'[d] \in Due \cup Handled
    <3>1. CASE d = c
      BY <1>1, <1>4, <3>1 DEF Due, Handled
    <3>2. CASE d # c
      BY <1>1, <1>4, <1>5, <3>2 DEF IInv, QueueOK
    <3> QED
      BY <3>1, <3>2
  <2> QED
    BY <1>4, <1>5, <2>1 DEF IInv, Shape, QueueOK
<1>9. \A d \in Conns : pc'[d] \in Early <=> pc[d] \in Early
  BY <1>1 DEF Early
<1>10. TableOK'
  <2>1. \A n \in Fds : table'[n] # NoConn => fd[table'[n]] = n
    BY <1>2 DEF IInv, TableOK
  <2>2. \A d \in Conns : IF pc'[d] \in Early THEN fd[d] = 0 /\ d \notin hit' ELSE fd[d] \in Fds
    BY <1>2, <1>3, <1>9 DEF IInv, TableOK
  <2>3. \A d \in hit' : table'[fd[d]] # d
    <3> SUFFICES ASSUME NEW d \in hit' PROVE table'[fd[d]] # d
      OBVIOUS
    <3>1. CASE d \in hit
      <4>1. table[fd[d]] # d /\ fd[d] \in Fds /\ d \in Conns
        BY <3>1 DEF IInv, TypeOK, TableOK
      <4> QED
        BY <1>2, <4>1
    <3>2. CASE d = Behind(c) /\ d # NoConn
      BY <1>2, <1>3, <3>2
    <3> QED
      BY <1>2, <3>1, <3>2
  <2> QED
    BY <2>1, <2>2, <2>3 DEF TableOK
<1>11. AcceptorOK'
  <2>1. \A d \in Conns : pc'[d] \notin Handled
    BY <1>1, <1>4 DEF Handled
  <2>2. \A d \in Conns : pc'[d] = "accepted" => pc[d] = "accepted" /\ d # c
    BY <1>1
  <2>3. \A d \in Conns : pc'[d] = "accepted" => acceptor' = "taken"
    BY <2>2 DEF IInv, AcceptorOK
  <2> QED
    BY <2>1, <2>2, <2>3 DEF IInv, AcceptorOK
<1>12. \A d \in Conns : pc[c] = "accepted" => pc[d] # "read"
  <2> SUFFICES ASSUME NEW d \in Conns, pc[c] = "accepted", pc[d] = "read" PROVE FALSE
    OBVIOUS
  <2>1. Before(queue, d, c)
    BY DEF IInv, OrderOK
  <2> QED
    BY <1>4, <2>1
<1>13. OrderOK'
  <2>1. Backlog' = Backlog
    BY <1>1 DEF Backlog
  <2>2. \A d \in Conns : pc'[d] \in {"accepted", "read"} => pc[d] = pc'[d] /\ d # c
    BY <1>1
  <2>3. \A d \in Conns : pc[d] \in {"accepted", "read"} /\ d # c => pc[d] = pc'[d]
    BY <1>1
  <2>4. In(queue', NoConn) =>
           Backlog' # {} \/ \E e \in Conns : pc'[e] = "accepted" /\ Before(queue', NoConn, e)
    <3>1. In(queue', NoConn) => 
            Backlog # {} \/ \E e \in Conns : pc[e] = "accepted" /\ Before(queue, NoConn, e)
      BY <1>4, <1>5 DEF IInv, OrderOK
    <3>2. \A e \in Conns : Before(queue, NoConn, e) => e # c /\ Before(queue', NoConn, e)
      BY <1>4, <1>5
    <3> QED
      BY <2>1, <2>3, <3>1, <3>2
  <2>5. ASSUME NEW d \in Conns, pc'[d] = "read"
        PROVE  /\ Before(queue', NoConn, d) => acceptor' # "armed"
               /\ \A e \in Conns : pc'[e] = "accepted" => Before(queue', d, e)
               /\ acceptor' # "rearm"
    <3>1. pc[d] = "read" /\ d # c /\ acceptor' = acceptor
      BY <1>12, <2>2, <2>5
    <3> QED
      BY <1>4, <1>5, <2>2, <3>1 DEF IInv, OrderOK
  <2> QED
    BY <2>4, <2>5 DEF OrderOK
<1>14. Steady'
  <2> SUFFICES ASSUME NEW d \in Conns, pc'[d] \in Reading
               PROVE  LET a == heard[d].from IN
                      /\ a \in Conns
                      /\ table'[fd[d]] = a \/ (table'[fd[d]] = NoConn /\ pc'[d] # "fork" /\ Lost(d, a)')
                      /\ pc'[d] = "read" /\ (\E x : Before(queue', x, d)) => a = d
                      /\ pc'[d] # "read" => heard[d].says.result = "accepted"
    <3> HIDE DEF Lost, End, Closed
    <3> QED
      BY Zenon DEF Steady, End
  <2>1. pc'[d] = "read" /\ pc[d] = "read" /\ d # c
    BY <1>1, <1>4 DEF Reading, Handled
  <2> DEFINE a == heard[d].from
  <2>2. Before(queue, c, d)
    BY <1>4, <2>1 DEF IInv, QueueOK, Due
  <2>3. a = d /\ (table[fd[d]] = d \/ (table[fd[d]] = NoConn /\ Lost(d, d)))
    BY <1>4, <2>1, <2>2 DEF IInv, Steady, Reading
  <2>4. fd[d] \in Fds
    BY <2>1 DEF IInv, TableOK, Early
  <2>5. Lost(d, d) => Lost(d, d)'
    BY <1>6 DEF Lost
  <2>6. CASE fd[d] # fd[c]
    <3>1. table'[fd[d]] = table[fd[d]]
      BY <1>2, <2>4, <2>6
    <3> QED
      BY <2>1, <2>3, <2>5, <3>1
  <2>7. CASE fd[d] = fd[c]
    <3>1. table'[fd[d]] = NoConn
      BY <1>2, <2>7
    <3>2. table[fd[d]] = d => d \in hit'
      BY <1>2, <2>1, <2>7
    <3>3. Lost(d, d)'
      BY <2>3, <2>5, <3>2 DEF Lost
    <3> QED
      BY <2>1, <2>3, <3>1, <3>3
  <2> QED
    BY <2>6, <2>7
<1>15. HeardOK'
  <2>1. \A d \in Conns : /\ pc'[d] = "away" <=> pc[d] = "away"
                         /\ pc'[d] \in Reading => pc[d] \in Reading
                         /\ pc[d] \in Reading \cup {"written", "over"} => pc'[d] \in Reading \cup {"written", "over"}
    BY <1>1 DEF Reading
  <2> QED
    BY <1>9, <2>1 DEF IInv, HeardOK
<1>16. JobOK' /\ OutOK'
  <2>1. \A d \in Conns : /\ pc'[d] = "read" => pc[d] = "read"
                         /\ pc[d] \in {"written", "over"} => pc'[d] \in {"written", "over"}
    BY <1>1
  <2> QED
    BY <2>1 DEF IInv, JobOK, OutOK, Sole
<1>17. Answered'
  <2> SUFFICES ASSUME NEW d \in Conns
               PROVE  /\ pc'[d] \notin Early /\ table'[fd[d]] # d =>
                            out[d] # << >> \/ net[d] # "open" \/ d \in hit'
                      /\ pc'[d] \notin Handled
                      /\ pc'[d] = "written" /\ table'[fd[d]] = d =>
                            out[d] # << >> \/ net[d] = "reset"
                      /\ pc'[d] = "failed" /\ table'[fd[d]] = d => net[d] # "open"
    BY DEF Answered
  <2>1. pc'[d] \notin Handled
    BY <1>1, <1>4 DEF Handled
  <2>2. pc'[d] \in {"written", "failed"} => pc[d] = pc'[d]
    BY <1>1
  <2>3. pc[d] \notin Early => fd[d] \in Fds
    BY DEF IInv, TableOK
  <2>4. pc[d] \notin Early /\ table'[fd[d]] = d => table[fd[d]] = d
    BY <1>2, <2>3
  <2>5. pc[d] \notin Early /\ table'[fd[d]] # d => table[fd[d]] # d \/ fd[d] = fd[c]
    BY <1>2, <2>3
  <2>6. CASE pc[d] \notin Early /\ table[fd[d]] = d /\ fd[d] = fd[c]
    <3>1. CASE d = c
      <4>1. pc[c] # "accepted" /\ pc[c] \in {"written", "failed"}
        BY <2>6, <3>1 DEF Behind
      <4> QED
        BY <2>1, <2>2, <2>4, <2>6, <3>1, <4>1, <1>1 DEF IInv, Answered
    <3>2. CASE d # c
      <4>1. d \in hit'
        BY <1>2, <2>6, <3>2
      <4> QED
        BY <1>2, <2>1, <2>6, <4>1
    <3> QED
      BY <3>1, <3>2
  <2>7. CASE pc[d] \notin Early /\ table[fd[d]] # d
    BY <1>4, <1>6, <2>1, <2>2, <2>4, <2>7 DEF IInv, Answered
  <2>8. CASE pc[d] \notin Early /\ table[fd[d]] = d /\ fd[d] # fd[c]
    BY <1>2, <1>4, <2>1, <2>2, <2>3, <2>8 DEF IInv, Answered
  <2>9. CASE pc[d] \in Early
    BY <1>9, <2>1, <2>9 DEF Early
  <2> QED
    BY <2>6, <2>7, <2>8, <2>9
<1>18. CutOff'
  <2>1. ASSUME NEW b \in Conns, <<"200">> \in ToSet(out[b]), pc[b] \notin Early
        PROVE  table[fd[b]] # b
    BY <1>4, <2>1 DEF IInv, CutOff
  <2>2. NeverCutOff'
    <3> SUFFICES ASSUME NEW d \in hit' PROVE <<"200">> \notin ToSet(out[d])
      BY DEF NeverCutOff
    <3>1. CASE d \in hit
      BY <3>1 DEF IInv, CutOff, NeverCutOff
    <3>2. CASE d = Behind(c) /\ d # NoConn
      <4>1. table[fd[d]] = d /\ pc[d] \notin Early /\ d \in Conns
        BY <1>2, <1>3, <3>2
      <4> QED
        BY <2>1, <4>1
    <3> QED
      BY <1>2, <3>1, <3>2
  <2>3. ASSUME NEW b \in Conns, <<"200">> \in ToSet(out[b]), pc'[b] \notin Early
        PROVE  table'[fd[b]] # b
    BY <1>2, <1>9, <2>1, <2>3 DEF IInv, TableOK
  <2> QED
    BY <2>2, <2>3 DEF CutOff
<1> QED
  BY <1>7, <1>8, <1>10, <1>11, <1>13, <1>14, <1>15, <1>16, <1>17, <1>18 DEF IInv

LEMMA AcceptKeeps == ASSUME IInv, NEW c \in Conns, Accept(c) PROVE IInv'
<1>1. CASE Behind(c) = c /\ Start(c) /\ UNCHANGED <<table, hit>>
  BY <1>1, StartKeeps DEF Accept
<1>2. CASE Behind(c) # c /\ End(c) /\ acceptor' = "rearm"
  BY <1>2, EndKeeps DEF Accept
<1> QED
  BY <1>1, <1>2 DEF Accept

LEMMA WrittenKeeps == ASSUME IInv, NEW c \in Conns, Written(c) PROVE IInv'
BY EndKeeps DEF Written

-----------------------------------------------------------------------------
(* What is written.                                                         *)
LEMMA Grows ==
  ASSUME NEW o, \E S : o \in Seq(S), NEW x
  PROVE  /\ \E S : Append(o, x) \in Seq(S)
         /\ Append(o, x) # << >> /\ ToSet(Append(o, x)) = ToSet(o) \cup {x}
<1>1. PICK S : o \in Seq(S)
  OBVIOUS
<1>2. o \in Seq(S \cup {x})
  BY <1>1, SeqMonotonic
<1> DEFINE a == Append(o, x)
           n == Len(o)
<1>3. /\ n \in Nat /\ a \in Seq(S \cup {x}) /\ Len(a) = n + 1 /\ a[n + 1] = x
      /\ \A i \in 1 .. n : a[i] = o[i]
  BY <1>2, AppendProperties, LenProperties
<1>4. DOMAIN a = 1 .. n + 1 /\ DOMAIN o = 1 .. n
  BY <1>1, <1>3, LenProperties
<1> HIDE DEF a
<1>5. a # << >>
  BY <1>3, EmptySeq
<1>6. \A i : i \in 1 .. n + 1 <=> i \in 1 .. n \/ i = n + 1
  BY <1>3
<1>7. ToSet(a) = ToSet(o) \cup {x}
  BY <1>3, <1>4, <1>6 DEF ToSet
<1> QED
  BY <1>3, <1>5, <1>7 DEF a

LEMMA Writes ==
  ASSUME IInv, NEW b \in Conns, NEW x, Write(b, x)
  PROVE  /\ DOMAIN out' = Conns /\ \A d \in Conns : d # b => out'[d] = out[d]
         /\ \A d \in Conns : \E S : out'[d] \in Seq(S)
         /\ \A d \in Conns : out[d] # << >> => out'[d] # << >>
         /\ IF net[b] = "reset" THEN out'[b] = out[b] ELSE out'[b] = Append(out[b], x)
         /\ out'[b] # << >> \/ net[b] = "reset"
         /\ \A d \in Conns : ToSet(out'[d]) \subseteq ToSet(out[d]) \cup {x}
<1>1. /\ DOMAIN out = Conns /\ \A d \in Conns : \E S : out[d] \in Seq(S)
      /\ out' = [out EXCEPT ![b] = IF net[b] = "reset" THEN @ ELSE Append(@, x)]
  BY DEF IInv, Shape, Write
<1>2. /\ \E S : Append(out[b], x) \in Seq(S)
      /\ Append(out[b], x) # << >> /\ ToSet(Append(out[b], x)) = ToSet(out[b]) \cup {x}
  <2>1. \E S : out[b] \in Seq(S)
    BY <1>1
  <2> QED
    BY <2>1, Grows
<1>3. \/ net[b] = "reset" /\ out'[b] = out[b]
      \/ net[b] # "reset" /\ out'[b] = Append(out[b], x)
  BY <1>1
<1>4. DOMAIN out' = Conns /\ \A d \in Conns : d # b => out'[d] = out[d]
  BY <1>1
<1>5. ASSUME NEW d \in Conns
      PROVE  /\ \E S : out'[d] \in Seq(S)
             /\ out[d] # << >> => out'[d] # << >>
             /\ ToSet(out'[d]) \subseteq ToSet(out[d]) \cup {x}
  <2>1. out'[d] = out[d] \/ (d = b /\ out'[d] = Append(out[b], x))
    BY <1>3, <1>4
  <2> QED
    BY <1>1, <1>2, <2>1
<1> QED
  BY <1>2, <1>3, <1>4, <1>5

(* One session alone has heard a connection that was read once.             *)
LEMMA SoleReader ==
  ASSUME IInv, NEW c \in Conns, NEW s \in Conns, Sole(s), heard[c].from = heard[s].from
  PROVE  s = c
<1>1. /\ heard[s].from # NoConn /\ heard[s].after = 0 /\ heard[s].upto = got[heard[s].from]
      /\ heard[c].after \in Nat /\ heard[c].upto \in Nat /\ heard[c].after < heard[c].upto
      /\ heard[c].upto <= got[heard[s].from]
  BY DEF IInv, HeardOK, Sole
<1>2. s # c => heard[s].upto <= heard[c].after \/ heard[c].upto <= heard[s].after
  BY <1>1 DEF IInv, HeardOK
<1>3. got[heard[s].from] \in Nat
  BY <1>1 DEF IInv, HeardOK, TypeOK
<1> QED
  BY <1>1, <1>2, <1>3

-----------------------------------------------------------------------------
(* The answer, to whoever is behind the number: its reader's client or      *)
(* nobody.                                                                  *)
LEMMA StatusKeeps ==
  ASSUME IInv, NEW c \in Conns, NEW code, NEW next, Turn(c), pc[c] = "read", Status(c, code),
         pc' = [pc EXCEPT ![c] = next],
         \/ code = "403" /\ next = "written" /\ heard[c].says.result = "refused"
         \/ code = "200" /\ next = "status" /\ heard[c].says.result = "accepted"
  PROVE  IInv'
<1>2. /\ up /\ acceptor # "rearm" /\ \A d \in Conns : pc[d] \notin Handled
      /\ In(queue, c) /\ \A x : ~Before(queue, x, c)
      /\ \A y : In(queue, y) /\ y # c => Before(queue, c, y)
      /\ Tail(queue) \in Seq(Conns \cup {NoConn}) /\ Once(Tail(queue)) /\ ~In(Tail(queue), c)
      /\ \A x : In(Tail(queue), x) <=> In(queue, x) /\ x # c
      /\ \A x, y : Before(Tail(queue), x, y) <=> Before(queue, x, y) /\ x # c
  BY InTurn
<1>3. /\ queue' \in Seq(Conns \cup {NoConn}) /\ Once(queue')
      /\ \A x : In(queue', x) <=> In(queue, x)
      /\ \A x, y : y # c => (Before(queue', x, y) <=> Before(queue, x, y) /\ x # c)
  <2> DEFINE t == Tail(queue)
  <2>1. t \in Seq(Conns \cup {NoConn}) /\ Once(t) /\ ~In(t, c) /\ c \in Conns \cup {NoConn}
    BY <1>2
  <2>2. queue' = Append(t, c)
    BY DEF Status
  <2>3. \A x : In(t, x) <=> In(queue, x) /\ x # c
    BY <1>2
  <2>4. \A x, y : Before(t, x, y) <=> Before(queue, x, y) /\ x # c
    BY <1>2
  <2> HIDE DEF t
  <2>5. /\ queue' \in Seq(Conns \cup {NoConn}) /\ Once(queue')
        /\ \A x : In(queue', x) <=> In(t, x) \/ x = c
        /\ \A x, y : Before(queue', x, y) <=> Before(t, x, y) \/ (In(t, x) /\ y = c)
    BY <2>1, <2>2, EndOf
  <2> QED
    BY <1>2, <2>3, <2>4, <2>5
<1> USE DEF Status, client, child
<1> DEFINE b == Behind(c)
           a == heard[c].from
<1>1. /\ pc \in [Conns -> {"away", "queued", "waiting", "over"} \cup Due \cup Handled]
      /\ pc' \in [Conns -> {"away", "queued", "waiting", "over"} \cup Due \cup Handled]
      /\ pc'[c] = next /\ next \in {"written", "status"} /\ \A d \in Conns : d # c => pc'[d] = pc[d]
  BY DEF IInv, TypeOK, Due, Handled
\* Who is behind the number is who was read from.
<1>4. /\ a \in Conns /\ (b = a \/ (b = NoConn /\ Lost(c, a))) /\ b = table[fd[c]]
      /\ heard[c].upto <= got[a] /\ heard[c].upto \in Nat /\ heard[c].upto > 0 /\ got[a] \in Nat
      /\ job[c] = NoJob /\ fd[c] \in Fds
  <2>1. a \in Conns /\ (b = a \/ (b = NoConn /\ Lost(c, a)))
    BY <1>2 DEF IInv, Steady, Reading, Behind
  <2>2. /\ heard[c].upto <= got[a] /\ heard[c].upto \in Nat /\ heard[c].upto > 0
    BY <2>1 DEF IInv, HeardOK
  <2>3. got[a] \in Nat
    BY <2>1 DEF IInv, TypeOK
  <2> QED
    BY <2>1, <2>2, <2>3 DEF IInv, JobOK, TableOK, Early, Behind
<1> HIDE DEF a
<1>5. /\ DOMAIN out' = Conns /\ \A d \in Conns : d # b => out'[d] = out[d]
      /\ \A d \in Conns : \E S : out'[d] \in Seq(S)
      /\ \A d \in Conns : out[d] # << >> => out'[d] # << >>
      /\ b # NoConn => IF net[b] = "reset" THEN out'[b] = out[b] ELSE out'[b] = Append(out[b], <<code>>)
      /\ b # NoConn => out'[b] # << >> \/ net[b] = "reset"
      /\ \A d \in Conns : ToSet(out'[d]) \subseteq ToSet(out[d]) \cup {<<code>>}
  <2>1. CASE b = NoConn
    <3>1. out' = out
      BY <2>1
    <3> QED
      BY <2>1, <3>1 DEF IInv, Shape
  <2>2. CASE b # NoConn
    <3>1. Write(b, <<code>>) /\ b \in Conns
      BY <1>4, <2>2
    <3> HIDE DEF b
    <3> QED
      BY <3>1, Writes
  <2> QED
    BY <2>1, <2>2
<1>6. b # NoConn => table[fd[b]] = b /\ fd[b] = fd[c] /\ b \in Conns /\ pc[b] \notin Early /\ b \notin hit
  <2>1. 0 \notin Fds
    BY DEF Fds
  <2> QED
    BY <1>4, <2>1 DEF IInv, TableOK
<1> HIDE DEF b
<1>7. TypeOK'
  <2>1. Children' = Children
    BY DEF Children, Running
  <2> QED
    BY <1>1, <1>3, <2>1 DEF IInv, TypeOK
<1>8. Shape' /\ QueueOK'
  <2>1. next \in Due \cup Handled
    BY <1>1 DEF Due, Handled
  <2> QED
    BY <1>1, <1>2, <1>3, <1>5, <2>1 DEF IInv, Shape, QueueOK
<1>9. \A d \in Conns : pc'[d] \in Early <=> pc[d] \in Early
  BY <1>1 DEF Early
<1>10. TableOK'
  BY <1>9 DEF IInv, TableOK
<1>11. \A d \in Conns : /\ pc'[d] \in {"accepted", "read", "queued"} => pc[d] = pc'[d] /\ d # c
                        /\ pc[d] \in {"accepted", "queued"} => pc[d] = pc'[d]
                        /\ pc'[d] \in Handled => d = c
  BY <1>1, <1>2
<1>12. AcceptorOK'
  BY <1>2, <1>11 DEF IInv, AcceptorOK
<1>13. OrderOK'
  <2>1. Backlog' = Backlog
    BY <1>11 DEF Backlog
  <2>2. c # NoConn
    OBVIOUS
  <2>3. In(queue', NoConn) =>
           Backlog' # {} \/ \E e \in Conns : pc'[e] = "accepted" /\ Before(queue', NoConn, e)
    <3>1. \A e \in Conns : pc[e] = "accepted" => e # c
      OBVIOUS
    <3> QED
      BY <1>3, <1>11, <2>1, <2>2, <3>1 DEF IInv, OrderOK
  <2>4. ASSUME NEW d \in Conns, pc'[d] = "read"
        PROVE  /\ Before(queue', NoConn, d) => acceptor' # "armed"
               /\ \A e \in Conns : pc'[e] = "accepted" => Before(queue', d, e)
               /\ acceptor' # "rearm"
    BY <1>2, <1>3, <1>11, <2>2, <2>4 DEF IInv, OrderOK
  <2> QED
    BY <2>3, <2>4 DEF OrderOK
<1>14. Steady'
  <2> SUFFICES ASSUME NEW d \in Conns, pc'[d] \in Reading
               PROVE  LET f == heard[d].from IN
                      /\ f \in Conns
                      /\ table[fd[d]] = f \/ (table[fd[d]] = NoConn /\ pc'[d] # "fork" /\ Lost(d, f))
                      /\ pc'[d] = "read" /\ (\E x : Before(queue', x, d)) => f = d
                      /\ pc'[d] # "read" => heard[d].says.result = "accepted"
    BY DEF Steady, Lost
  <2>1. CASE d = c
    BY <1>1, <1>4, <2>1 DEF Reading, a
  <2>2. CASE d # c
    <3>1. pc[d] = pc'[d] /\ pc'[d] = "read"
      BY <1>1, <1>2, <2>2 DEF Reading, Handled
    <3> QED
      BY <1>2, <1>3, <2>2, <3>1 DEF IInv, Steady
  <2> QED
    BY <2>1, <2>2
<1>15. HeardOK' /\ JobOK'
  <2>1. \A d \in Conns : /\ pc'[d] = "away" <=> pc[d] = "away"
                         /\ pc[d] \in {"written", "over"} => pc'[d] \in {"written", "over"}
                         /\ pc'[d] \in Reading => pc[d] \in Reading
                         /\ pc[d] \in Reading \cup {"written", "over"} => pc'[d] \in Reading \cup {"written", "over"}
    BY <1>1 DEF Reading
  <2> QED
    BY <1>9, <2>1 DEF IInv, HeardOK, JobOK
<1>16. OutOK'
  <2>1. ASSUME NEW d \in Conns, out'[d] # << >> PROVE got[d] > 0
    <3>1. CASE d = b
      BY <1>4, <3>1
    <3>2. CASE d # b
      BY <1>5, <2>1, <3>2 DEF IInv, OutOK
    <3> QED
      BY <3>1, <3>2
  <2>2. ASSUME NEW s \in Conns, Sole(s)
        PROVE  LET f == heard[s].from IN
               /\ pc'[s] = "read" => out'[f] = << >>
               /\ out'[f] # << >> => Says(heard[s].says, job[s].state, out'[f])
               /\ job[s].state = "running" /\ out'[f] = << >> => net[f] = "reset"
    <3>1. CASE heard[s].from = b
      <4>1. s = c /\ b = a /\ b # NoConn
        BY <1>4, <2>2, <3>1, SoleReader DEF a, Sole
      <4>2. out[b] = << >>
        BY <2>2, <4>1 DEF IInv, OutOK, a
      <4>3. out'[b] = << >> \/ out'[b] = << <<code>> >>
        BY <1>5, <4>1, <4>2, Appended
      <4>4. NoJob.state # "running"
        BY DEF NoJob
      <4>5. Says(heard[c].says, NoJob.state, << <<code>> >>)
        BY DEF Says
      <4>6. pc'[c] # "read"
        BY <1>1
      <4> QED
        BY <1>4, <3>1, <4>1, <4>3, <4>4, <4>5, <4>6
    <3>2. CASE heard[s].from # b
      <4>1. heard[s].from \in Conns
        BY <2>2 DEF IInv, HeardOK, Sole
      <4>2. out'[heard[s].from] = out[heard[s].from] /\ (pc'[s] = "read" => pc[s] = "read")
        BY <1>5, <1>11, <3>2, <4>1
      <4> QED
        BY <2>2, <4>2 DEF IInv, OutOK
    <3> QED
      BY <3>1, <3>2
  <2>3. \A s \in Conns : Sole(s)' <=> Sole(s)
    BY DEF Sole
  <2> QED
    BY <2>1, <2>2, <2>3 DEF OutOK
<1>17. Answered'
  <2> SUFFICES ASSUME NEW d \in Conns
               PROVE  /\ pc'[d] \notin Early /\ table[fd[d]] # d =>
                            out'[d] # << >> \/ net[d] # "open" \/ d \in hit
                      /\ pc'[d] \in Handled /\ table[fd[d]] # NoConn =>
                            out'[table[fd[d]]] # << >> \/ net[table[fd[d]]] = "reset"
                      /\ pc'[d] = "written" /\ table[fd[d]] = d =>
                            out'[d] # << >> \/ net[d] = "reset"
                      /\ pc'[d] = "failed" /\ table[fd[d]] = d => net[d] # "open"
    BY DEF Answered
  <2>1. pc'[d] \notin Early /\ table[fd[d]] # d => out'[d] # << >> \/ net[d] # "open" \/ d \in hit
    BY <1>2, <1>5, <1>9 DEF IInv, Answered
  <2>2. CASE d = c
    BY <1>1, <1>4, <1>5, <2>1, <2>2
  <2>3. CASE d # c
    BY <1>1, <1>2, <1>5, <2>1, <2>3 DEF IInv, Answered
  <2> QED
    BY <2>2, <2>3
<1>18. CutOff'
  <2>1. ASSUME NEW d \in Conns, <<"200">> \in ToSet(out'[d]), d # b \/ b = NoConn \/ code # "200"
        PROVE  <<"200">> \in ToSet(out[d])
    <3>1. CASE code # "200"
      <4>1. <<code>> # <<"200">>
        BY <3>1
      <4> QED
        BY <1>5, <2>1, <4>1
    <3>2. CASE d # b
      BY <1>5, <2>1, <3>2
    <3>3. CASE b = NoConn
      BY <1>5, <2>1, <3>3
    <3> QED
      BY <2>1, <3>1, <3>2, <3>3
  <2>2. NeverCutOff'
    <3> SUFFICES ASSUME NEW d \in hit PROVE <<"200">> \notin ToSet(out'[d])
      BY DEF NeverCutOff
    <3>1. d \in Conns /\ (d # b \/ b = NoConn)
      BY <1>6 DEF IInv, TypeOK
    <3> QED
      BY <2>1, <3>1 DEF IInv, CutOff, NeverCutOff
  <2>3. ASSUME NEW d \in Conns, <<"200">> \in ToSet(out'[d]), pc'[d] \notin Early, table[fd[d]] = d
        PROVE  \E s \in Conns : pc'[s] \in Handled /\ fd[s] = fd[d]
    <3>1. <<"200">> \notin ToSet(out[d])
      BY <1>2, <1>9, <2>3 DEF IInv, CutOff
    <3>2. d = b /\ b # NoConn /\ code = "200"
      BY <2>1, <2>3, <3>1
    <3> QED
      BY <1>1, <1>6, <3>2 DEF Handled
  <2> QED
    BY <2>2, <2>3 DEF CutOff
<1> QED
  BY <1>7, <1>8, <1>10, <1>12, <1>13, <1>14, <1>15, <1>16, <1>17, <1>18 DEF IInv

LEMMA RefuseKeeps == ASSUME IInv, NEW c \in Conns, Refuse(c) PROVE IInv'
BY StatusKeeps DEF Refuse

LEMMA WelcomeKeeps == ASSUME IInv, NEW c \in Conns, Welcome(c) PROVE IInv'
BY StatusKeeps DEF Welcome

LEMMA DownKeeps == ASSUME IInv, Down, acceptor # "rearm" PROVE IInv'
<1> USE DEF Down, client, child
<1>1. /\ table' \in [Fds -> Conns \cup {NoConn}] /\ \A n \in Fds : table'[n] = NoConn
      /\ up' = FALSE
  OBVIOUS
<1>2. TypeOK'
  <2>1. Children' = Children
    BY DEF Children, Running
  <2> QED
    BY <1>1, <2>1 DEF IInv, TypeOK
<1>3. \A d \in Conns : pc[d] \notin Early => table'[fd[d]] = NoConn /\ d # NoConn
  BY <1>1 DEF IInv, TableOK
<1>4. TableOK'
  <2>1. \A d \in hit : d \in Conns /\ pc[d] \notin Early
    BY DEF IInv, TypeOK, TableOK
  <2> QED
    BY <1>1, <1>3, <2>1 DEF IInv, TableOK
<1>5. Shape' /\ QueueOK' /\ AcceptorOK' /\ HeardOK' /\ JobOK'
  BY DEF IInv, Shape, QueueOK, AcceptorOK, HeardOK, JobOK
<1>6. OrderOK'
  BY DEF IInv, OrderOK, Backlog
<1>7. Steady' /\ OutOK'
  BY <1>1 DEF IInv, Steady, OutOK, Sole
<1>8. Answered'
  BY <1>1, <1>3 DEF Answered, Early, Handled
<1>9. CutOff'
  BY <1>1 DEF IInv, CutOff, NeverCutOff
<1> QED
  BY <1>2, <1>4, <1>5, <1>6, <1>7, <1>8, <1>9 DEF IInv

LEMMA ThrowKeeps == ASSUME IInv, NEW c \in Conns, Throw(c) PROVE IInv'
BY DownKeeps DEF Throw, Turn, AtRest

LEMMA EndpointsKeeps == ASSUME IInv, NEW c \in Conns, Endpoints(c) PROVE IInv'
<1>0. acceptor # "rearm" /\ pc[c] = "status"
  BY DEF IInv, AcceptorOK, Endpoints, Handled
<1>1. CASE Down
  BY <1>0, <1>1, DownKeeps
<1>2. CASE /\ Behind(c) # NoConn /\ pc' = [pc EXCEPT ![c] = "fork"]
           /\ UNCHANGED <<up, acceptor, queue, client, got, table, fd, heard, child, out, hit>>
  <2> USE DEF client, child
  <2>1. /\ pc \in [Conns -> {"away", "queued", "waiting", "over"} \cup Due \cup Handled]
        /\ pc' \in [Conns -> {"away", "queued", "waiting", "over"} \cup Due \cup Handled]
        /\ pc'[c] = "fork" /\ \A d \in Conns : d # c => pc'[d] = pc[d]
    BY <1>2 DEF IInv, TypeOK, Handled
  <2>2. \A d \in Conns : pc'[d] = pc[d] \/ (d = c /\ pc[d] = "status" /\ pc'[d] = "fork")
    BY <1>0, <2>1
  <2>3. TypeOK'
    <3>1. Children' = Children
      BY <1>2 DEF Children, Running
    <3> QED
      BY <1>2, <2>1, <3>1 DEF IInv, TypeOK
  <2>4. Shape' /\ QueueOK' /\ TableOK' /\ AcceptorOK'
    BY <1>2, <2>2 DEF IInv, Shape, QueueOK, TableOK, AcceptorOK, Early, Due, Handled
  <2>5. OrderOK'
    <3>1. Backlog' = Backlog
      BY <2>2 DEF Backlog
    <3>2. \A d \in Conns : /\ pc'[d] = "read" <=> pc[d] = "read"
                           /\ pc'[d] = "accepted" <=> pc[d] = "accepted"
      BY <2>2
    <3> QED
      BY <1>2, <3>1, <3>2 DEF IInv, OrderOK
  <2>6. Steady'
    <3> SUFFICES ASSUME NEW d \in Conns, pc'[d] \in Reading
                 PROVE  LET a == heard[d].from IN
                      /\ a \in Conns
                      /\ up => table[fd[d]] = a \/ (table[fd[d]] = NoConn /\ pc'[d] # "fork" /\ Lost(d, a))
                      /\ pc'[d] = "read" /\ (\E x : Before(queue, x, d)) => a = d
                      /\ pc'[d] # "read" => heard[d].says.result = "accepted"
      BY <1>2 DEF Steady, Lost
    <3>1. CASE pc'[d] = pc[d]
      BY <3>1 DEF IInv, Steady
    <3>2. CASE d = c /\ pc[d] = "status" /\ pc'[d] = "fork"
      BY <1>2, <3>2 DEF IInv, Steady, Reading, Behind
    <3> QED
      BY <2>2, <3>1, <3>2
  <2>7. HeardOK' /\ JobOK'
    BY <1>2, <2>2 DEF IInv, HeardOK, JobOK, Early, Reading
  <2>8. OutOK'
    <3>1. \A s \in Conns : pc'[s] = "read" => pc[s] = "read"
      BY <2>2
    <3> QED
      BY <1>2, <3>1 DEF IInv, OutOK, Sole
  <2>9. Answered' /\ CutOff'
    BY <1>2, <2>2 DEF IInv, Answered, CutOff, NeverCutOff, Early, Handled
  <2> QED
    BY <2>3, <2>4, <2>5, <2>6, <2>7, <2>8, <2>9 DEF IInv
<1> QED
  BY <1>1, <1>2 DEF Endpoints

-----------------------------------------------------------------------------
(* The fork: the child has the connection, the parent closes its number.    *)
LEMMA ForkKeeps == ASSUME IInv, NEW c \in Conns, Fork(c) PROVE IInv'
<1> DEFINE a == heard[c].from
<1>1. /\ up /\ pc[c] = "fork" /\ Cardinality(Children) < ProcLimit
      /\ job' = [job EXCEPT ![c] = CgiEnv(c)]
      /\ holds' = [holds EXCEPT ![c] = {table[n] : n \in Fds} \ {NoConn}]
      /\ pc' = [pc EXCEPT ![c] = "written"] /\ table' = [table EXCEPT ![fd[c]] = NoConn]
      /\ UNCHANGED <<up, acceptor, queue, net, asked, sent, got, fd, heard, out, hit>>
  BY DEF Fork, Closed, client
<1>2. /\ a \in Conns /\ table[fd[c]] = a /\ fd[c] \in Fds /\ job[c] = NoJob /\ a # NoConn
      /\ heard[c].says.result = "accepted" /\ acceptor # "rearm"
      /\ out[a] # << >> \/ net[a] = "reset"
      /\ \A d \in Conns : pc[d] \in Handled => d = c
  <2>1. a \in Conns /\ table[fd[c]] = a /\ heard[c].says.result = "accepted"
    BY <1>1 DEF IInv, Steady, Reading
  <2>2. fd[c] \in Fds /\ job[c] = NoJob
    BY <1>1 DEF IInv, TableOK, JobOK, Early
  <2>3. acceptor # "rearm" /\ \A d \in Conns : pc[d] \in Handled => d = c
    BY <1>1 DEF IInv, AcceptorOK, Handled
  <2>4. a # NoConn
    BY <2>1
  <2>5. out[a] # << >> \/ net[a] = "reset"
    BY <1>1, <2>1, <2>4 DEF IInv, Answered, Handled
  <2> QED
    BY <2>1, <2>2, <2>3, <2>4, <2>5
<1>3. /\ pc \in [Conns -> {"away", "queued", "waiting", "over"} \cup Due \cup Handled]
      /\ pc' \in [Conns -> {"away", "queued", "waiting", "over"} \cup Due \cup Handled]
      /\ pc'[c] = "written" /\ \A d \in Conns : d # c => pc'[d] = pc[d] /\ pc[d] \notin Handled
  BY <1>1, <1>2 DEF IInv, TypeOK, Due
<1>4. /\ table' \in [Fds -> Conns \cup {NoConn}] /\ table'[fd[c]] = NoConn
      /\ \A n \in Fds : n # fd[c] => table'[n] = table[n]
  BY <1>1, <1>2 DEF IInv, TypeOK
<1>5. /\ DOMAIN job' = Conns /\ \A d \in Conns : d # c => job'[d] = job[d]
      /\ DOMAIN job'[c] = {"state", "to", "cgi", "query"}
      /\ job'[c].state = "running" /\ job'[c].to = a
      /\ job'[c].cgi = heard[c].says.cgi /\ job'[c].query = heard[c].says.query
      /\ job'[c] # NoJob
  <2>1. job'[c] = CgiEnv(c) /\ DOMAIN job' = Conns /\ \A d \in Conns : d # c => job'[d] = job[d]
    BY <1>1 DEF IInv, Shape
  <2>2. /\ DOMAIN CgiEnv(c) = {"state", "to", "cgi", "query"}
        /\ CgiEnv(c).state = "running" /\ CgiEnv(c).to = a
        /\ CgiEnv(c).cgi = heard[c].says.cgi /\ CgiEnv(c).query = heard[c].says.query
    BY <1>2 DEF CgiEnv, Behind
  <2>3. NoJob.state = "none"
    BY DEF NoJob
  <2> QED
    BY <2>1, <2>2, <2>3
<1>6. c \notin Children /\ Children' = Children \cup {c}
  <2>1. ~Running(c) /\ Running(c)' /\ \A d \in Conns : d # c => (Running(d)' <=> Running(d))
    BY <1>2, <1>5 DEF Running, NoJob
  <2> QED
    BY <2>1 DEF Children
<1>7. TypeOK'
  <2>1. IsFiniteSet(Children) /\ Cardinality(Children) \in Nat
    <3>1. Children \subseteq Conns
      BY DEF Children
    <3> QED
      BY <3>1, FS_Subset, FS_CardinalityType
  <2>2. Cardinality(Children') = Cardinality(Children) + 1
    BY <1>6, <2>1, FS_AddElement
  <2>3. Cardinality(Children') <= ProcLimit
    BY <1>1, <2>1, <2>2
  <2>4. holds' \in [Conns -> SUBSET Conns]
    <3>1. {table[n] : n \in Fds} \ {NoConn} \subseteq Conns
      BY DEF IInv, TypeOK
    <3> QED
      BY <1>1, <3>1 DEF IInv, TypeOK
  <2>5. \A d \in Conns : job'[d].state \in {"none", "running", "ended"}
    BY <1>5 DEF IInv, TypeOK
  <2> QED
    BY <1>1, <1>3, <1>4, <2>3, <2>4, <2>5 DEF IInv, TypeOK
<1>8. \A d \in Conns : /\ pc'[d] \in Due \cup Handled <=> pc[d] \in Due \cup Handled
                       /\ pc'[d] \in Early <=> pc[d] \in Early
                       /\ pc'[d] \in {"accepted", "read", "queued"} => pc'[d] = pc[d] /\ d # c
                       /\ pc[d] \in {"accepted", "read", "queued"} => pc'[d] = pc[d] /\ d # c
                       /\ pc'[d] \notin Handled
  BY <1>1, <1>3 DEF Due, Handled, Early
<1>9. Shape' /\ QueueOK'
  BY <1>1, <1>5, <1>8 DEF IInv, Shape, QueueOK
<1>10. TableOK'
  <2>1. \A n \in Fds : table'[n] # NoConn => table'[n] = table[n]
    BY <1>4
  <2>2. \A d \in hit : d \in Conns /\ fd[d] \in Fds /\ d # NoConn
    BY DEF IInv, TypeOK, TableOK
  <2> QED
    BY <1>1, <1>4, <1>8, <2>1, <2>2 DEF IInv, TableOK
<1>11. AcceptorOK'
  BY <1>1, <1>8 DEF IInv, AcceptorOK
<1>12. OrderOK'
  <2>1. Backlog' = Backlog
    BY <1>8 DEF Backlog
  <2> QED
    BY <1>1, <1>2, <1>8, <2>1 DEF IInv, OrderOK
<1>13. Steady'
  <2> SUFFICES ASSUME NEW d \in Conns, pc'[d] \in Reading
               PROVE  LET f == heard[d].from IN
                      /\ f \in Conns
                      /\ table'[fd[d]] = f \/ (table'[fd[d]] = NoConn /\ pc'[d] # "fork" /\ Lost(d, f)')
                      /\ pc'[d] = "read" /\ (\E x : Before(queue, x, d)) => f = d
                      /\ pc'[d] # "read" => heard[d].says.result = "accepted"
    <3> HIDE DEF Lost
    <3> QED
      BY <1>1, Zenon DEF Steady
  <2> DEFINE f == heard[d].from
  <2>1. pc'[d] = "read" /\ pc[d] = "read" /\ d # c
    BY <1>3 DEF Reading, Handled
  <2>2. /\ f \in Conns /\ (table[fd[d]] = f \/ (table[fd[d]] = NoConn /\ Lost(d, f)))
        /\ (\E x : Before(queue, x, d)) => f = d
    BY <1>1, <2>1 DEF IInv, Steady, Reading
  <2>3. fd[d] \in Fds
    BY <2>1 DEF IInv, TableOK, Early
  <2>4. CASE fd[d] = fd[c]
    <3>1. table[fd[d]] = f /\ f = a /\ table'[fd[d]] = NoConn
      BY <1>2, <1>4, <2>2, <2>4
    <3>2. c # d /\ job'[c].to = f
      BY <1>5, <2>1, <3>1
    <3>3. Lost(d, f)'
      BY <1>1, <3>2 DEF Lost
    <3> QED
      BY <2>1, <2>2, <3>1, <3>3
  <2>5. CASE fd[d] # fd[c]
    <3>1. table'[fd[d]] = table[fd[d]]
      BY <1>4, <2>3, <2>5
    <3>2. Lost(d, f) => Lost(d, f)'
      <4>1. NoJob.to = NoConn
        BY DEF NoJob
      <4>2. \A e \in Conns : job[e].to = f => job'[e].to = f
        BY <1>2, <1>5, <2>2, <4>1
      <4> QED
        BY <1>1, <4>2 DEF Lost
    <3> QED
      BY <2>1, <2>2, <3>1, <3>2
  <2> QED
    BY <2>4, <2>5
<1>14. HeardOK'
  <2>1. \A d \in Conns : /\ pc'[d] = "away" <=> pc[d] = "away"
                         /\ pc'[d] \in Reading => pc[d] \in Reading
                         /\ pc[d] \in Reading \cup {"written", "over"} => pc'[d] \in Reading \cup {"written", "over"}
    BY <1>1, <1>3 DEF Reading
  <2> QED
    BY <1>1, <1>8, <2>1 DEF IInv, HeardOK
<1>15. JobOK'
  <2> SUFFICES ASSUME NEW d \in Conns, job'[d] # NoJob
               PROVE  /\ DOMAIN job'[d] = {"state", "to", "cgi", "query"}
                      /\ job'[d].state \in {"running", "ended"} /\ pc'[d] \in {"written", "over"}
                      /\ job'[d].to \in Conns /\ job'[d].to = heard[d].from
                      /\ heard[d].says.result = "accepted"
                      /\ job'[d].cgi = heard[d].says.cgi /\ job'[d].query = heard[d].says.query
    BY <1>1 DEF JobOK
  <2>1. CASE d = c
    BY <1>2, <1>3, <1>5, <2>1
  <2>2. CASE d # c
    BY <1>3, <1>5, <2>2 DEF IInv, JobOK
  <2> QED
    BY <2>1, <2>2
<1>16. OutOK'
  <2>1. ASSUME NEW s \in Conns, Sole(s)
        PROVE  LET f == heard[s].from IN
               /\ pc'[s] = "read" => out[f] = << >>
               /\ out[f] # << >> => Says(heard[s].says, job'[s].state, out[f])
               /\ job'[s].state = "running" /\ out[f] = << >> => net[f] = "reset"
    <3>1. CASE s = c
      <4>1. out[a] # << >> => Says(heard[c].says, NoJob.state, out[a])
        BY <1>2, <2>1, <3>1 DEF IInv, OutOK
      <4>2. out[a] # << >> => Says(heard[c].says, "running", out[a])
        BY <4>1 DEF Says, NoJob
      <4> QED
        BY <1>2, <1>3, <1>5, <3>1, <4>2
    <3>2. CASE s # c
      BY <1>5, <1>8, <2>1, <3>2 DEF IInv, OutOK
    <3> QED
      BY <3>1, <3>2
  <2>2. \A s \in Conns : Sole(s)' <=> Sole(s)
    BY <1>1 DEF Sole
  <2>3. \A d \in Conns : out[d] # << >> => got[d] > 0
    BY DEF IInv, OutOK
  <2> QED
    BY <1>1, <2>1, <2>2, <2>3 DEF OutOK
<1>17. Answered'
  <2> SUFFICES ASSUME NEW d \in Conns
               PROVE  /\ pc'[d] \notin Early /\ table'[fd[d]] # d =>
                            out[d] # << >> \/ net[d] # "open" \/ d \in hit
                      /\ pc'[d] = "written" /\ table'[fd[d]] = d =>
                            out[d] # << >> \/ net[d] = "reset"
                      /\ pc'[d] = "failed" /\ table'[fd[d]] = d => net[d] # "open"
    BY <1>1, <1>8 DEF Answered
  <2>1. ASSUME pc[d] \notin Early PROVE fd[d] \in Fds
    BY <2>1 DEF IInv, TableOK
  <2>2. CASE pc[d] \in Early
    BY <1>8, <2>2 DEF Early
  <2>3. CASE pc[d] \notin Early /\ fd[d] = fd[c]
    <3>1. table'[fd[d]] = NoConn /\ d # NoConn
      BY <1>4, <2>3
    <3>2. table[fd[d]] = d => d = a
      BY <1>2, <2>3
    <3>3. out[d] # << >> \/ net[d] # "open" \/ d \in hit
      BY <1>1, <1>2, <2>3, <3>2 DEF IInv, Answered
    <3> QED
      BY <3>1, <3>3
  <2>4. CASE pc[d] \notin Early /\ fd[d] # fd[c]
    <3>1. table'[fd[d]] = table[fd[d]] /\ d # c /\ pc'[d] = pc[d]
      BY <1>3, <1>4, <2>1, <2>4
    <3> QED
      BY <1>1, <2>4, <3>1 DEF IInv, Answered
  <2> QED
    BY <2>2, <2>3, <2>4
<1>18. CutOff'
  <2>1. NeverCutOff'
    BY <1>1 DEF IInv, CutOff, NeverCutOff
  <2>2. ASSUME NEW b \in Conns, <<"200">> \in ToSet(out[b]), pc'[b] \notin Early, table'[fd[b]] = b
        PROVE  FALSE
    <3>1. pc[b] \notin Early /\ fd[b] \in Fds /\ b # NoConn
      BY <1>8, <2>2 DEF IInv, TableOK
    <3>2. fd[b] # fd[c] /\ table[fd[b]] = b
      BY <1>4, <2>2, <3>1
    <3>3. PICK s \in Conns : pc[s] \in Handled /\ fd[s] = fd[b]
      BY <1>1, <2>2, <3>1, <3>2 DEF IInv, CutOff
    <3> QED
      BY <1>2, <3>2, <3>3
  <2> QED
    BY <1>1, <2>1, <2>2 DEF CutOff
<1> QED
  BY <1>7, <1>9, <1>10, <1>11, <1>12, <1>13, <1>14, <1>15, <1>16, <1>17, <1>18 DEF IInv

(* A program writes its page behind the status.                             *)
LEMMA RunKeeps == ASSUME IInv, NEW c \in Conns, Run(c) PROVE IInv'
<1> DEFINE a == heard[c].from
           page == <<job[c].cgi, job[c].query>>
<1>1. /\ job[c].state = "running"
      /\ job' = [job EXCEPT ![c].state = "ended"] /\ holds' = [holds EXCEPT ![c] = {}]
      /\ IF job[c].cgi \in Programs THEN Write(job[c].to, page) ELSE UNCHANGED out
      /\ UNCHANGED <<up, acceptor, queue, pc, net, asked, sent, got, table, fd, heard, hit>>
  BY DEF Run, Running, client
<1>2. /\ job[c] # NoJob /\ DOMAIN job[c] = {"state", "to", "cgi", "query"}
      /\ pc[c] \in {"written", "over"} /\ a \in Conns /\ job[c].to = a
      /\ heard[c].says.result = "accepted"
      /\ job[c].cgi = heard[c].says.cgi /\ job[c].query = heard[c].says.query
  <2>1. job[c] # NoJob
    BY <1>1 DEF NoJob
  <2> QED
    BY <2>1 DEF IInv, JobOK
<1>3. /\ DOMAIN job' = Conns /\ \A d \in Conns : d # c => job'[d] = job[d]
      /\ DOMAIN job'[c] = {"state", "to", "cgi", "query"}
      /\ job'[c].state = "ended" /\ job'[c].to = job[c].to
      /\ job'[c].cgi = job[c].cgi /\ job'[c].query = job[c].query
  <2>1. /\ job'[c] = [job[c] EXCEPT !.state = "ended"] /\ DOMAIN job' = Conns
        /\ \A d \in Conns : d # c => job'[d] = job[d]
    BY <1>1 DEF IInv, Shape
  <2> QED
    BY <1>2, <2>1
<1>4. /\ DOMAIN out' = Conns /\ \A d \in Conns : d # a => out'[d] = out[d]
      /\ \A d \in Conns : \E S : out'[d] \in Seq(S)
      /\ \A d \in Conns : out[d] # << >> => out'[d] # << >>
      /\ out'[a] = out[a] \/ (net[a] # "reset" /\ out'[a] = Append(out[a], page))
      /\ \A d \in Conns : ToSet(out'[d]) \subseteq ToSet(out[d]) \cup {page}
  <2>1. CASE out' = out
    BY <2>1 DEF IInv, Shape
  <2>2. CASE Write(a, page)
    <3> HIDE DEF a, page
    <3> QED
      BY <1>2, <2>2, Writes DEF a
  <2> QED
    BY <1>1, <1>2, <2>1, <2>2
<1>5. TypeOK'
  <2>1. Children' \subseteq Children
    BY <1>3 DEF Children, Running
  <2>2. Cardinality(Children') <= ProcLimit
    <3>1. IsFiniteSet(Children)
      <4>1. Children \subseteq Conns
        BY DEF Children
      <4> QED
        BY <4>1, FS_Subset
    <3>2. Cardinality(Children') <= Cardinality(Children) /\ IsFiniteSet(Children')
      BY <2>1, <3>1, FS_Subset
    <3>3. Cardinality(Children') \in Nat /\ Cardinality(Children) \in Nat
      BY <3>1, <3>2, FS_CardinalityType
    <3> QED
      BY <3>2, <3>3 DEF IInv, TypeOK
  <2>3. \A d \in Conns : job'[d].state \in {"none", "running", "ended"}
    BY <1>3 DEF IInv, TypeOK
  <2> QED
    BY <1>1, <2>2, <2>3 DEF IInv, TypeOK
<1>6. Shape' /\ QueueOK' /\ TableOK' /\ AcceptorOK' /\ HeardOK'
  <2>1. Shape'
    BY <1>1, <1>3, <1>4 DEF IInv, Shape
  <2>2. QueueOK' /\ TableOK' /\ AcceptorOK'
    BY <1>1 DEF IInv, QueueOK, TableOK, AcceptorOK
  <2>3. HeardOK'
    BY <1>1 DEF IInv, HeardOK
  <2> QED
    BY <2>1, <2>2, <2>3
<1>7. OrderOK'
  BY <1>1 DEF IInv, OrderOK, Backlog
<1>8. Steady'
  <2>1. \A d, f \in Conns : Lost(d, f)' <=> Lost(d, f)
    BY <1>1, <1>3 DEF Lost
  <2> HIDE DEF Lost
  <2> QED
    BY <1>1, <2>1 DEF IInv, Steady
<1>9. JobOK'
  <2> SUFFICES ASSUME NEW d \in Conns, job'[d] # NoJob
               PROVE  /\ DOMAIN job'[d] = {"state", "to", "cgi", "query"}
                      /\ job'[d].state \in {"running", "ended"} /\ pc[d] \in {"written", "over"}
                      /\ job'[d].to \in Conns /\ job'[d].to = heard[d].from
                      /\ heard[d].says.result = "accepted"
                      /\ job'[d].cgi = heard[d].says.cgi /\ job'[d].query = heard[d].says.query
    BY <1>1 DEF JobOK
  <2>1. CASE d = c
    BY <1>2, <1>3, <2>1
  <2>2. CASE d # c
    BY <1>3, <2>2 DEF IInv, JobOK
  <2> QED
    BY <2>1, <2>2
<1>10. OutOK'
  <2>1. ASSUME NEW d \in Conns, out'[d] # << >> PROVE got[d] > 0
    <3>1. CASE d = a
      <4>1. /\ heard[c].after < heard[c].upto /\ heard[c].upto <= got[a]
            /\ heard[c].after \in Nat /\ heard[c].upto \in Nat /\ got[a] \in Nat
        BY <1>2 DEF IInv, HeardOK, TypeOK
      <4> QED
        BY <3>1, <4>1
    <3>2. CASE d # a
      BY <1>4, <2>1, <3>2 DEF IInv, OutOK
    <3> QED
      BY <3>1, <3>2
  <2>2. ASSUME NEW s \in Conns, Sole(s)
        PROVE  LET f == heard[s].from IN
               /\ pc[s] = "read" => out'[f] = << >>
               /\ out'[f] # << >> => Says(heard[s].says, job'[s].state, out'[f])
               /\ job'[s].state = "running" /\ out'[f] = << >> => net[f] = "reset"
    <3>1. CASE heard[s].from = a
      <4>1. s = c
        BY <2>2, <3>1, SoleReader
      <4>2. /\ out[a] # << >> => Says(heard[c].says, "running", out[a])
            /\ out[a] = << >> => net[a] = "reset"
        BY <1>1, <2>2, <4>1 DEF IInv, OutOK
      <4>3. out[a] # << >> => out[a] = << <<"200">> >>
        BY <1>2, <4>2 DEF Says
      <4>4. out'[a] = out[a] \/ out'[a] = << <<"200">>, page >>
        <5> HIDE DEF page
        <5>1. \A x : Append(<< <<"200">> >>, x) = << <<"200">>, x >>
          BY Appended, Zenon
        <5> QED
          BY <1>4, <4>2, <4>3, <5>1
      <4>5. page = <<heard[c].says.cgi, heard[c].says.query>>
        BY <1>2
      <4> HIDE DEF page
      <4>6. out'[a] # << >> => Says(heard[c].says, "ended", out'[a])
        BY <1>2, <4>3, <4>4, <4>5 DEF Says
      <4> QED
        BY <1>2, <1>3, <4>1, <4>6
    <3>2. CASE heard[s].from # a
      <4>1. heard[s].from \in Conns
        BY <2>2 DEF IInv, HeardOK, Sole
      <4>2. out'[heard[s].from] = out[heard[s].from] /\ s # c
        BY <1>4, <3>2, <4>1
      <4> QED
        BY <1>3, <2>2, <4>2 DEF IInv, OutOK
    <3> QED
      BY <3>1, <3>2
  <2>3. \A s \in Conns : Sole(s)' <=> Sole(s)
    BY <1>1 DEF Sole
  <2> QED
    BY <1>1, <2>1, <2>2, <2>3 DEF OutOK
<1>11. Answered'
  <2>1. \A d \in Conns : pc[d] \in Handled /\ table[fd[d]] # NoConn => table[fd[d]] \in Conns
    BY DEF IInv, TypeOK, TableOK, Handled, Early
  <2> QED
    BY <1>1, <1>4, <2>1 DEF IInv, Answered
<1>12. CutOff'
  <2>1. page # <<"200">>
    <3>1. Len(page) = 2 /\ Len(<<"200">>) = 1
      OBVIOUS
    <3> QED
      BY <3>1
  <2>2. \A d \in Conns : <<"200">> \in ToSet(out'[d]) => <<"200">> \in ToSet(out[d])
    BY <1>4, <2>1
  <2>3. hit \subseteq Conns
    BY DEF IInv, TypeOK
  <2> QED
    BY <1>1, <2>2, <2>3 DEF IInv, CutOff, NeverCutOff
<1> QED
  BY <1>5, <1>6, <1>7, <1>8, <1>9, <1>10, <1>11, <1>12 DEF IInv

-----------------------------------------------------------------------------
LEMMA NextInv == IInv /\ [Next]_vars => IInv'
<1> SUFFICES ASSUME IInv, [Next]_vars PROVE IInv'
  OBVIOUS
<1>1. CASE UNCHANGED vars
  <2>1. UNCHANGED <<up, acceptor, queue, pc, net, asked, sent, got, table, fd, heard, job, holds, out, hit>>
    BY <1>1 DEF vars, client, child
  <2>2. TypeOK' /\ Shape' /\ QueueOK' /\ TableOK' /\ AcceptorOK'
    BY <2>1 DEF IInv, TypeOK, Shape, QueueOK, TableOK, AcceptorOK, Children, Running
  <2>3. OrderOK' /\ Steady' /\ HeardOK' /\ JobOK'
    BY <2>1 DEF IInv, OrderOK, Backlog, Steady, Lost, HeardOK, JobOK
  <2>4. OutOK' /\ Answered' /\ CutOff'
    BY <2>1 DEF IInv, OutOK, Sole, Answered, CutOff, NeverCutOff
  <2> QED
    BY <2>2, <2>3, <2>4 DEF IInv
<1>2. CASE PollAcceptor
  BY <1>2, PollAcceptorKeeps
<1>3. CASE Acceptor
  BY <1>3, AcceptedSinceKeeps, ArmKeeps, AcceptReadyKeeps, AcceptNextKeeps DEF Acceptor
<1>4. ASSUME NEW c \in Conns, Client(c) PROVE IInv'
  BY <1>4, DialKeeps, SendKeeps, LeaveKeeps DEF Client
<1>5. ASSUME NEW c \in Conns, Handler(c) PROVE IInv'
  BY <1>5, AcceptKeeps, ReadKeeps, RefuseKeeps, ThrowKeeps, WelcomeKeeps, EndpointsKeeps,
     ForkKeeps, WrittenKeeps DEF Handler, Reply
<1>6. ASSUME NEW c \in Conns, Poll(c) \/ Run(c) PROVE IInv'
  BY <1>6, PollKeeps, RunKeeps
<1> QED
  BY <1>1, <1>2, <1>3, <1>4, <1>5, <1>6 DEF Next

LEMMA AlwaysInv == Spec => []IInv
<1> QED
  BY InitInv, NextInv, PTL DEF Spec

(* The variables keep their types, and there are never more children than   *)
(* the process limit allows.                                                *)
THEOREM TypeCorrect == Spec => []TypeOK
<1>1. IInv => TypeOK
  BY DEF IInv
<1> QED
  BY <1>1, AlwaysInv, PTL

(* Whatever connections there are and in whatever order their descriptors   *)
(* become ready, the number that a session closes a second time is never    *)
(* that of a client which has been told 200.                                *)
THEOREM AlwaysNeverCutOff == Spec => []NeverCutOff
<1>1. IInv => NeverCutOff
  BY DEF IInv, CutOff
<1> QED
  BY <1>1, AlwaysInv, PTL

(* Nobody's connection ends without an answer but for the reasons the       *)
(* property names.                                                          *)
THEOREM AlwaysAnsweredFirst == Spec => []AnsweredFirst
<1>1. IInv => AnsweredFirst
  <2> SUFFICES ASSUME IInv, NEW c \in Conns, Ended(c)
               PROVE  out[c] # << >> \/ net[c] # "open" \/ c \in hit \/ ~up
    BY DEF AnsweredFirst
  <2>1. pc[c] \notin Early /\ fd[c] \in Fds
    BY DEF IInv, TableOK, Ended, Early
  <2>2. table[fd[c]] # c
    BY <2>1 DEF Ended
  <2> QED
    BY <2>1, <2>2 DEF IInv, Answered
<1> QED
  BY <1>1, AlwaysInv, PTL

-----------------------------------------------------------------------------
(* What the parser is given: the words that have arrived, then others.       *)
LEMMA Heard ==
  ASSUME NEW q \in Requests, NEW n \in 1 .. Len(q), NEW r \in Verdicts[q][0][n]
  PROVE  \E ws \in Seq(Words) : /\ r = ParseHttpHeader(ws) /\ Len(ws) >= n
                                /\ \A i \in 1 .. n : ws[i] = q[i]
<1> DEFINE first == SubSeq(q, 1, n)
<1>1. q \in Seq(Words) /\ Len(q) \in Nat /\ n \in Nat /\ n <= Len(q)
  BY HttpServerAssumption
<1>2. first \in Seq(Words) /\ Len(first) = n
  BY <1>1
<1>3. \A i \in 1 .. n : first[i] = q[i]
  BY <1>1
<1>4. PICK rest \in Beyond(n) : r = ParseHttpHeader(first \o rest)
  <2>1. 0 \in 0 .. Len(q) /\ n \in 0 + 1 .. Len(q) /\ n - 0 = n /\ 0 + 1 = 1
    BY <1>1
  <2> QED
    BY <1>1, <2>1 DEF Verdicts
<1> HIDE DEF first
<1>5. rest \in Seq(Words)
  <2>1. CASE rest = << >>
    BY <2>1
  <2>2. ASSUME NEW b \in Requests, rest = SubSeq(b, n + 1, Len(b)) PROVE rest \in Seq(Words)
    <3>1. b \in Seq(Words) /\ Len(b) \in Nat
      BY HttpServerAssumption
    <3>2. \A i \in n + 1 .. Len(b) : b[i] \in Words
      BY <1>1, <3>1
    <3>3. SubSeq(b, n + 1, Len(b)) \in Seq(Words)
      BY <1>1, <3>1, <3>2, SubSeqProperties
    <3> QED
      BY <2>2, <3>3
  <2> QED
    BY <2>1, <2>2 DEF Beyond
<1> DEFINE ws == first \o rest
<1>6. Len(rest) \in Nat
  BY <1>5
<1>7. ws \in Seq(Words) /\ Len(ws) = n + Len(rest) /\ \A i \in 1 .. n : ws[i] = first[i]
  <2>1. \A i \in 1 .. n : i \in 1 .. n + Len(rest) /\ i <= n
    BY <1>1, <1>6
  <2> QED
    BY <1>2, <1>5, <2>1, ConcatProperties
<1>8. r = ParseHttpHeader(ws)
  BY <1>4
<1> HIDE DEF ws
<1>9. Len(ws) >= n
  BY <1>1, <1>6, <1>7
<1> QED
  BY <1>3, <1>7, <1>8, <1>9

(* What the parser may say of a request that arrived whole: what lies beyond *)
(* it in data_ makes no difference.                                          *)
LEMMA WholeRequest ==
  ASSUME NEW q \in Requests, Len(q) >= 5, NEW r \in Verdicts[q][0][Len(q)]
  PROVE  /\ r.result = "refused" <=> ~WellFormed(q)
         /\ r.result = "accepted" => Page(q[2].parts, <<r.cgi, r.query>>)
<1>1. Len(q) \in Nat /\ Len(q) \in 1 .. Len(q)
  BY HttpServerAssumption
<1>2. PICK ws \in Seq(Words) : /\ r = ParseHttpHeader(ws) /\ Len(ws) >= Len(q)
                               /\ \A i \in 1 .. Len(q) : ws[i] = q[i]
  BY <1>1, Heard
<1>3. Len(ws) >= 5 /\ Len(ws) \in Nat
  BY <1>1, <1>2
<1>4. ws[1] = q[1] /\ ws[2] = q[2] /\ ws[3] = q[3] /\ ws[4] = q[4] /\ ws[5] = q[5]
  BY <1>1, <1>2
<1>5. WellFormed(ws) <=> WellFormed(q)
  BY <1>1, <1>3, <1>4 DEF WellFormed
<1> QED
  BY <1>2, <1>3, <1>4, <1>5, ParserAccepts

(* When the parser throws, the uri of the request holds no program, or has   *)
(* not arrived.                                                              *)
LEMMA ThrowsOnNoProgram ==
  ASSUME NEW q \in Requests, NEW n \in 1 .. Len(q), NEW r \in Verdicts[q][0][n],
         r.result = "exception"
  PROVE  n = 1 \/ \A p \in ToSet(q[2].parts) : p = ""
<1>0. q \in Seq(Words) /\ Len(q) \in Nat
  BY HttpServerAssumption
<1>1. PICK ws \in Seq(Words) : /\ r = ParseHttpHeader(ws) /\ Len(ws) >= n
                               /\ \A i \in 1 .. n : ws[i] = q[i]
  BY Heard
<1>2. Len(ws) >= 5 /\ \A i \in 1 .. Len(ws[2].parts) : ws[2].parts[i] = ""
  BY <1>1, ParserThrows
<1>3. CASE n # 1
  <2>1. 2 \in 1 .. n /\ 2 \in 1 .. Len(q)
    BY <1>0, <1>3
  <2>2. ws[2] = q[2] /\ q[2] \in Words
    BY <1>0, <1>1, <2>1, ElementOfSeq
  <2> DEFINE parts == q[2].parts
  <2>3. parts \in Seq(STRING)
    BY <2>2 DEF Words
  <2>4. \A i \in 1 .. Len(parts) : parts[i] = ""
    BY <1>2, <2>2, Zenon
  <2> HIDE DEF parts
  <2>5. ToSet(parts) = {parts[i] : i \in 1 .. Len(parts)}
    <3>1. DOMAIN parts = 1 .. Len(parts)
      BY <2>3
    <3> QED
      BY <3>1 DEF ToSet
  <2>6. \A p \in ToSet(parts) : p = ""
    BY <2>4, <2>5, Zenon
  <2> QED
    BY <2>6, Zenon DEF parts
<1> QED
  BY <1>3

(* A client whose request was read in one piece gets its own answer and     *)
(* nothing else, whatever requests there are, whoever is behind a number and *)
(* whatever lies in data_.                                                  *)
THEOREM AlwaysOwnPage == Spec => []OwnPage
<1>1. IInv => OwnPage
  <2> SUFFICES ASSUME IInv, NEW c \in Conns, out[c] # << >>
               PROVE  /\ got[c] > 0
                      /\ Whole(c) =>
                           /\ out[c][1] \in {<<"200">>, <<"403">>} /\ Len(out[c]) <= 2
                           /\ Len(out[c]) = 2 => out[c][1] = <<"200">>
                      /\ Whole(c) /\ Len(asked[c]) >= 5 =>
                           /\ out[c][1] = <<"200">> <=> WellFormed(asked[c])
                           /\ Len(out[c]) = 2 => Page(asked[c][2].parts, out[c][2])
    BY DEF OwnPage
  <2>1. got[c] > 0
    BY DEF IInv, OutOK
  <2>2. ASSUME Whole(c)
        PROVE  /\ out[c][1] \in {<<"200">>, <<"403">>} /\ Len(out[c]) <= 2
               /\ Len(out[c]) = 2 => out[c][1] = <<"200">>
               /\ Len(asked[c]) >= 5 =>
                    /\ out[c][1] = <<"200">> <=> WellFormed(asked[c])
                    /\ Len(out[c]) = 2 => Page(asked[c][2].parts, out[c][2])
    <3>1. PICK s \in Conns : heard[s].from = c /\ heard[s].after = 0 /\ heard[s].upto = Len(asked[c])
      BY <2>2 DEF Whole
    <3> DEFINE v == heard[s].says
    <3>2. /\ asked[c] \in Requests /\ v \in Verdicts[asked[c]][0][Len(asked[c])]
          /\ heard[s].upto <= got[c] /\ got[c] <= sent[c]
      BY <3>1 DEF IInv, HeardOK
    <3>3. sent[c] \in 0 .. Len(asked[c]) /\ Len(asked[c]) \in Nat /\ got[c] \in Nat
      BY <3>2 DEF IInv, TypeOK
    <3>4. Sole(s)
      BY <3>1, <3>2, <3>3 DEF Sole
    <3>5. Says(v, job[s].state, out[c])
      BY <3>1, <3>4 DEF IInv, OutOK
    <3>6. Len(asked[c]) >= 5 => /\ v.result = "refused" <=> ~WellFormed(asked[c])
                                /\ v.result = "accepted" => Page(asked[c][2].parts, <<v.cgi, v.query>>)
      BY <3>2, WholeRequest
    <3> HIDE DEF v
    <3>7. <<"200">> # <<"403">>
      OBVIOUS
    <3>8. CASE v.result = "refused" /\ out[c] = << <<"403">> >>
      <4>1. Len(out[c]) = 1 /\ out[c][1] = <<"403">> /\ 1 <= 2 /\ 1 # 2
        BY <3>8
      <4> QED
        BY <3>6, <3>7, <3>8, <4>1
    <3>9. CASE v.result = "accepted" /\ out[c] = << <<"200">> >>
      <4>1. Len(out[c]) = 1 /\ out[c][1] = <<"200">> /\ 1 <= 2 /\ 1 # 2
        BY <3>9
      <4> QED
        BY <3>6, <3>7, <3>9, <4>1
    <3>10. CASE v.result = "accepted" /\ out[c] = << <<"200">>, <<v.cgi, v.query>> >>
      <4>1. Len(out[c]) = 2 /\ out[c][1] = <<"200">> /\ out[c][2] = <<v.cgi, v.query>> /\ 2 <= 2
        BY <3>10
      <4> QED
        BY <3>6, <3>7, <3>10, <4>1
    <3> QED
      BY <3>5, <3>8, <3>9, <3>10 DEF Says
  <2> QED
    BY <2>1, <2>2
<1> QED
  BY <1>1, AlwaysInv, PTL

-----------------------------------------------------------------------------
\* The session that took the server down.
Fatal(c) ==
  LET b == heard[c].from IN
  /\ b # NoConn /\ pc[c] \in {"read", "status"}
  /\ \/ net[b] = "reset" \/ b \in hit
     \/ \E d \in Conns : d # c /\ job[d].to = b
     \/ pc[c] = "read" /\ (heard[c].after = 0 /\ heard[c].upto > 1 => NoProgram(b))

LEMMA NextSurvives == IInv /\ Survives /\ [Next]_vars => Survives'
<1> SUFFICES ASSUME IInv, Survives, [Next]_vars, ~up'
             PROVE  \E c \in Conns : Fatal(c)'
  BY Zenon DEF Survives, Fatal
<1>0. DOMAIN net = Conns /\ DOMAIN job = Conns /\ up \in BOOLEAN
  BY DEF IInv, TypeOK, Shape
\* Once it is down, the clients and the programs go on.
<1>1. CASE ~up
  <2>1. PICK c \in Conns : Fatal(c)
    BY <1>1 DEF Survives, Fatal
  <2>2. ASSUME UNCHANGED <<heard, pc, hit, asked>>,
               \A b \in Conns : net[b] = "reset" => net'[b] = "reset",
               \A d \in Conns : job'[d].to = job[d].to
        PROVE  Fatal(c)'
    <3>1. heard[c].from \in Conns
      BY <2>1 DEF Fatal, IInv, TypeOK
    <3> QED
      BY <2>1, <2>2, <3>1 DEF Fatal, NoProgram
  <2>3. CASE UNCHANGED vars
    BY <2>2, <2>3 DEF vars, client, child
  <2>4. ASSUME NEW d \in Conns, Dial(d) \/ Poll(d) \/ Handler(d) PROVE FALSE
    BY <1>1, <2>4 DEF Dial, Poll, Handler, Accept, Read, Reply, Refuse, Throw, Welcome, Endpoints,
                      Fork, Written, Turn, AtRest
  <2>5. ~PollAcceptor /\ ~Acceptor
    BY <1>1 DEF PollAcceptor, Acceptor, AcceptedSince, Arm, AcceptReady, AcceptNext, Turn, AtRest
  <2>6. ASSUME NEW d \in Conns, Send(d) PROVE Fatal(c)'
    BY <2>2, <2>6 DEF Send, child
  <2>7. ASSUME NEW d \in Conns, Leave(d) PROVE Fatal(c)'
    BY <1>0, <2>2, <2>7 DEF Leave, child
  <2>8. ASSUME NEW d \in Conns, Run(d) PROVE Fatal(c)'
    <3>1. /\ job' = [job EXCEPT ![d].state = "ended"] /\ job[d].state = "running"
          /\ UNCHANGED <<heard, pc, hit, net, asked>>
      BY <2>8 DEF Run, Running, client
    <3>2. DOMAIN job[d] = {"state", "to", "cgi", "query"}
      BY <3>1 DEF IInv, JobOK, NoJob
    <3>3. job'[d].to = job[d].to
      <4>1. job'[d] = [job[d] EXCEPT !.state = "ended"]
        BY <1>0, <3>1
      <4> QED
        BY <3>2, <4>1
    <3>4. \A e \in Conns : job'[e].to = job[e].to
      BY <1>0, <3>1, <3>3
    <3> QED
      BY <2>2, <3>1, <3>4
  <2> QED
    BY <2>1, <2>3, <2>4, <2>5, <2>6, <2>7, <2>8 DEF Next, Client
\* It goes down over a uri without a program, or over a client without a name.
<1>2. CASE up
  <2>1. PICK c \in Conns : Throw(c) \/ (Endpoints(c) /\ Down)
    BY <1>2 DEF Next, PollAcceptor, Acceptor, AcceptedSince, Arm, AcceptReady, AcceptNext, Client,
                Dial, Send, Leave, Poll, Handler, Accept, Read, Reply, Refuse, Welcome, Status,
                Endpoints, Fork, Written, Run, vars
  <2> DEFINE b == heard[c].from
  <2>2. UNCHANGED <<heard, pc, hit, net, job, asked>>
    BY <2>1 DEF Throw, Down, client, child
  <2>3. CASE Throw(c)
    <3>1. pc[c] = "read" /\ heard[c].says.result = "exception"
      BY <2>3 DEF Throw
    <3>2. /\ b \in Conns /\ b # NoConn /\ pc[b] # "away" /\ asked[b] \in Requests
          /\ heard[c].after \in Nat /\ heard[c].upto \in Nat /\ heard[c].after < heard[c].upto
          /\ heard[c].says \in Verdicts[asked[b]][heard[c].after][heard[c].upto]
          /\ heard[c].upto <= got[b] /\ got[b] <= sent[b]
      BY <3>1 DEF IInv, HeardOK, Reading
    <3>3. Len(asked[b]) \in Nat /\ sent[b] \in 0 .. Len(asked[b]) /\ got[b] \in Nat
      BY <3>2 DEF IInv, TypeOK
    <3>4. heard[c].after = 0 /\ heard[c].upto > 1 => NoProgram(b)
      <4> SUFFICES ASSUME heard[c].after = 0, heard[c].upto > 1 PROVE NoProgram(b)
        OBVIOUS
      <4>1. heard[c].upto \in 1 .. Len(asked[b]) /\ heard[c].upto # 1
        BY <3>2, <3>3
      <4>2. heard[c].says \in Verdicts[asked[b]][0][heard[c].upto]
        BY <3>2
      <4>3. \A p \in ToSet(asked[b][2].parts) : p = ""
        BY <3>1, <3>2, <4>1, <4>2, ThrowsOnNoProgram, Zenon
      <4> QED
        BY <4>3, Zenon DEF NoProgram
    <3>5. Fatal(c)
      BY <3>1, <3>2, <3>4 DEF Fatal
    <3> QED
      BY <2>2, <3>5, Zenon DEF Fatal, NoProgram
  <2>4. CASE Endpoints(c) /\ Down
    <3>1. pc[c] = "status"
      BY <2>4 DEF Endpoints
    <3>2. /\ b \in Conns /\ b # NoConn
          /\ Behind(c) = b \/ (Behind(c) = NoConn /\ Lost(c, b))
      BY <1>2, <3>1 DEF IInv, Steady, Reading, Behind
    <3>3. Behind(c) # NoConn => net[Behind(c)] = "reset"
      <4>1. DOMAIN pc = Conns
        BY DEF IInv, TypeOK
      <4>2. pc'[c] # "fork"
        BY <2>2, <3>1
      <4> QED
        BY <2>4, <4>1, <4>2 DEF Endpoints
    <3>4. Fatal(c)
      BY <3>1, <3>2, <3>3 DEF Fatal, Lost
    <3> QED
      BY <2>2, <3>4, Zenon DEF Fatal, NoProgram
  <2> QED
    BY <2>1, <2>3, <2>4
<1> QED
  BY <1>0, <1>1, <1>2

(* The server goes down only over a uri without a program, a client that has *)
(* been reset, or one whose number another session has closed, whatever      *)
(* requests there are and however they arrive.                               *)
THEOREM AlwaysSurvives == Spec => []Survives
<1>1. Init => Survives
  BY DEF Init, Survives
<1> QED
  BY <1>1, NextSurvives, AlwaysInv, PTL DEF Spec
=============================================================================

----------------------------- MODULE RwgTurnProof -----------------------------
(***************************************************************************)
(* Theorems about the lines and the environment variables of the chat      *)
(* server's clients, for any clients, number of lines, variables, values   *)
(* and environment of the server.                                          *)
(*                                                                         *)
(* The lines: OrderInv follows what each client has completed and was not  *)
(* executed, through its socket and through the one buffer of stdin, and   *)
(* needs no assumption.  OneInv is about clients that wait for the prompt  *)
(* (burst = 1): at most one line is on its way, and the buffer is empty    *)
(* outside the turn of its client.                                         *)
(*                                                                         *)
(* The environment: OwnEnv speaks of the time a line runs.  EnvInv adds    *)
(* what makes the next turn right: that env_map is what its client asked   *)
(* for, that every variable asked for counts as touched, and what the      *)
(* environment holds between two turns.                                    *)
(***************************************************************************)
EXTENDS RwgTurn, SequenceTheorems, FiniteSetTheorems, TLAPS

-----------------------------------------------------------------------------
(* The lines.                                                               *)

\* Lines of client c that have been executed, and that were executed for c.
Done(c)   == Cardinality({k \in 1 .. Len(ran) : Last(ran[k].line).from = c})
Served(c) == Cardinality({k \in 1 .. Len(ran) : ran[k].for = c})

\* The n-th line of client c is complete and has not been executed.
Ends(s, c, n) == \E i \in 1 .. Len(s) : s[i].ends /\ s[i].from = c /\ s[i].line = n
Waits(c, n)   == Ends(stdin, c, n) \/ Ends(sock[c], c, n)

\* In a buffer the lines of each client are in the order they were typed.
Ascending(s) ==
  \A i, j \in 1 .. Len(s) :
    s[i].ends /\ s[j].ends /\ s[i].from = s[j].from /\ i < j => s[i].line < s[j].line

\* What waits for client c is what it has completed and was not executed, in
\* order through stdin's buffer and its socket; whatever it sends at once.
Queued(c) ==
  /\ \A i \in 1 .. Len(sock[c]) : sock[c][i].from = c
  /\ Ascending(sock[c])
  /\ \A i \in 1 .. Len(stdin), j \in 1 .. Len(sock[c]) :
       stdin[i].ends /\ stdin[i].from = c /\ sock[c][j].ends => stdin[i].line < sock[c][j].line
  /\ Done(c) <= sent[c]
  /\ \A n \in Nat : Waits(c, n) <=> Done(c) < n /\ n <= sent[c]

OrderInv ==
  /\ Ascending(stdin) /\ \A c \in Clients : Queued(c)
  /\ \A k \in 1 .. Len(ran) : ran[k].line # <<>>
  /\ InOrder

\* A client that waits for its prompt has at most one line on its way, and
\* nothing of it is left in stdin's buffer after its turn.
Coming(s, c, rest) ==
  \A i \in 1 .. Len(s) :
    /\ s[i].from = c /\ s[i].line = Served(c) + 1
    /\ s[i].ends => i = Len(s) /\ rest = <<>> /\ sent[c] = Served(c) + 1

OneInv ==
  /\ pc # "fgets" => stdin = <<>>
  /\ Coming(stdin, turn, sock[turn])
  /\ \A c \in Clients :
       /\ Coming(sock[c], c, <<>>)
       /\ sent[c] \in {Served(c), Served(c) + 1}
       /\ half[c] => sent[c] = Served(c)
       /\ sent[c] = Served(c) /\ ~half[c] => sock[c] = <<>> /\ (turn = c => stdin = <<>>)
  /\ RedirectedLine

-----------------------------------------------------------------------------
(* A line ends at the first segment that ends one.                          *)
LEMMA FirstEnd ==
  ASSUME NEW s \in Seq(Segment), LineIn(s)
  PROVE  /\ LineEnd(s) \in 1 .. Len(s) /\ s[LineEnd(s)].ends
         /\ \A j \in 1 .. Len(s) : s[j].ends => LineEnd(s) <= j
<1> DEFINE I == {i \in 1 .. Len(s) : s[i].ends}
<1>1. I # {} /\ I \in SUBSET Nat
  BY DEF LineIn
<1>2. \E m \in I : \A k \in I : ~(k < m)
  <2>1. PICK m \in I : \A k \in I : <<k, m>> \notin OpToRel(<, Nat)
    BY <1>1, NatLessThanWellFounded, WFMin
  <2> QED
    BY <1>1, <2>1 DEF OpToRel
<1>3. \E m \in I : \A k \in I : m <= k
  BY <1>1, <1>2
<1>4. LineEnd(s) = Min(I)
  BY <1>1 DEF LineEnd, SelectInSeq
<1>5. Min(I) \in I /\ \A k \in I : Min(I) <= k
  BY <1>3 DEF Min
<1> QED
  BY <1>4, <1>5

(* Counting among the first n + 1 what was counted among the first n.       *)
LEMMA CountMore ==
  ASSUME NEW n \in Nat, NEW S \in SUBSET (1 .. n)
  PROVE  /\ Cardinality(S) \in Nat
         /\ Cardinality(S \cup {n + 1}) = Cardinality(S) + 1
<1>1. IsFiniteSet(S)
  <2>1. 1 \in Int /\ n \in Int
    OBVIOUS
  <2>2. IsFiniteSet(1 .. n)
    BY <2>1, FS_Interval
  <2> QED
    BY <2>2, FS_Subset
<1>2. n + 1 \notin S
  OBVIOUS
<1>3. Cardinality(S) \in Nat
  BY <1>1, FS_CardinalityType
<1>4. Cardinality(S \cup {n + 1}) = IF n + 1 \in S THEN Cardinality(S) ELSE Cardinality(S) + 1
  BY <1>1, FS_AddElement
<1> QED
  BY <1>2, <1>3, <1>4

(* One more line has been executed.                                         *)
LEMMA RunMore ==
  ASSUME TypeOK, NEW r, ran' = Append(ran, r)
  PROVE  /\ Len(ran') = Len(ran) + 1 /\ Len(ran) \in Nat
         /\ \A k \in 1 .. Len(ran) : ran'[k] = ran[k]
         /\ ran'[Len(ran) + 1] = r
<1>1. ran \in Seq([for : Clients, line : Seq(Segment)])
  BY DEF TypeOK
<1>2. r \in {r, ran[1]} /\ ran \in Seq([for : Clients, line : Seq(Segment)] \cup {r})
  BY <1>1, SeqMonotonic
<1> QED
  BY <1>2

(* What is counted is a number.                                             *)
LEMMA CountNat == ASSUME TypeOK, NEW c PROVE Done(c) \in Nat /\ Served(c) \in Nat
<1>1. Len(ran) \in Nat
  BY LenProperties DEF TypeOK
<1> QED
  BY <1>1, CountMore DEF Done, Served

(* A line executed counts for the client it came from and for the client   *)
(* it was executed for.                                                     *)
LEMMA DoneMore ==
  ASSUME TypeOK, NEW r, ran' = Append(ran, r), NEW c
  PROVE  /\ Done(c) \in Nat /\ Served(c) \in Nat
         /\ Done(c)' = IF Last(r.line).from = c THEN Done(c) + 1 ELSE Done(c)
         /\ Served(c)' = IF r.for = c THEN Served(c) + 1 ELSE Served(c)
<1> DEFINE n == Len(ran)
           D == {k \in 1 .. Len(ran) : Last(ran[k].line).from = c}
           E == {k \in 1 .. Len(ran) : ran[k].for = c}
<1>1. /\ Len(ran') = n + 1 /\ n \in Nat
      /\ \A k \in 1 .. n : ran'[k] = ran[k]
      /\ ran'[n + 1] = r
  BY RunMore
<1>2. D \in SUBSET (1 .. n) /\ E \in SUBSET (1 .. n)
  OBVIOUS
<1>3. {k \in 1 .. Len(ran') : Last(ran'[k].line).from = c}
        = IF Last(r.line).from = c THEN D \cup {n + 1} ELSE D
  <2>1. 1 .. Len(ran') = (1 .. n) \cup {n + 1} /\ n + 1 \notin 1 .. n
    BY <1>1
  <2> HIDE DEF n
  <2> QED
    BY <1>1, <2>1
<1>4. {k \in 1 .. Len(ran') : ran'[k].for = c} = IF r.for = c THEN E \cup {n + 1} ELSE E
  <2>1. 1 .. Len(ran') = (1 .. n) \cup {n + 1} /\ n + 1 \notin 1 .. n
    BY <1>1
  <2> HIDE DEF n
  <2> QED
    BY <1>1, <2>1
<1> HIDE DEF D, E, n
<1>5. /\ Cardinality(D) \in Nat /\ Cardinality(D \cup {n + 1}) = Cardinality(D) + 1
      /\ Cardinality(E) \in Nat /\ Cardinality(E \cup {n + 1}) = Cardinality(E) + 1
  BY <1>1, <1>2, CountMore
<1>6. Done(c) = Cardinality(D) /\ Served(c) = Cardinality(E)
  BY DEF Done, Served, D, E
<1>7. /\ Done(c)' = Cardinality({k \in 1 .. Len(ran') : Last(ran'[k].line).from = c})
      /\ Served(c)' = Cardinality({k \in 1 .. Len(ran') : ran'[k].for = c})
  BY DEF Done, Served
<1> QED
  BY <1>3, <1>4, <1>5, <1>6, <1>7

-----------------------------------------------------------------------------
(* Types.                                                                   *)
LEMMA InitType == Init => TypeOK
<1> SUFFICES ASSUME Init PROVE TypeOK
  OBVIOUS
<1>1. \A S : <<>> \in Seq(S)
  BY EmptySeq
<1> QED
  BY <1>1, RwgInputAssumption DEF Init, TypeOK

(* A segment sent is a segment of its client.                               *)
LEMMA SendType == ASSUME TypeOK, NEW c \in Clients, NEW e \in BOOLEAN, Send(c, e) PROVE TypeOK'
<1> DEFINE g == [from |-> c, line |-> sent[c] + 1, ends |-> e]
<1>1. sent[c] + 1 \in 1 .. MaxTyped
  BY RwgInputAssumption DEF TypeOK, Send
<1>2. g \in Segment
  BY <1>1 DEF Segment
<1>3. Append(sock[c], g) \in Seq(Segment)
  BY <1>2 DEF TypeOK
<1>4. sock' \in [Clients -> Seq(Segment)]
  BY <1>3 DEF TypeOK, Send
<1>5. sent' \in [Clients -> 0 .. MaxTyped]
  BY <1>1 DEF TypeOK, Send
<1> QED
  BY <1>4, <1>5 DEF TypeOK, Send

(* The buffer is filled with segments.                                      *)
LEMMA FillType == ASSUME TypeOK, Fill PROVE TypeOK'
<1>1. stdin \o sock[turn] \in Seq(Segment) /\ <<>> \in Seq(Segment)
  BY ConcatProperties, EmptySeq DEF TypeOK
<1> QED
  BY <1>1 DEF TypeOK, Fill

(* What fgets takes is the buffer up to the end of its first line; the rest *)
(* stays.                                                                   *)
LEMMA FgetsParts ==
  ASSUME TypeOK, Fgets
  PROVE  \E k \in 1 .. Len(stdin) :
           /\ k = LineEnd(stdin)
           /\ stdin[k].ends /\ \A j \in 1 .. Len(stdin) : stdin[j].ends => k <= j
           /\ ran' = Append(ran, [for |-> turn, line |-> SubSeq(stdin, 1, k)])
           /\ SubSeq(stdin, 1, k) \in Seq(Segment) /\ Len(SubSeq(stdin, 1, k)) = k
           /\ \A i \in 1 .. k : SubSeq(stdin, 1, k)[i] = stdin[i]
           /\ Last(SubSeq(stdin, 1, k)) = stdin[k]
           /\ stdin' \in Seq(Segment) /\ Len(stdin') = Len(stdin) - k
           /\ \A i \in 1 .. Len(stdin') : stdin'[i] = stdin[k + i]
<1> DEFINE k == LineEnd(stdin)
<1>1. stdin \in Seq(Segment) /\ Len(stdin) \in Nat /\ \A i \in 1 .. Len(stdin) : stdin[i] \in Segment
  BY LenProperties, ElementOfSeq DEF TypeOK
<1>2. k \in 1 .. Len(stdin) /\ stdin[k].ends /\ \A j \in 1 .. Len(stdin) : stdin[j].ends => k <= j
  BY <1>1, FirstEnd DEF Fgets
<1>3. /\ ran' = Append(ran, [for |-> turn, line |-> SubSeq(stdin, 1, k)])
      /\ stdin' = SubSeq(stdin, k + 1, Len(stdin))
  BY DEF Fgets
<1> HIDE DEF k
<1>4. /\ SubSeq(stdin, 1, k) \in Seq(Segment)
      /\ Len(SubSeq(stdin, 1, k)) = k
      /\ \A i \in 1 .. k : SubSeq(stdin, 1, k)[i] = stdin[i]
  <2>1. \A i \in 1 .. k : stdin[i] \in Segment
    BY <1>1, <1>2
  <2>2. 1 \in Int /\ k \in Int
    BY <1>1, <1>2
  <2>3. /\ SubSeq(stdin, 1, k) \in Seq(Segment)
        /\ Len(SubSeq(stdin, 1, k)) = IF 1 <= k THEN k - 1 + 1 ELSE 0
        /\ \A i \in 1 .. k - 1 + 1 : SubSeq(stdin, 1, k)[i] = stdin[1 + i - 1]
    BY <2>1, <2>2, SubSeqProperties
  <2> QED
    BY <1>1, <1>2, <2>3
<1>5. /\ stdin' \in Seq(Segment)
      /\ Len(stdin') = Len(stdin) - k
      /\ \A i \in 1 .. Len(stdin') : stdin'[i] = stdin[k + i]
  <2>1. \A i \in k + 1 .. Len(stdin) : stdin[i] \in Segment
    BY <1>1, <1>2
  <2>2. k + 1 \in Int /\ Len(stdin) \in Int
    BY <1>1, <1>2
  <2>3. /\ stdin' \in Seq(Segment)
        /\ Len(stdin') = IF k + 1 <= Len(stdin) THEN Len(stdin) - (k + 1) + 1 ELSE 0
        /\ \A i \in 1 .. Len(stdin) - (k + 1) + 1 : stdin'[i] = stdin[k + 1 + i - 1]
    BY <1>3, <2>1, <2>2, SubSeqProperties
  <2> QED
    BY <1>1, <1>2, <2>3
<1>6. Last(SubSeq(stdin, 1, k)) = stdin[k]
  BY <1>2, <1>4 DEF Last
<1>7. k = LineEnd(stdin)
  BY DEF k
<1> QED
  BY <1>2, <1>3, <1>4, <1>5, <1>6, <1>7

(* A line is segments, and so is the rest.                                  *)
LEMMA FgetsType == ASSUME TypeOK, Fgets PROVE TypeOK'
<1>1. PICK k \in 1 .. Len(stdin) :
        /\ ran' = Append(ran, [for |-> turn, line |-> SubSeq(stdin, 1, k)])
        /\ SubSeq(stdin, 1, k) \in Seq(Segment)
        /\ stdin' \in Seq(Segment)
  BY FgetsParts
<1>2. [for |-> turn, line |-> SubSeq(stdin, 1, k)] \in [for : Clients, line : Seq(Segment)]
  BY <1>1 DEF TypeOK
<1>3. ran' \in Seq([for : Clients, line : Seq(Segment)])
  BY <1>1, <1>2 DEF TypeOK
<1> QED
  BY <1>1, <1>3 DEF TypeOK, Fgets, input

(* Every step keeps the types.                                              *)
LEMMA NextType == TypeOK /\ [Next]_vars => TypeOK'
<1> SUFFICES ASSUME TypeOK, [Next]_vars PROVE TypeOK'
  OBVIOUS
<1>1. CASE Fill
  BY <1>1, FillType
<1>2. CASE Fgets
  BY <1>2, FgetsType
<1>3. ASSUME NEW c \in Clients, NEW e \in BOOLEAN, Send(c, e) PROVE TypeOK'
  BY <1>3, SendType
<1>4. CASE Select
  BY <1>4 DEF Select, TypeOK, input
<1>5. CASE Turn
  BY <1>5 DEF Turn, TypeOK, input
<1>6. CASE Run
  BY <1>6 DEF Run, TypeOK, input
<1>7. CASE Quiet \/ UNCHANGED vars
  BY <1>7 DEF Quiet, TypeOK, input, vars
<1> QED
  BY <1>1, <1>2, <1>3, <1>4, <1>5, <1>6, <1>7 DEF Next, Server

-----------------------------------------------------------------------------
(* Steps that move no segment and execute nothing.                          *)
LEMMA OthersOrder ==
  ASSUME OrderInv, UNCHANGED <<sent, sock, stdin, ran>> PROVE OrderInv'
<1>1. \A c : Done(c)' = Done(c)
  BY DEF Done
<1>2. \A c, m : Waits(c, m)' <=> Waits(c, m)
  BY DEF Waits, Ends
<1>3. \A c \in Clients : Queued(c) => Queued(c)'
  BY <1>1, <1>2 DEF Queued, Ascending
<1> QED
  BY <1>3 DEF OrderInv, Ascending, InOrder

(* Nothing has been typed.                                                  *)
LEMMA InitOrder == Init => OrderInv
<1> SUFFICES ASSUME Init PROVE OrderInv
  OBVIOUS
<1>1. /\ ran = <<>> /\ stdin = <<>> /\ \A c \in Clients : sock[c] = <<>> /\ sent[c] = 0
  BY DEF Init
<1>2. \A c : Done(c) = 0
  <2> TAKE c
  <2>1. {k \in 1 .. Len(ran) : Last(ran[k].line).from = c} = {}
    BY <1>1
  <2> QED
    BY <2>1, FS_EmptySet DEF Done
<1> QED
  BY <1>1, <1>2 DEF OrderInv, Ascending, Queued, Waits, Ends, InOrder

(* A client sends: its line comes after all its others.                     *)
LEMMA SendOrder ==
  ASSUME TypeOK, OrderInv, NEW c \in Clients, NEW e \in BOOLEAN, Send(c, e) PROVE OrderInv'
<1> DEFINE g == [from |-> c, line |-> sent[c] + 1, ends |-> e]
           n == Len(sock[c])
<1>1. /\ UNCHANGED <<stdin, ran>>
      /\ sock' = [sock EXCEPT ![c] = Append(@, g)]
      /\ sent' = [sent EXCEPT ![c] = IF e THEN @ + 1 ELSE @]
  BY DEF Send
<1>2. sock[c] \in Seq(Segment) /\ sent[c] \in Nat /\ n \in Nat
  BY RwgInputAssumption, LenProperties DEF TypeOK
<1>3. g \in Segment
  BY RwgInputAssumption DEF TypeOK, Send, Segment
<1>4. /\ Len(sock'[c]) = n + 1 /\ sock'[c][n + 1] = g
      /\ \A i \in 1 .. n : sock'[c][i] = sock[c][i]
      /\ \A d \in Clients \ {c} : sock'[d] = sock[d] /\ sent'[d] = sent[d]
      /\ sent'[c] = IF e THEN sent[c] + 1 ELSE sent[c]
  BY <1>1, <1>2, <1>3 DEF TypeOK
<1>5. g.from = c /\ g.line = sent[c] + 1 /\ g.ends = e
  OBVIOUS
<1> HIDE DEF g, n
<1>6. \A d : Done(d)' = Done(d)
  BY <1>1 DEF Done
<1>7. \A d \in Clients \ {c} : Queued(d)'
  BY <1>1, <1>4, <1>6 DEF OrderInv, Queued, Waits, Ends, Ascending
<1>8. Queued(c)'
  <2>1. Done(c) <= sent[c] /\ \A m \in Nat : Waits(c, m) <=> Done(c) < m /\ m <= sent[c]
    BY DEF OrderInv, Queued
  <2>2. \A i \in 1 .. Len(sock'[c]) : i \in 1 .. n \/ i = n + 1
    BY <1>2, <1>4
  <2>a. Done(c) \in Nat
    BY CountNat
  <2>3. \A i \in 1 .. n : sock[c][i].ends => sock[c][i].line <= sent[c]
    <3> SUFFICES ASSUME NEW i \in 1 .. n, sock[c][i].ends PROVE sock[c][i].line <= sent[c]
      OBVIOUS
    <3>1. sock[c][i].from = c /\ sock[c][i].line \in Nat
      <4>1. sock[c][i] \in Segment
        BY <1>2, ElementOfSeq DEF n
      <4> QED
        BY <4>1 DEF OrderInv, Queued, Segment, n
    <3> QED
      BY <2>1, <3>1 DEF Waits, Ends, n
  <2>4. \A i \in 1 .. Len(stdin) : stdin[i].ends /\ stdin[i].from = c => stdin[i].line <= sent[c]
    <3> SUFFICES ASSUME NEW i \in 1 .. Len(stdin), stdin[i].ends, stdin[i].from = c
                 PROVE  stdin[i].line <= sent[c]
      OBVIOUS
    <3>1. stdin[i].line \in Nat
      <4>1. stdin[i] \in Segment
        BY ElementOfSeq DEF TypeOK
      <4> QED
        BY <4>1 DEF Segment
    <3> QED
      BY <2>1, <3>1 DEF Waits, Ends
  <2>5. \A i \in 1 .. n : sock[c][i].line \in Int
    <3> TAKE i \in 1 .. n
    <3>1. sock[c][i] \in Segment
      BY <1>2, ElementOfSeq DEF n
    <3> QED
      BY <3>1 DEF Segment
  <2>6. \A i \in 1 .. Len(stdin) : stdin[i].line \in Int
    <3> TAKE i \in 1 .. Len(stdin)
    <3>1. stdin[i] \in Segment
      BY ElementOfSeq DEF TypeOK
    <3> QED
      BY <3>1 DEF Segment
  <2>7. \A i \in 1 .. n : sock[c][i].from = c
    BY DEF OrderInv, Queued, n
  <2>8. \A i \in 1 .. Len(sock'[c]) : sock'[c][i].from = c
    BY <1>4, <1>5, <2>2, <2>7
  <2>9. Ascending(sock[c])'
    <3>1. Ascending(sock[c])
      BY DEF OrderInv, Queued
    <3> SUFFICES ASSUME NEW i \in 1 .. Len(sock'[c]), NEW j \in 1 .. Len(sock'[c]), i < j,
                        sock'[c][i].ends, sock'[c][j].ends
                 PROVE  sock'[c][i].line < sock'[c][j].line
      BY DEF Ascending
    <3>2. i \in 1 .. n
      BY <1>2, <1>4
    <3>3. CASE j \in 1 .. n
      BY <1>4, <2>7, <3>1, <3>2, <3>3 DEF Ascending, n
    <3>4. CASE j = n + 1
      <4>1. sock'[c][j].line = sent[c] + 1
        BY <1>4, <1>5, <3>4
      <4>2. sock'[c][i].line <= sent[c] /\ sock'[c][i].line \in Int
        BY <1>4, <2>3, <2>5, <3>2
      <4> QED
        BY <1>2, <4>1, <4>2
    <3> QED
      BY <2>2, <3>3, <3>4
  <2>10. \A i \in 1 .. Len(stdin'), j \in 1 .. Len(sock'[c]) :
           stdin'[i].ends /\ stdin'[i].from = c /\ sock'[c][j].ends
             => stdin'[i].line < sock'[c][j].line
    <3> SUFFICES ASSUME NEW i \in 1 .. Len(stdin), NEW j \in 1 .. Len(sock'[c]),
                        stdin[i].ends, stdin[i].from = c, sock'[c][j].ends
                 PROVE  stdin[i].line < sock'[c][j].line
      BY <1>1
    <3>1. CASE j \in 1 .. n
      BY <1>4, <3>1 DEF OrderInv, Queued, n
    <3>2. CASE j = n + 1
      BY <1>2, <1>4, <1>5, <2>4, <2>6, <3>2
    <3> QED
      BY <2>2, <3>1, <3>2
  <2>11. ASSUME NEW m \in Nat PROVE Waits(c, m)' <=> Waits(c, m) \/ (e /\ m = sent[c] + 1)
    <3>1. Ends(stdin, c, m)' <=> Ends(stdin, c, m)
      BY <1>1 DEF Ends
    <3>2. Ends(sock[c], c, m)' <=> Ends(sock[c], c, m) \/ (e /\ m = sent[c] + 1)
      <4>1. Ends(sock[c], c, m)' <=>
              \E i \in 1 .. n + 1 :
                sock'[c][i].ends /\ sock'[c][i].from = c /\ sock'[c][i].line = m
        BY <1>4 DEF Ends
      <4>2. \A i \in 1 .. n + 1 : i \in 1 .. n \/ i = n + 1
        BY <1>2
      <4>3. \A i \in 1 .. n : i \in 1 .. n + 1
        BY <1>2
      <4>4. n + 1 \in 1 .. n + 1
        BY <1>2
      <4> QED
        BY <1>4, <1>5, <4>1, <4>2, <4>3, <4>4 DEF Ends, n
    <3> QED
      BY <3>1, <3>2 DEF Waits
  <2>12. \A m \in Nat : Waits(c, m)' <=> Done(c) < m /\ m <= sent'[c]
    BY <1>2, <1>4, <2>1, <2>a, <2>11
  <2> QED
    <3>1. Done(c)' <= sent'[c]
      BY <1>2, <1>4, <1>6, <2>1, <2>a
    <3>2. \A m \in Nat : Waits(c, m)' <=> Done(c)' < m /\ m <= sent'[c]
      BY <1>6, <2>12
    <3> QED
      BY <2>8, <2>9, <2>10, <3>1, <3>2 DEF Queued
<1>9. Ascending(stdin)' /\ InOrder' /\ \A k \in 1 .. Len(ran') : ran'[k].line # <<>>
  BY <1>1 DEF OrderInv, Ascending, InOrder
<1> QED
  BY <1>7, <1>8, <1>9 DEF OrderInv

(* A segment is a segment, and its line a number.                           *)
LEMMA SegmentLine ==
  ASSUME NEW s \in Seq(Segment)
  PROVE  /\ Len(s) \in Nat
         /\ \A i \in 1 .. Len(s) : s[i].line \in Nat
<1>1. \A i \in 1 .. Len(s) : s[i] \in Segment
  BY ElementOfSeq
<1> QED
  BY <1>1, LenProperties DEF Segment

(* fgets fills the buffer from the socket of the client whose turn it is:   *)
(* what is before stays before.                                             *)
LEMMA FillOrder == ASSUME TypeOK, OrderInv, Fill PROVE OrderInv'
<1>0. turn \in Clients /\ stdin \in Seq(Segment) /\ sock[turn] \in Seq(Segment)
  BY DEF TypeOK
<1> DEFINE n == Len(stdin)
           m == Len(sock[turn])
<1>1. /\ UNCHANGED <<sent, ran>> /\ sock'[turn] = <<>>
      /\ \A c \in Clients \ {turn} : sock'[c] = sock[c]
  BY DEF Fill, TypeOK
<1>2. /\ Len(stdin') = n + m /\ n \in Nat /\ m \in Nat
      /\ \A i \in 1 .. n : stdin'[i] = stdin[i]
      /\ \A i \in 1 .. m : stdin'[n + i] = sock[turn][i]
  <2>1. stdin' = stdin \o sock[turn]
    BY DEF Fill
  <2>2. /\ Len(stdin') = n + m /\ n \in Nat /\ m \in Nat
        /\ \A i \in 1 .. n + m : stdin'[i] = IF i <= n THEN stdin[i] ELSE sock[turn][i - n]
    BY <1>0, <2>1, ConcatProperties, LenProperties
  <2> QED
    BY <2>2
<1> HIDE DEF n, m
<1>3. \A i \in 1 .. Len(stdin') : i \in 1 .. n \/ \E j \in 1 .. m : i = n + j
  <2> TAKE i \in 1 .. Len(stdin')
  <2>1. i \notin 1 .. n => i - n \in 1 .. m /\ i = n + (i - n)
    BY <1>2
  <2> QED
    BY <2>1
<1>4. (\A i \in 1 .. n : i \in 1 .. Len(stdin')) /\ (\A i \in 1 .. m : n + i \in 1 .. Len(stdin'))
  BY <1>2
<1>5. /\ \A i \in 1 .. m : sock[turn][i].from = turn
      /\ Ascending(sock[turn]) /\ Ascending(stdin)
      /\ \A i \in 1 .. n, j \in 1 .. m :
           stdin[i].ends /\ stdin[i].from = turn /\ sock[turn][j].ends
             => stdin[i].line < sock[turn][j].line
  BY <1>0 DEF OrderInv, Queued, n, m
<1>6. Ascending(stdin)'
  <2> SUFFICES ASSUME NEW i \in 1 .. Len(stdin'), NEW j \in 1 .. Len(stdin'), i < j,
                      stdin'[i].ends, stdin'[j].ends, stdin'[i].from = stdin'[j].from
               PROVE  stdin'[i].line < stdin'[j].line
    BY DEF Ascending
  <2>1. CASE j \in 1 .. n
    <3>1. i \in 1 .. n
      BY <1>2, <2>1
    <3> QED
      BY <1>2, <1>5, <2>1, <3>1 DEF Ascending, n
  <2>2. ASSUME NEW b \in 1 .. m, j = n + b, i \in 1 .. n PROVE stdin'[i].line < stdin'[j].line
    BY <1>2, <1>5, <2>2
  <2>3. ASSUME NEW b \in 1 .. m, j = n + b, NEW a \in 1 .. m, i = n + a
        PROVE  stdin'[i].line < stdin'[j].line
    <3>1. a < b
      BY <1>2, <2>3
    <3>2. stdin'[i] = sock[turn][a] /\ stdin'[j] = sock[turn][b]
      BY <1>2, <2>3
    <3> QED
      BY <1>5, <3>1, <3>2 DEF Ascending, m
  <2> QED
    BY <1>3, <2>1, <2>2, <2>3
<1>7. \A c : Done(c)' = Done(c)
  BY <1>1 DEF Done
<1>8. ASSUME NEW c \in Clients, NEW l PROVE Waits(c, l)' <=> Waits(c, l)
  <2>1. Ends(stdin, c, l)' <=>
          \/ \E i \in 1 .. n : stdin[i].ends /\ stdin[i].from = c /\ stdin[i].line = l
          \/ \E i \in 1 .. m : sock[turn][i].ends /\ sock[turn][i].from = c /\ sock[turn][i].line = l
    <3>1. ASSUME NEW i \in 1 .. Len(stdin'), stdin'[i].ends, stdin'[i].from = c, stdin'[i].line = l
          PROVE  \/ \E j \in 1 .. n : stdin[j].ends /\ stdin[j].from = c /\ stdin[j].line = l
                 \/ \E j \in 1 .. m : sock[turn][j].ends /\ sock[turn][j].from = c
                                      /\ sock[turn][j].line = l
      BY <1>2, <1>3, <3>1
    <3>2. ASSUME NEW j \in 1 .. n, stdin[j].ends, stdin[j].from = c, stdin[j].line = l
          PROVE  \E i \in 1 .. Len(stdin') :
                   stdin'[i].ends /\ stdin'[i].from = c /\ stdin'[i].line = l
      BY <1>2, <1>4, <3>2
    <3>3. ASSUME NEW j \in 1 .. m, sock[turn][j].ends, sock[turn][j].from = c,
                 sock[turn][j].line = l
          PROVE  \E i \in 1 .. Len(stdin') :
                   stdin'[i].ends /\ stdin'[i].from = c /\ stdin'[i].line = l
      <4>1. n + j \in 1 .. Len(stdin') /\ stdin'[n + j] = sock[turn][j]
        BY <1>2, <1>4
      <4> QED
        BY <3>3, <4>1
    <3>4. Ends(stdin, c, l)' <=>
            \E i \in 1 .. Len(stdin') :
              stdin'[i].ends /\ stdin'[i].from = c /\ stdin'[i].line = l
      BY DEF Ends
    <3> QED
      BY <3>1, <3>2, <3>3, <3>4
  <2>2. Ends(stdin, c, l)' <=> Ends(stdin, c, l) \/ Ends(sock[turn], c, l)
    BY <2>1 DEF Ends, n, m
  <2>3. CASE c = turn
    <3>1. ~Ends(sock[c], c, l)'
      BY <1>1, <2>3 DEF Ends
    <3> QED
      BY <2>2, <2>3, <3>1 DEF Waits
  <2>4. CASE c # turn
    <3>1. ~Ends(sock[turn], c, l)
      BY <1>5, <2>4 DEF Ends, m
    <3>2. Ends(sock[c], c, l)' <=> Ends(sock[c], c, l)
      BY <1>1, <2>4 DEF Ends
    <3> QED
      BY <2>2, <3>1, <3>2 DEF Waits
  <2> QED
    BY <2>3, <2>4
<1>9. ASSUME NEW c \in Clients PROVE Queued(c)'
  <2>1. /\ \A i \in 1 .. Len(sock'[c]) : sock'[c][i].from = c
        /\ Ascending(sock[c])'
        /\ \A i \in 1 .. Len(stdin'), j \in 1 .. Len(sock'[c]) :
             stdin'[i].ends /\ stdin'[i].from = c /\ sock'[c][j].ends
               => stdin'[i].line < sock'[c][j].line
    <3>1. CASE c = turn
      BY <1>1, <3>1 DEF Ascending
    <3>2. CASE c # turn
      <4>1. sock'[c] = sock[c] /\ Queued(c)
        BY <1>1, <3>2 DEF OrderInv
      <4>2. \A i \in 1 .. Len(stdin') : stdin'[i].from = c => i \in 1 .. n /\ stdin'[i] = stdin[i]
        BY <1>2, <1>3, <1>5, <3>2
      <4> QED
        BY <4>1, <4>2 DEF Queued, Ascending, n
    <3> QED
      BY <3>1, <3>2
  <2>2. Done(c)' <= sent'[c] /\ \A l \in Nat : Waits(c, l)' <=> Done(c)' < l /\ l <= sent'[c]
    BY <1>1, <1>7, <1>8 DEF OrderInv, Queued
  <2> QED
    BY <2>1, <2>2 DEF Queued
<1>10. InOrder' /\ \A k \in 1 .. Len(ran') : ran'[k].line # <<>>
  BY <1>1 DEF OrderInv, InOrder
<1> QED
  BY <1>6, <1>9, <1>10 DEF OrderInv

(* The first line of the buffer is the next of its client.                  *)
LEMMA FgetsOrder == ASSUME TypeOK, OrderInv, Fgets PROVE OrderInv'
<1>1. PICK k \in 1 .. Len(stdin) :
        /\ stdin[k].ends /\ \A j \in 1 .. Len(stdin) : stdin[j].ends => k <= j
        /\ ran' = Append(ran, [for |-> turn, line |-> SubSeq(stdin, 1, k)])
        /\ Len(SubSeq(stdin, 1, k)) = k
        /\ Last(SubSeq(stdin, 1, k)) = stdin[k]
        /\ stdin' \in Seq(Segment) /\ Len(stdin') = Len(stdin) - k
        /\ \A i \in 1 .. Len(stdin') : stdin'[i] = stdin[k + i]
  BY FgetsParts
<1>2. UNCHANGED <<sent, sock>>
  BY DEF Fgets, input
<1>a. stdin[k].from \in Clients /\ stdin[k].line \in Nat
  <2>1. stdin[k] \in Segment
    BY ElementOfSeq DEF TypeOK
  <2> QED
    BY <2>1 DEF Segment
<1>b. PICK c \in Clients, l \in Nat : c = stdin[k].from /\ l = stdin[k].line
  BY <1>a
<1> DEFINE r == [for |-> turn, line |-> SubSeq(stdin, 1, k)]
<1>3. r.line = SubSeq(stdin, 1, k) /\ Last(r.line) = stdin[k]
  BY <1>1
<1>4. k \in Nat /\ Len(stdin) \in Nat /\ \A i \in 1 .. Len(stdin) : stdin[i].line \in Nat
  <2>1. stdin \in Seq(Segment)
    BY DEF TypeOK
  <2> QED
    BY <2>1, SegmentLine
<1> HIDE DEF r
<1>5. /\ Done(c) \in Nat
      /\ \A d : Done(d)' = IF d = c THEN Done(d) + 1 ELSE Done(d)
  <2>1. Done(c) \in Nat
    BY CountNat
  <2>2. ran' = Append(ran, r)
    BY <1>1 DEF r
  <2>3. ASSUME NEW d PROVE Done(d)' = IF d = c THEN Done(d) + 1 ELSE Done(d)
    <3>1. Done(d)' = IF Last(r.line).from = d THEN Done(d) + 1 ELSE Done(d)
      BY <2>2, DoneMore
    <3> QED
      BY <1>3, <1>b, <3>1
  <2> QED
    BY <2>1, <2>3
<1>6. /\ Queued(c) /\ Ascending(stdin)
      /\ \A m \in Nat : Waits(c, m) <=> Done(c) < m /\ m <= sent[c]
  BY <1>4 DEF OrderInv, Queued
<1>7. l = Done(c) + 1 /\ l <= sent[c]
  <2>1. Waits(c, l)
    BY <1>1, <1>b DEF Waits, Ends
  <2>2. Done(c) < l /\ l <= sent[c] /\ sent[c] \in Nat
    <3>1. sent[c] \in Nat
      BY RwgInputAssumption DEF TypeOK
    <3> QED
      BY <1>6, <2>1, <3>1
  <2>3. ASSUME Done(c) + 1 < l PROVE FALSE
    <3>1. Waits(c, Done(c) + 1)
      BY <1>4, <1>5, <1>6, <2>2, <2>3
    <3>2. ASSUME NEW i \in 1 .. Len(stdin), stdin[i].ends, stdin[i].from = c,
                 stdin[i].line = Done(c) + 1
          PROVE  FALSE
      <4>1. k <= i /\ i # k
        BY <1>1, <1>4, <1>5, <1>b, <2>3, <3>2
      <4>2. l < stdin[i].line
        BY <1>1, <1>4, <1>6, <1>b, <3>2, <4>1 DEF Ascending
      <4> QED
        BY <1>4, <1>5, <2>3, <3>2, <4>2
    <3>3. ASSUME NEW j \in 1 .. Len(sock[c]), sock[c][j].ends, sock[c][j].line = Done(c) + 1
          PROVE  FALSE
      <4>1. l < sock[c][j].line
        BY <1>1, <1>6, <1>b, <3>3 DEF Queued
      <4> QED
        BY <1>4, <1>5, <2>3, <3>3, <4>1
    <3> QED
      BY <3>1, <3>2, <3>3 DEF Waits, Ends
  <2> QED
    BY <1>4, <1>5, <2>2, <2>3
<1>8. Ascending(stdin)'
  <2> SUFFICES ASSUME NEW i \in 1 .. Len(stdin'), NEW j \in 1 .. Len(stdin'), i < j,
                      stdin'[i].ends, stdin'[j].ends, stdin'[i].from = stdin'[j].from
               PROVE  stdin'[i].line < stdin'[j].line
    BY DEF Ascending
  <2>1. k + i \in 1 .. Len(stdin) /\ k + j \in 1 .. Len(stdin) /\ k + i < k + j
    BY <1>1, <1>4
  <2>2. stdin'[i] = stdin[k + i] /\ stdin'[j] = stdin[k + j]
    BY <1>1
  <2> QED
    BY <1>6, <2>1, <2>2 DEF Ascending
<1>9. ASSUME NEW d \in Clients, NEW m \in Nat PROVE Waits(d, m)' <=> Waits(d, m) /\ ~(d = c /\ m = l)
  <2>1. Ends(sock[d], d, m)' <=> Ends(sock[d], d, m)
    BY <1>2 DEF Ends
  <2>2. Ends(sock[c], c, l) => FALSE
    <3> SUFFICES ASSUME NEW j \in 1 .. Len(sock[c]), sock[c][j].ends, sock[c][j].line = l
                 PROVE  FALSE
      BY DEF Ends
    <3>1. stdin[k].line < sock[c][j].line
      BY <1>1, <1>6, <1>b DEF Queued
    <3> QED
      BY <1>b, <3>1
  <2>3. ASSUME NEW i \in 1 .. Len(stdin'), stdin'[i].ends, stdin'[i].from = d, stdin'[i].line = m
        PROVE  Ends(stdin, d, m) /\ ~(d = c /\ m = l)
    <3>1. k + i \in 1 .. Len(stdin) /\ k < k + i /\ stdin'[i] = stdin[k + i]
      BY <1>1, <1>4
    <3>2. Ends(stdin, d, m)
      BY <2>3, <3>1 DEF Ends
    <3>3. d = c => l < m
      BY <1>1, <1>6, <1>b, <2>3, <3>1 DEF Ascending
    <3> QED
      BY <1>4, <3>2, <3>3
  <2>4. ASSUME NEW i \in 1 .. Len(stdin), stdin[i].ends, stdin[i].from = d, stdin[i].line = m,
               ~(d = c /\ m = l)
        PROVE  Ends(stdin, d, m)'
    <3>1. k <= i /\ i # k
      BY <1>1, <1>b, <2>4
    <3>2. i - k \in 1 .. Len(stdin') /\ k + (i - k) = i
      BY <1>1, <1>4, <3>1
    <3>3. stdin'[i - k] = stdin[i]
      BY <1>1, <3>2
    <3> QED
      BY <2>4, <3>2, <3>3 DEF Ends
  <2>5. Ends(stdin, d, m)' => Ends(stdin, d, m) /\ ~(d = c /\ m = l)
    BY <2>3 DEF Ends
  <2>6. Ends(stdin, d, m) /\ ~(d = c /\ m = l) => Ends(stdin, d, m)'
    BY <2>4 DEF Ends
  <2> QED
    BY <2>1, <2>2, <2>5, <2>6 DEF Waits
<1>10. ASSUME NEW d \in Clients PROVE Queued(d)'
  <2>1. Queued(d)
    BY DEF OrderInv
  <2>2. \A i \in 1 .. Len(stdin') : k + i \in 1 .. Len(stdin) /\ stdin'[i] = stdin[k + i]
    BY <1>1, <1>4
  <2>3. /\ \A i \in 1 .. Len(sock'[d]) : sock'[d][i].from = d
        /\ Ascending(sock[d])'
        /\ \A i \in 1 .. Len(stdin'), j \in 1 .. Len(sock'[d]) :
             stdin'[i].ends /\ stdin'[i].from = d /\ sock'[d][j].ends
               => stdin'[i].line < sock'[d][j].line
    BY <1>2, <2>1, <2>2 DEF Queued, Ascending
  <2>4. Done(d)' <= sent'[d]
    BY <1>2, <1>5, <1>7, <2>1 DEF Queued
  <2>5. \A m \in Nat : Waits(d, m)' <=> Done(d)' < m /\ m <= sent'[d]
    <3> TAKE m \in Nat
    <3>1. Waits(d, m) <=> Done(d) < m /\ m <= sent[d]
      BY <2>1 DEF Queued
    <3> QED
      BY <1>2, <1>5, <1>7, <1>9, <3>1
  <2> QED
    BY <2>3, <2>4, <2>5 DEF Queued
<1>11. /\ Len(ran') = Len(ran) + 1 /\ Len(ran) \in Nat
       /\ \A i \in 1 .. Len(ran) : ran'[i] = ran[i]
       /\ ran'[Len(ran) + 1] = r
  BY <1>1, RunMore DEF r
<1>12. \A i \in 1 .. Len(ran') : ran'[i].line # <<>>
  <2>1. r.line # <<>>
    <3>1. Len(r.line) = k /\ k # 0
      BY <1>1, <1>3, <1>4
    <3>2. Len(<<>>) = 0
      BY EmptySeq
    <3> QED
      BY <3>1, <3>2
  <2>2. \A i \in 1 .. Len(ran') : i \in 1 .. Len(ran) \/ i = Len(ran) + 1
    BY <1>11
  <2> QED
    BY <1>11, <2>1, <2>2 DEF OrderInv
<1>13. InOrder'
  <2> SUFFICES ASSUME NEW i \in 1 .. Len(ran')
               PROVE  Last(ran'[i].line).line =
                        Cardinality({j \in 1 .. i : Last(ran'[j].line).from = Last(ran'[i].line).from})
    BY DEF InOrder
  <2>1. CASE i \in 1 .. Len(ran)
    <3>1. \A j \in 1 .. i : ran'[j] = ran[j]
      BY <1>11, <2>1
    <3>2. {j \in 1 .. i : Last(ran'[j].line).from = Last(ran'[i].line).from}
            = {j \in 1 .. i : Last(ran[j].line).from = Last(ran[i].line).from}
      BY <1>11, <2>1, <3>1
    <3> QED
      BY <1>11, <2>1, <3>2 DEF OrderInv, InOrder
  <2>2. CASE i = Len(ran) + 1
    <3>1. Last(ran'[i].line) = stdin[k]
      BY <1>3, <1>11, <2>2
    <3>2. Len(ran') = i
      BY <1>11, <2>2
    <3>3. Done(c)' = Cardinality({j \in 1 .. i : Last(ran'[j].line).from = c})
      BY <3>2 DEF Done
    <3> QED
      BY <1>5, <1>7, <1>b, <3>1, <3>3
  <2> QED
    BY <1>11, <2>1, <2>2
<1> QED
  BY <1>8, <1>10, <1>12, <1>13 DEF OrderInv

(* Every step keeps the order, whatever the clients send ahead.             *)
LEMMA NextOrder == TypeOK /\ OrderInv /\ [Next]_vars => OrderInv'
<1> SUFFICES ASSUME TypeOK, OrderInv, [Next]_vars PROVE OrderInv'
  OBVIOUS
<1>1. CASE Fill
  BY <1>1, FillOrder
<1>2. CASE Fgets
  BY <1>2, FgetsOrder
<1>3. ASSUME NEW c \in Clients, NEW e \in BOOLEAN, Send(c, e) PROVE OrderInv'
  BY <1>3, SendOrder
<1>4. CASE Select \/ Turn \/ Run \/ Quiet \/ UNCHANGED vars
  BY <1>4, OthersOrder DEF Select, Turn, Run, Quiet, vars, input
<1> QED
  BY <1>1, <1>2, <1>3, <1>4 DEF Next, Server

-----------------------------------------------------------------------------
(* A client that waits for its prompt.                                      *)
LEMMA InitOne == Init => OneInv
<1> SUFFICES ASSUME Init PROVE OneInv
  OBVIOUS
<1>1. /\ ran = <<>> /\ stdin = <<>> /\ \A c \in Clients : sock[c] = <<>> /\ sent[c] = 0 /\ ~half[c]
      /\ turn \in Clients /\ Len(<<>>) = 0
  BY EmptySeq DEF Init
<1>2. \A c : Served(c) = 0
  <2> TAKE c
  <2>1. {k \in 1 .. Len(ran) : ran[k].for = c} = {}
    BY <1>1
  <2> QED
    BY <2>1, FS_EmptySet DEF Served
<1> QED
  BY <1>1, <1>2 DEF OneInv, Coming, RedirectedLine

(* What the client of the turn has sent, in the buffer and in its socket.   *)
LEMMA SendOne ==
  ASSUME burst = 1, TypeOK, OneInv, NEW c \in Clients, NEW e \in BOOLEAN, Send(c, e)
  PROVE  OneInv'
<1> DEFINE g == [from |-> c, line |-> sent[c] + 1, ends |-> e]
           n == Len(sock[c])
<1>1. /\ UNCHANGED <<stdin, ran, pc, turn>>
      /\ sock' = [sock EXCEPT ![c] = Append(@, g)]
      /\ sent' = [sent EXCEPT ![c] = IF e THEN @ + 1 ELSE @]
      /\ half' = [half EXCEPT ![c] = ~e]
      /\ half[c] \/ sent[c] < Prompts(c) + burst
  BY DEF Send
<1>2. /\ sock[c] \in Seq(Segment) /\ stdin \in Seq(Segment)
      /\ sent[c] \in Nat /\ n \in Nat /\ Len(stdin) \in Nat
  BY RwgInputAssumption, LenProperties DEF TypeOK
<1>3. g \in Segment
  BY RwgInputAssumption DEF TypeOK, Send, Segment
<1>4. /\ Len(sock'[c]) = n + 1 /\ sock'[c][n + 1] = g
      /\ \A i \in 1 .. n : sock'[c][i] = sock[c][i]
      /\ \A d \in Clients \ {c} : sock'[d] = sock[d] /\ sent'[d] = sent[d] /\ half'[d] = half[d]
      /\ sent'[c] = IF e THEN sent[c] + 1 ELSE sent[c]
      /\ half'[c] = ~e
  BY <1>1, <1>2, <1>3 DEF TypeOK
<1>5. g.from = c /\ g.line = sent[c] + 1 /\ g.ends = e
  OBVIOUS
<1> HIDE DEF g, n
<1>6. \A d : Served(d)' = Served(d)
  BY <1>1 DEF Served
<1>7. Served(c) \in Nat /\ \A d : Served(d) \in Nat
  BY CountNat
<1>8. sent[c] = Served(c)
  <2>1. Prompts(c) <= Served(c) /\ Prompts(c) \in Int
    BY <1>7 DEF Prompts, Served
  <2> QED
    BY <1>1, <1>2, <1>7, <2>1 DEF OneInv
<1>9. /\ turn = c => \A i \in 1 .. Len(stdin) : ~stdin[i].ends
      /\ \A i \in 1 .. n : ~sock[c][i].ends
  BY <1>2, <1>7, <1>8 DEF OneInv, Coming, n
<1>10. Coming(sock[c], c, <<>>)'
  <2>1. \A i \in 1 .. n : sock[c][i].from = c /\ sock[c][i].line = Served(c) + 1
    BY DEF OneInv, Coming, n
  <2>2. \A i \in 1 .. n + 1 : i \in 1 .. n \/ i = n + 1
    BY <1>2
  <2>3. e => sent'[c] = Served(c)' + 1
    BY <1>4, <1>6, <1>8
  <2> QED
    BY <1>4, <1>5, <1>6, <1>8, <1>9, <2>1, <2>2, <2>3 DEF Coming
<1>11. ASSUME NEW d \in Clients \ {c}
       PROVE  /\ Coming(sock[d], d, <<>>)'
              /\ sent'[d] \in {Served(d)', Served(d)' + 1}
              /\ half'[d] => sent'[d] = Served(d)'
              /\ sent'[d] = Served(d)' /\ ~half'[d] => sock'[d] = <<>> /\ (turn' = d => stdin' = <<>>)
  BY <1>1, <1>4, <1>6 DEF OneInv, Coming
<1>12. /\ sent'[c] \in {Served(c)', Served(c)' + 1}
       /\ half'[c] => sent'[c] = Served(c)'
       /\ ~(sent'[c] = Served(c)' /\ ~half'[c])
  <2>1. PICK m \in Nat : m = sent[c] /\ Served(c)' = m
    BY <1>2, <1>6, <1>8
  <2>2. CASE e
    <3>1. sent'[c] = m + 1 /\ ~half'[c]
      BY <1>4, <2>1, <2>2
    <3> QED
      BY <2>1, <3>1
  <2>3. CASE ~e
    <3>1. sent'[c] = m /\ half'[c]
      BY <1>4, <2>1, <2>3
    <3> QED
      BY <2>1, <3>1
  <2> QED
    BY <2>2, <2>3
<1>13. Coming(stdin, turn, sock[turn])'
  <2>1. CASE turn = c
    BY <1>1, <1>6, <1>9, <2>1 DEF OneInv, Coming
  <2>2. CASE turn # c
    <3>1. sock'[turn'] = sock[turn] /\ sent'[turn'] = sent[turn] /\ turn' = turn
      BY <1>1, <1>4, <2>2 DEF TypeOK
    <3> QED
      BY <1>1, <1>6, <3>1 DEF OneInv, Coming
  <2> QED
    BY <2>1, <2>2
<1>14. RedirectedLine' /\ (pc' # "fgets" => stdin' = <<>>)
  BY <1>1 DEF OneInv, RedirectedLine
<1> QED
  BY <1>10, <1>11, <1>12, <1>13, <1>14 DEF OneInv

(* The buffer is filled with what is left of the one line.                  *)
LEMMA FillOne == ASSUME TypeOK, OneInv, Fill PROVE OneInv'
<1>0. turn \in Clients /\ stdin \in Seq(Segment) /\ sock[turn] \in Seq(Segment)
  BY DEF TypeOK
<1>1. /\ UNCHANGED <<sent, half, ran, pc, turn>> /\ sock'[turn] = <<>> /\ pc = "fgets"
      /\ ~LineIn(stdin) /\ sock[turn] # <<>>
      /\ \A c \in Clients \ {turn} : sock'[c] = sock[c]
  BY DEF Fill, TypeOK
<1>2. \A c : Served(c)' = Served(c)
  BY <1>1 DEF Served
<1>3. /\ Len(stdin) \in Nat /\ Len(sock[turn]) \in Nat
      /\ Len(stdin') = Len(stdin) + Len(sock[turn])
      /\ \A i \in 1 .. Len(stdin') :
           stdin'[i] = IF i <= Len(stdin) THEN stdin[i] ELSE sock[turn][i - Len(stdin)]
  BY <1>0, ConcatProperties, LenProperties DEF Fill
<1>4. Coming(stdin, turn, sock[turn])'
  <2> SUFFICES ASSUME NEW i \in 1 .. Len(stdin')
               PROVE  /\ stdin'[i].from = turn /\ stdin'[i].line = Served(turn) + 1
                      /\ stdin'[i].ends => i = Len(stdin') /\ sent[turn] = Served(turn) + 1
    BY <1>1, <1>2 DEF Coming
  <2>1. CASE i <= Len(stdin)
    <3>1. i \in 1 .. Len(stdin) /\ stdin'[i] = stdin[i]
      BY <1>3, <2>1
    <3> QED
      BY <1>1, <3>1 DEF OneInv, Coming, LineIn
  <2>2. CASE ~(i <= Len(stdin))
    <3>1. /\ i - Len(stdin) \in 1 .. Len(sock[turn])
          /\ stdin'[i] = sock[turn][i - Len(stdin)]
      BY <1>3, <2>2
    <3>2. Coming(sock[turn], turn, <<>>)
      BY <1>0 DEF OneInv
    <3>3. PICK j \in 1 .. Len(sock[turn]) : j = i - Len(stdin)
      BY <3>1
    <3>4. /\ sock[turn][j].from = turn /\ sock[turn][j].line = Served(turn) + 1
          /\ sock[turn][j].ends => j = Len(sock[turn]) /\ sent[turn] = Served(turn) + 1
      BY <3>2 DEF Coming
    <3>5. j = Len(sock[turn]) => i = Len(stdin')
      BY <1>3, <3>3
    <3> QED
      BY <3>1, <3>3, <3>4, <3>5
  <2> QED
    BY <2>1, <2>2
<1>5. ASSUME NEW c \in Clients \ {turn}
      PROVE  /\ Coming(sock[c], c, <<>>)'
             /\ sent'[c] = Served(c)' /\ ~half'[c] => sock'[c] = <<>> /\ turn' # c
  BY <1>1, <1>2 DEF OneInv, Coming
<1>6. /\ Coming(sock[turn], turn, <<>>)'
      /\ ~(sent'[turn] = Served(turn)' /\ ~half'[turn])
  <2>1. Len(<<>>) = 0
    BY EmptySeq
  <2>2. \A i \in 1 .. Len(<<>>) : FALSE
    BY <2>1
  <2>3. Served(turn)' = Served(turn)
    BY <1>1, <1>2 DEF Served
  <2> QED
    BY <1>0, <1>1, <2>2, <2>3 DEF OneInv, Coming
<1>7. RedirectedLine'
  BY <1>1 DEF OneInv, RedirectedLine
<1>8. ASSUME NEW c \in Clients
      PROVE  /\ Coming(sock[c], c, <<>>)'
             /\ sent'[c] \in {Served(c)', Served(c)' + 1}
             /\ half'[c] => sent'[c] = Served(c)'
             /\ sent'[c] = Served(c)' /\ ~half'[c] => sock'[c] = <<>> /\ (turn' = c => stdin' = <<>>)
  <2>1. PICK t \in Clients : t = turn /\ turn' = t
    BY <1>0, <1>1
  <2>2. CASE c = t
    BY <1>1, <1>2, <1>6, <2>1, <2>2 DEF OneInv, Coming
  <2>3. CASE c # t
    BY <1>1, <1>2, <1>5, <2>1, <2>3 DEF OneInv
  <2> QED
    BY <2>2, <2>3
<1> QED
  BY <1>1, <1>4, <1>7, <1>8 DEF OneInv

(* The line is taken whole, and with it the buffer.                         *)
LEMMA FgetsOne == ASSUME TypeOK, OneInv, Fgets PROVE OneInv'
<1>0. turn \in Clients /\ stdin \in Seq(Segment)
  BY DEF TypeOK
<1>1. PICK k \in 1 .. Len(stdin) :
        /\ stdin[k].ends
        /\ ran' = Append(ran, [for |-> turn, line |-> SubSeq(stdin, 1, k)])
        /\ SubSeq(stdin, 1, k) \in Seq(Segment) /\ Len(SubSeq(stdin, 1, k)) = k
        /\ \A i \in 1 .. k : SubSeq(stdin, 1, k)[i] = stdin[i]
        /\ stdin' \in Seq(Segment) /\ Len(stdin') = Len(stdin) - k
  BY FgetsParts
<1>2. UNCHANGED <<sent, half, sock, turn>> /\ pc' = "run" /\ pc = "fgets" /\ Len(stdin) \in Nat
  BY <1>0, LenProperties DEF Fgets, input
<1>3. PICK t \in Clients : t = turn /\ turn' = t
  BY <1>0, <1>2
<1>4. /\ \A i \in 1 .. Len(stdin) :
           /\ stdin[i].from = t /\ stdin[i].line = Served(t) + 1
           /\ stdin[i].ends => i = Len(stdin) /\ sock[t] = <<>> /\ sent[t] = Served(t) + 1
      /\ k = Len(stdin) /\ sock[t] = <<>> /\ sent[t] = Served(t) + 1
  BY <1>1, <1>3 DEF OneInv, Coming
<1>5. stdin' = <<>>
  <2>1. Len(stdin') = 0
    <3>1. k = Len(stdin)
      BY <1>4
    <3>2. Len(stdin') = Len(stdin) - k
      BY <1>1
    <3> QED
      BY <1>2, <3>1, <3>2
  <2>2. stdin' # <<>> => Len(stdin') \in Nat \ {0}
    BY <1>1, EmptySeq
  <2> QED
    BY <2>1, <2>2
<1> DEFINE r == [for |-> turn, line |-> SubSeq(stdin, 1, k)]
<1>6. /\ r.for = t /\ r.line = SubSeq(stdin, 1, k)
      /\ ran' = Append(ran, r)
  BY <1>1, <1>3
<1> HIDE DEF r
<1>7. \A d : Served(d)' = IF d = t THEN Served(d) + 1 ELSE Served(d)
  BY <1>6, DoneMore
<1>8. /\ Len(ran') = Len(ran) + 1 /\ Len(ran) \in Nat
      /\ \A i \in 1 .. Len(ran) : ran'[i] = ran[i]
      /\ ran'[Len(ran) + 1] = r
  BY <1>6, RunMore
<1>9. RedirectedLine'
  <2> DEFINE Whole(q) ==
        /\ \A g \in ToSet(q.line) : g.from = q.for /\ g.line = q.line[1].line
        /\ \A j \in 1 .. Len(q.line) : q.line[j].ends <=> j = Len(q.line)
  <2>1. Whole(r)
    <3>1. \A j \in 1 .. k : /\ r.line[j].from = t /\ r.line[j].line = Served(t) + 1
                            /\ r.line[j].ends <=> j = k
      BY <1>1, <1>2, <1>4, <1>6
    <3>2. ToSet(r.line) = {r.line[j] : j \in 1 .. k} /\ 1 \in 1 .. k /\ Len(r.line) = k
      BY <1>1, <1>2, <1>6, LenProperties DEF ToSet
    <3> QED
      BY <1>6, <3>1, <3>2
  <2>2. \A i \in 1 .. Len(ran) : Whole(ran[i])
    BY DEF OneInv, RedirectedLine
  <2>3. \A i \in 1 .. Len(ran') : Whole(ran'[i])
    <3>1. \A i \in 1 .. Len(ran') : i \in 1 .. Len(ran) \/ i = Len(ran) + 1
      BY <1>8
    <3> HIDE DEF Whole
    <3> QED
      BY <1>8, <2>1, <2>2, <3>1
  <2> QED
    BY <2>3 DEF RedirectedLine
<1>10. ASSUME NEW c \in Clients
       PROVE  /\ Coming(sock[c], c, <<>>)'
              /\ sent'[c] \in {Served(c)', Served(c)' + 1}
              /\ half'[c] => sent'[c] = Served(c)'
              /\ sent'[c] = Served(c)' /\ ~half'[c] => sock'[c] = <<>> /\ (turn' = c => stdin' = <<>>)
  <2>1. Served(c) \in Nat /\ Served(t) \in Nat
    BY CountNat
  <2>2. CASE c = t
    <3>1. ~half[c]
      BY <1>4, <2>1, <2>2 DEF OneInv
    <3>2. sock'[c] = <<>> /\ \A i \in 1 .. Len(<<>>) : FALSE
      <4>1. Len(<<>>) = 0
        BY EmptySeq
      <4> QED
        BY <1>2, <1>4, <2>2, <4>1
    <3> QED
      BY <1>2, <1>4, <1>5, <1>7, <2>2, <3>1, <3>2 DEF Coming
  <2>3. CASE c # t
    BY <1>2, <1>5, <1>7, <2>3 DEF OneInv, Coming
  <2> QED
    BY <2>2, <2>3
<1>11. Coming(stdin, turn, sock[turn])'
  <2>1. Len(<<>>) = 0
    BY EmptySeq
  <2>2. \A i \in 1 .. Len(stdin') : FALSE
    BY <1>5, <2>1
  <2> QED
    BY <2>2 DEF Coming
<1> QED
  BY <1>2, <1>5, <1>9, <1>10, <1>11 DEF OneInv

(* The turn passes on with an empty buffer.                                 *)
LEMMA OthersOne ==
  ASSUME TypeOK, OneInv, UNCHANGED <<sent, half, sock, stdin, ran>>,
         \/ pc' = pc /\ turn' = turn
         \/ pc # "fgets"
  PROVE  OneInv'
<1>1. \A c : Served(c)' = Served(c)
  BY DEF Served
<1>2. \A c \in Clients : Coming(sock[c], c, <<>>) => Coming(sock[c], c, <<>>)'
  BY <1>1 DEF Coming
<1>3. RedirectedLine' /\ (pc' # "fgets" => stdin' = <<>>)
  BY DEF OneInv, RedirectedLine
<1>4. CASE pc' = pc /\ turn' = turn
  <2>1. Coming(stdin, turn, sock[turn])'
    BY <1>1, <1>4 DEF OneInv, Coming
  <2> QED
    BY <1>1, <1>2, <1>3, <1>4, <2>1 DEF OneInv
<1>5. CASE pc # "fgets"
  <2>1. stdin' = <<>> /\ \A i \in 1 .. Len(<<>>) : FALSE
    <3>1. Len(<<>>) = 0
      BY EmptySeq
    <3> QED
      BY <1>5, <3>1 DEF OneInv
  <2>2. Coming(stdin, turn, sock[turn])'
    BY <2>1 DEF Coming
  <2> QED
    BY <1>1, <1>2, <1>3, <2>1, <2>2 DEF OneInv
<1> QED
  BY <1>4, <1>5

(* Clients that wait for the prompt go on doing so.                         *)
LEMMA SameBurst == [Next]_vars => burst' = burst
BY DEF Next, Server, Select, Turn, Fill, Fgets, Run, Send, Quiet, vars, input

(* Every step keeps it.                                                     *)
LEMMA NextOne == TypeOK /\ (burst = 1 => OneInv) /\ [Next]_vars => (burst = 1 => OneInv)'
<1> SUFFICES ASSUME burst = 1, TypeOK, OneInv, [Next]_vars PROVE OneInv'
  BY SameBurst
<1>1. CASE Fill
  BY <1>1, FillOne
<1>2. CASE Fgets
  BY <1>2, FgetsOne
<1>3. ASSUME NEW c \in Clients, NEW e \in BOOLEAN, Send(c, e) PROVE OneInv'
  BY <1>3, SendOne
<1>4. CASE Select \/ Turn \/ Run
  BY <1>4, OthersOne DEF Select, Turn, Run, input
<1>5. CASE Quiet \/ UNCHANGED vars
  BY <1>5, OthersOne DEF Quiet, vars, input
<1> QED
  BY <1>1, <1>2, <1>3, <1>4, <1>5 DEF Next, Server

-----------------------------------------------------------------------------
(* With the environment each step is one of the input loop, or none.        *)
LEMMA TurnSteps == [TurnNext]_turnVars => [Next]_vars
<1> SUFFICES ASSUME [TurnNext]_turnVars PROVE [Next]_vars
  OBVIOUS
<1>1. CASE TurnServer
  BY <1>1 DEF TurnServer, Begin, SetEnv, Look, Rest, Next, Server
<1>2. ASSUME NEW c \in Clients, (\E e \in BOOLEAN : Send(c, e)) \/ Login(c) PROVE [Next]_vars
  BY <1>2 DEF Login, Next
<1>3. CASE Quiet \/ UNCHANGED turnVars
  BY <1>3 DEF turnVars, Next
<1> QED
  BY <1>1, <1>2, <1>3 DEF TurnNext

(* Every variable of the input loop keeps its type.                         *)
THEOREM InputTypeCorrect == Spec => []TypeOK
<1> QED
  BY InitType, NextType, PTL DEF Spec

(* Each client's lines are executed in the order it typed them and each     *)
(* once, also when it types ahead and its lines run in others' turns.       *)
THEOREM AlwaysInOrder == Spec => []InOrder
<1>1. OrderInv => InOrder
  BY DEF OrderInv
<1> QED
  BY <1>1, InitType, NextType, InitOrder, NextOrder, PTL DEF Spec

(* Clients that wait for the prompt have their own lines executed, whole.   *)
(* One that does not has not (run RwgInput_burst).                          *)
THEOREM AlwaysOwnLine == Spec => []OwnLine
<1>1. (burst = 1 => OneInv) => OwnLine
  BY DEF OneInv, OwnLine
<1>2. Init => (burst = 1 => OneInv)
  BY InitOne
<1> QED
  BY <1>1, <1>2, InitType, NextType, NextOne, PTL DEF Spec

(* The same with the environment around it.                                 *)
THEOREM TurnInOrder == TurnSpec => [](TypeOK /\ InOrder)
<1>1. OrderInv => InOrder
  BY DEF OrderInv
<1>2. TurnInit => Init
  BY DEF TurnInit
<1> QED
  BY <1>1, <1>2, TurnSteps, InitType, NextType, InitOrder, NextOrder, PTL DEF TurnSpec

(* And a line is its own client's, when the clients wait for the prompt.    *)
THEOREM TurnOwnLine == TurnSpec => []OwnLine
<1>1. (burst = 1 => OneInv) => OwnLine
  BY DEF OneInv, OwnLine
<1>2. TurnInit => Init /\ (burst = 1 => OneInv)
  BY InitOne DEF TurnInit
<1> QED
  BY <1>1, <1>2, TurnSteps, InitType, NextType, NextOne, PTL DEF TurnSpec

-----------------------------------------------------------------------------
(* The environment.                                                         *)

Settings == [Vars -> Values \cup {Unset}]

Domains ==
  /\ turn \in Clients /\ rfds \subseteq Clients
  /\ environ \in [Vars -> Values \cup {Unset, Default}]
  /\ wants \in [Clients -> Settings] /\ env_map = wants
  /\ touched \subseteq Vars

\* Whoever has set a variable has touched it.
SetIsTouched ==
  \A c \in Clients, v \in Vars : wants[c][v] # Unset => v \in touched

\* Between two turns nobody's settings are in the environment.
Between ==
  pc \in {"select", "scan"} =>
    \A v \in Vars \ {"PATH"} : environ[v] = IF v \in touched THEN Unset ELSE Start[v]

EnvInv == Domains /\ SetIsTouched /\ Between /\ OwnEnv

-----------------------------------------------------------------------------
(* The environment is the server's own.                                     *)
LEMMA InitEnv == TurnInit => EnvInv
BY RwgTurnAssumption
   DEF TurnInit, Init, EnvInv, Domains, Settings, SetIsTouched, Between, OwnEnv, Empty

(* The steps of the input loop that are not the begin or the end of a turn. *)
LEMMA OtherSteps ==
  ASSUME EnvInv, UNCHANGED envVars, turn' = turn, rfds' \subseteq Clients,
         \/ pc' = pc
         \/ pc = "select" /\ pc' = "scan"
         \/ pc = "fgets" /\ pc' = "run"
  PROVE  EnvInv'
BY DEF EnvInv, Domains, Settings, SetIsTouched, Between, OwnEnv, Own, envVars

(* A turn begins: the client's settings go over what is there.              *)
LEMMA BeginKeeps == ASSUME EnvInv, Begin PROVE EnvInv'
<1> USE DEF EnvInv, Domains, Settings
<1>1. CASE pc' = "select"
  BY <1>1 DEF Begin, Turn, SetIsTouched, Between, OwnEnv, Own
<1>2. CASE pc' = "fgets"
  <2> DEFINE base == [environ EXCEPT !["PATH"] = Default]
  <2>1. pc = "scan" /\ turn' \in Clients /\ rfds' \subseteq Clients
    BY <1>2 DEF Begin, Turn
  <2>2. environ' = Over(base, wants[turn'])
    BY <1>2 DEF Begin
  <2>3. env_map' = wants' /\ wants' = wants /\ touched' = touched
    BY DEF Begin
  <2>4. \A v \in Vars : base[v] = IF v = "PATH" THEN Default
                                  ELSE IF v \in touched THEN Unset ELSE Start[v]
    BY <2>1, RwgTurnAssumption DEF Between
  <2>5. base \in [Vars -> Values \cup {Unset, Default}]
    OBVIOUS
  <2> HIDE DEF base
  <2>6. wants[turn'] \in [Vars -> Values \cup {Unset}]
    BY <2>1
  <2>7. environ' \in [Vars -> Values \cup {Unset, Default}]
    BY <2>2, <2>5, <2>6 DEF Over
  <2>8. \A v \in Vars : environ'[v] = Own(turn, v)'
    BY <2>2, <2>3, <2>4 DEF Over, Own
  <2> QED
    BY <1>2, <2>1, <2>3, <2>7, <2>8 DEF SetIsTouched, Between, OwnEnv
<1> QED
  BY <1>1, <1>2 DEF Begin, Turn

(* A turn ends: what is left is the environment without anybody's settings. *)
LEMMA CleanedKeeps ==
  ASSUME NEW e \in [Vars -> Values \cup {Unset, Default}], NEW s \in Settings
  PROVE  /\ Cleaned(e, s) \in [Vars -> Values \cup {Unset, Default}]
         /\ \A v \in Vars \ {"PATH"} :
               Cleaned(e, s)[v] = IF s[v] # Unset THEN Unset ELSE e[v]
BY DEF Cleaned, Settings

(* A turn that sets nothing.                                                *)
LEMMA LookKeeps == ASSUME EnvInv, Look PROVE EnvInv'
<1> USE DEF EnvInv, Domains
<1>1. environ' = Cleaned(environ, wants[turn]) /\ wants[turn] \in Settings
  BY DEF Look
<1>2. /\ environ' \in [Vars -> Values \cup {Unset, Default}]
      /\ \A v \in Vars \ {"PATH"} :
           environ'[v] = IF wants[turn][v] # Unset THEN Unset ELSE environ[v]
  BY <1>1, CleanedKeeps
<1>3. \A v \in Vars \ {"PATH"} :
        environ'[v] = IF v \in touched THEN Unset ELSE Start[v]
  BY <1>2 DEF Look, Run, OwnEnv, Own, SetIsTouched
<1> QED
  BY <1>2, <1>3 DEF Look, Run, SetIsTouched, Between, OwnEnv

(* setenv: what is set is set for this client, touched, and removed again.  *)
LEMMA SetEnvKeeps == ASSUME EnvInv, SetEnv PROVE EnvInv'
<1> USE DEF EnvInv, Domains
<1>1. PICK u \in Vars, x \in Values :
        /\ environ' = Cleaned([environ EXCEPT ![u] = x], [wants[turn] EXCEPT ![u] = x])
        /\ env_map' = [wants EXCEPT ![turn] = [wants[turn] EXCEPT ![u] = x]]
        /\ wants' = [wants EXCEPT ![turn][u] = x]
        /\ touched' = touched \cup {u}
  BY DEF SetEnv
<1> DEFINE set == [wants[turn] EXCEPT ![u] = x]
           e == [environ EXCEPT ![u] = x]
<1>2. set \in Settings /\ e \in [Vars -> Values \cup {Unset, Default}]
  BY DEF Settings
<1>3. wants' \in [Clients -> Settings] /\ env_map' = wants'
  BY <1>1, <1>2
<1>4. /\ environ' \in [Vars -> Values \cup {Unset, Default}]
      /\ \A v \in Vars \ {"PATH"} : environ'[v] = IF set[v] # Unset THEN Unset ELSE e[v]
  <2> HIDE DEF set, e
  <2> QED
    BY <1>1, <1>2, CleanedKeeps DEF set, e
<1>5. x # Unset
  BY RwgTurnAssumption
<1>6. \A v \in Vars \ {"PATH"} :
        environ'[v] = IF v \in touched' THEN Unset ELSE Start[v]
  BY <1>1, <1>4, <1>5 DEF SetEnv, Run, OwnEnv, Own, SetIsTouched, Settings
<1>7. SetIsTouched'
  BY <1>1, <1>5 DEF SetIsTouched, Settings
<1> QED
  BY <1>1, <1>3, <1>4, <1>6, <1>7 DEF SetEnv, Run, Between, OwnEnv

(* A new client has asked for nothing, and its slot's map is empty.         *)
LEMMA LoginKeeps == ASSUME EnvInv, NEW c \in Clients, Login(c) PROVE EnvInv'
<1>1. Empty \in Settings
  BY DEF Empty, Settings
<1> QED
  BY <1>1 DEF Login, vars, input, EnvInv, Domains, SetIsTouched, Between, OwnEnv, Own, Empty

(* Every step keeps the invariant of the environment.                       *)
LEMMA NextEnv == EnvInv /\ [TurnNext]_turnVars => EnvInv'
<1> SUFFICES ASSUME EnvInv, [TurnNext]_turnVars PROVE EnvInv'
  OBVIOUS
<1>0. rfds \subseteq Clients
  BY DEF EnvInv, Domains
<1>1. CASE Begin
  BY <1>1, BeginKeeps
<1>2. CASE SetEnv
  BY <1>2, SetEnvKeeps
<1>3. CASE Look
  BY <1>3, LookKeeps
<1>4. CASE Rest /\ UNCHANGED envVars
  BY <1>0, <1>4, OtherSteps DEF Rest, Select, Fill, Fgets
<1>5. ASSUME NEW c \in Clients, NEW b \in BOOLEAN, Send(c, b), UNCHANGED envVars
      PROVE  EnvInv'
  BY <1>0, <1>5, OtherSteps DEF Send
<1>6. ASSUME NEW c \in Clients, Login(c) PROVE EnvInv'
  BY <1>6, LoginKeeps
<1>7. CASE UNCHANGED turnVars \/ (Quiet /\ UNCHANGED envVars)
  BY <1>0, <1>7, OtherSteps DEF Quiet, turnVars, vars
<1> QED
  BY <1>1, <1>2, <1>3, <1>4, <1>5, <1>6, <1>7 DEF TurnNext, TurnServer

(* While a client's line runs, its variables are its own: another's never   *)
(* show, also not those of the slot's former user.                          *)
THEOREM AlwaysOwnEnv == TurnSpec => []OwnEnv
<1>1. EnvInv => OwnEnv
  BY DEF EnvInv
<1> QED
  BY InitEnv, NextEnv, <1>1, PTL DEF TurnSpec

(* Every variable of the turns and of the environment keeps its type.       *)
THEOREM TurnTypeCorrect == TurnSpec => []TurnTypeOK
<1>1. TypeOK /\ EnvInv => TurnTypeOK
  BY DEF TurnTypeOK, EnvInv, Domains, Settings
<1>2. TurnInit => Init
  BY DEF TurnInit
<1> QED
  BY InitEnv, NextEnv, InitType, NextType, TurnSteps, <1>1, <1>2, PTL DEF TurnSpec
=============================================================================

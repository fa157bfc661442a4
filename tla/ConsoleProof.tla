----------------------------- MODULE ConsoleProof -----------------------------
(***************************************************************************)
(* Theorems about a session of the console, for any length of the command  *)
(* file, any outputs, any length of the buffer and any cut of the stream.  *)
(*                                                                         *)
(* That a line is sent only to a shell that waits rests on what lies in    *)
(* the stream: until an output holds "% " itself, a "% " in it comes last, *)
(* so a read that has seen one has emptied the stream.  That the page is   *)
(* in order rests on pacing: what is in the stream belongs to the last     *)
(* command shown.                                                          *)
(***************************************************************************)
EXTENDS Console, SequenceTheorems, FiniteSetTheorems, TLAPS

Unit == {"o", "%", " ", "cmd"} \X Nat

Domains ==
  /\ sent \in Nat /\ ran \in Nat
  /\ page \in Seq(Unit) /\ stream \in Seq(Unit)
  /\ shell \in {"busy", "prompt", "gone"}

\* What the shell has said and nobody has read.
Unread(s, k) ==
  /\ \A i \in 1 .. Len(s) : s[i][1] # "cmd" /\ s[i][2] = k
  /\ \A i \in 1 .. Len(s) - 1 : s[i][1] = "%" /\ s[i + 1][1] = " " => i + 1 = Len(s)

InStep ==
  /\ stream # << >> => shell # "busy" /\ ran = sent /\ pc # "write"
  /\ shell = "busy" => stream = << >> /\ ran = sent /\ pc # "write"
  /\ \/ sent = ran
     \/ sent = ran + 1 /\ pc # "write"

\* The commands among the first k units of a page.
Cmds(p, k) == {j \in 1 .. k : p[j][1] = "cmd"}

\* A page of n commands on which every unit stands where it belongs.
Told(p) ==
  \A i \in 1 .. Len(p) :
    p[i][2] = IF p[i][1] = "cmd" THEN Cardinality(Cmds(p, i - 1)) + 1
              ELSE Cardinality(Cmds(p, i - 1))
OnPage(p, n) == p \in Seq(Unit) /\ Told(p) /\ Cardinality(Cmds(p, Len(p))) = n

Listed(s, at) == IF at = "shown" THEN s - 1 ELSE s

CInv == Domains /\ Unread(stream, ran) /\ InStep /\ OnPage(page, Listed(sent, pc))

-----------------------------------------------------------------------------
LEMMA PageEmpty == OnPage(<< >>, 0)
<1> DEFINE p == << >>
<1>1. p \in Seq(Unit) /\ Len(p) = 0
  OBVIOUS
<1> HIDE DEF p
<1>2. Cmds(p, Len(p)) = {}
  BY <1>1 DEF Cmds
<1>3. Cardinality(Cmds(p, Len(p))) = 0
  BY <1>2, FS_EmptySet
<1>4. Told(p)
  BY <1>1 DEF Told
<1>5. OnPage(p, 0)
  BY <1>1, <1>3, <1>4 DEF OnPage
<1> QED
  BY <1>5 DEF p

LEMMA InitCInv == Init => CInv
<1> SUFFICES ASSUME Init PROVE CInv
  OBVIOUS
<1>1. Domains /\ Len(stream) = 0
  BY DEF Init, Domains
<1>2. OnPage(page, Listed(sent, pc))
  BY PageEmpty DEF Init, Listed
<1> QED
  BY <1>1, <1>2 DEF CInv, Unread, InStep, Init

(* What is added to a page leaves the commands before it alone.             *)
LEMMA Longer ==
  ASSUME NEW p \in Seq(Unit), NEW s \in Seq(Unit), NEW k \in 0 .. Len(p)
  PROVE  /\ p \o s \in Seq(Unit) /\ Len(p \o s) = Len(p) + Len(s)
         /\ \A i \in 1 .. Len(p) : (p \o s)[i] = p[i]
         /\ \A i \in 1 .. Len(s) : (p \o s)[Len(p) + i] = s[i]
         /\ Cmds(p \o s, k) = Cmds(p, k)
<1>1. /\ p \o s \in Seq(Unit) /\ Len(p \o s) = Len(p) + Len(s)
      /\ \A i \in 1 .. Len(p) + Len(s) :
           (p \o s)[i] = IF i <= Len(p) THEN p[i] ELSE s[i - Len(p)]
  BY ConcatProperties
<1>2. Len(p) \in Nat /\ Len(s) \in Nat
  BY LenProperties
<1>3. \A i \in 1 .. Len(p) : (p \o s)[i] = p[i]
  BY <1>1, <1>2
<1>4. ASSUME NEW i \in 1 .. Len(s) PROVE (p \o s)[Len(p) + i] = s[i]
  BY <1>1, <1>2
<1>5. Cmds(p \o s, k) = Cmds(p, k)
  BY <1>2, <1>3 DEF Cmds
<1> QED
  BY <1>1, <1>3, <1>4, <1>5

(* A page that grows by what the shell has said after its last command.     *)
LEMMA Said ==
  ASSUME NEW p \in Seq(Unit), NEW s \in Seq(Unit),
         \A i \in 1 .. Len(s) : s[i][1] # "cmd" /\ s[i][2] = Cardinality(Cmds(p, Len(p)))
  PROVE  /\ Cmds(p \o s, Len(p \o s)) = Cmds(p, Len(p))
         /\ \A i \in 1 .. Len(s) : Cmds(p \o s, Len(p) + i - 1) = Cmds(p, Len(p))
<1> DEFINE q == p \o s
<1>1. Len(p) \in Nat /\ Len(s) \in Nat
  BY LenProperties
<1>2. /\ Len(q) = Len(p) + Len(s)
      /\ \A i \in 1 .. Len(p) : q[i] = p[i]
      /\ \A i \in 1 .. Len(s) : q[Len(p) + i] = s[i]
  BY <1>1, Longer
<1> HIDE DEF q
<1>3. \A j \in 1 .. Len(p) + Len(s) : ~(j <= Len(p)) => q[j][1] # "cmd"
  <2> TAKE j \in 1 .. Len(p) + Len(s)
  <2> HAVE ~(j <= Len(p))
  <2>1. PICK i \in 1 .. Len(s) : j = Len(p) + i
    <3>1. j - Len(p) \in 1 .. Len(s) /\ j = Len(p) + (j - Len(p))
      BY <1>1
    <3> QED
      BY <3>1
  <2>2. q[j] = s[i]
    BY <1>2, <2>1
  <2> QED
    BY <2>2
<1>4. ASSUME NEW k \in Len(p) .. Len(p) + Len(s) PROVE Cmds(q, k) = Cmds(p, Len(p))
  BY <1>1, <1>2, <1>3 DEF Cmds
<1>5. /\ Len(q) \in Len(p) .. Len(p) + Len(s)
      /\ \A i \in 1 .. Len(s) : Len(p) + i - 1 \in Len(p) .. Len(p) + Len(s)
  BY <1>1, <1>2
<1> QED
  BY <1>4, <1>5 DEF q

(* What the shell has said after the last command is shown.                 *)
LEMMA PageSaid ==
  ASSUME NEW p, NEW n, OnPage(p, n), NEW s \in Seq(Unit),
         \A i \in 1 .. Len(s) : s[i][1] # "cmd" /\ s[i][2] = n
  PROVE  OnPage(p \o s, n)
<1> DEFINE q == p \o s
           m == Len(p)
           l == Len(s)
<1>1. /\ p \in Seq(Unit) /\ Told(p) /\ Cardinality(Cmds(p, m)) = n
      /\ m \in Nat /\ l \in Nat
  BY LenProperties DEF OnPage
<1>2. /\ q \in Seq(Unit) /\ Len(q) = m + l
      /\ \A i \in 1 .. m : q[i] = p[i]
      /\ \A i \in 1 .. l : q[m + i] = s[i]
      /\ \A k \in 0 .. m : Cmds(q, k) = Cmds(p, k)
  <2>1. 0 \in 0 .. m
    BY <1>1
  <2> QED
    BY <1>1, <2>1, Longer
<1>3. /\ Cmds(q, Len(q)) = Cmds(p, m)
      /\ \A i \in 1 .. l : Cmds(q, m + i - 1) = Cmds(p, m)
  BY <1>1, Said
<1> HIDE DEF q
<1>4. ASSUME NEW i \in 1 .. Len(q)
      PROVE  q[i][2] = IF q[i][1] = "cmd" THEN Cardinality(Cmds(q, i - 1)) + 1
                       ELSE Cardinality(Cmds(q, i - 1))
  <2>1. CASE i \in 1 .. m
    <3>1. i - 1 \in 0 .. m
      BY <1>1, <2>1
    <3>2. p[i][2] = IF p[i][1] = "cmd" THEN Cardinality(Cmds(p, i - 1)) + 1
                    ELSE Cardinality(Cmds(p, i - 1))
      BY <1>1, <2>1 DEF Told
    <3> QED
      BY <1>2, <2>1, <3>1, <3>2
  <2>2. CASE ~(i \in 1 .. m)
    <3>1. PICK k \in 1 .. l : i = m + k
      <4>1. i - m \in 1 .. l /\ i = m + (i - m)
        BY <1>1, <1>2, <2>2
      <4> QED
        BY <4>1
    <3>2. q[i][1] # "cmd" /\ q[i][2] = n
      BY <1>2, <3>1
    <3>3. Cmds(q, m + k - 1) = Cmds(p, m) /\ i - 1 = m + k - 1
      BY <1>3, <3>1
    <3>4. Cardinality(Cmds(q, i - 1)) = n
      BY <1>1, <3>3
    <3> QED
      BY <3>2, <3>4
  <2> QED
    BY <2>1, <2>2
<1>5. Told(q)
  BY <1>4 DEF Told
<1>6. Cardinality(Cmds(q, Len(q))) = n
  BY <1>1, <1>3
<1>7. OnPage(q, n)
  BY <1>2, <1>5, <1>6 DEF OnPage
<1> QED
  BY <1>7 DEF q

(* The next command is shown.                                               *)
LEMMA PageCmd ==
  ASSUME NEW p, NEW n, OnPage(p, n)
  PROVE  n \in Nat /\ OnPage(Append(p, <<"cmd", n + 1>>), n + 1)
<1> DEFINE new == <<"cmd", n + 1>>
           q == Append(p, new)
           m == Len(p)
<1>1. /\ p \in Seq(Unit) /\ Told(p) /\ Cardinality(Cmds(p, m)) = n /\ m \in Nat
  BY LenProperties DEF OnPage
<1>0. IsFiniteSet(Cmds(p, m)) /\ m + 1 \notin Cmds(p, m)
  <2>1. IsFiniteSet(1 .. m) /\ Cmds(p, m) \in SUBSET (1 .. m)
    BY <1>1, FS_Interval DEF Cmds
  <2>2. m + 1 \notin 1 .. m
    BY <1>1
  <2> QED
    BY <2>1, <2>2, FS_Subset
<1>n. n \in Nat
  BY <1>0, <1>1, FS_CardinalityType
<1>2. /\ q \in Seq(Unit) /\ Len(q) = m + 1
      /\ \A i \in 1 .. m : q[i] = p[i]
      /\ q[m + 1] = new
  <2>1. new \in Unit
    <3>1. n + 1 \in Nat
      BY <1>n
    <3> QED
      BY <3>1 DEF Unit
  <2> HIDE DEF new
  <2> QED
    BY <1>1, <2>1, AppendProperties
<1> HIDE DEF q
<1>3. \A k \in 0 .. m : Cmds(q, k) = Cmds(p, k)
  BY <1>1, <1>2 DEF Cmds
<1>4. Cmds(q, m + 1) = Cmds(p, m) \cup {m + 1}
  BY <1>1, <1>2 DEF Cmds
<1>6. Cardinality(Cmds(q, m + 1)) = n + 1
  BY <1>0, <1>1, <1>4, FS_AddElement
<1>7. ASSUME NEW i \in 1 .. Len(q)
      PROVE  q[i][2] = IF q[i][1] = "cmd" THEN Cardinality(Cmds(q, i - 1)) + 1
                       ELSE Cardinality(Cmds(q, i - 1))
  <2>1. CASE i \in 1 .. m
    <3>1. i - 1 \in 0 .. m
      BY <1>1, <2>1
    <3>2. p[i][2] = IF p[i][1] = "cmd" THEN Cardinality(Cmds(p, i - 1)) + 1
                    ELSE Cardinality(Cmds(p, i - 1))
      BY <1>1, <2>1 DEF Told
    <3> QED
      BY <1>2, <1>3, <2>1, <3>1, <3>2
  <2>2. CASE i = m + 1
    <3>1. i - 1 = m /\ m \in 0 .. m
      BY <1>1, <2>2
    <3>2. Cardinality(Cmds(q, i - 1)) = n
      BY <1>1, <1>3, <3>1
    <3> QED
      BY <1>2, <2>2, <3>2
  <2> QED
    BY <1>1, <1>2, <2>1, <2>2
<1>8. Told(q)
  BY <1>7 DEF Told
<1>9. OnPage(q, n + 1)
  BY <1>2, <1>6, <1>8 DEF OnPage
<1> QED
  BY <1>9, <1>n DEF q

-----------------------------------------------------------------------------
(* Steps that leave the page alone.                                         *)
LEMMA PageKept ==
  ASSUME CInv, page' = page, sent' = sent, pc' = "shown" <=> pc = "shown"
  PROVE  OnPage(page, Listed(sent, pc))'
BY DEF CInv, Listed

LEMMA DialKeeps == ASSUME CInv, Dial PROVE CInv'
<1>1. /\ pc' \notin {"shown", "write"} /\ pc \notin {"shown", "write"}
      /\ UNCHANGED <<sent, page, stream, shell, ran>>
  BY DEF Dial, Direct, Through, shellVars
<1>2. OnPage(page, Listed(sent, pc))'
  BY <1>1, PageKept
<1> QED
  BY <1>1, <1>2 DEF CInv, Domains, InStep, Unread

LEMMA TakeKeeps == ASSUME CInv, Take PROVE CInv'
<1>1. OnPage(page, Listed(sent, pc))'
  BY PageKept DEF Take
<1>2. stream = << >> /\ ran' = sent /\ stream' = stream /\ pc' = pc /\ sent' = sent
  BY DEF CInv, Domains, InStep, Take
<1>3. pc # "write"
  BY DEF CInv, Domains, InStep, Take
<1>4. Len(stream') = 0
  BY <1>2
<1> QED
  BY <1>1, <1>2, <1>3, <1>4 DEF CInv, Domains, InStep, Unread, Take

LEMMA QuietKeeps ==
  ASSUME CInv, Lose \/ ReadEof \/ Over \/ Stuck \/ UNCHANGED vars PROVE CInv'
<1>1. UNCHANGED <<sent, page, stream, ran>>
  BY DEF Lose, ReadEof, Over, Stuck, vars, shellVars
<1>2. (pc' = "shown" <=> pc = "shown") /\ (pc' = "write" => pc = "write")
  BY DEF Lose, ReadEof, Over, Stuck, vars
<1>3. shell' = shell \/ shell' = "gone"
  BY DEF Lose, ReadEof, Over, Stuck, vars, shellVars
<1>4. OnPage(page, Listed(sent, pc))'
  BY <1>1, <1>2, PageKept
<1> QED
  BY <1>1, <1>2, <1>3, <1>4 DEF CInv, Domains, InStep, Unread

Sayable == {"o", "%", " "}

LEMMA PromptSayable ==
  /\ <<"%", " ">> \in Seq(Sayable) /\ Len(<<"%", " ">>) = 2
  /\ <<"%", " ">>[1] = "%"
<1>1. <<"%", " ">> \in Seq(Sayable)
  BY DEF Sayable
<1> QED
  BY <1>1

(* In an output with its prompt a "% " comes last, unless the output holds  *)
(* one itself.                                                              *)
LEMMA EndsInPrompt ==
  ASSUME NEW o \in Seq(Sayable), ~Lures(o), NEW t \in Seq(Sayable), Len(t) = 2, t[1] = "%"
  PROVE  /\ o \o t \in Seq(Sayable) /\ Len(o \o t) = Len(o) + 2
         /\ \A i \in 1 .. Len(o \o t) - 1 :
              (o \o t)[i] = "%" /\ (o \o t)[i + 1] = " " => i + 1 = Len(o \o t)
<1> DEFINE u == o \o t
<1>1. Len(o) \in Nat
  BY LenProperties
<1>2. /\ u \in Seq(Sayable) /\ Len(u) = Len(o) + 2
      /\ \A i \in 1 .. Len(o) + 2 : u[i] = IF i <= Len(o) THEN o[i] ELSE t[i - Len(o)]
  <2>1. /\ o \o t \in Seq(Sayable) /\ Len(o \o t) = Len(o) + Len(t)
        /\ \A i \in 1 .. Len(o) + Len(t) :
             (o \o t)[i] = IF i <= Len(o) THEN o[i] ELSE t[i - Len(o)]
    BY ConcatProperties
  <2> QED
    BY <2>1
<1> HIDE DEF u
<1>3. ASSUME NEW i \in 1 .. Len(u) - 1, u[i] = "%", u[i + 1] = " " PROVE i + 1 = Len(u)
  <2>1. i \in Nat /\ i \in 1 .. Len(o) + 2 /\ i + 1 \in 1 .. Len(o) + 2
    BY <1>1, <1>2
  <2>2. CASE i + 1 <= Len(o)
    <3>1. u[i] = o[i] /\ u[i + 1] = o[i + 1] /\ i \in 1 .. Len(o) - 1
      BY <1>1, <1>2, <2>1, <2>2
    <3> QED
      BY <1>3, <3>1 DEF Lures
  <2>3. CASE i = Len(o)
    <3>1. ~(i + 1 <= Len(o)) /\ i + 1 - Len(o) = 1
      BY <1>1, <2>3
    <3>2. u[i + 1] = t[i + 1 - Len(o)]
      BY <1>2, <2>1, <3>1
    <3> QED
      BY <1>3, <3>1, <3>2
  <2>4. CASE ~(i + 1 <= Len(o)) /\ i # Len(o)
    BY <1>1, <1>2, <2>1, <2>4
  <2> QED
    BY <2>2, <2>3, <2>4
<1> QED
  BY <1>2, <1>3 DEF u

\* What the shell says after command k: it ends in the prompt.
Prompted(o) == o \o <<"%", " ">>
Speech(o, k) == [i \in DOMAIN Prompted(o) |-> <<Prompted(o)[i], k>>]

LEMMA Says ==
  ASSUME NEW o \in Outputs, ~Lures(o), NEW k \in Nat
  PROVE  /\ DOMAIN Prompted(o) = 1 .. Len(o) + 2
         /\ Speech(o, k) \in Seq(Unit) /\ Unread(Speech(o, k), k)
<1> DEFINE t == <<"%", " ">>
           u == o \o t
           f == [i \in DOMAIN u |-> <<u[i], k>>]
<1>1. o \in Seq(Sayable)
  BY ConsoleAssumption DEF Sayable
<1>2. /\ u \in Seq(Sayable) /\ Len(u) = Len(o) + 2
      /\ \A i \in 1 .. Len(u) - 1 : u[i] = "%" /\ u[i + 1] = " " => i + 1 = Len(u)
  <2> HIDE DEF t
  <2>1. t \in Seq(Sayable) /\ Len(t) = 2 /\ t[1] = "%"
    BY PromptSayable DEF t
  <2> QED
    BY <1>1, <2>1, EndsInPrompt
<1> HIDE DEF u
<1>3. DOMAIN u = 1 .. Len(u) /\ Len(u) \in Nat /\ \A i \in 1 .. Len(u) : u[i] \in Sayable
  BY <1>2, LenProperties, ElementOfSeq
<1>4. /\ f \in Seq(Unit) /\ Len(f) = Len(u)
      /\ \A i \in 1 .. Len(u) : f[i] = <<u[i], k>>
  <2>1. \A i \in 1 .. Len(u) : <<u[i], k>> \in Unit
    BY <1>3 DEF Unit, Sayable
  <2>2. f \in [1 .. Len(u) -> Unit]
    BY <1>3, <2>1
  <2>3. f \in Seq(Unit) /\ Len(f) = Len(u)
    BY <1>3, <2>2
  <2> QED
    BY <1>3, <2>3
<1> HIDE DEF f
<1>5. ASSUME NEW i \in 1 .. Len(f) PROVE f[i][1] # "cmd" /\ f[i][2] = k
  <2>1. f[i][1] = u[i] /\ f[i][2] = k /\ u[i] \in Sayable
    BY <1>3, <1>4
  <2>2. u[i] # "cmd"
    BY <2>1 DEF Sayable
  <2> QED
    BY <2>1, <2>2
<1>8. ASSUME NEW i \in 1 .. Len(f) - 1, f[i][1] = "%", f[i + 1][1] = " "
      PROVE  i + 1 = Len(f)
  <2>1. i \in 1 .. Len(u) /\ i + 1 \in 1 .. Len(u) /\ i \in 1 .. Len(u) - 1
    BY <1>3, <1>4
  <2>2. f[i][1] = u[i] /\ f[i + 1][1] = u[i + 1]
    BY <1>4, <2>1
  <2> QED
    BY <1>2, <1>4, <1>8, <2>1, <2>2
<1>6. Unread(f, k)
  BY <1>5, <1>8 DEF Unread
<1>7. DOMAIN u = 1 .. Len(o) + 2
  BY <1>2, <1>3
<1> QED
  BY <1>4, <1>6, <1>7 DEF f, u, Speech, Prompted

LEMMA PromptKeeps == ASSUME CInv, Prompt, ~lured' PROVE CInv'
<1>1. PICK o \in Outputs : Say(o \o <<"%", " ">>) /\ ~Lures(o)
  BY DEF Prompt
<1> DEFINE f == Speech(o, ran)
<1>2. stream = << >> /\ ran = sent /\ ran \in Nat /\ stream' = stream \o f
  BY <1>1 DEF CInv, Domains, InStep, Prompt, Say, Speech, Prompted
<1>3. f \in Seq(Unit) /\ Unread(f, ran)
  BY <1>1, <1>2, Says
<1> HIDE DEF f
<1>4. stream' = f
  BY <1>2, <1>3, ConcatEmptySeq
<1>5. OnPage(page, Listed(sent, pc))'
  BY PageKept DEF Prompt
<1>6. UNCHANGED <<pc, sent, page, ran>> /\ shell' = "prompt" /\ pc # "write"
  BY DEF Prompt, CInv, InStep
<1>7. Unread(stream', ran')
  BY <1>3, <1>4, <1>6
<1> QED
  BY <1>2, <1>3, <1>4, <1>5, <1>6, <1>7 DEF CInv, Domains, InStep

LEMMA DoWriteKeeps == ASSUME CInv, DoWrite PROVE CInv'
<1>1. /\ pc = "write" /\ UNCHANGED <<page, stream, shell, ran>>
      /\ stream = << >> /\ shell # "busy" /\ sent = ran
  BY DEF CInv, Domains, InStep, DoWrite, shellVars
<1>2. CASE sent' = sent + 1 /\ pc' = "shown"
  <2>1. OnPage(page, Listed(sent, pc))'
    BY <1>1, <1>2 DEF CInv, Domains, Listed
  <2> QED
    BY <1>1, <1>2, <2>1 DEF CInv, Domains, InStep, Unread
<1>3. CASE sent' = sent /\ pc' = "over"
  <2>1. OnPage(page, Listed(sent, pc))'
    BY <1>1, <1>3, PageKept
  <2> QED
    BY <1>1, <1>3, <2>1 DEF CInv, Domains, InStep, Unread
<1> QED
  BY <1>2, <1>3 DEF DoWrite

(* The line sent is shown.                                                  *)
LEMMA ShownKeeps == ASSUME CInv, Shown PROVE CInv'
<1>1. sent \in Nat /\ OnPage(page, sent - 1)
  BY DEF CInv, Domains, Listed, Shown
<1>2. OnPage(Append(page, <<"cmd", sent - 1 + 1>>), sent - 1 + 1)
  BY <1>1, PageCmd
<1>3. sent - 1 + 1 = sent
  BY <1>1
<1>4. OnPage(page', sent)
  BY <1>2, <1>3 DEF Shown
<1>5. OnPage(page, Listed(sent, pc))'
  BY <1>4 DEF Shown, Listed
<1>6. page' \in Seq(Unit)
  BY <1>4 DEF OnPage
<1> QED
  BY <1>5, <1>6 DEF CInv, Domains, InStep, Shown, shellVars

(* A read takes the first n units.                                          *)
LEMMA Taken ==
  ASSUME NEW s \in Seq(Unit), NEW n \in 1 .. Len(s), NEW k, Unread(s, k)
  PROVE  LET head == SubSeq(s, 1, n)
             rest == SubSeq(s, n + 1, Len(s))
         IN  /\ head \in Seq(Unit) /\ rest \in Seq(Unit) /\ Len(head) = n
             /\ \A i \in 1 .. n : head[i] = s[i]
             /\ Unread(rest, k)
             /\ HasPrompt(head) => rest = << >>
<1> DEFINE head == SubSeq(s, 1, n)
           rest == SubSeq(s, n + 1, Len(s))
<1>0. Len(s) \in Nat /\ \A i \in 1 .. Len(s) : s[i] \in Unit
  BY LenProperties, ElementOfSeq
<1>1. /\ head \in Seq(Unit) /\ Len(head) = n
      /\ \A i \in 1 .. n : head[i] = s[i]
  <2>1. \A i \in 1 .. n : s[i] \in Unit
    BY <1>0
  <2>2. /\ head \in Seq(Unit) /\ Len(head) = IF 1 <= n THEN n - 1 + 1 ELSE 0
        /\ \A i \in 1 .. n - 1 + 1 : head[i] = s[1 + i - 1]
    BY <1>0, <2>1, SubSeqProperties
  <2> HIDE DEF head
  <2> QED
    BY <1>0, <2>2
<1>2. /\ rest \in Seq(Unit) /\ Len(rest) = Len(s) - n
      /\ \A i \in 1 .. Len(s) - n : rest[i] = s[n + i]
  <2>1. \A i \in n + 1 .. Len(s) : s[i] \in Unit
    BY <1>0
  <2>2. /\ rest \in Seq(Unit)
        /\ Len(rest) = IF n + 1 <= Len(s) THEN Len(s) - (n + 1) + 1 ELSE 0
        /\ \A i \in 1 .. Len(s) - (n + 1) + 1 : rest[i] = s[n + 1 + i - 1]
    BY <1>0, <2>1, SubSeqProperties
  <2> HIDE DEF rest
  <2> QED
    BY <1>0, <2>2
<1> HIDE DEF head, rest
<1>3. Unread(rest, k)
  <2>1. ASSUME NEW i \in 1 .. Len(rest) PROVE rest[i][1] # "cmd" /\ rest[i][2] = k
    <3>1. n + i \in 1 .. Len(s) /\ rest[i] = s[n + i]
      BY <1>0, <1>2
    <3> QED
      BY <3>1 DEF Unread
  <2>2. ASSUME NEW i \in 1 .. Len(rest) - 1, rest[i][1] = "%", rest[i + 1][1] = " "
        PROVE  i + 1 = Len(rest)
    <3>1. /\ n \in Nat /\ i \in Nat /\ i \in 1 .. Len(s) - n /\ i + 1 \in 1 .. Len(s) - n
          /\ n + i \in 1 .. Len(s) - 1 /\ n + (i + 1) = (n + i) + 1
      BY <1>0, <1>2
    <3>2. rest[i] = s[n + i] /\ rest[i + 1] = s[(n + i) + 1]
      BY <1>2, <3>1
    <3>3. (n + i) + 1 = Len(s)
      BY <2>2, <3>1, <3>2 DEF Unread
    <3>4. Len(rest) = Len(s) - n /\ Len(s) \in Nat
      BY <1>0, <1>2
    <3> QED
      BY <3>1, <3>3, <3>4
  <2> QED
    BY <2>1, <2>2 DEF Unread
<1>4. ASSUME HasPrompt(head) PROVE rest = << >>
  <2>1. PICK i \in 1 .. n - 1 : head[i][1] = "%" /\ head[i + 1][1] = " "
    BY <1>1, <1>4 DEF HasPrompt
  <2>2. i \in 1 .. n /\ i + 1 \in 1 .. n /\ i \in 1 .. Len(s) - 1
    BY <1>0
  <2>3. s[i][1] = "%" /\ s[i + 1][1] = " "
    BY <1>1, <2>1, <2>2
  <2>4. i + 1 = Len(s)
    BY <2>2, <2>3 DEF Unread
  <2>5. Len(rest) = 0
    BY <1>0, <1>2, <2>2, <2>4
  <2> QED
    BY <1>2, <2>5
<1> QED
  BY <1>1, <1>2, <1>3, <1>4 DEF head, rest

LEMMA DoReadKeeps == ASSUME CInv, DoRead PROVE CInv'
<1>1. PICK n \in 1 .. BufLen :
        /\ n <= Len(stream)
        /\ page' = page \o SubSeq(stream, 1, n)
        /\ stream' = SubSeq(stream, n + 1, Len(stream))
        /\ pc' = IF HasPrompt(SubSeq(stream, 1, n)) THEN "write" ELSE "read"
  BY DEF DoRead
<1> DEFINE head == SubSeq(stream, 1, n)
<1>2. /\ UNCHANGED <<sent, shell, ran>> /\ pc = "read" /\ ran = sent /\ shell # "busy"
      /\ sent \in Nat /\ stream \in Seq(Unit)
  BY DEF DoRead, shellVars, CInv, Domains, InStep
<1>3. n \in 1 .. Len(stream) /\ Unread(stream, ran)
  <2>1. BufLen \in Nat /\ Len(stream) \in Nat
    BY <1>2, LenProperties, ConsoleAssumption
  <2>2. n \in 1 .. Len(stream)
    BY <1>1, <2>1
  <2> QED
    BY <2>2 DEF CInv
<1>4. /\ head \in Seq(Unit) /\ stream' \in Seq(Unit) /\ Len(head) = n
      /\ \A i \in 1 .. n : head[i] = stream[i]
      /\ Unread(stream', ran)
      /\ HasPrompt(head) => stream' = << >>
  BY <1>1, <1>2, <1>3, Taken
<1>5. OnPage(page, sent)
  BY <1>2 DEF CInv, Listed
<1> HIDE DEF head
<1>6. \A i \in 1 .. n : head[i][1] # "cmd" /\ head[i][2] = sent
  <2> TAKE i \in 1 .. n
  <2>1. i \in 1 .. Len(stream)
    BY <1>2, <1>3, LenProperties
  <2>2. stream[i][1] # "cmd" /\ stream[i][2] = ran
    BY <1>3, <2>1 DEF Unread
  <2> QED
    BY <1>2, <1>4, <2>2
<1>7. page' = page \o head
  BY <1>1 DEF head
<1>8. OnPage(page', sent)
  BY <1>4, <1>5, <1>6, <1>7, PageSaid
<1>9. OnPage(page, Listed(sent, pc))'
  BY <1>1, <1>2, <1>8 DEF Listed
<1>10. InStep'
  <2>1. pc' = "write" => stream' = << >>
    BY <1>1, <1>4 DEF head
  <2> QED
    BY <1>2, <2>1 DEF InStep
<1>11. Domains'
  BY <1>2, <1>4, <1>8 DEF CInv, Domains, OnPage
<1>12. Unread(stream', ran')
  BY <1>2, <1>4
<1> QED
  BY <1>9, <1>10, <1>11, <1>12 DEF CInv

LEMMA AlwaysCInv == Spec => [](lured \/ CInv)
<1>1. (lured \/ CInv) /\ [Next]_vars => (lured \/ CInv)'
  <2> SUFFICES ASSUME lured \/ CInv, [Next]_vars, ~lured' PROVE CInv'
    OBVIOUS
  <2>1. ~lured
    BY Zenon DEF Next, Session, Shell, Dial, DoRead, ReadEof, DoWrite, Shown, Prompt, Take,
           Lose, Over, Stuck, vars, shellVars
  <2> QED
    BY <2>1, DialKeeps, DoReadKeeps, DoWriteKeeps, ShownKeeps, PromptKeeps, TakeKeeps,
       QuietKeeps DEF Next, Session, Shell
<1>2. Init => lured \/ CInv
  BY InitCInv
<1> QED
  BY <1>1, <1>2, PTL DEF Spec

(* The commands of the file never run ahead of the shell, however its       *)
(* output is cut, as long as no output holds "% " itself.                   *)
THEOREM AlwaysPaced == Spec => []Paced
<1>1. lured \/ CInv => Paced
  BY DEF CInv, Domains, InStep, Paced
<1> QED
  BY <1>1, AlwaysCInv, PTL

(* The page reads as the session went, as long as no output holds "% ".     *)
THEOREM AlwaysTranscript == Spec => []Transcript
<1>1. lured \/ CInv => Transcript
  BY DEF CInv, OnPage, Told, Cmds, Transcript
<1> QED
  BY <1>1, AlwaysCInv, PTL
=============================================================================

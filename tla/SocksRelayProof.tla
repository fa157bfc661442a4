--------------------------- MODULE SocksRelayProof ---------------------------
(***************************************************************************)
(* Theorems about the relay of the SOCKS server, for any length of the     *)
(* buffer and any amount of data.                                          *)
(*                                                                         *)
(* The two directions share data_, so Intact is not inductive: nothing in  *)
(* it says whose bytes lie in data_ between a read and the end of its      *)
(* write.  The invariant counts: what is on its way in a direction is what *)
(* was read and has not gone out (Counted); while the peers speak in turn  *)
(* one of them has nothing on its way (InTurns), so that its next read     *)
(* finds nothing and data_ belongs to the other (Own).  Why a direction    *)
(* stopped (Cause) is what LastWord needs.                                 *)
(***************************************************************************)
EXTENDS SocksRelay, SequenceTheorems, TLAPS

\* Between a read and the end of its write.
Busy(d) == phase[d] \in {"filled", "writing"}

Counted(d) ==
  /\ Len(out[d]) <= taken[d] /\ taken[d] <= sent[d]
  /\ phase[d] \in {"reading", "written", "ended"} => Len(out[d]) = taken[d]
  /\ Busy(d) => off[d] < len[d] /\ Len(out[d]) + len[d] = taken[d] + off[d]
  /\ phase[d] = "dead" => Len(out[d]) < taken[d]

Units == \A d \in Peer : \A i \in 1 .. len[d] : data[i] \in Unit

InTurns == ~crossed => \E d \in Peer : Len(out[d]) = sent[d]

Own(d) == ~crossed /\ Busy(d) => \A i \in 1 .. len[d] : data[i] = <<d, taken[d] - len[d] + i>>

Cause(d) ==
  /\ d \in cut.send => phase[d] = "ended"
  /\ d \in cut.recv => phase[Other(d)] = "ended"
  /\ phase[d] = "dead" => Other(d) \in gone
  /\ phase[d] = "ended" =>
       \/ d \in gone /\ (taken[d] = sent[d] \/ phase[Other(d)] = "dead")
       \/ Other(d) \in gone /\ phase[Other(d)] = "ended"

RInv ==
  /\ TypeOK /\ Units /\ InTurns /\ Intact
  /\ \A d \in Peer : Counted(d) /\ Own(d) /\ Cause(d)

-----------------------------------------------------------------------------
LEMMA Others == Other("c") = "s" /\ Other("s") = "c"
<1>1. Other("c") \in Peer /\ Other("c") # "c"
  BY DEF Other, Peer
<1>2. Other("s") \in Peer /\ Other("s") # "s"
  BY DEF Other, Peer
<1> QED
  BY <1>1, <1>2 DEF Peer

LEMMA TwoPeers ==
  ASSUME NEW d \in Peer
  PROVE  Other(d) \in Peer /\ Other(d) # d /\ Other(Other(d)) = d
         /\ \A e \in Peer : e = d \/ e = Other(d)
BY Others DEF Peer

(* What a write takes from data_.                                           *)
LEMMA Piece ==
  ASSUME TypeOK, NEW o \in Nat, NEW n \in Nat \ {0}, o + n <= BufLen,
         \A i \in 1 .. o + n : data[i] \in Unit
  PROVE  /\ SubSeq(data, o + 1, o + n) \in Seq(Unit)
         /\ Len(SubSeq(data, o + 1, o + n)) = n
         /\ \A i \in 1 .. n : SubSeq(data, o + 1, o + n)[i] = data[o + i]
<1>1. SubSeq(data, o + 1, o + n) = [i \in 1 .. n |-> data[i + o]]
  BY DEF SubSeq
<1> DEFINE s == [i \in 1 .. n |-> data[i + o]]
<1>2. s \in [1 .. n -> Unit]
  OBVIOUS
<1>3. s \in Seq(Unit) /\ Len(s) = n
  BY <1>2, SeqDef, LenProperties
<1>4. \A i \in 1 .. n : s[i] = data[o + i]
  OBVIOUS
<1> HIDE DEF s
<1> QED
  BY <1>1, <1>3, <1>4 DEF s

(* Of b units read, which make t in all, a have gone out, c in all; then n  *)
(* more go out.                                                             *)
LEMMA Sums ==
  ASSUME NEW a \in Nat, NEW b \in Nat, NEW t \in Nat, NEW c \in Nat, NEW n \in Nat,
         a < b, c + b = t + a, a + n <= b
  PROVE  /\ c + n <= t /\ (a + n = b => c + n = t) /\ (a + n # b => a + n < b)
         /\ (c + n) + b = t + (a + n)
         /\ \A i \in c + 1 .. c + n : a + (i - c) \in 1 .. b /\ t - b + (a + (i - c)) = i
OBVIOUS

LEMMA InitRInv == Init => RInv
<1> SUFFICES ASSUME Init PROVE RInv
  OBVIOUS
<1> USE SocksRelayAssumption
<1>1. \A d \in Peer : out[d] = << >> /\ Len(out[d]) = 0 /\ out[d] \in Seq(Unit)
  BY DEF Init
<1>2. TypeOK
  <2>1. data \in [1 .. BufLen -> Unit \cup {NoUnit}] /\ out \in [Peer -> Seq(Unit)]
    BY <1>1 DEF Init
  <2>2. 0 \in 0 .. MaxSent /\ 0 \in 0 .. BufLen
    OBVIOUS
  <2>3. /\ sent \in [Peer -> 0 .. MaxSent] /\ taken \in [Peer -> 0 .. MaxSent]
        /\ len \in [Peer -> 0 .. BufLen] /\ off \in [Peer -> 0 .. BufLen]
        /\ \A d \in Peer : off[d] <= len[d]
    BY <2>2 DEF Init
  <2>4. /\ gone \subseteq Peer /\ crossed \in BOOLEAN
        /\ phase \in [Peer -> {"reading", "filled", "writing", "written", "ended", "dead"}]
        /\ cut \in [recv : SUBSET Peer, send : SUBSET Peer]
    BY DEF Init
  <2> QED
    BY <2>1, <2>3, <2>4 DEF TypeOK
<1>3. Units /\ InTurns /\ Intact
  BY <1>1 DEF Init, Units, InTurns, Intact, Peer
<1>4. \A d \in Peer : Counted(d) /\ Own(d) /\ Cause(d)
  BY <1>1 DEF Init, Counted, Own, Cause, Busy
<1> QED
  BY <1>2, <1>3, <1>4 DEF RInv

-----------------------------------------------------------------------------
LEMMA SendKeeps == ASSUME RInv, NEW d \in Peer, Send(d) PROVE RInv'
<1> USE SocksRelayAssumption
<1>0. /\ sent[d] < MaxSent /\ d \notin gone
      /\ crossed' = (crossed \/ Len(out[Other(d)]) # sent[Other(d)])
      /\ sent' = [sent EXCEPT ![d] = @ + 1]
      /\ UNCHANGED <<gone, taken, data, phase, len, off, out, cut>>
  BY DEF Send
<1>1. TypeOK'
  <2>1. sent' \in [Peer -> 0 .. MaxSent] /\ crossed' \in BOOLEAN
    BY <1>0 DEF RInv, TypeOK
  <2> QED
    BY <1>0, <2>1 DEF RInv, TypeOK
<1>2. Units' /\ Intact'
  BY <1>0 DEF RInv, Units, Intact
<1>3. InTurns'
  BY <1>0, TwoPeers DEF RInv, TypeOK, InTurns
<1>4. ASSUME NEW e \in Peer PROVE Counted(e)' /\ Own(e)' /\ Cause(e)'
  <2>1. sent[e] \in Nat /\ sent'[e] = IF e = d THEN sent[e] + 1 ELSE sent[e]
    BY <1>0 DEF RInv, TypeOK
  <2>2. taken[e] \in Nat /\ Len(out[e]) \in Nat
    BY DEF RInv, TypeOK
  <2>3. Counted(e)'
    BY <1>0, <2>1, <2>2 DEF RInv, Counted, Busy
  <2>4. Own(e)' /\ Cause(e)'
    BY <1>0, <2>1 DEF RInv, Own, Cause, Busy
  <2> QED
    BY <2>3, <2>4
<1> QED
  BY <1>1, <1>2, <1>3, <1>4 DEF RInv

LEMMA LeaveKeeps == ASSUME RInv, NEW d \in Peer, Leave(d) PROVE RInv'
<1>0. /\ gone' = gone \cup {d}
      /\ UNCHANGED <<sent, crossed, taken, data, phase, len, off, out, cut>>
  BY DEF Leave
<1>1. TypeOK' /\ Units' /\ Intact' /\ InTurns'
  BY <1>0 DEF RInv, TypeOK, Units, Intact, InTurns
<1>2. ASSUME NEW e \in Peer PROVE Counted(e)' /\ Own(e)' /\ Cause(e)'
  BY <1>0 DEF RInv, Counted, Own, Cause, Busy
<1> QED
  BY <1>1, <1>2 DEF RInv

(* A read: nothing of the other direction is on its way while they speak in *)
(* turn, so the buffer is free.                                             *)
LEMMA FillKeeps == ASSUME RInv, NEW d \in Peer, Fill(d) PROVE RInv'
<1> USE SocksRelayAssumption
<1>0. PICK n \in 1 .. BufLen :
        /\ n <= sent[d] - taken[d]
        /\ data' = [i \in 1 .. BufLen |-> IF i <= n THEN <<d, taken[d] + i>> ELSE data[i]]
        /\ len' = [len EXCEPT ![d] = n]
        /\ taken' = [taken EXCEPT ![d] = @ + n]
  BY DEF Fill
<1>1. /\ phase[d] = "reading" /\ taken[d] < sent[d]
      /\ off' = [off EXCEPT ![d] = 0]
      /\ phase' = [phase EXCEPT ![d] = "filled"]
      /\ UNCHANGED <<sent, gone, crossed, out, cut>>
  BY DEF Fill, peerVars
<1>2. /\ taken[d] \in Nat /\ sent[d] \in 0 .. MaxSent /\ n \in Nat
      /\ \A e \in Peer : /\ taken[e] \in Nat /\ len[e] \in 0 .. BufLen /\ off[e] \in Nat
                         /\ Len(out[e]) \in Nat /\ sent[e] \in Nat
  BY <1>0 DEF RInv, TypeOK
<1>3. \A i \in 1 .. n : <<d, taken[d] + i>> \in Unit
  BY <1>0, <1>2 DEF Unit
<1>4. \A e \in Peer : /\ taken'[e] = IF e = d THEN taken[e] + n ELSE taken[e]
                      /\ len'[e] = IF e = d THEN n ELSE len[e]
                      /\ off'[e] = IF e = d THEN 0 ELSE off[e]
                      /\ phase'[e] = IF e = d THEN "filled" ELSE phase[e]
  BY <1>0, <1>1 DEF RInv, TypeOK
<1>5. TypeOK'
  <2>1. data' \in [1 .. BufLen -> Unit \cup {NoUnit}]
    BY <1>0, <1>3 DEF RInv, TypeOK
  <2>2. taken' \in [Peer -> 0 .. MaxSent] /\ len' \in [Peer -> 0 .. BufLen]
    BY <1>0, <1>2 DEF RInv, TypeOK
  <2>3. off' \in [Peer -> 0 .. BufLen]
        /\ phase' \in [Peer -> {"reading", "filled", "writing", "written", "ended", "dead"}]
    BY <1>1 DEF RInv, TypeOK
  <2>4. \A e \in Peer : out'[e] \in Seq(Unit) /\ off'[e] <= len'[e]
    BY <1>1, <1>2, <1>4 DEF RInv, TypeOK
  <2> QED
    BY <1>1, <2>1, <2>2, <2>3, <2>4 DEF RInv, TypeOK
<1>6. Units'
  BY <1>0, <1>2, <1>3, <1>4 DEF RInv, Units
<1>7. InTurns' /\ Intact'
  BY <1>1 DEF RInv, InTurns, Intact
<1>8. ~crossed => ~Busy(Other(d))
  <2>1. Other(d) \in Peer /\ \A e \in Peer : e = d \/ e = Other(d)
    BY TwoPeers
  <2>2. Len(out[d]) # sent[d]
    BY <1>1, <1>2 DEF RInv, Counted
  <2>3. Busy(Other(d)) => Len(out[Other(d)]) # sent[Other(d)]
    BY <1>2, <2>1 DEF RInv, Counted
  <2> QED
    BY <2>1, <2>2, <2>3 DEF RInv, InTurns
<1>9. ASSUME NEW e \in Peer PROVE Counted(e)' /\ Own(e)' /\ Cause(e)'
  <2>1. Counted(e)'
    BY <1>0, <1>1, <1>2, <1>4 DEF RInv, Counted, Busy
  <2>2. Own(e)'
    <3>1. CASE e = d
      BY <1>0, <1>2, <1>4, <3>1 DEF Own
    <3>2. CASE e = Other(d)
      BY <1>1, <1>4, <1>8, <3>2, TwoPeers DEF Own, Busy
    <3> QED
      BY <3>1, <3>2, TwoPeers
  <2>3. Cause(e)'
    BY <1>1, <1>4, TwoPeers DEF RInv, Cause
  <2> QED
    BY <2>1, <2>2, <2>3
<1> QED
  BY <1>5, <1>6, <1>7, <1>9 DEF RInv

(* A direction comes to another phase; nothing moves.                       *)
LEMMA PhaseKeeps ==
  ASSUME RInv, NEW d \in Peer, NEW p \in {"reading", "writing", "ended", "dead"},
         phase' = [phase EXCEPT ![d] = p],
         UNCHANGED <<sent, gone, crossed, taken, data, len, off, out>>,
         cut' \in [recv : SUBSET Peer, send : SUBSET Peer],
         p \in {"reading", "ended"} => phase[d] \in {"reading", "written"},
         p \in {"writing", "dead"} => Busy(d),
         \A e \in Peer : Cause(e)'
  PROVE  RInv'
<1>0. \A e \in Peer : phase'[e] = IF e = d THEN p ELSE phase[e]
  BY DEF RInv, TypeOK
<1>1. TypeOK'
  <2>1. phase' \in [Peer -> {"reading", "filled", "writing", "written", "ended", "dead"}]
    BY DEF RInv, TypeOK
  <2> QED
    BY <2>1 DEF RInv, TypeOK
<1>2. Units' /\ InTurns' /\ Intact'
  BY DEF RInv, Units, InTurns, Intact
<1>3. ASSUME NEW e \in Peer PROVE Counted(e)' /\ Own(e)'
  <2>1. taken[e] \in Nat /\ len[e] \in Nat /\ off[e] \in Nat /\ Len(out[e]) \in Nat
    BY DEF RInv, TypeOK
  <2>2. Counted(e)'
    BY <1>0, <2>1 DEF RInv, Counted, Busy
  <2>3. Own(e)'
    BY <1>0 DEF RInv, Own, Busy
  <2> QED
    BY <2>2, <2>3
<1> QED
  BY <1>1, <1>2, <1>3 DEF RInv

LEMMA EndKeeps == ASSUME RInv, NEW d \in Peer, End(d) PROVE RInv'
<1> DEFINE o == Other(d)
<1>0. /\ phase[d] = "reading"
      /\ \/ taken[d] = sent[d] /\ (d \in gone \/ d \in cut.recv)
         \/ d \in gone /\ phase[o] = "dead"
      /\ phase' = [phase EXCEPT ![d] = "ended"]
      /\ cut' = [send |-> cut.send \cup {d}, recv |-> cut.recv \cup {o}]
      /\ UNCHANGED <<sent, gone, crossed, taken, data, len, off, out>>
  BY DEF End, peerVars
<1>1. o \in Peer /\ o # d /\ Other(o) = d /\ \A e \in Peer : e = d \/ e = o
  BY TwoPeers
<1>2. cut' \in [recv : SUBSET Peer, send : SUBSET Peer]
      /\ cut'.send = cut.send \cup {d} /\ cut'.recv = cut.recv \cup {o}
  BY <1>0, <1>1 DEF RInv, TypeOK
<1>3. phase'[d] = "ended" /\ phase'[o] = phase[o]
  BY <1>0, <1>1 DEF RInv, TypeOK
<1>4. Cause(d) /\ Cause(o)
  BY <1>1 DEF RInv
<1> HIDE DEF o
<1>5. Cause(d)'
  BY <1>0, <1>1, <1>2, <1>3, <1>4 DEF Cause, o
<1>6. Cause(o)'
  BY <1>0, <1>1, <1>2, <1>3, <1>4 DEF Cause, o
<1> QED
  BY <1>0, <1>1, <1>2, <1>5, <1>6, PhaseKeeps

LEMMA HandlersKeep ==
  ASSUME RInv, NEW d \in Peer, StartWrite(d) \/ FailWrite(d) \/ NextRead(d) PROVE RInv'
<1>0. UNCHANGED <<sent, gone, crossed, taken, data, len, off, out, cut>>
  BY DEF StartWrite, FailWrite, NextRead, peerVars
<1>1. cut' \in [recv : SUBSET Peer, send : SUBSET Peer]
  BY <1>0 DEF RInv, TypeOK
<1>2. \A e \in Peer : Cause(e) /\ Cause(Other(e)) /\ Other(e) \in Peer
  BY TwoPeers DEF RInv
<1>3. CASE StartWrite(d)
  <2>1. phase[d] = "filled" /\ phase' = [phase EXCEPT ![d] = "writing"]
    BY <1>3 DEF StartWrite
  <2>2. \A e \in Peer : phase'[e] = IF e = d THEN "writing" ELSE phase[e]
    BY <2>1 DEF RInv, TypeOK
  <2>3. \A e \in Peer : Cause(e)'
    BY <1>0, <1>2, <2>1, <2>2 DEF Cause
  <2> QED
    BY <1>0, <1>1, <2>1, <2>3, PhaseKeeps DEF Busy
<1>4. CASE NextRead(d)
  <2>1. phase[d] = "written" /\ phase' = [phase EXCEPT ![d] = "reading"]
    BY <1>4 DEF NextRead
  <2>2. \A e \in Peer : phase'[e] = IF e = d THEN "reading" ELSE phase[e]
    BY <2>1 DEF RInv, TypeOK
  <2>3. \A e \in Peer : Cause(e)'
    BY <1>0, <1>2, <2>1, <2>2 DEF Cause
  <2> QED
    BY <1>0, <1>1, <2>1, <2>3, PhaseKeeps DEF Busy
<1>5. CASE FailWrite(d)
  <2>1. /\ phase[d] = "writing" /\ phase' = [phase EXCEPT ![d] = "dead"]
        /\ Other(d) \in cut.send \cup gone
    BY <1>5 DEF FailWrite
  <2>2. \A e \in Peer : phase'[e] = IF e = d THEN "dead" ELSE phase[e]
    BY <2>1 DEF RInv, TypeOK
  <2>3. Other(d) \in gone
    BY <1>2, <2>1, TwoPeers DEF Cause
  <2>4. \A e \in Peer : Cause(e)'
    BY <1>0, <1>2, <2>1, <2>2, <2>3, TwoPeers DEF Cause
  <2> QED
    BY <1>0, <1>1, <2>1, <2>4, PhaseKeeps DEF Busy
<1> QED
  BY <1>3, <1>4, <1>5

(* A write sends the direction's own units, in their order.                 *)
LEMMA FlushKeeps == ASSUME RInv, NEW d \in Peer, Flush(d) PROVE RInv'
<1> USE SocksRelayAssumption
<1>0. PICK n \in 1 .. len[d] - off[d] :
        /\ out' = [out EXCEPT ![d] = @ \o SubSeq(data, off[d] + 1, off[d] + n)]
        /\ off' = [off EXCEPT ![d] = @ + n]
        /\ phase' = [phase EXCEPT ![d] = IF off[d] + n = len[d] THEN "written" ELSE @]
  BY DEF Flush
<1>1. phase[d] = "writing" /\ UNCHANGED <<sent, gone, crossed, taken, data, len, cut>>
  BY DEF Flush, peerVars
<1>2. /\ n \in Nat \ {0} /\ off[d] + n <= len[d] /\ len[d] <= BufLen
      /\ \A e \in Peer : /\ taken[e] \in Nat /\ len[e] \in 0 .. BufLen /\ off[e] \in 0 .. BufLen
                         /\ out[e] \in Seq(Unit) /\ Len(out[e]) \in Nat /\ sent[e] \in Nat
  BY <1>0 DEF RInv, TypeOK
<1> DEFINE new == SubSeq(data, off[d] + 1, off[d] + n)
           o == out[d]
           far == o \o new
<1>3. new \in Seq(Unit) /\ Len(new) = n /\ \A i \in 1 .. n : new[i] = data[off[d] + i]
  <2>1. off[d] \in Nat /\ off[d] + n <= BufLen
    BY <1>2
  <2>2. \A i \in 1 .. off[d] + n : data[i] \in Unit
    BY <1>2 DEF RInv, Units
  <2> QED
    BY <1>2, <2>1, <2>2, Piece DEF RInv
<1>4. \A e \in Peer : /\ out'[e] = IF e = d THEN far ELSE out[e]
                      /\ off'[e] = IF e = d THEN off[e] + n ELSE off[e]
                      /\ phase'[e] = IF e = d /\ off[d] + n = len[d] THEN "written" ELSE phase[e]
  <2>1. out \in [Peer -> Seq(Unit)]
    BY DEF RInv, TypeOK
  <2> QED
    BY <1>0, <2>1 DEF RInv, TypeOK
<1> HIDE DEF new
<1>5. far \in Seq(Unit) /\ Len(far) = Len(o) + n
  BY <1>2, <1>3, ConcatProperties
<1>6. /\ \A i \in 1 .. Len(o) : far[i] = o[i]
      /\ \A i \in Len(o) + 1 .. Len(o) + n : far[i] = new[i - Len(o)]
  BY <1>2, <1>3, ConcatProperties
<1> HIDE DEF far
<1>7. TypeOK'
  <2>1. off' \in [Peer -> 0 .. BufLen]
        /\ phase' \in [Peer -> {"reading", "filled", "writing", "written", "ended", "dead"}]
    BY <1>0, <1>2 DEF RInv, TypeOK
  <2>2. \A e \in Peer : off'[e] <= len'[e]
    BY <1>1, <1>2, <1>4 DEF RInv, TypeOK
  <2>3. out' \in [Peer -> Seq(Unit)]
    BY <1>0, <1>5 DEF RInv, TypeOK, far, new
  <2> QED
    BY <1>1, <2>1, <2>2, <2>3 DEF RInv, TypeOK
<1>8. Units'
  BY <1>1 DEF RInv, Units
<1>13. /\ off[d] \in Nat /\ len[d] \in Nat /\ taken[d] \in Nat /\ sent[d] \in Nat
       /\ Len(o) \in Nat /\ n \in Nat
  BY <1>2
<1>9. off[d] < len[d] /\ Len(o) + len[d] = taken[d] + off[d] /\ taken[d] <= sent[d]
  BY <1>1 DEF RInv, Counted, Busy
<1>14. /\ Len(o) + n <= taken[d] /\ (off[d] + n = len[d] => Len(o) + n = taken[d])
       /\ (off[d] + n # len[d] => off[d] + n < len[d])
       /\ (Len(o) + n) + len[d] = taken[d] + (off[d] + n)
       /\ \A i \in Len(o) + 1 .. Len(o) + n :
            /\ off[d] + (i - Len(o)) \in 1 .. len[d]
            /\ taken[d] - len[d] + (off[d] + (i - Len(o))) = i
  <2> DEFINE a == off[d]
             b == len[d]
             t == taken[d]
             c == Len(o)
  <2>1. /\ a \in Nat /\ b \in Nat /\ t \in Nat /\ c \in Nat /\ n \in Nat
        /\ a < b /\ c + b = t + a /\ a + n <= b
    BY <1>2, <1>9, <1>13
  <2> HIDE DEF a, b, t, c
  <2>2. /\ c + n <= t /\ (a + n = b => c + n = t) /\ (a + n # b => a + n < b)
        /\ (c + n) + b = t + (a + n)
        /\ \A i \in c + 1 .. c + n : a + (i - c) \in 1 .. b /\ t - b + (a + (i - c)) = i
    BY <2>1, Sums
  <2> QED
    BY <2>2 DEF a, b, t, c
<1>10. InTurns'
  <2>1. ~crossed => \E e \in Peer : e # d /\ Len(out[e]) = sent[e]
    BY <1>9, <1>13 DEF RInv, InTurns
  <2> QED
    BY <1>1, <1>4, <2>1 DEF InTurns
<1>11. ASSUME NEW e \in Peer PROVE Counted(e)' /\ Own(e)' /\ Cause(e)'
  <2>1. Counted(e)'
    <3>1. CASE e = d
      <4>1. /\ Len(far) <= taken[d] /\ (off[d] + n = len[d] => Len(far) = taken[d])
            /\ (off[d] + n # len[d] => off[d] + n < len[d])
            /\ Len(far) + len[d] = taken[d] + (off[d] + n)
        BY <1>5, <1>14
      <4> QED
        BY <1>1, <1>4, <1>9, <3>1, <4>1 DEF Counted, Busy
    <3>2. CASE e # d
      BY <1>1, <1>4, <3>2 DEF RInv, Counted, Busy
    <3> QED
      BY <3>1, <3>2
  <2>2. Own(e)'
    BY <1>1, <1>4 DEF RInv, Own, Busy
  <2>3. Cause(e)'
    BY <1>1, <1>4, TwoPeers DEF RInv, Cause
  <2> QED
    BY <2>1, <2>2, <2>3
<1>12. Intact'
  <2> SUFFICES ASSUME ~crossed, NEW e \in Peer, NEW i \in 1 .. Len(out'[e])
               PROVE  out'[e][i] = <<e, i>>
    BY <1>1 DEF Intact
  <2>1. CASE e # d
    BY <1>4, <2>1 DEF RInv, Intact
  <2>2. CASE e = d /\ i <= Len(o)
    <3>1. i \in 1 .. Len(o)
      BY <1>13, <2>2
    <3>2. out'[e][i] = o[i] /\ o[i] = <<d, i>>
      BY <1>4, <1>6, <2>2, <3>1 DEF RInv, Intact
    <3> QED
      BY <2>2, <3>2
  <2>3. CASE e = d /\ i > Len(o)
    <3>1. i \in Len(o) + 1 .. Len(o) + n
      BY <1>2, <1>4, <1>5, <2>3
    <3>2. far[i] = data[off[d] + (i - Len(o))]
      BY <1>2, <1>3, <1>6, <3>1
    <3>3. off[d] + (i - Len(o)) \in 1 .. len[d]
      BY <1>14, <3>1
    <3>4. data[off[d] + (i - Len(o))] = <<d, taken[d] - len[d] + (off[d] + (i - Len(o)))>>
      BY <1>1, <3>3 DEF RInv, Own, Busy
    <3>5. taken[d] - len[d] + (off[d] + (i - Len(o))) = i
      BY <1>14, <3>1
    <3> QED
      BY <1>4, <2>3, <3>2, <3>4, <3>5
  <2> QED
    BY <1>2, <1>4, <1>5, <2>1, <2>2, <2>3
<1> QED
  BY <1>7, <1>8, <1>10, <1>11, <1>12 DEF RInv

LEMMA NextRInv == RInv /\ [Next]_vars => RInv'
<1> SUFFICES ASSUME RInv, [Next]_vars PROVE RInv'
  OBVIOUS
<1>1. CASE UNCHANGED vars \/ Over
  <2>1. UNCHANGED <<sent, gone, crossed, taken, data, phase, len, off, out, cut>>
    BY <1>1 DEF Over, vars, peerVars
  <2>2. TypeOK' /\ Units' /\ InTurns' /\ Intact'
    BY <2>1 DEF RInv, TypeOK, Units, InTurns, Intact
  <2>3. \A d \in Peer : Counted(d)' /\ Own(d)' /\ Cause(d)'
    BY <2>1 DEF RInv, Counted, Own, Cause, Busy
  <2> QED
    BY <2>2, <2>3 DEF RInv
<1>2. ASSUME NEW d \in Peer, Send(d) \/ Leave(d) PROVE RInv'
  BY <1>2, SendKeeps, LeaveKeeps
<1>3. ASSUME NEW d \in Peer, Relay(d) PROVE RInv'
  BY <1>3, FillKeeps, EndKeeps, FlushKeeps, HandlersKeep DEF Relay
<1> QED
  BY <1>1, <1>2, <1>3 DEF Next

LEMMA AlwaysRInv == Spec => []RInv
<1> QED
  BY InitRInv, NextRInv, PTL DEF Spec

(* Every variable keeps its type; in particular nothing but what a peer has *)
(* sent ever goes out, also when both speak at once.                        *)
THEOREM TypeCorrect == Spec => []TypeOK
<1>1. RInv => TypeOK
  BY DEF RInv
<1> QED
  BY <1>1, AlwaysRInv, PTL

(* The shared buffer does no harm while the peers speak in turn: what goes  *)
(* out is a beginning of what was sent, for every buffer and every cut.     *)
THEOREM AlwaysIntact == Spec => []Intact
<1>1. RInv => Intact
  BY DEF RInv
<1> QED
  BY <1>1, AlwaysRInv, PTL

(* The last words of a peer that closes reach the other one.                *)
THEOREM LastWordArrives == Spec => []LastWord
<1>1. RInv => LastWord
  <2> SUFFICES ASSUME RInv, NEW d \in Peer, Closed, gone = {d}, ~crossed
               PROVE  Len(out[d]) = sent[d]
    BY DEF LastWord
  <2>1. Other(d) \in Peer /\ Other(d) \notin gone /\ \A e \in Peer : e = d \/ e = Other(d)
    BY TwoPeers
  <2>2. phase[d] = "ended" /\ (taken[d] = sent[d] \/ phase[Other(d)] = "dead")
    BY <2>1 DEF RInv, Cause, Closed
  <2>3. CASE taken[d] = sent[d]
    BY <2>2, <2>3 DEF RInv, Counted
  <2>4. CASE phase[Other(d)] = "dead"
    <3>1. Len(out[Other(d)]) # sent[Other(d)]
      BY <2>1, <2>4 DEF RInv, Counted, TypeOK
    <3> QED
      BY <2>1, <3>1 DEF RInv, InTurns
  <2> QED
    BY <2>2, <2>3, <2>4
<1> QED
  BY <1>1, AlwaysRInv, PTL
=============================================================================

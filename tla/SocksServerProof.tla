--------------------------- MODULE SocksServerProof ---------------------------
(***************************************************************************)
(* Theorems about the SOCKS server, for any clients, addresses, lookups    *)
(* and list of rules.                                                      *)
(***************************************************************************)
EXTENDS SocksServer, SequenceTheorems, WellFoundedInduction, TLAPS

(* A set of numbers that has a member has a least one.                      *)
LEMMA LeastNat ==
  ASSUME NEW T \in SUBSET Nat, T # {}
  PROVE  \E m \in T : \A k \in T : ~(k < m)
<1>1. PICK m \in T : \A k \in T : <<k, m>> \notin OpToRel(<, Nat)
  BY NatLessThanWellFounded, WFMin
<1>2. \A k \in T : ~(k < m)
  BY <1>1 DEF OpToRel
<1> QED
  BY <1>2

-----------------------------------------------------------------------------
Matches(cd, a, i) == Rules[i].cd = cd /\ a \in Rules[i].addrs

\* The first rule from i on that matches permits.
PermitsFrom(cd, a, i) ==
  \E k \in i .. Len(Rules) :
    /\ Rules[k].permit /\ Matches(cd, a, k)
    /\ \A j \in i .. k - 1 : ~Matches(cd, a, j)

Places == 1 .. Len(Rules) + 1

\* One round of the loop of checkFirewall, given the rounds after it.
Round(cd, a, f) ==
  [i \in Places |->
     /\ i <= Len(Rules)
     /\ IF Rules[i].cd = cd /\ a \in Rules[i].addrs THEN Rules[i].permit ELSE f[i + 1]]

(* What is permitted from a rule on: the rule decides, or the rest does.     *)
LEMMA PermitsStep ==
  ASSUME NEW cd, NEW a, NEW i \in 1 .. Len(Rules)
  PROVE  PermitsFrom(cd, a, i) <=> IF Matches(cd, a, i) THEN Rules[i].permit
                                   ELSE PermitsFrom(cd, a, i + 1)
<1>0. Len(Rules) \in Nat
  BY SocksServerAssumption
<1>1. CASE Matches(cd, a, i)
  <2>1. ASSUME PermitsFrom(cd, a, i) PROVE Rules[i].permit
    BY <1>0, <1>1, <2>1 DEF PermitsFrom
  <2>2. ASSUME Rules[i].permit PROVE PermitsFrom(cd, a, i)
    BY <1>0, <1>1, <2>2 DEF PermitsFrom
  <2> QED
    BY <1>1, <2>1, <2>2
<1>2. CASE ~Matches(cd, a, i)
  <2>1. ASSUME PermitsFrom(cd, a, i) PROVE PermitsFrom(cd, a, i + 1)
    <3>1. PICK k \in i .. Len(Rules) :
            /\ Rules[k].permit /\ Matches(cd, a, k)
            /\ \A j \in i .. k - 1 : ~Matches(cd, a, j)
      BY <2>1 DEF PermitsFrom
    <3>2. k # i
      BY <1>2, <3>1
    <3>3. k \in i + 1 .. Len(Rules) /\ \A j \in i + 1 .. k - 1 : j \in i .. k - 1
      BY <1>0, <3>2
    <3> QED
      BY <3>1, <3>3 DEF PermitsFrom
  <2>2. ASSUME PermitsFrom(cd, a, i + 1) PROVE PermitsFrom(cd, a, i)
    <3>1. PICK k \in i + 1 .. Len(Rules) :
            /\ Rules[k].permit /\ Matches(cd, a, k)
            /\ \A j \in i + 1 .. k - 1 : ~Matches(cd, a, j)
      BY <2>2 DEF PermitsFrom
    <3>2. \A j \in i .. k - 1 : j = i \/ j \in i + 1 .. k - 1
      BY <1>0
    <3> QED
      BY <1>0, <1>2, <3>1, <3>2 DEF PermitsFrom
  <2> QED
    BY <1>2, <2>1, <2>2
<1> QED
  BY <1>1, <1>2

(* The loop over the rules finds the first that matches: an operation is     *)
(* allowed exactly if a rule permits it on the address and no rule before    *)
(* that one is about both, whatever the rules and however many.              *)
THEOREM FirewallIsFirstMatch ==
  ASSUME NEW cd, NEW a
  PROVE  CheckFirewall(cd, a) <=> Permitted(cd, a)
<1> DEFINE n == Len(Rules)
           from == CHOOSE f : f = Round(cd, a, f)
           good == [i \in Places |-> PermitsFrom(cd, a, i)]
<1>0. n \in Nat
  BY SocksServerAssumption
<1>1. CheckFirewall(cd, a) <=> (HasConf => from[1])
  BY DEF CheckFirewall, Round, Places
<1>2. good = Round(cd, a, good)
  <2>1. ASSUME NEW i \in Places PROVE good[i] = Round(cd, a, good)[i]
    <3>1. CASE i <= n
      <4>1. i \in 1 .. n /\ i + 1 \in Places
        BY <1>0, <3>1 DEF Places
      <4>2. good[i + 1] = PermitsFrom(cd, a, i + 1)
        BY <4>1
      <4>3. good[i] <=> IF Matches(cd, a, i) THEN Rules[i].permit ELSE good[i + 1]
        BY <4>1, <4>2, PermitsStep
      <4>4. good[i] \in BOOLEAN
        BY DEF PermitsFrom
      <4> HIDE DEF good
      <4> QED
        BY <3>1, <4>3, <4>4 DEF Round, Matches
    <3>2. CASE ~(i <= n)
      <4>1. i .. n = {}
        BY <1>0, <3>2 DEF Places
      <4>2. good[i] = FALSE
        BY <4>1 DEF PermitsFrom
      <4> HIDE DEF good
      <4> QED
        BY <3>2, <4>2 DEF Round
    <3> QED
      BY <3>1, <3>2
  <2> QED
    BY <2>1 DEF Round
<1>3. from = Round(cd, a, from)
  <2> HIDE DEF good
  <2> QED
    BY <1>2
<1>4. \A i \in Places : from[i] \in BOOLEAN
  <2> HIDE DEF from
  <2> QED
    BY <1>3 DEF Round
<1> HIDE DEF from
<1>5. \A i \in Places : from[i] <=> PermitsFrom(cd, a, i)
  <2> DEFINE bad == {m \in 0 .. n : ~(from[n + 1 - m] <=> PermitsFrom(cd, a, n + 1 - m))}
  <2>1. SUFFICES ASSUME bad # {} PROVE FALSE
    <3>1. \A i \in Places : n + 1 - i \in 0 .. n /\ n + 1 - (n + 1 - i) = i
      BY <1>0 DEF Places
    <3> QED
      BY <2>1, <3>1
  <2>2. PICK m \in bad : \A k \in bad : ~(k < m)
    <3>1. bad \in SUBSET Nat
      BY <1>0
    <3> HIDE DEF bad
    <3> QED
      BY <2>1, <3>1, LeastNat
  <2> DEFINE i == n + 1 - m
  <2>3. m \in 0 .. n /\ i \in Places /\ ~(from[i] <=> PermitsFrom(cd, a, i))
    BY <1>0 DEF Places
  <2>4. CASE m = 0
    <3>1. i = n + 1 /\ i .. n = {}
      BY <1>0, <2>4
    <3>2. ~PermitsFrom(cd, a, i)
      BY <3>1 DEF PermitsFrom
    <3>3. ~from[i]
      BY <1>0, <1>3, <2>3, <3>1 DEF Round
    <3> QED
      BY <2>3, <3>2, <3>3
  <2>5. CASE m # 0
    <3>1. i \in 1 .. n /\ i + 1 \in Places /\ m - 1 \in 0 .. n /\ n + 1 - (m - 1) = i + 1
      BY <1>0, <2>3, <2>5 DEF Places
    <3>2. m - 1 \notin bad
      BY <1>0, <2>2, <2>3, <2>5
    <3>3. from[i + 1] <=> PermitsFrom(cd, a, i + 1)
      BY <3>1, <3>2
    <3>4. from[i] = Round(cd, a, from)[i]
      BY <1>3
    <3>5. from[i] <=> IF Matches(cd, a, i) THEN Rules[i].permit ELSE from[i + 1]
      <4>1. i <= n
        BY <1>0, <3>1
      <4> HIDE DEF i
      <4> QED
        BY <2>3, <3>4, <4>1 DEF Round, Matches
    <3> HIDE DEF i
    <3> QED
      BY <2>3, <3>1, <3>3, <3>5, PermitsStep
  <2> QED
    BY <2>4, <2>5
<1>6. 1 \in Places
  BY <1>0 DEF Places
<1>7. PermitsFrom(cd, a, 1) <=>
        \E k \in DOMAIN Rules :
          /\ Rules[k].permit /\ Rules[k].cd = cd /\ a \in Rules[k].addrs
          /\ \A j \in 1 .. k - 1 : Rules[j].cd = cd => a \notin Rules[j].addrs
  <2>1. DOMAIN Rules = 1 .. n
    BY SocksServerAssumption
  <2> QED
    BY <2>1 DEF PermitsFrom, Matches
<1> QED
  BY <1>1, <1>5, <1>6, <1>7 DEF Permitted

-----------------------------------------------------------------------------
Stages == {"away", "queued", "refused", "read", "resolve", "connect", "bound",
            "accept", "reply", "relay", "over"}

TypeOK ==
  /\ pc \in [Conns -> Stages] /\ req \in [Conns -> Request]
  /\ target \in [Conns -> Addrs \cup {AnyAddr, NoAddr}]
  /\ peer \in [Conns -> Addrs \cup {AnyAddr, NoAddr}]
  /\ replies \in [Conns -> {<< >>, <<90>>, <<90, 90>>, <<91>>}]

\* The firewall has been asked about an address of the request's destination.
Asked(r) == \E a \in Answers[r.dst] \ {NoAddr} : Permitted(r.cd, a)

\* What is known of a client at each place.
Known(p, r, t, q, s) ==
  /\ p \in {"away", "queued", "refused", "read"} => s = << >>
  /\ p \in {"resolve", "connect"} => r.cd = 1 /\ s = << >> /\ Asked(r)
  /\ p = "connect" => t # NoAddr
  /\ p = "bound" => r.cd = 2 /\ s = << >> /\ Asked(r)
  /\ p = "accept" => r.cd = 2 /\ s = <<90>> /\ Asked(r)
  /\ p \in {"reply", "relay"} =>
       /\ q # NoAddr /\ Asked(r)
       /\ \/ r.cd = 1 /\ s = <<90>>
          \/ r.cd = 2 /\ s = <<90, 90>>
  /\ p = "over" => s \in {<< >>, <<91>>} \/ Asked(r)

SInv == TypeOK /\ \A c \in Conns : Known(pc[c], req[c], target[c], peer[c], replies[c])

LEMMA InitSInv == Init => SInv
BY SocksServerAssumption DEF Init, SInv, TypeOK, Stages, Known, Request

(* What a client has been sent after one reply more.                        *)
LEMMA SecondReply == \A s \in Seq(Nat) : s = <<90>> => Append(s, 90) = <<90, 90>>
<1> TAKE s \in Seq(Nat)
<1> HAVE s = <<90>>
<1> DEFINE both == Append(s, 90)
           two  == <<90, 90>>
<1>1. both \in Seq(Nat) /\ Len(both) = Len(s) + 1
  BY AppendProperties
<1>2. Len(s) = 1 /\ s[1] = 90
  OBVIOUS
<1>3. both[1] = s[1] /\ both[2] = 90
  BY <1>2, AppendProperties
<1>4. two \in Seq(Nat) /\ Len(two) = 2 /\ two[1] = 90 /\ two[2] = 90
  OBVIOUS
<1>5. \A i \in 1 .. 2 : both[i] = two[i]
  <2>1. \A i \in 1 .. 2 : i = 1 \/ i = 2
    OBVIOUS
  <2> QED
    BY <1>3, <1>4, <1>2, <2>1
<1>6. Len(both) = 2
  BY <1>1, <1>2
<1> HIDE DEF both, two
<1>7. both = two
  BY <1>1, <1>4, <1>5, <1>6, SeqEqual
<1> QED
  BY <1>7 DEF both, two

LEMMA Appended ==
  /\ Append(<< >>, 90) = <<90>> /\ Append(<< >>, 91) = <<91>>
  /\ Append(<<90>>, 90) = <<90, 90>>
<1>1. Append(<< >>, 90) = <<90>> /\ Append(<< >>, 91) = <<91>>
  OBVIOUS
<1>2. Append(<<90>>, 90) = <<90, 90>>
  <2>1. <<90>> \in Seq(Nat)
    OBVIOUS
  <2> QED
    BY <2>1, SecondReply
<1> QED
  BY <1>1, <1>2

\* Client c comes to place p with this request, target, peer and replies.
Moves(c, p, r, t, q, s) ==
  /\ p \in Stages /\ r \in Request
  /\ t \in Addrs \cup {AnyAddr, NoAddr} /\ q \in Addrs \cup {AnyAddr, NoAddr}
  /\ s \in {<< >>, <<90>>, <<90, 90>>, <<91>>}
  /\ pc' = [pc EXCEPT ![c] = p] /\ req' = [req EXCEPT ![c] = r]
  /\ target' = [target EXCEPT ![c] = t] /\ peer' = [peer EXCEPT ![c] = q]
  /\ replies' = [replies EXCEPT ![c] = s]
  /\ Known(p, r, t, q, s)

(* A step of one client leaves the others alone.                            *)
LEMMA OneClient ==
  ASSUME SInv, NEW c \in Conns, NEW p, NEW r, NEW t, NEW q, NEW s, Moves(c, p, r, t, q, s)
  PROVE  SInv'
BY DEF SInv, TypeOK, Moves

LEMMA StepSInv == SInv /\ [Next]_vars => SInv'
<1> SUFFICES ASSUME SInv, [Next]_vars PROVE SInv'
  OBVIOUS
<1>0. CASE UNCHANGED vars
  BY <1>0 DEF SInv, TypeOK, vars
<1>2. CASE GiveUp
  <2>1. ASSUME NEW c \in Conns
        PROVE  pc'[c] \in Stages /\ Known(pc'[c], req[c], target[c], peer[c], replies[c])
    <3>1. pc[c] \in Stages /\ Known(pc[c], req[c], target[c], peer[c], replies[c])
      BY DEF SInv, TypeOK
    <3>2. pc'[c] = IF pc[c] = "queued" THEN "refused" ELSE pc[c]
      BY <1>2 DEF GiveUp
    <3>3. pc[c] = "queued" => Known("refused", req[c], target[c], peer[c], replies[c])
      BY <3>1 DEF Known
    <3> QED
      BY <3>1, <3>2, <3>3 DEF Stages
  <2>2. pc' \in [Conns -> Stages] /\ UNCHANGED <<req, target, peer, replies>>
    BY <1>2, <2>1 DEF GiveUp
  <2> QED
    BY <2>1, <2>2 DEF SInv, TypeOK
<1>1. ASSUME NEW c \in Conns,
             Dial(c) \/ Accept(c) \/ Read(c) \/ Session(c) \/ AcceptPeer(c) \/ Relayed(c)
      PROVE  SInv'
  <2>0. /\ pc[c] \in Stages /\ req[c] \in Request
        /\ target[c] \in Addrs \cup {AnyAddr, NoAddr}
        /\ peer[c] \in Addrs \cup {AnyAddr, NoAddr}
        /\ replies[c] \in {<< >>, <<90>>, <<90, 90>>, <<91>>}
        /\ Known(pc[c], req[c], target[c], peer[c], replies[c])
    BY DEF SInv, TypeOK
  <2>10. /\ req = [req EXCEPT ![c] = req[c]] /\ target = [target EXCEPT ![c] = target[c]]
        /\ peer = [peer EXCEPT ![c] = peer[c]]
        /\ replies = [replies EXCEPT ![c] = replies[c]]
    BY DEF SInv, TypeOK
  <2>11. ASSUME NEW p \in Stages, pc' = [pc EXCEPT ![c] = p],
               UNCHANGED <<req, target, peer, replies>>,
               Known(p, req[c], target[c], peer[c], replies[c])
        PROVE  SInv'
    <3>1. Moves(c, p, req[c], target[c], peer[c], replies[c])
      BY <2>0, <2>10, <2>11 DEF Moves
    <3> QED
      BY <3>1, OneClient
  <2>1. CASE Dial(c)
    BY <2>0, <2>1, <2>11 DEF Dial, Goto, Known, Stages
  <2>2. CASE Accept(c)
    BY <2>0, <2>2, <2>11 DEF Accept, Goto, Known, Stages
  <2>3. CASE Read(c)
    <3>1. pc[c] = "read" /\ replies[c] = << >> /\ UNCHANGED <<target, peer>>
      BY <2>0, <2>3 DEF Read, Known
    <3>2. CASE Goto(c, "over") /\ UNCHANGED <<req, replies>>
      BY <2>0, <2>11, <3>1, <3>2 DEF Goto, Known, Stages
    <3>3. ASSUME NEW r \in Request, req' = [req EXCEPT ![c] = r], r.cd = 3,
                 Goto(c, "over"), UNCHANGED replies
          PROVE  SInv'
      <4>1. Moves(c, "over", r, target[c], peer[c], replies[c])
        BY <2>0, <2>10, <3>1, <3>3 DEF Goto, Stages, Known, Moves
      <4> QED
        BY <4>1, OneClient
    <3>4. ASSUME NEW r \in Request, req' = [req EXCEPT ![c] = r], r.cd # 3,
                 NEW a \in Answers[r.dst],
                 \/ a = NoAddr /\ Goto(c, "over") /\ UNCHANGED replies
                 \/ /\ a # NoAddr /\ ~CheckFirewall(r.cd, a)
                    /\ Goto(c, "over") /\ Reply(c, 91)
                 \/ /\ a # NoAddr /\ CheckFirewall(r.cd, a)
                    /\ Goto(c, IF r.cd = 1 THEN "resolve" ELSE "bound")
                    /\ UNCHANGED replies
          PROVE  SInv'
      <4>1. CASE a = NoAddr /\ Goto(c, "over") /\ UNCHANGED replies
        <5>1. Moves(c, "over", r, target[c], peer[c], replies[c])
          BY <2>0, <2>10, <3>1, <3>4, <4>1 DEF Goto, Stages, Known, Moves
        <5> QED
          BY <5>1, OneClient
      <4>2. CASE Goto(c, "over") /\ Reply(c, 91)
        <5>1. replies' = [replies EXCEPT ![c] = <<91>>]
          BY <3>1, <4>2, Appended DEF Reply
        <5>2. Moves(c, "over", r, target[c], peer[c], <<91>>)
          BY <2>0, <2>10, <3>1, <3>4, <4>2, <5>1 DEF Goto, Stages, Known, Moves
        <5> QED
          BY <5>2, OneClient
      <4>3. CASE /\ a # NoAddr /\ CheckFirewall(r.cd, a)
                 /\ Goto(c, IF r.cd = 1 THEN "resolve" ELSE "bound")
                 /\ UNCHANGED replies
        <5> DEFINE p == IF r.cd = 1 THEN "resolve" ELSE "bound"
        <5>1. Asked(r)
          BY <4>3, FirewallIsFirstMatch DEF Asked
        <5>2. r.cd = 1 \/ r.cd = 2
          BY <3>4 DEF Request, Cds
        <5>3. Known(p, r, target[c], peer[c], replies[c]) /\ p \in Stages
          BY <3>1, <5>1, <5>2 DEF Known, Stages
        <5>4. Moves(c, p, r, target[c], peer[c], replies[c])
          BY <2>0, <2>10, <3>1, <3>4, <4>3, <5>3 DEF Goto, Moves
        <5> QED
          BY <5>4, OneClient
      <4> QED
        BY <3>4, <4>1, <4>2, <4>3
    <3> QED
      BY <2>3, <3>2, <3>3, <3>4 DEF Read
  <2>4. CASE Resolve(c)
    <3>1. CASE Goto(c, "over") /\ UNCHANGED target
      BY <2>0, <2>4, <2>11, <3>1 DEF Resolve, Goto, Known, Stages
    <3>2. ASSUME NEW a \in Answers[req[c].dst], a # NoAddr, Goto(c, "connect"),
                 target' = [target EXCEPT ![c] = a]
          PROVE  SInv'
      <4>1. a \in Addrs \cup {AnyAddr, NoAddr}
        BY <2>0, <3>2, SocksServerAssumption DEF Request
      <4>2. Moves(c, "connect", req[c], a, peer[c], replies[c])
        BY <2>0, <2>4, <2>10, <3>2, <4>1 DEF Resolve, Goto, Stages, Known, Moves
      <4> QED
        BY <4>2, OneClient
    <3> QED
      BY <2>4, <3>1, <3>2 DEF Resolve
  <2>5. CASE Connect(c)
    <3>1. CASE Goto(c, "over") /\ UNCHANGED <<peer, replies>>
      BY <2>0, <2>5, <2>11, <3>1 DEF Connect, Goto, Known, Stages
    <3>2. CASE /\ peer' = [peer EXCEPT ![c] = target[c]]
               /\ Goto(c, "reply") /\ Reply(c, 90)
      <4>1. replies' = [replies EXCEPT ![c] = <<90>>]
        BY <2>0, <2>5, <3>2, Appended DEF Connect, Known, Reply
      <4>2. Known("reply", req[c], target[c], target[c], <<90>>)
        <5>1. pc[c] = "connect"
          BY <2>5 DEF Connect
        <5>2. req[c].cd = 1 /\ Asked(req[c]) /\ target[c] # NoAddr
          BY <2>0, <5>1 DEF Known
        <5> QED
          BY <5>2 DEF Known
      <4>3. UNCHANGED <<req, target>>
        BY <2>5 DEF Connect
      <4>4. Moves(c, "reply", req[c], target[c], target[c], <<90>>)
        BY <2>0, <2>10, <3>2, <4>1, <4>2, <4>3 DEF Goto, Stages, Moves
      <4> QED
        BY <4>4, OneClient
    <3> QED
      BY <2>5, <3>1, <3>2 DEF Connect
  <2>6. CASE Bind(c)
    <3>1. replies' = [replies EXCEPT ![c] = <<90>>]
      BY <2>0, <2>6, Appended DEF Bind, Known, Reply
    <3>2. Moves(c, "accept", req[c], target[c], peer[c], <<90>>)
      BY <2>0, <2>6, <2>10, <3>1 DEF Bind, Goto, Stages, Known, Moves
    <3> QED
      BY <3>2, OneClient
  <2>7. CASE Replied(c)
    BY <2>0, <2>7, <2>11 DEF Replied, Goto, Known, Stages
  <2>8. CASE AcceptPeer(c)
    <3>1. PICK a \in Addrs : peer' = [peer EXCEPT ![c] = a]
      BY <2>8 DEF AcceptPeer
    <3>2. replies' = [replies EXCEPT ![c] = <<90, 90>>]
      BY <2>0, <2>8, Appended DEF AcceptPeer, Known, Reply
    <3>3. Moves(c, "reply", req[c], target[c], a, <<90, 90>>)
      BY <2>0, <2>8, <2>10, <3>1, <3>2, SocksServerAssumption
         DEF AcceptPeer, Goto, Stages, Known, Moves
    <3> QED
      BY <3>3, OneClient
  <2>9. CASE Relayed(c)
    BY <2>0, <2>9, <2>11 DEF Relayed, Goto, Known, Stages
  <2> QED
    BY <1>1, <2>1, <2>2, <2>3, <2>4, <2>5, <2>6, <2>7, <2>8, <2>9 DEF Session
<1> QED
  BY <1>0, <1>1, <1>2 DEF Next

LEMMA AlwaysSInv == Spec => []SInv
BY InitSInv, StepSInv, PTL DEF Spec

Has(s, n) == n \in {s[i] : i \in DOMAIN s}

(* The codes among the replies of a client.                                 *)
LEMMA CodesIn ==
  \A s \in {<< >>, <<90>>, <<90, 90>>, <<91>>} :
    /\ Has(s, 90) => s \in {<<90>>, <<90, 90>>}
    /\ Has(s, 91) => s = <<91>>
<1>1. ~Has(<< >>, 90) /\ ~Has(<< >>, 91)
  BY DEF Has
<1>2. ~Has(<<90>>, 91) /\ ~Has(<<90, 90>>, 91) /\ ~Has(<<91>>, 90)
  BY DEF Has
<1> QED
  BY <1>1, <1>2

(* A CONNECT is relayed only when the rules permit an address of its         *)
(* destination, for any rules and lookups.                                  *)
THEOREM AlwaysPermitted == Spec => []PermittedOnly
<1>1. SInv => PermittedOnly
  BY DEF SInv, Known, Asked, PermittedOnly
<1> QED
  BY <1>1, AlwaysSInv, PTL

(* The reply codes a client sees are true, whatever the other clients and   *)
(* the resolver do.                                                         *)
THEOREM AlwaysTruthful == Spec => []Truthful
<1>1. ASSUME SInv, NEW c \in Conns
      PROVE  /\ 90 \in {replies[c][i] : i \in DOMAIN replies[c]} => Asked(req[c])
             /\ pc[c] = "relay" =>
                  /\ peer[c] # NoAddr
                  /\ replies[c] = IF req[c].cd = 1 THEN <<90>> ELSE <<90, 90>>
             /\ 91 \in {replies[c][i] : i \in DOMAIN replies[c]} =>
                  replies[c] = <<91>> /\ pc[c] = "over"
  <2>1. /\ Known(pc[c], req[c], target[c], peer[c], replies[c])
        /\ replies[c] \in {<< >>, <<90>>, <<90, 90>>, <<91>>} /\ pc[c] \in Stages
    BY <1>1 DEF SInv, TypeOK
  <2>2. /\ 90 \in {replies[c][i] : i \in DOMAIN replies[c]} => replies[c] \in {<<90>>, <<90, 90>>}
        /\ 91 \in {replies[c][i] : i \in DOMAIN replies[c]} => replies[c] = <<91>>
    BY <2>1, CodesIn DEF Has
  <2>12. /\ <<90>> \notin {<< >>, <<91>>} /\ <<90, 90>> \notin {<< >>, <<91>>}
        /\ <<91>> \notin {<< >>, <<90>>, <<90, 90>>}
    OBVIOUS
  <2>3. replies[c] \in {<<90>>, <<90, 90>>} => Asked(req[c])
    BY <2>1, <2>12, ZenonT(60) DEF Known, Stages
  <2>4. replies[c] = <<91>> => pc[c] = "over"
    BY <2>1, <2>12 DEF Known, Stages
  <2>5. pc[c] = "relay" =>
           /\ peer[c] # NoAddr
           /\ replies[c] = IF req[c].cd = 1 THEN <<90>> ELSE <<90, 90>>
    BY <2>1 DEF Known
  <2> QED
    BY <2>2, <2>3, <2>4, <2>5
<1>2. SInv => Truthful
  BY <1>1 DEF Truthful, Asked
<1> QED
  BY <1>2, AlwaysSInv, PTL
=============================================================================

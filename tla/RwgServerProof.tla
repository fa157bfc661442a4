---------------------------- MODULE RwgServerProof ----------------------------
(***************************************************************************)
(* Theorems about the tables of the chat server, for any number of slots,  *)
(* descriptors, names and command lines.                                   *)
(*                                                                         *)
(* The invariant is TypeOK with TablesAgree, PipesBelongToUsers and        *)
(* NoAlias.  None of the three stands alone: that the map still points to  *)
(* the right user after accept needs that the new descriptor is in no      *)
(* table, hence that no exit or command closed a descriptor that another   *)
(* table holds (NoAlias); that needs in turn that the pipes of a user who  *)
(* left are out of the table.                                              *)
(***************************************************************************)
EXTENDS RwgServer, TLAPS

IInv == TypeOK /\ TablesAgree /\ PipesBelongToUsers /\ NoAlias

-----------------------------------------------------------------------------
(* Counting down an entry changes its count only.                          *)
LEMMA CloserEntry ==
  ASSUME NEW e \in Entry
  PROVE  /\ Closer(e) \in Entry
         /\ Closer(e).r = e.r /\ Closer(e).w = e.w
         /\ Closer(e).count = IF e.count > -1 THEN e.count - 1 ELSE -1
BY DEF Closer, Entry

(* Counting down keeps the descriptors of a list.                           *)
LEMMA CountdownKeeps ==
  ASSUME NEW list \in SUBSET Entry
  PROVE  /\ Countdown(list) \in SUBSET Entry
         /\ EntryFds(Countdown(list)) = EntryFds(list)
         /\ \A x \in Countdown(list) : \E e \in list : x = Closer(e)
<1>1. \A x \in Countdown(list) : \E e \in list : x = Closer(e)
  BY DEF Countdown
<1>2. \A e \in list : Closer(e) \in Countdown(list)
  BY DEF Countdown
<1>3. Countdown(list) \in SUBSET Entry
  BY <1>1, CloserEntry
<1>4. EntryFds(Countdown(list)) = EntryFds(list)
  <2>1. \A f \in EntryFds(Countdown(list)) : f \in EntryFds(list)
    BY <1>1, CloserEntry DEF EntryFds
  <2>2. \A f \in EntryFds(list) : f \in EntryFds(Countdown(list))
    BY <1>2, CloserEntry DEF EntryFds
  <2> QED
    BY <2>1, <2>2
<1> QED
  BY <1>1, <1>3, <1>4

(* What a line leaves in the list was there, or is its own new pipe.        *)
LEMMA NewListKeeps ==
  ASSUME NEW l \in LineType, NEW list \in SUBSET Entry, NEW r, NEW w
  PROVE  \A x \in NewList(l, list, r, w) :
            \/ x \in Searched(l, list) /\ x \in list
            \/ /\ Adds(l, Searched(l, list))
               /\ x = [count |-> l.n, r |-> r, w |-> w]
BY DEF NewList, AddNumbered, TakeDue, Searched, Adds

(* The initial tables are empty.                                            *)
LEMMA InitIInv == Init => IInv
<1> SUFFICES ASSUME Init PROVE IInv
  OBVIOUS
<1> USE RwgServerAssumption DEF Init
<1>1. TypeOK
  BY DEF TypeOK
<1>2. TablesAgree
  BY DEF TablesAgree, Users, Absent
<1>3. PipesBelongToUsers
  BY DEF PipesBelongToUsers
<1>4. NoAlias
  BY DEF NoAlias
<1> QED
  BY <1>1, <1>2, <1>3, <1>4 DEF IInv

(* A new connection: its descriptor was free, so it stood in no table.      *)
LEMMA AcceptIInv == IInv /\ Accept => IInv'
<1> SUFFICES ASSUME IInv, Accept PROVE IInv'
  OBVIOUS
<1> USE RwgServerAssumption
<1>0. TypeOK /\ TablesAgree /\ PipesBelongToUsers /\ NoAlias
  BY DEF IInv
<1>1. PICK i \in Users, f \in Fds \ open :
       /\ Free(i)
       /\ active' = [active EXCEPT ![i] = TRUE]
       /\ cfd' = [cfd EXCEPT ![i] = f]
       /\ name' = [name EXCEPT ![i] = NoName]
       /\ pipeN' = [pipeN EXCEPT ![i] = {}]
       /\ fd_map' = [fd_map EXCEPT ![f] = i]
       /\ afds' = afds \cup {f}
       /\ open' = open \cup {f}
       /\ user_pipe' = user_pipe /\ up' = up
  BY DEF Accept
<1>2. TypeOK'
  BY <1>0, <1>1 DEF TypeOK
<1>3. fd_map[f] = Absent /\ ~active[i] /\ i # Absent
  BY <1>0, <1>1 DEF NoAlias, TablesAgree, Free, Users, Absent
<1>4. TablesAgree'
  <2>1. ASSUME NEW g \in Fds PROVE (g \in afds <=> fd_map[g] # Absent)'
    BY <1>0, <1>1, <1>3 DEF TypeOK, TablesAgree
  <2>2. ASSUME NEW j \in Users, NEW g \in Fds
        PROVE  (fd_map[g] = j <=> active[j] /\ cfd[j] = g)'
    <3>1. CASE j = i
      <4>1. fd_map[g] # i
        BY <1>0, <1>3 DEF TablesAgree
      <4> QED
        BY <1>0, <1>1, <3>1, <4>1 DEF TypeOK
    <3>2. CASE j # i
      <4>1. g = f => ~(active[j] /\ cfd[j] = g)
        BY <1>0, <1>1, <1>3 DEF TablesAgree, Users, Absent
      <4> QED
        BY <1>0, <1>1, <3>2, <4>1 DEF TypeOK, TablesAgree
    <3> QED
      BY <3>1, <3>2
  <2>3. ASSUME NEW j \in Users, active'[j] PROVE (cfd[j] \in afds)'
    BY <1>0, <1>1, <2>3 DEF TypeOK, TablesAgree
  <2> QED
    BY <2>1, <2>2, <2>3 DEF TablesAgree
<1>5. PipesBelongToUsers'
  BY <1>0, <1>1 DEF TypeOK, PipesBelongToUsers
<1>6. NoAlias'
  <2>1. \A j \in Users : pipeN'[j] \subseteq pipeN[j]
    BY <1>0, <1>1 DEF TypeOK
  <2> QED
    BY <1>0, <1>1, <2>1 DEF TypeOK, NoAlias, Pair
<1> QED
  BY <1>2, <1>4, <1>5, <1>6 DEF IInv

(* A connection without a slot: its descriptor was free as well.            *)
LEMMA AcceptFullIInv == IInv /\ AcceptFull => IInv'
<1> SUFFICES ASSUME IInv, AcceptFull PROVE IInv'
  OBVIOUS
<1> USE RwgServerAssumption
<1>0. TypeOK /\ TablesAgree /\ PipesBelongToUsers /\ NoAlias
  BY DEF IInv
<1>1. PICK f \in Fds \ open :
       /\ up' \in BOOLEAN
       /\ fd_map' = [fd_map EXCEPT ![f] = NoSlot]
       /\ afds' = afds \cup {f}
       /\ open' = open \cup {f}
       /\ UNCHANGED <<active, cfd, name, user_pipe, pipeN>>
  BY DEF AcceptFull
<1>2. TypeOK'
  BY <1>0, <1>1 DEF TypeOK
<1>3. fd_map[f] = Absent /\ NoSlot # Absent /\ NoSlot \notin Users
  BY <1>0, <1>1 DEF NoAlias, TablesAgree, Users, Absent, NoSlot
<1>4. TablesAgree'
  <2>1. \A i \in Users : ~(active[i] /\ cfd[i] = f)
    BY <1>0, <1>1, <1>3 DEF TablesAgree, Users, Absent
  <2> QED
    BY <1>0, <1>1, <1>3, <2>1 DEF TypeOK, TablesAgree
<1>5. PipesBelongToUsers'
  BY <1>0, <1>1 DEF PipesBelongToUsers
<1>6. NoAlias'
  BY <1>0, <1>1 DEF TypeOK, NoAlias, Pair
<1> QED
  BY <1>2, <1>4, <1>5, <1>6 DEF IInv

(* The tables stay as they are.                                             *)
LEMMA UndefinedIInv == IInv /\ Undefined => IInv'
<1> SUFFICES ASSUME IInv, Undefined PROVE IInv'
  OBVIOUS
<1> USE DEF Undefined, clients, IInv
<1>1. TypeOK'
  BY DEF TypeOK
<1>2. TablesAgree' /\ PipesBelongToUsers' /\ NoAlias'
  BY DEF TablesAgree, PipesBelongToUsers, NoAlias
<1> QED
  BY <1>1, <1>2

(* Names are in no other table.                                             *)
LEMMA NameIInv == ASSUME NEW i \in Users PROVE IInv /\ Name(i) => IInv'
<1> SUFFICES ASSUME IInv, Name(i) PROVE IInv'
  OBVIOUS
<1> USE DEF Name, IInv
<1>1. TypeOK'
  BY DEF TypeOK
<1>2. TablesAgree' /\ PipesBelongToUsers' /\ NoAlias'
  BY DEF TablesAgree, PipesBelongToUsers, NoAlias
<1> QED
  BY <1>1, <1>2

(* Only the counts of a user's list change.                                 *)
LEMMA SetEnvIInv == ASSUME NEW i \in Users PROVE IInv /\ SetEnv(i) => IInv'
<1> SUFFICES ASSUME IInv, SetEnv(i) PROVE IInv'
  OBVIOUS
<1>0. TypeOK /\ TablesAgree /\ PipesBelongToUsers /\ NoAlias
  BY DEF IInv
<1>1. /\ pipeN' = [pipeN EXCEPT ![i] = Countdown(pipeN[i])]
      /\ UNCHANGED <<up, active, cfd, name, fd_map, afds, user_pipe, open>>
  BY DEF SetEnv, clients
<1>2. pipeN[i] \in SUBSET Entry
  BY <1>0 DEF TypeOK
<1>3. TypeOK'
  BY <1>0, <1>1, <1>2, CountdownKeeps DEF TypeOK
<1>4. TablesAgree' /\ PipesBelongToUsers'
  BY <1>0, <1>1 DEF TablesAgree, PipesBelongToUsers
<1>5. NoAlias'
  <2>1. \A j \in Users : \A x \in pipeN'[j] :
          \E e \in pipeN[j] : /\ x = IF j = i THEN Closer(e) ELSE e
                              /\ x.r = e.r /\ x.w = e.w
    BY <1>0, <1>1, <1>2, CountdownKeeps, CloserEntry DEF TypeOK
  <2>2. \A j \in Users : \A x \in pipeN'[j] :
          /\ x.r # x.w /\ Pair(x) \subseteq open \ afds
          /\ \A p \in Users \X Users : user_pipe[p] \notin Pair(x)
    BY <1>0, <2>1 DEF NoAlias, Pair
  <2>3. ASSUME NEW j \in Users, NEW k \in Users,
               NEW x \in pipeN'[j], NEW y \in pipeN'[k], Pair(x) \cap Pair(y) # {}
        PROVE  j = k /\ x = y
    <3>1. PICK e \in pipeN[j] : /\ x = IF j = i THEN Closer(e) ELSE e
                                /\ x.r = e.r /\ x.w = e.w
      BY <2>1
    <3>2. PICK d \in pipeN[k] : /\ y = IF k = i THEN Closer(d) ELSE d
                                /\ y.r = d.r /\ y.w = d.w
      BY <2>1
    <3>3. j = k /\ e = d
      BY <1>0, <2>3, <3>1, <3>2 DEF NoAlias, Pair
    <3> QED
      BY <3>1, <3>2, <3>3
  <2> QED
    BY <1>0, <1>1, <2>2, <2>3 DEF NoAlias, Pair
<1> QED
  BY <1>3, <1>4, <1>5 DEF IInv

(* What exit closes stands in no other user's tables.                       *)
LEMMA ExitIInv == ASSUME NEW i \in Users PROVE IInv /\ Exit(i) => IInv'
<1> SUFFICES ASSUME IInv, Exit(i) PROVE IInv'
  OBVIOUS
<1>0. TypeOK /\ TablesAgree /\ PipesBelongToUsers /\ NoAlias
  BY DEF IInv
<1> DEFINE f == cfd[i]
           gone == EntryFds(pipeN[i]) \cup {f} \cup {user_pipe[p] : p \in RowAndColumn(i)}
<1>1. /\ active[i]
      /\ active' = [active EXCEPT ![i] = FALSE]
      /\ fd_map' = [fd_map EXCEPT ![f] = Absent]
      /\ afds' = afds \ {f}
      /\ pipeN' = [pipeN EXCEPT ![i] = {}]
      /\ user_pipe' = [p \in Users \X Users |->
                        IF p \in RowAndColumn(i) THEN NoFd ELSE user_pipe[p]]
      /\ open' = open \ gone
      /\ UNCHANGED <<up, cfd, name>>
  BY DEF Exit
<1>2. f \in Fds /\ f \in afds /\ fd_map[f] = i
  BY <1>0, <1>1 DEF TypeOK, TablesAgree
<1>3. TypeOK'
  BY <1>0, <1>1, <1>2 DEF TypeOK
<1>4. TablesAgree'
  <2>1. ASSUME NEW g \in Fds PROVE (g \in afds <=> fd_map[g] # Absent)'
    BY <1>0, <1>1, <1>2 DEF TypeOK, TablesAgree
  <2>2. ASSUME NEW j \in Users, active'[j] PROVE (cfd[j] \in afds)'
    <3>1. j # i /\ active[j]
      BY <1>0, <1>1, <2>2 DEF TypeOK
    <3>2. cfd[j] \in afds /\ cfd[j] # f
      BY <1>0, <1>2, <3>1 DEF TypeOK, TablesAgree
    <3> QED
      BY <1>1, <3>2
  <2>3. ASSUME NEW j \in Users, NEW g \in Fds
        PROVE  (fd_map[g] = j <=> active[j] /\ cfd[j] = g)'
    <3>1. j # Absent
      BY RwgServerAssumption DEF Users, Absent
    <3> QED
      BY <1>0, <1>1, <1>2, <3>1 DEF TypeOK, TablesAgree
  <2> QED
    BY <2>1, <2>2, <2>3 DEF TablesAgree
<1>5. PipesBelongToUsers'
  BY <1>0, <1>1 DEF TypeOK, PipesBelongToUsers, RowAndColumn
<1>6. NoAlias'
  <2>1. \A p \in Users \X Users : user_pipe'[p] # NoFd =>
           user_pipe'[p] = user_pipe[p] /\ p \notin RowAndColumn(i)
    BY <1>1
  <2>2. \A j \in Users : \A e \in pipeN'[j] : j # i /\ e \in pipeN[j]
    BY <1>0, <1>1 DEF TypeOK
  <2>3. afds' \subseteq open'
    <3>1. \A g \in afds : g \notin EntryFds(pipeN[i])
      BY <1>0 DEF NoAlias, EntryFds, Pair
    <3>2. \A g \in afds : \A p \in Users \X Users : user_pipe[p] # g
      BY <1>0, RwgServerAssumption DEF NoAlias, TypeOK
    <3> QED
      BY <1>0, <1>1, <3>1, <3>2 DEF NoAlias, RowAndColumn
  <2>4. ASSUME NEW p \in Users \X Users, user_pipe'[p] # NoFd
        PROVE  user_pipe'[p] \in open' \ afds'
    <3>1. user_pipe[p] \in open \ afds /\ user_pipe[p] \notin EntryFds(pipeN[i])
      BY <1>0, <2>1, <2>4 DEF NoAlias, EntryFds, Pair
    <3>2. \A q \in RowAndColumn(i) : user_pipe[p] # user_pipe[q]
      BY <1>0, <2>1, <2>4 DEF NoAlias, RowAndColumn
    <3> QED
      BY <1>1, <1>2, <2>1, <2>4, <3>1, <3>2
  <2>5. ASSUME NEW p \in Users \X Users, NEW q \in Users \X Users,
               user_pipe'[p] = user_pipe'[q]
        PROVE  p = q \/ user_pipe'[p] = NoFd
    BY <1>0, <2>1, <2>5 DEF NoAlias
  <2>6. ASSUME NEW j \in Users, NEW e \in pipeN'[j]
        PROVE  /\ e.r # e.w /\ Pair(e) \subseteq open' \ afds'
               /\ \A p \in Users \X Users : user_pipe'[p] \notin Pair(e)
    <3>1. /\ e.r # e.w /\ Pair(e) \subseteq open \ afds
          /\ \A p \in Users \X Users : user_pipe[p] \notin Pair(e)
      BY <1>0, <2>2 DEF NoAlias
    <3>2. \A d \in pipeN[i] : Pair(e) \cap Pair(d) = {}
      BY <1>0, <2>2 DEF NoAlias
    <3>3. Pair(e) \subseteq open' \ afds'
      BY <1>1, <1>2, <3>1, <3>2 DEF EntryFds, Pair, RowAndColumn
    <3>4. NoFd \notin Pair(e)
      BY <3>1, <1>0, RwgServerAssumption DEF TypeOK
    <3> QED
      BY <2>1, <3>1, <3>3, <3>4
  <2>7. ASSUME NEW j \in Users, NEW k \in Users, NEW e \in pipeN'[j],
               NEW d \in pipeN'[k], Pair(e) \cap Pair(d) # {}
        PROVE  j = k /\ e = d
    BY <1>0, <2>2, <2>7 DEF NoAlias
  <2> QED
    BY <2>3, <2>4, <2>5, <2>6, <2>7 DEF NoAlias, Pair
<1> QED
  BY <1>3, <1>4, <1>5, <1>6 DEF IInv

(* The table of user pipes after `<` and `>`: an entry is as before, or the *)
(* new one, whose read end is r.                                            *)
LEMMA ExecUserPipe ==
  ASSUME TypeOK, NoAlias, NEW i \in Users, NEW l \in LineType, NEW r \in Fds \cup {NoFd},
         Sends(i, l) => r \in Fds \ open,
         user_pipe' = IF Sends(i, l) THEN [AfterRead(i, l) EXCEPT ![<<i, l.to>>] = r]
                      ELSE AfterRead(i, l)
  PROVE  /\ user_pipe' \in [Users \X Users -> Fds \cup {NoFd}]
         /\ ReadEnd(i, l) \subseteq open \ afds
         /\ \A e \in UNION {pipeN[j] : j \in Users} : ReadEnd(i, l) \cap Pair(e) = {}
         /\ \A p \in Users \X Users : user_pipe'[p] # NoFd =>
               \/ Sends(i, l) /\ p = <<i, l.to>> /\ user_pipe'[p] = r
               \/ user_pipe'[p] = user_pipe[p] /\ user_pipe[p] \notin ReadEnd(i, l)
<1>1. AfterRead(i, l) \in [Users \X Users -> Fds \cup {NoFd}]
  BY DEF TypeOK, AfterRead
<1>2. \A p \in Users \X Users : AfterRead(i, l)[p] # NoFd =>
         AfterRead(i, l)[p] = user_pipe[p] /\ user_pipe[p] \notin ReadEnd(i, l)
  <2>1. CASE Receives(i, l)
    <3>1. <<l.in, i>> \in Users \X Users /\ user_pipe[<<l.in, i>>] # NoFd
      BY <2>1 DEF Receives
    <3>2. AfterRead(i, l) = [user_pipe EXCEPT ![<<l.in, i>>] = NoFd]
      BY <2>1 DEF AfterRead
    <3>3. ReadEnd(i, l) \subseteq {user_pipe[<<l.in, i>>]}
      BY DEF ReadEnd
    <3>4. ASSUME NEW p \in Users \X Users, AfterRead(i, l)[p] # NoFd
          PROVE  AfterRead(i, l)[p] = user_pipe[p] /\ p # <<l.in, i>>
      BY <3>1, <3>2, <3>4 DEF TypeOK
    <3>5. \A p \in Users \X Users : p # <<l.in, i>> => user_pipe[p] # user_pipe[<<l.in, i>>]
      BY <3>1 DEF NoAlias
    <3> QED
      BY <3>3, <3>4, <3>5
  <2>2. CASE ~Receives(i, l)
    BY <2>2 DEF AfterRead, ReadEnd
  <2> QED
    BY <2>1, <2>2
<1>3. ReadEnd(i, l) \subseteq {user_pipe[p] : p \in Users \X Users} /\ NoFd \notin ReadEnd(i, l)
  BY DEF ReadEnd, Receives
<1>4. /\ ReadEnd(i, l) \subseteq open \ afds
      /\ \A e \in UNION {pipeN[j] : j \in Users} : ReadEnd(i, l) \cap Pair(e) = {}
  BY <1>3 DEF NoAlias
<1>5. CASE Sends(i, l)
  <2>1. <<i, l.to>> \in Users \X Users
    BY <1>5 DEF Sends
  <2>2. user_pipe' = [AfterRead(i, l) EXCEPT ![<<i, l.to>>] = r]
    BY <1>5
  <2> QED
    BY <1>1, <1>2, <1>4, <1>5, <2>1, <2>2
<1>6. CASE ~Sends(i, l)
  BY <1>1, <1>2, <1>4, <1>6
<1> QED
  BY <1>5, <1>6

(* A command line disturbs only the tables of the user who types it, and    *)
(* the column of user pipes to that user.                                   *)
LEMMA ExecIInv ==
  ASSUME NEW i \in Users, NEW l \in LineType PROVE IInv /\ Exec(i, l) => IInv'
<1> SUFFICES ASSUME IInv, Exec(i, l) PROVE IInv'
  OBVIOUS
<1>0. TypeOK /\ TablesAgree /\ PipesBelongToUsers /\ NoAlias
  BY DEF IInv
<1> DEFINE list == Countdown(pipeN[i])
           adds == Adds(l, Searched(l, list))
<1>1. PICK r \in IF adds \/ Sends(i, l) THEN Fds \ open ELSE {NoFd},
           w \in IF adds THEN Fds \ open ELSE {NoFd} :
       /\ adds => r # w
       /\ pipeN' = [pipeN EXCEPT ![i] = NewList(l, list, r, w)]
       /\ user_pipe' = IF Sends(i, l) THEN [AfterRead(i, l) EXCEPT ![<<i, l.to>>] = r]
                       ELSE AfterRead(i, l)
       /\ open' = (open \ (EntryFds(list) \cup ReadEnd(i, l)))
                  \cup EntryFds(NewList(l, list, r, w))
                  \cup (IF Sends(i, l) THEN {r} ELSE {})
  BY DEF Exec
<1>2. UNCHANGED <<up, active, cfd, name, fd_map, afds>>
  BY DEF Exec, clients
<1> DEFINE new == NewList(l, list, r, w)
<1>3. /\ list \in SUBSET Entry /\ EntryFds(list) = EntryFds(pipeN[i])
      /\ \A x \in list : \E e \in pipeN[i] : x = Closer(e) /\ x.r = e.r /\ x.w = e.w
  BY <1>0, CountdownKeeps, CloserEntry DEF TypeOK
<1>4. Sends(i, l) => ~adds
  BY DEF Sends, Adds
<1>5. r \in Fds \cup {NoFd} /\ (Sends(i, l) => r \in Fds \ open)
      /\ (adds => r \in Fds \ open /\ w \in Fds \ open /\ r # w)
  BY <1>1
<1>6. \A x \in new : \/ x \in list
                     \/ adds /\ x = [count |-> l.n, r |-> r, w |-> w]
  BY <1>3, NewListKeeps
<1>7. new \in SUBSET Entry
  BY <1>3, <1>5, <1>6, RwgServerAssumption DEF Entry, LineType
<1>8. \A x \in new : \/ \E e \in pipeN[i] : x = Closer(e) /\ x.r = e.r /\ x.w = e.w
                     \/ adds /\ x = [count |-> l.n, r |-> r, w |-> w] /\ x.r = r /\ x.w = w
  BY <1>3, <1>6
<1>9. /\ user_pipe' \in [Users \X Users -> Fds \cup {NoFd}]
      /\ ReadEnd(i, l) \subseteq open \ afds
      /\ \A e \in UNION {pipeN[j] : j \in Users} : ReadEnd(i, l) \cap Pair(e) = {}
      /\ \A p \in Users \X Users : user_pipe'[p] # NoFd =>
            \/ Sends(i, l) /\ p = <<i, l.to>> /\ user_pipe'[p] = r
            \/ user_pipe'[p] = user_pipe[p] /\ user_pipe[p] \notin ReadEnd(i, l)
  BY <1>0, <1>1, <1>5, ExecUserPipe
<1> HIDE DEF list, adds, new
<1>10. TypeOK'
  <2>1. open' \subseteq Fds
    BY <1>0, <1>1, <1>5, <1>7 DEF TypeOK, EntryFds, Entry, new
  <2>2. pipeN' \in [Users -> SUBSET Entry]
    BY <1>0, <1>1, <1>7 DEF TypeOK, new
  <2> QED
    BY <1>0, <1>2, <1>9, <2>1, <2>2 DEF TypeOK
<1>11. TablesAgree'
  BY <1>0, <1>2 DEF TablesAgree
<1>12. PipesBelongToUsers'
  <2>1. Exec(i, l) => active[i]
    BY DEF Exec
  <2>2. Sends(i, l) => active[l.to]
    BY DEF Sends
  <2>3. ASSUME NEW p \in Users \X Users, user_pipe'[p] # NoFd
        PROVE  active[p[1]] /\ active[p[2]]
    <3>1. CASE p = <<i, l.to>> /\ Sends(i, l)
      BY <2>1, <2>2, <3>1
    <3>2. CASE user_pipe'[p] = user_pipe[p]
      BY <1>0, <2>3, <3>2 DEF PipesBelongToUsers
    <3> QED
      BY <1>9, <2>3, <3>1, <3>2
  <2> QED
    BY <1>2, <2>3 DEF PipesBelongToUsers
<1>13. NoAlias'
  <2>1. \A j \in Users : pipeN'[j] = IF j = i THEN new ELSE pipeN[j]
    BY <1>0, <1>1 DEF TypeOK, new
  <2>2. \A g \in EntryFds(list) : \E e \in pipeN[i] : g \in Pair(e)
    BY <1>3 DEF EntryFds, Pair
  <2>3. afds' \subseteq open'
    <3>1. \A g \in afds : g \notin EntryFds(list)
      BY <1>0, <2>2 DEF NoAlias
    <3> QED
      BY <1>0, <1>1, <1>2, <1>9, <3>1 DEF NoAlias, list
  <2>4. ASSUME NEW p \in Users \X Users, user_pipe'[p] # NoFd
        PROVE  user_pipe'[p] \in open' \ afds'
    <3>1. CASE Sends(i, l) /\ user_pipe'[p] = r
      BY <1>0, <1>1, <1>2, <1>5, <3>1 DEF NoAlias
    <3>2. CASE user_pipe'[p] = user_pipe[p] /\ user_pipe[p] \notin ReadEnd(i, l)
      <4>1. user_pipe[p] \in open \ afds /\ user_pipe[p] \notin EntryFds(list)
        BY <1>0, <2>2, <2>4, <3>2 DEF NoAlias
      <4> QED
        BY <1>1, <1>2, <3>2, <4>1 DEF list
    <3> QED
      BY <1>9, <2>4, <3>1, <3>2
  <2>5. ASSUME NEW p \in Users \X Users, NEW q \in Users \X Users,
               user_pipe'[p] = user_pipe'[q], user_pipe'[p] # NoFd
        PROVE  p = q
    <3>1. \A o \in Users \X Users : user_pipe[o] # NoFd => user_pipe[o] \in open
      BY <1>0 DEF NoAlias
    <3> QED
      BY <1>0, <1>5, <1>9, <2>5, <3>1 DEF NoAlias
  <2>6. ASSUME NEW j \in Users, NEW x \in pipeN'[j]
        PROVE  /\ x.r # x.w /\ Pair(x) \subseteq open' \ afds'
               /\ \A p \in Users \X Users : user_pipe'[p] \notin Pair(x)
    <3>1. CASE j = i /\ adds /\ x.r = r /\ x.w = w
      <4>1. x \in new
        BY <2>1, <3>1
      <4>2. Pair(x) \subseteq open'
        BY <1>1, <4>1 DEF EntryFds, Pair, new
      <4>3. Pair(x) \subseteq Fds \ open
        BY <1>5, <3>1 DEF Pair
      <4>4. ASSUME NEW p \in Users \X Users PROVE user_pipe'[p] \notin Pair(x)
        <5>1. NoFd \notin Pair(x)
          BY <4>3, RwgServerAssumption
        <5>2. user_pipe'[p] # NoFd => user_pipe'[p] \in open
          BY <1>0, <1>4, <1>9, <3>1 DEF NoAlias
        <5> QED
          BY <4>3, <5>1, <5>2
      <4> QED
        BY <1>0, <1>2, <1>5, <3>1, <4>2, <4>3, <4>4 DEF NoAlias
    <3>2. ASSUME NEW e \in pipeN[j], x.r = e.r, x.w = e.w
          PROVE  /\ x.r # x.w /\ Pair(x) \subseteq open' \ afds'
                 /\ \A p \in Users \X Users : user_pipe'[p] \notin Pair(x)
      <4>1. /\ x.r # x.w /\ Pair(x) \subseteq open \ afds
            /\ \A p \in Users \X Users : user_pipe[p] \notin Pair(x)
        BY <1>0, <3>2 DEF NoAlias, Pair
      <4>2. Pair(x) \cap ReadEnd(i, l) = {}
        BY <1>9, <3>2 DEF Pair
      <4>3. Pair(x) \subseteq open'
        <5>1. CASE j = i
          BY <1>1, <2>1, <5>1 DEF EntryFds, Pair, new
        <5>2. CASE j # i
          <6>1. \A d \in pipeN[i] : Pair(x) \cap Pair(d) = {}
            BY <1>0, <3>2, <5>2 DEF NoAlias, Pair
          <6> QED
            BY <1>1, <2>2, <4>1, <4>2, <6>1 DEF list
        <5> QED
          BY <5>1, <5>2
      <4>4. NoFd \notin Pair(x)
        BY <1>0, <4>1, RwgServerAssumption DEF TypeOK
      <4> QED
        BY <1>2, <1>5, <1>9, <4>1, <4>3, <4>4
    <3> QED
      BY <1>8, <2>1, <3>1, <3>2
  <2>7. ASSUME NEW j \in Users, NEW k \in Users, NEW x \in pipeN'[j],
               NEW y \in pipeN'[k], Pair(x) \cap Pair(y) # {}
        PROVE  j = k /\ x = y
    <3>1. \/ \E e \in pipeN[j] : /\ x = IF j = i THEN Closer(e) ELSE e
                                 /\ x.r = e.r /\ x.w = e.w
          \/ j = i /\ adds /\ x = [count |-> l.n, r |-> r, w |-> w] /\ x.r = r /\ x.w = w
      BY <1>8, <2>1
    <3>2. \/ \E d \in pipeN[k] : /\ y = IF k = i THEN Closer(d) ELSE d
                                 /\ y.r = d.r /\ y.w = d.w
          \/ k = i /\ adds /\ y = [count |-> l.n, r |-> r, w |-> w] /\ y.r = r /\ y.w = w
      BY <1>8, <2>1
    <3>3. \A m \in Users : \A e \in pipeN[m] : e.r \in open /\ e.w \in open
      BY <1>0 DEF NoAlias, Pair
    <3>4. \A e \in pipeN[j], d \in pipeN[k] :
            x.r = e.r /\ x.w = e.w /\ y.r = d.r /\ y.w = d.w => j = k /\ e = d
      BY <1>0, <2>7 DEF NoAlias, Pair
    <3> QED
      BY <1>5, <2>7, <3>1, <3>2, <3>3, <3>4 DEF Pair
  <2> QED
    BY <2>3, <2>4, <2>5, <2>6, <2>7 DEF NoAlias
<1> QED
  BY <1>10, <1>11, <1>12, <1>13 DEF IInv

-----------------------------------------------------------------------------
(* Every step keeps the invariant.                                          *)
LEMMA NextIInv == IInv /\ [Next]_vars => IInv'
<1> SUFFICES ASSUME IInv, [Next]_vars PROVE IInv'
  OBVIOUS
<1>1. CASE Accept
  BY <1>1, AcceptIInv
<1>2. CASE AcceptFull
  BY <1>2, AcceptFullIInv
<1>3. CASE Undefined
  BY <1>3, UndefinedIInv
<1>4. ASSUME NEW i \in Users, Name(i) PROVE IInv'
  BY <1>4, NameIInv
<1>5. ASSUME NEW i \in Users, Exit(i) PROVE IInv'
  BY <1>5, ExitIInv
<1>6. ASSUME NEW i \in Users, SetEnv(i) PROVE IInv'
  BY <1>6, SetEnvIInv
<1>7. ASSUME NEW i \in Users, NEW l \in Lines, Exec(i, l) PROVE IInv'
  BY <1>7, ExecIInv, RwgServerAssumption
<1>8. CASE UNCHANGED vars
  BY <1>8 DEF vars, clients, IInv, TypeOK, TablesAgree, PipesBelongToUsers, NoAlias
<1> QED
  BY <1>1, <1>2, <1>3, <1>4, <1>5, <1>6, <1>7, <1>8 DEF Next

(* The invariant holds in every reachable state.                            *)
THEOREM Invariance == Spec => []IInv
<1> QED
  BY InitIInv, NextIInv, PTL DEF Spec

(* Every variable keeps its type.                                           *)
THEOREM TypeCorrect == Spec => []TypeOK
<1>1. IInv => TypeOK
  BY DEF IInv
<1> QED
  BY <1>1, Invariance, PTL

(* The slots, the descriptor map and the watched set agree: no input is     *)
(* executed for another user than the one it came from.                     *)
THEOREM TablesAlwaysAgree == Spec => []TablesAgree
<1>1. IInv => TablesAgree
  BY DEF IInv
<1> QED
  BY <1>1, Invariance, PTL

(* User pipes are between logged-in users: nobody inherits one with a       *)
(* number that is used again.                                               *)
THEOREM PipesAlwaysBelongToUsers == Spec => []PipesBelongToUsers
<1>1. IInv => PipesBelongToUsers
  BY DEF IInv
<1> QED
  BY <1>1, Invariance, PTL

(* Every descriptor of the tables is open and in one place only.            *)
THEOREM NeverAlias == Spec => []NoAlias
<1>1. IInv => NoAlias
  BY DEF IInv
<1> QED
  BY <1>1, Invariance, PTL

(* Names chosen by logged-in users are different.  That the check compares  *)
(* descriptors instead of slots relies on TablesAgree.                      *)
THEOREM NamesAlwaysUnique == Spec => []NamesUnique
<1>1. Init => NamesUnique
  BY DEF Init, NamesUnique
<1>2. IInv /\ NamesUnique /\ [Next]_vars => NamesUnique'
  <2> SUFFICES ASSUME IInv, NamesUnique, [Next]_vars PROVE NamesUnique'
    OBVIOUS
  <2>0. TypeOK /\ TablesAgree
    BY DEF IInv
  <2>1. CASE Accept
    BY <2>0, <2>1 DEF Accept, NamesUnique, TypeOK
  <2>2. CASE AcceptFull \/ Undefined \/ UNCHANGED vars
    BY <2>2 DEF AcceptFull, Undefined, vars, clients, NamesUnique
  <2>3. ASSUME NEW i \in Users, Name(i) PROVE NamesUnique'
    <3>1. PICK s \in Names :
            /\ \A j \in Users : active[j] /\ cfd[j] # cfd[i] => name[j] # s
            /\ name' = [name EXCEPT ![i] = s]
      BY <2>3 DEF Name
    <3>2. active[i] /\ active' = active
      BY <2>3 DEF Name
    <3>3. \A j \in Users : active[j] /\ j # i => cfd[j] # cfd[i]
      BY <2>0, <3>2 DEF TypeOK, TablesAgree
    <3> QED
      BY <2>0, <3>1, <3>2, <3>3 DEF NamesUnique, TypeOK
  <2>4. ASSUME NEW i \in Users, Exit(i) PROVE NamesUnique'
    BY <2>0, <2>4 DEF Exit, NamesUnique, TypeOK
  <2>5. ASSUME NEW i \in Users, SetEnv(i) PROVE NamesUnique'
    BY <2>5 DEF SetEnv, clients, NamesUnique
  <2>6. ASSUME NEW i \in Users, NEW l \in Lines, Exec(i, l) PROVE NamesUnique'
    BY <2>6 DEF Exec, clients, NamesUnique
  <2> QED
    BY <2>1, <2>2, <2>3, <2>4, <2>5, <2>6 DEF Next
<1> QED
  BY <1>1, <1>2, Invariance, PTL DEF Spec

-----------------------------------------------------------------------------
(* Counting down keeps the targets of a list apart.                         *)
LEMMA CountdownDistinct ==
  ASSUME NEW list \in SUBSET Entry,
         \A e, d \in list : e.count = d.count => e = d \/ e.count < 0
  PROVE  \A x, y \in Countdown(list) : x.count = y.count => x = y \/ x.count < 0
<1> SUFFICES ASSUME NEW x \in Countdown(list), NEW y \in Countdown(list),
                    x.count = y.count, ~(x.count < 0)
             PROVE  x = y
  OBVIOUS
<1>1. PICK e \in list : x = Closer(e)
  BY CountdownKeeps
<1>2. PICK d \in list : y = Closer(d)
  BY CountdownKeeps
<1>3. /\ e.count \in Int /\ d.count \in Int
      /\ x.count = IF e.count > -1 THEN e.count - 1 ELSE -1
      /\ y.count = IF d.count > -1 THEN d.count - 1 ELSE -1
  BY <1>1, <1>2, CloserEntry DEF Entry
<1>4. ASSUME NEW m \in Int, NEW n \in Int, NEW k,
             k = IF m > -1 THEN m - 1 ELSE -1, k = IF n > -1 THEN n - 1 ELSE -1, ~(k < 0)
      PROVE  m = n /\ ~(m < 0)
  <2>1. CASE m > -1 /\ n > -1
    BY <1>4, <2>1
  <2>2. CASE ~(m > -1) \/ ~(n > -1)
    BY <1>4, <2>2
  <2> QED
    BY <2>1, <2>2
<1>5. e.count = d.count /\ ~(e.count < 0)
  BY <1>3, <1>4
<1> QED
  BY <1>1, <1>2, <1>5

(* No two numbered pipes of a user wait for the same line: deletePipeN,     *)
(* which removes the first entry that is due, removes the only one.         *)
THEOREM CountsAlwaysDistinct == Spec => []DistinctCounts
<1>1. Init => DistinctCounts
  BY DEF Init, DistinctCounts
<1>2. IInv /\ DistinctCounts /\ [Next]_vars => DistinctCounts'
  <2> SUFFICES ASSUME IInv, DistinctCounts, [Next]_vars PROVE DistinctCounts'
    OBVIOUS
  <2>0. TypeOK
    BY DEF IInv
  <2>1. CASE Accept
    BY <2>0, <2>1 DEF Accept, DistinctCounts, TypeOK
  <2>2. CASE AcceptFull \/ Undefined \/ UNCHANGED vars
    BY <2>2 DEF AcceptFull, Undefined, vars, DistinctCounts
  <2>3. ASSUME NEW i \in Users, Name(i) PROVE DistinctCounts'
    BY <2>3 DEF Name, DistinctCounts
  <2>4. ASSUME NEW i \in Users, Exit(i) PROVE DistinctCounts'
    BY <2>0, <2>4 DEF Exit, DistinctCounts, TypeOK
  <2>5. ASSUME NEW i \in Users, SetEnv(i) PROVE DistinctCounts'
    <3>1. pipeN' = [pipeN EXCEPT ![i] = Countdown(pipeN[i])]
      BY <2>5 DEF SetEnv
    <3> QED
      BY <2>0, <3>1, CountdownDistinct DEF DistinctCounts, TypeOK
  <2>6. ASSUME NEW i \in Users, NEW l \in Lines, Exec(i, l) PROVE DistinctCounts'
    <3> DEFINE list == Countdown(pipeN[i])
    <3>1. PICK r, w : pipeN' = [pipeN EXCEPT ![i] = NewList(l, list, r, w)]
      BY <2>6 DEF Exec
    <3>2. list \in SUBSET Entry
      BY <2>0, CountdownKeeps DEF TypeOK
    <3>3. \A x, y \in list : x.count = y.count => x = y \/ x.count < 0
      BY <2>0, CountdownDistinct DEF DistinctCounts, TypeOK
    <3>4. l \in LineType
      BY RwgServerAssumption
    <3> HIDE DEF list
    <3>5. \A x \in NewList(l, list, r, w) :
             \/ x \in Searched(l, list) /\ x \in list
             \/ /\ Adds(l, Searched(l, list))
                /\ x = [count |-> l.n, r |-> r, w |-> w]
      BY <3>2, <3>4, NewListKeeps
    <3>6. \A x, y \in NewList(l, list, r, w) : x.count = y.count => x = y \/ x.count < 0
      BY <3>3, <3>5 DEF Adds
    <3> QED
      BY <2>0, <3>1, <3>6 DEF DistinctCounts, TypeOK
  <2> QED
    BY <2>1, <2>2, <2>3, <2>4, <2>5, <2>6 DEF Next
<1> QED
  BY <1>1, <1>2, Invariance, PTL DEF Spec

-----------------------------------------------------------------------------
\* A descriptor stands in a table.
Kept(f) ==
  \/ f \in afds
  \/ \E p \in Users \X Users : user_pipe[p] = f
  \/ \E i \in Users : f \in EntryFds(pipeN[i])

\* The numbered pipes of a user who left are closed: accept, which empties the
\* list of its slot, forgets none.
Clean == \A i \in Users : active[i] \/ pipeN[i] = {}

LEMMA LostIsNotKept ==
  /\ Lost = {f \in open : ~Kept(f)}
  /\ Lost' = {f \in open' : ~Kept(f)'}
BY DEF Lost, Kept

LEMMA AlwaysClean == Spec => []Clean
<1>1. Init => Clean
  BY DEF Init, Clean
<1>2. IInv /\ Clean /\ [Next]_vars => Clean'
  <2> SUFFICES ASSUME IInv, Clean, [Next]_vars PROVE Clean'
    OBVIOUS
  <2>0. TypeOK
    BY DEF IInv
  <2>1. CASE Accept
    BY <2>0, <2>1 DEF Accept, Clean, TypeOK
  <2>2. CASE AcceptFull \/ Undefined \/ UNCHANGED vars
    BY <2>2 DEF AcceptFull, Undefined, vars, clients, Clean
  <2>3. ASSUME NEW i \in Users, Name(i) \/ Exit(i) PROVE Clean'
    BY <2>0, <2>3 DEF Name, Exit, Clean, TypeOK
  <2>4. ASSUME NEW i \in Users, SetEnv(i) PROVE Clean'
    BY <2>0, <2>4 DEF SetEnv, clients, Clean, TypeOK
  <2>5. ASSUME NEW i \in Users, NEW l \in Lines, Exec(i, l) PROVE Clean'
    <3>1. active[i] /\ active' = active
      BY <2>5 DEF Exec, clients
    <3>2. PICK list : pipeN' = [pipeN EXCEPT ![i] = list]
      BY <2>5 DEF Exec
    <3> QED
      BY <2>0, <3>1, <3>2 DEF Clean, TypeOK
  <2> QED
    BY <2>1, <2>2, <2>3, <2>4, <2>5 DEF Next
<1> QED
  BY <1>1, <1>2, Invariance, PTL DEF Spec

(* A new connection is in the tables, and takes nothing out of them.        *)
LEMMA AcceptKeepsLost == IInv /\ Clean /\ (Accept \/ AcceptFull) => Lost' = Lost
<1> SUFFICES ASSUME IInv, Clean, Accept \/ AcceptFull PROVE Lost' = Lost
  OBVIOUS
<1>0. TypeOK /\ NoAlias
  BY DEF IInv
<1>1. PICK f \in Fds \ open : afds' = afds \cup {f} /\ open' = open \cup {f}
  BY DEF Accept, AcceptFull
<1>2. user_pipe' = user_pipe
  BY DEF Accept, AcceptFull
<1>3. pipeN' = pipeN
  <2>1. CASE Accept
    <3>1. PICK i \in Users : ~active[i] /\ pipeN' = [pipeN EXCEPT ![i] = {}]
      BY <2>1 DEF Accept, Free
    <3> QED
      BY <1>0, <3>1 DEF Clean, TypeOK
  <2>2. CASE AcceptFull
    BY <2>2 DEF AcceptFull
  <2> QED
    BY <2>1, <2>2
<1>4. \A g \in open : Kept(g)' <=> Kept(g)
  BY <1>1, <1>2, <1>3 DEF Kept
<1>5. Kept(f)'
  BY <1>1 DEF Kept
<1> QED
  BY <1>1, <1>4, <1>5, LostIsNotKept

(* Exit closes what it takes out of the tables, and nothing else.           *)
LEMMA ExitKeepsLost == ASSUME NEW i \in Users PROVE IInv /\ Exit(i) => Lost' = Lost
<1> SUFFICES ASSUME IInv, Exit(i) PROVE Lost' = Lost
  OBVIOUS
<1>0. TypeOK /\ TablesAgree
  BY DEF IInv
<1> DEFINE gone == EntryFds(pipeN[i]) \cup {cfd[i]} \cup {user_pipe[p] : p \in RowAndColumn(i)}
<1>1. /\ active[i]
      /\ afds' = afds \ {cfd[i]}
      /\ pipeN' = [pipeN EXCEPT ![i] = {}]
      /\ user_pipe' = [p \in Users \X Users |->
                        IF p \in RowAndColumn(i) THEN NoFd ELSE user_pipe[p]]
      /\ open' = open \ gone
  BY DEF Exit
<1>2. cfd[i] \in afds /\ RowAndColumn(i) \subseteq Users \X Users
  BY <1>0, <1>1 DEF TablesAgree, RowAndColumn
<1>3. \A g \in gone : Kept(g)
  BY <1>2 DEF Kept
<1>4. EntryFds({}) = {}
  BY DEF EntryFds
<1>5. \A j \in Users : EntryFds(pipeN'[j]) = IF j = i THEN {} ELSE EntryFds(pipeN[j])
  BY <1>0, <1>1, <1>4 DEF TypeOK
<1>6. NoFd \notin open
  BY <1>0, RwgServerAssumption DEF TypeOK
<1>7. ASSUME NEW g \in open, g \notin gone PROVE Kept(g)' <=> Kept(g)
  <2>1. g \in afds' <=> g \in afds
    BY <1>1, <1>7
  <2>2. (\E p \in Users \X Users : user_pipe'[p] = g) <=> \E p \in Users \X Users : user_pipe[p] = g
    BY <1>1, <1>6, <1>7
  <2>3. \A j \in Users : g \in EntryFds(pipeN'[j]) <=> g \in EntryFds(pipeN[j])
    BY <1>5, <1>7
  <2> QED
    BY <2>1, <2>2, <2>3 DEF Kept
<1> HIDE DEF gone
<1> QED
  BY <1>1, <1>3, <1>7, LostIsNotKept

(* A line closes only what it takes out of the tables, and keeps what it    *)
(* opens in them; what it takes out it closes, but for a user pipe read     *)
(* into a file.                                                             *)
LEMMA ExecLoses ==
  ASSUME NEW i \in Users, NEW l \in LineType
  PROVE  IInv /\ Exec(i, l) => Lost \subseteq Lost' /\ (Lost' # Lost => LostToFile(i, l))
<1> SUFFICES ASSUME IInv, Exec(i, l)
             PROVE  Lost \subseteq Lost' /\ (Lost' # Lost => LostToFile(i, l))
  OBVIOUS
<1>0. TypeOK /\ NoAlias
  BY DEF IInv
<1> DEFINE list == Countdown(pipeN[i])
           adds == Adds(l, Searched(l, list))
           sends == Sends(i, l)
           rest == AfterRead(i, l)
<1>1. PICK r \in IF adds \/ sends THEN Fds \ open ELSE {NoFd},
           w \in IF adds THEN Fds \ open ELSE {NoFd} :
       /\ adds => r # w
       /\ pipeN' = [pipeN EXCEPT ![i] = NewList(l, list, r, w)]
       /\ user_pipe' = IF sends THEN [rest EXCEPT ![<<i, l.to>>] = r] ELSE rest
       /\ open' = (open \ (EntryFds(list) \cup ReadEnd(i, l)))
                  \cup EntryFds(NewList(l, list, r, w))
                  \cup (IF sends THEN {r} ELSE {})
  BY DEF Exec
<1> DEFINE new == NewList(l, list, r, w)
<1>2. afds' = afds
  BY DEF Exec, clients
<1>3. /\ list \in SUBSET Entry /\ EntryFds(list) = EntryFds(pipeN[i])
  BY <1>0, CountdownKeeps DEF TypeOK
<1>4. \A x \in new : x \in list \/ (adds /\ x = [count |-> l.n, r |-> r, w |-> w])
  BY <1>3, NewListKeeps
<1>5. (adds \/ sends => r \notin open) /\ (adds => w \notin open)
  BY <1>1
<1>6. \A g \in EntryFds(new) : g \in EntryFds(list) \/ g \notin open
  BY <1>4, <1>5 DEF EntryFds
<1>7. rest \in [Users \X Users -> Fds \cup {NoFd}]
  BY <1>0 DEF TypeOK, AfterRead
<1>8. NoFd \notin open /\ NoFd \notin Fds /\ open \subseteq Fds
  BY <1>0, RwgServerAssumption DEF TypeOK
<1>9. \A g \in ReadEnd(i, l) : Receives(i, l) /\ g = user_pipe[<<l.in, i>>] /\ <<l.in, i>> \in Users \X Users
  BY DEF ReadEnd, Receives
<1>10. sends => <<i, l.to>> \in Users \X Users /\ rest[<<i, l.to>>] = NoFd
  BY DEF Sends
<1>11. \A p \in Users \X Users : rest[p] = user_pipe[p] \/ rest[p] = NoFd
  BY <1>0 DEF TypeOK, AfterRead
<1>12. \A j \in Users : pipeN'[j] = IF j = i THEN new ELSE pipeN[j]
  BY <1>0, <1>1 DEF TypeOK
<1> HIDE DEF list, adds, sends, rest, new
<1>13. \A p \in Users \X Users :
         user_pipe'[p] = IF sends /\ p = <<i, l.to>> THEN r ELSE rest[p]
  BY <1>1, <1>7, <1>10
<1>14. ASSUME NEW g \in open, ~Kept(g) PROVE g \in open' /\ ~Kept(g)'
  <2>1. g \notin EntryFds(list) /\ g \notin ReadEnd(i, l)
    BY <1>3, <1>9, <1>14 DEF Kept
  <2>2. \A j \in Users : g \notin EntryFds(pipeN'[j])
    BY <1>6, <1>12, <1>14, <2>1 DEF Kept
  <2>3. \A p \in Users \X Users : user_pipe'[p] # g
    BY <1>5, <1>8, <1>11, <1>13, <1>14 DEF Kept
  <2>4. g \in open'
    BY <1>1, <2>1
  <2> QED
    BY <1>2, <1>14, <2>2, <2>3, <2>4 DEF Kept
<1>15. ASSUME NEW g \in open', ~Kept(g)', ~LostToFile(i, l) PROVE g \in open /\ ~Kept(g)
  <2>1. g \notin EntryFds(new)
    BY <1>12, <1>15 DEF Kept
  <2>2. ~(sends /\ g = r)
    BY <1>10, <1>13, <1>15 DEF Kept
  <2>3. g \in open /\ g \notin EntryFds(list) /\ g \notin ReadEnd(i, l)
    BY <1>1, <2>1, <2>2 DEF new
  <2>4. \A j \in Users : g \notin EntryFds(pipeN[j])
    BY <1>3, <1>12, <1>15, <2>3 DEF Kept
  <2>5. ASSUME NEW p \in Users \X Users, user_pipe[p] = g PROVE FALSE
    <3>1. rest[p] # g
      <4>1. CASE sends /\ p = <<i, l.to>>
        BY <1>8, <1>10, <2>3, <4>1
      <4>2. CASE ~(sends /\ p = <<i, l.to>>)
        BY <1>13, <1>15, <4>2 DEF Kept
      <4> QED
        BY <4>1, <4>2
    <3>2. Receives(i, l) /\ p = <<l.in, i>>
      BY <1>0, <2>5, <3>1 DEF rest, AfterRead, TypeOK
    <3>3. KeepsReadEnd(l)
      BY <2>3, <2>5, <3>2 DEF ReadEnd
    <3> QED
      BY <1>15, <3>2, <3>3 DEF LostToFile, KeepsReadEnd
  <2> QED
    BY <1>2, <1>15, <2>3, <2>4, <2>5 DEF Kept
<1>16. Lost \subseteq Lost'
  BY <1>14, LostIsNotKept
<1>17. ~LostToFile(i, l) => Lost' \subseteq Lost
  BY <1>15, LostIsNotKept
<1> QED
  BY <1>16, <1>17

(* Descriptors leak in one way only, whatever the users do: a line that     *)
(* reads a user pipe and writes a file forgets the pipe's read end.         *)
THEOREM LeaksOnlyToFiles == Spec => NoLeak
<1> DEFINE Step == /\ Lost \subseteq Lost'
                   /\ Lost' # Lost => \E i \in Users, l \in Lines : LostToFile(i, l)
<1>1. IInv /\ Clean /\ [Next]_vars => [Step]_vars
  <2> SUFFICES ASSUME IInv, Clean, [Next]_vars PROVE Step \/ UNCHANGED vars
    OBVIOUS
  <2>0. TypeOK
    BY DEF IInv
  <2>1. CASE Accept \/ AcceptFull
    BY <2>1, AcceptKeepsLost
  <2>2. CASE Undefined
    BY <2>2 DEF Undefined, clients, Lost
  <2>3. ASSUME NEW i \in Users, Name(i) PROVE Step
    BY <2>3 DEF Name, Lost
  <2>4. ASSUME NEW i \in Users, Exit(i) PROVE Step
    BY <2>4, ExitKeepsLost
  <2>5. ASSUME NEW i \in Users, SetEnv(i) PROVE Step
    <3>1. /\ pipeN' = [pipeN EXCEPT ![i] = Countdown(pipeN[i])]
          /\ UNCHANGED <<afds, user_pipe, open>>
      BY <2>5 DEF SetEnv, clients
    <3>2. EntryFds(Countdown(pipeN[i])) = EntryFds(pipeN[i])
      BY <2>0, CountdownKeeps DEF TypeOK
    <3>3. \A j \in Users : EntryFds(pipeN'[j]) = EntryFds(pipeN[j])
      BY <2>0, <3>1, <3>2 DEF TypeOK
    <3>4. Lost' = Lost
      BY <3>1, <3>3 DEF Lost
    <3> QED
      BY <3>4
  <2>6. ASSUME NEW i \in Users, NEW l \in Lines, Exec(i, l) PROVE Step
    BY <2>6, ExecLoses, RwgServerAssumption
  <2> QED
    BY <2>1, <2>2, <2>3, <2>4, <2>5, <2>6 DEF Next
<1> QED
  BY <1>1, Invariance, AlwaysClean, PTL DEF Spec, NoLeak

-----------------------------------------------------------------------------
(* The tables implement the abstract user pipes: login and logout are       *)
(* accept and exit, a command line takes and leaves at most one parcel, and *)
(* every other step leaves the parcels alone.                               *)
THEOREM TablesImplementMail == Spec => MailKept
<1> DEFINE present == {i \in Users : active[i]}
<1>1. Init => Mail!Init
  BY DEF Init, Mail!Init, Mail!Users, Users
<1>2. IInv /\ [Next]_vars => [Mail!Next]_(Mail!vars)
  <2> SUFFICES ASSUME IInv, [Next]_vars PROVE Mail!Next \/ UNCHANGED Mail!vars
    OBVIOUS
  <2>0. TypeOK
    BY DEF IInv
  <2> USE DEF Mail!vars, Mail!Users
  <2>1. CASE Accept
    <3>1. PICK i \in Users : /\ ~active[i] /\ active' = [active EXCEPT ![i] = TRUE]
                             /\ user_pipe' = user_pipe
      BY <2>1 DEF Accept, Free
    <3>2. Mail!Login(i)
      BY <2>0, <3>1 DEF TypeOK, Mail!Login
    <3> QED
      BY <3>2 DEF Mail!Next, Users
  <2>2. CASE AcceptFull \/ Undefined \/ UNCHANGED vars
    BY <2>2 DEF AcceptFull, Undefined, vars, clients
  <2>3. ASSUME NEW i \in Users, Name(i) \/ SetEnv(i) PROVE UNCHANGED Mail!vars
    BY <2>3 DEF Name, SetEnv, clients
  <2>4. ASSUME NEW i \in Users, Exit(i) PROVE Mail!Next
    <3>1. Mail!Logout(i)
      BY <2>0, <2>4 DEF Exit, TypeOK, RowAndColumn, Mail!Logout, Users
    <3> QED
      BY <3>1 DEF Mail!Next, Users
  <2>5. ASSUME NEW i \in Users, NEW l \in Lines, Exec(i, l) PROVE Mail!Next
    <3>1. active[i] /\ active' = active
      BY <2>5 DEF Exec, clients
    <3>2. PICK r : /\ Sends(i, l) => r \in Fds
                   /\ user_pipe' = IF Sends(i, l)
                                     THEN [AfterRead(i, l) EXCEPT ![<<i, l.to>>] = r]
                                     ELSE AfterRead(i, l)
      BY <2>5 DEF Exec
    <3>3. AfterRead(i, l) \in Mail!Taken(i)
      BY DEF AfterRead, Receives, Mail!Taken
    <3>4. Sends(i, l) => l.to \in present /\ AfterRead(i, l)[<<i, l.to>>] = NoFd
      BY DEF Sends
    <3>5. Mail!Command(i)
      <4>1. CASE Sends(i, l)
        BY <3>1, <3>2, <3>3, <3>4, <4>1 DEF Mail!Command
      <4>2. CASE ~Sends(i, l)
        BY <3>1, <3>2, <3>3, <4>2 DEF Mail!Command
      <4> QED
        BY <4>1, <4>2
    <3> QED
      BY <3>5 DEF Mail!Next, Users
  <2> QED
    BY <2>1, <2>2, <2>3, <2>4, <2>5 DEF Next
<1> QED
  BY <1>1, <1>2, Invariance, PTL DEF Spec, MailKept, Mail!Spec
=============================================================================

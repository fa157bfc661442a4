------------------------------ MODULE UserPipes ------------------------------
(***************************************************************************)
(* What the user pipes of the chat server promise, without its tables.     *)
(*                                                                         *)
(* Logged-in users leave each other parcels (`cmd >j`), at most one from   *)
(* i to j, which no later one replaces; the receiver takes it (`cmd <i`);  *)
(* when a user logs out the parcels from and to that user are gone, so     *)
(* that the next user with the same number starts with none.               *)
(***************************************************************************)
EXTENDS Naturals

CONSTANTS
  N,        \* the numbers users may have are 1 .. N
  Parcels,  \* what can be left for a user
  Nothing   \* no parcel

Users == 1 .. N

VARIABLES in,      \* who is logged in
          parcel   \* <<i, j>> -> the parcel from i that waits for j

vars == <<in, parcel>>

TypeOK == in \subseteq Users /\ parcel \in [Users \X Users -> Parcels \cup {Nothing}]

Init == in = {} /\ parcel = [p \in Users \X Users |-> Nothing]

Login(i) == i \notin in /\ in' = in \cup {i} /\ UNCHANGED parcel

Logout(i) ==
  /\ i \in in
  /\ in' = in \ {i}
  /\ parcel' = [p \in Users \X Users |->
                  IF p[1] = i \/ p[2] = i THEN Nothing ELSE parcel[p]]

\* What a command of user i may leave of the parcels: at most one is taken.
Taken(i) == {parcel} \cup {[parcel EXCEPT ![<<j, i>>] = Nothing] : j \in in}

\* It then leaves at most one, where none is waiting.
Command(i) ==
  /\ i \in in /\ UNCHANGED in
  /\ \E rest \in Taken(i) :
       \/ parcel' = rest
       \/ \E j \in in, x \in Parcels :
            rest[<<i, j>>] = Nothing /\ parcel' = [rest EXCEPT ![<<i, j>>] = x]

Next == \E i \in Users : Login(i) \/ Logout(i) \/ Command(i)

Spec == Init /\ [][Next]_vars
=============================================================================

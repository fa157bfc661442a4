----------------------------- MODULE NpShellProof -----------------------------
(***************************************************************************)
(* Theorems about the shell's pipes, for any number of lines, stages and   *)
(* processes and any commands, in project 1 and under the server of        *)
(* project 2.                                                              *)
(*                                                                         *)
(* The invariant has two parts.  IInv is about the present: it adds to     *)
(* TypeOK, DistinctCounts and ShellHolds where in its line the shell is    *)
(* (InLine), which pipes it has in hand there (InHand), and that the pipes *)
(* of the list were opened by earlier lines or by the last stage of this   *)
(* one (Opened), so that a new pipe is in none of them.  History is about  *)
(* the programs that were forked: in which order, what each reads, and     *)
(* what became of the pipe each last stage writes.                         *)
(***************************************************************************)
EXTENDS SimpleServer, TLAPS

InLine == pc \in {"open", "fork", "wait", "waitany"} => lineNo >= 1 /\ stage <= line.stages

InHand ==
  /\ pc = "open" => pi = IF stage = 1 THEN NoPipe ELSE <<lineNo, stage - 1>>
  /\ pc = "fork" => /\ pre = IF stage = 1 THEN NoPipe ELSE <<lineNo, stage - 1>>
                    /\ ~Last => pi = Me
                    /\ Last /\ pi # NoPipe => \E e \in pipeN : e.fd = pi

Opened ==
  \A e \in pipeN : \/ e.fd[1] < lineNo
                   \/ /\ e.fd = <<lineNo, line.stages>> /\ lineNo >= 1
                      /\ pc # "open" /\ (pc = "fork" => Last)

IInv == TypeOK /\ InLine /\ InHand /\ Opened /\ DistinctCounts /\ ShellHolds

-----------------------------------------------------------------------------
(* The pipe of the current stage is a pipe, and of no earlier line.         *)
LEMMA MeProc ==
  ASSUME TypeOK, InLine, pc \in {"open", "fork", "wait", "waitany"}
  PROVE  /\ Me \in Proc /\ Me # NoPipe /\ Me # Shell /\ line \in LineType
         /\ stage \in Nat \ {0} /\ lineNo \in Nat /\ line.stages \in 1 .. MaxStages
         /\ ~Last => stage + 1 \in 1 .. MaxStages /\ stage + 1 <= line.stages
<1>1. lineNo \in 1 .. MaxLines /\ stage \in 1 .. MaxStages
  BY NpShellAssumption DEF TypeOK, InLine
<1>2. line \in LineType
  BY <1>1 DEF TypeOK, line
<1>3. line.stages \in 1 .. MaxStages
  BY <1>2 DEF LineType
<1>4. Me \in Proc /\ Me # NoPipe /\ Me # Shell
  BY <1>1 DEF Me, Proc, NoPipe, Shell
<1> QED
  BY <1>1, <1>2, <1>3, <1>4, NpShellAssumption DEF Last, InLine

(* Counting down keeps the pipes and tells the entries apart.               *)
LEMMA CountdownList ==
  ASSUME NEW list \in SUBSET [count : Int, fd : Proc]
  PROVE  /\ Countdown(list) \in SUBSET [count : Int, fd : Proc]
         /\ \A x \in Countdown(list) : \E e \in list :
              x.fd = e.fd /\ x.count = e.count - 1 /\ x = [count |-> e.count - 1, fd |-> e.fd]
         /\ \A e \in list : [count |-> e.count - 1, fd |-> e.fd] \in Countdown(list)
<1>1. \A e \in list : [e EXCEPT !.count = @ - 1] = [count |-> e.count - 1, fd |-> e.fd]
  OBVIOUS
<1>2. \A x \in Countdown(list) : \E e \in list : x = [e EXCEPT !.count = @ - 1]
  BY DEF Countdown
<1>3. \A e \in list : [e EXCEPT !.count = @ - 1] \in Countdown(list)
  BY DEF Countdown
<1> QED
  BY <1>1, <1>2, <1>3

(* No line, no pipe.                                                       *)
LEMMA InitIInv == Init => IInv
<1> SUFFICES ASSUME Init PROVE IInv
  OBVIOUS
<1> USE DEF Init
<1>1. TypeOK
  BY NpShellAssumption DEF TypeOK, LineType
<1>2. InLine /\ InHand /\ Opened /\ DistinctCounts
  BY DEF InLine, InHand, Opened, DistinctCounts
<1>3. ShellHolds
  BY DEF ShellHolds, Shell
<1> QED
  BY <1>1, <1>2, <1>3 DEF IInv

(* A new line: every pipe of the list is of an earlier one.                 *)
LEMMA ReadLineIInv == IInv /\ ReadLine => IInv'
<1> SUFFICES ASSUME IInv, ReadLine PROVE IInv'
  OBVIOUS
<1>0. TypeOK /\ Opened /\ DistinctCounts /\ ShellHolds
  BY DEF IInv
<1>1. PICK l \in Lines :
        /\ typed' = [typed EXCEPT ![lineNo + 1] = l]
        /\ pc' = IF l.cmd = "exec" THEN "open" ELSE "prompt"
  BY DEF ReadLine
<1>2. /\ pc = "prompt" /\ lineNo' = lineNo + 1 /\ stage' = 1 /\ pre' = NoPipe /\ pi' = NoPipe
      /\ pipeN' = Countdown(pipeN) /\ lineNo < MaxLines
      /\ UNCHANGED <<fds, stdin, stdout, st, todo, buf>>
  BY DEF ReadLine, procVars
<1>3. l \in LineType /\ lineNo \in Nat /\ lineNo + 1 \in 1 .. MaxLines
  BY <1>0, <1>2, NpShellAssumption DEF TypeOK
<1>4. pipeN \in SUBSET [count : Int, fd : Proc]
  BY <1>0 DEF TypeOK
<1>5. TypeOK'
  <2>1. pipeN' \in SUBSET [count : Int, fd : Proc]
    BY <1>2, <1>4, CountdownList
  <2>2. typed' \in [1 .. MaxLines -> LineType]
    BY <1>0, <1>1, <1>3 DEF TypeOK
  <2>3. /\ pc' \in {"prompt", "open"} /\ lineNo' \in 0 .. MaxLines
        /\ stage' \in 1 .. MaxStages /\ pre' = NoPipe /\ pi' = NoPipe
    BY <1>1, <1>2, <1>3, NpShellAssumption
  <2> QED
    BY <1>0, <1>2, <2>1, <2>2, <2>3 DEF TypeOK
<1>6. InLine' /\ InHand'
  <2>1. line' = l
    BY <1>0, <1>1, <1>2, <1>3 DEF TypeOK, line
  <2> QED
    BY <1>1, <1>2, <1>3, <2>1 DEF InLine, InHand, LineType
<1>7. Opened'
  <2>1. \A e \in pipeN : e.fd[1] <= lineNo
    BY <1>0, <1>3, <1>4 DEF Opened, Proc
  <2>2. \A x \in pipeN' : x.fd[1] <= lineNo
    BY <1>2, <1>4, <2>1, CountdownList
  <2>3. \A x \in pipeN' : x.fd[1] \in Int
    BY <1>5 DEF TypeOK, Proc
  <2> QED
    BY <1>2, <1>3, <2>2, <2>3 DEF Opened
<1>8. DistinctCounts'
  <2> SUFFICES ASSUME NEW x \in pipeN', NEW y \in pipeN', x.count = y.count \/ x.fd = y.fd
               PROVE  x = y
    BY DEF DistinctCounts
  <2>1. PICK e \in pipeN : x.fd = e.fd /\ x.count = e.count - 1
                           /\ x = [count |-> e.count - 1, fd |-> e.fd]
    BY <1>2, <1>4, CountdownList
  <2>2. PICK d \in pipeN : y.fd = d.fd /\ y.count = d.count - 1
                           /\ y = [count |-> d.count - 1, fd |-> d.fd]
    BY <1>2, <1>4, CountdownList
  <2>3. e.count \in Int /\ d.count \in Int
    BY <1>4
  <2> QED
    BY <1>0, <2>1, <2>2, <2>3 DEF DistinctCounts
<1>9. ShellHolds'
  <2>1. {x.fd : x \in pipeN'} = {e.fd : e \in pipeN}
    <3>1. \A x \in pipeN' : \E e \in pipeN : x.fd = e.fd
      BY <1>2, <1>4, CountdownList
    <3>2. \A e \in pipeN : \E x \in pipeN' : x.fd = e.fd
      BY <1>2, <1>4, CountdownList
    <3> QED
      BY <3>1, <3>2
  <2> QED
    BY <1>0, <1>1, <1>2, <2>1 DEF ShellHolds
<1> QED
  BY <1>5, <1>6, <1>7, <1>8, <1>9 DEF IInv

(* exit closes exactly what the shell holds.                                *)
LEMMA ExitIInv == IInv /\ Exit => IInv'
<1> SUFFICES ASSUME IInv, Exit PROVE IInv'
  OBVIOUS
<1>0. TypeOK /\ ShellHolds
  BY DEF IInv
<1>1. /\ pc = "prompt" /\ pc' = "done" /\ pipeN' = {}
      /\ fds' = [fds EXCEPT ![Shell] = @ \ UNION {Ends(e.fd) : e \in pipeN}]
      /\ UNCHANGED <<lineNo, typed, stage, pre, pi, stdin, stdout, st, todo, buf>>
  BY DEF Exit, procVars
<1>2. TypeOK'
  BY <1>0, <1>1 DEF TypeOK, Shell
<1>3. InLine' /\ InHand' /\ Opened' /\ DistinctCounts'
  BY <1>1 DEF InLine, InHand, Opened, DistinctCounts
<1>4. ShellHolds'
  <2>1. fds'[Shell] = fds[Shell] \ UNION {Ends(e.fd) : e \in pipeN}
    BY <1>0, <1>1 DEF TypeOK
  <2>2. fds[Shell] \subseteq UNION {Ends(e.fd) : e \in pipeN}
    BY <1>0, <1>1 DEF ShellHolds, Ends
  <2> QED
    BY <1>1, <2>1, <2>2 DEF ShellHolds
<1> QED
  BY <1>2, <1>3, <1>4 DEF IInv

(* The pipe of a stage: the shell has its ends in hand, and an entry that   *)
(* is added has a count and a pipe of its own.                              *)
LEMMA OpenPipeIInv == IInv /\ OpenPipe => IInv'
<1> SUFFICES ASSUME IInv, OpenPipe PROVE IInv'
  OBVIOUS
<1>0. TypeOK /\ InLine /\ InHand /\ Opened /\ DistinctCounts /\ ShellHolds
  BY DEF IInv
<1>1. /\ pc = "open" /\ pc' = "fork" /\ pre' = pi
      /\ UNCHANGED <<lineNo, typed, stage, stdin, stdout, st, todo, buf>>
  BY DEF OpenPipe, procVars
<1>2. /\ Me \in Proc /\ Me # NoPipe /\ Me # Shell /\ line \in LineType
      /\ stage \in Nat \ {0} /\ lineNo \in Nat
  BY <1>0, <1>1, MeProc
<1>3. line' = line /\ Last' = Last /\ Me' = Me
  BY <1>1 DEF line, Last, Me
<1>4. pre' = IF stage = 1 THEN NoPipe ELSE <<lineNo, stage - 1>>
  BY <1>0, <1>1 DEF InHand
<1>5. \A e \in pipeN : e.fd[1] < lineNo
  BY <1>0, <1>1 DEF Opened
<1>6. \A e \in pipeN : e.fd # Me
  BY <1>2, <1>5 DEF Me
<1>7. fds[Shell] = (({e.fd : e \in pipeN} \cup {pi}) \ {NoPipe}) \X {"r", "w"}
  BY <1>0, <1>1 DEF ShellHolds
<1>8. ASSUME pi' = Me, Opens(Me), pipeN' = pipeN, ~Last PROVE IInv'
  <2>1. fds' = [fds EXCEPT ![Shell] = @ \cup Ends(Me)]
    BY <1>8 DEF Opens
  <2>2. TypeOK'
    BY <1>0, <1>1, <1>2, <1>8, <2>1 DEF TypeOK, Ends, AllEnds
  <2>3. fds'[Shell] = fds[Shell] \cup Ends(Me)
    BY <1>0, <2>1 DEF TypeOK
  <2>4. ShellHolds'
    BY <1>1, <1>2, <1>7, <1>8, <2>3 DEF ShellHolds, Ends
  <2>5. InLine' /\ InHand' /\ Opened' /\ DistinctCounts'
    BY <1>0, <1>1, <1>3, <1>4, <1>5, <1>8 DEF InLine, InHand, Opened, DistinctCounts
  <2> QED
    BY <2>2, <2>4, <2>5 DEF IInv
<1>9. ASSUME NEW e \in pipeN, pi' = e.fd, UNCHANGED <<pipeN, fds>>, Last PROVE IInv'
  <2>1. e.fd \in Proc
    BY <1>0 DEF TypeOK
  <2>2. TypeOK'
    BY <1>0, <1>1, <1>9, <2>1 DEF TypeOK
  <2>3. ShellHolds'
    BY <1>1, <1>7, <1>9 DEF ShellHolds
  <2>4. InLine' /\ InHand' /\ Opened' /\ DistinctCounts'
    BY <1>0, <1>1, <1>3, <1>4, <1>5, <1>9 DEF InLine, InHand, Opened, DistinctCounts
  <2> QED
    BY <2>2, <2>3, <2>4 DEF IInv
<1>10. ASSUME pi' = Me, Opens(Me), Last, \A e \in pipeN : e.count # line.n,
              pipeN' = pipeN \cup {[count |-> line.n, fd |-> Me]}
       PROVE  IInv'
  <2> DEFINE new == [count |-> line.n, fd |-> Me]
  <2>0. new \in [count : Int, fd : Proc] /\ new.fd = Me /\ new.count = line.n
    BY <1>2, NpShellAssumption DEF LineType
  <2>1. fds' = [fds EXCEPT ![Shell] = @ \cup Ends(Me)]
    BY <1>10 DEF Opens
  <2>2. TypeOK'
    BY <1>0, <1>1, <1>2, <1>10, <2>0, <2>1 DEF TypeOK, Ends, AllEnds
  <2>3. fds'[Shell] = fds[Shell] \cup Ends(Me)
    BY <1>0, <2>1 DEF TypeOK
  <2>4. ShellHolds'
    <3>1. {e.fd : e \in pipeN'} = {e.fd : e \in pipeN} \cup {Me}
      BY <1>10, <2>0
    <3> QED
      BY <1>1, <1>2, <1>7, <1>10, <2>3, <3>1 DEF ShellHolds, Ends
  <2>5. DistinctCounts'
    BY <1>0, <1>6, <1>10, <2>0 DEF DistinctCounts
  <2>6. InHand'
    BY <1>1, <1>3, <1>4, <1>10, <2>0 DEF InHand
  <2>7. new.fd = <<lineNo, line.stages>> /\ lineNo >= 1
    BY <1>0, <1>1, <1>10, <2>0 DEF Me, Last, InLine
  <2>8. InLine' /\ Opened'
    BY <1>0, <1>1, <1>3, <1>5, <1>10, <2>7 DEF InLine, Opened
  <2> QED
    BY <2>2, <2>4, <2>5, <2>6, <2>8 DEF IInv
<1>11. ASSUME pi' = NoPipe, UNCHANGED <<pipeN, fds>>, Last PROVE IInv'
  <2>2. TypeOK'
    BY <1>0, <1>1, <1>11 DEF TypeOK
  <2>3. ShellHolds'
    BY <1>1, <1>7, <1>11 DEF ShellHolds
  <2>4. InLine' /\ InHand' /\ Opened' /\ DistinctCounts'
    BY <1>0, <1>1, <1>3, <1>4, <1>5, <1>11 DEF InLine, InHand, Opened, DistinctCounts
  <2> QED
    BY <2>2, <2>3, <2>4 DEF IInv
<1> QED
  BY <1>8, <1>9, <1>10, <1>11 DEF OpenPipe

(* Starting a child: the shell's ends of the pipe it reads are gone.        *)
LEMMA SpawnKeeps ==
  ASSUME TypeOK, Me \in Proc, Me # Shell, NEW source \in Proc \cup {NoPipe}, Spawn(source)
  PROVE  /\ fds' \in [Proc \cup {Shell} -> SUBSET AllEnds]
         /\ stdin' \in [Proc -> Proc \cup {NoPipe}]
         /\ stdout' \in [Proc -> Proc \cup {NoPipe}]
         /\ st' \in [Proc -> {"none", "run", "zombie", "reaped"}]
         /\ todo' \in [Proc -> Nat]
         /\ fds'[Shell] = fds[Shell] \ Ends(source)
<1> DEFINE sink == IF source = pi THEN NoPipe ELSE pi
<1>1. sink \in Proc \cup {NoPipe}
  BY DEF TypeOK
<1>2. Inherited(source, sink) \subseteq AllEnds
  BY <1>1 DEF Inherited, TypeOK, AllEnds, Shell
<1>3. fds' = [fds EXCEPT ![Me] = Inherited(source, sink), ![Shell] = @ \ Ends(source)]
  BY DEF Spawn
<1> HIDE DEF sink
<1>4. /\ fds' \in [Proc \cup {Shell} -> SUBSET AllEnds]
      /\ fds'[Shell] = fds[Shell] \ Ends(source)
  BY <1>2, <1>3 DEF TypeOK
<1>5. /\ st' = [st EXCEPT ![Me] = "run"]
      /\ stdin' = [stdin EXCEPT ![Me] = source]
      /\ stdout' = [stdout EXCEPT ![Me] = sink]
      /\ todo' = [todo EXCEPT ![Me] = IF source = NoPipe THEN Output ELSE 0]
  BY DEF Spawn, sink
<1> QED
  BY <1>1, <1>4, <1>5, NpShellAssumption DEF TypeOK

(* A child is started: the pipe it reads leaves the shell, by the list or   *)
(* as the one from the previous stage, and no other does.                   *)
LEMMA ForkIInv == IInv /\ Fork => IInv'
<1> SUFFICES ASSUME IInv, Fork PROVE IInv'
  OBVIOUS
<1>0. TypeOK /\ InLine /\ InHand /\ Opened /\ DistinctCounts /\ ShellHolds
  BY DEF IInv
<1>1. pc = "fork" /\ NextStage /\ UNCHANGED <<lineNo, typed, pre, pi, buf>>
  BY DEF Fork
<1>2. /\ Me \in Proc /\ Me # NoPipe /\ Me # Shell /\ line \in LineType
      /\ stage \in Nat \ {0} /\ lineNo \in Nat /\ line.stages \in 1 .. MaxStages
      /\ ~Last => stage + 1 \in 1 .. MaxStages /\ stage + 1 <= line.stages
  BY <1>0, <1>1, MeProc
<1>3. line' = line
  BY <1>1 DEF line
<1>4. /\ ~Last => pc' = "open" /\ stage' = stage + 1
      /\ Last => \/ pc' = "prompt" /\ stage' = stage
                 \/ pc' = "wait" /\ stage' = 1
  BY <1>1 DEF NextStage
<1>5. fds[Shell] = (({e.fd : e \in pipeN} \cup {pre, pi}) \ {NoPipe}) \X {"r", "w"}
  BY <1>0, <1>1 DEF ShellHolds
<1>6. PICK source \in Proc \cup {NoPipe} :
        /\ Spawn(source)
        /\ \/ source = pre /\ pre # NoPipe /\ pipeN' = pipeN
           \/ /\ pre = NoPipe
              /\ \E e \in pipeN : source = e.fd /\ pipeN' = pipeN \ {e}
           \/ source = NoPipe /\ pre = NoPipe /\ pipeN' = pipeN
  BY <1>0 DEF Fork, TypeOK
<1>7. pipeN' \subseteq pipeN
  BY <1>6
<1>8. TypeOK'
  <2>1. pc' \in {"prompt", "open", "wait"} /\ stage' \in 1 .. MaxStages
    BY <1>0, <1>2, <1>4, NpShellAssumption DEF TypeOK
  <2>2. /\ fds' \in [Proc \cup {Shell} -> SUBSET AllEnds]
        /\ stdin' \in [Proc -> Proc \cup {NoPipe}]
        /\ stdout' \in [Proc -> Proc \cup {NoPipe}]
        /\ st' \in [Proc -> {"none", "run", "zombie", "reaped"}]
        /\ todo' \in [Proc -> Nat]
    BY <1>0, <1>2, <1>6, SpawnKeeps
  <2> QED
    BY <1>0, <1>1, <1>7, <2>1, <2>2 DEF TypeOK
<1>9. InLine'
  BY <1>0, <1>1, <1>2, <1>3, <1>4 DEF InLine
<1>10. InHand'
  <2>1. CASE Last
    BY <1>4, <2>1 DEF InHand
  <2>2. CASE ~Last
    <3>1. pi = <<lineNo, stage>> /\ stage + 1 # 1 /\ (stage + 1) - 1 = stage
      BY <1>0, <1>1, <1>2, <2>2 DEF InHand, Me
    <3> QED
      BY <1>1, <1>4, <2>2, <3>1 DEF InHand
  <2> QED
    BY <2>1, <2>2
<1>11. Opened'
  <2>1. CASE Last
    BY <1>0, <1>1, <1>3, <1>4, <1>7, <2>1 DEF Opened
  <2>2. CASE ~Last
    BY <1>0, <1>1, <1>3, <1>4, <1>7, <2>2 DEF Opened
  <2> QED
    BY <2>1, <2>2
<1>12. DistinctCounts'
  BY <1>0, <1>7 DEF DistinctCounts
<1>13. ShellHolds'
  <2>1. fds'[Shell] = fds[Shell] \ Ends(source)
    BY <1>0, <1>2, <1>6, SpawnKeeps
  <2>2. source \notin {e.fd : e \in pipeN'}
    <3>1. CASE source = pre /\ pre # NoPipe /\ pipeN' = pipeN
      <4>1. pre = <<lineNo, stage - 1>>
        BY <1>0, <1>1, <3>1 DEF InHand
      <4>2. \A e \in pipeN : e.fd[1] < lineNo \/ (e.fd = <<lineNo, line.stages>> /\ Last)
        BY <1>0, <1>1 DEF Opened
      <4>3. Last => <<lineNo, line.stages>> # <<lineNo, stage - 1>>
        BY <1>2 DEF Last
      <4> QED
        BY <1>2, <3>1, <4>1, <4>2, <4>3
    <3>2. CASE \E e \in pipeN : source = e.fd /\ pipeN' = pipeN \ {e}
      BY <1>0, <3>2 DEF DistinctCounts
    <3>3. CASE source = NoPipe /\ pipeN' = pipeN
      <4>1. \A e \in pipeN : e.fd \in Proc
        BY <1>0 DEF TypeOK
      <4>2. NoPipe \notin Proc
        BY DEF NoPipe, Proc
      <4> QED
        BY <3>3, <4>1, <4>2
    <3> QED
      BY <1>6, <3>1, <3>2, <3>3
  <2>3. {e.fd : e \in pipeN} \cup {source, NoPipe} = {e.fd : e \in pipeN'} \cup {source, NoPipe}
    BY <1>6
  <2>4. CASE Last
    <3>1. pi \in {e.fd : e \in pipeN} \cup {NoPipe}
      BY <1>0, <1>1, <2>4 DEF InHand
    <3>2. pre \in {source, NoPipe}
      BY <1>6
    <3>3. fds'[Shell] = ({e.fd : e \in pipeN'} \ {NoPipe}) \X {"r", "w"}
      BY <1>5, <2>1, <2>2, <2>3, <3>1, <3>2 DEF Ends
    <3> QED
      BY <1>4, <2>4, <3>3 DEF ShellHolds
  <2>5. CASE ~Last
    <3>1. pi = Me
      BY <1>0, <1>1, <2>5 DEF InHand
    <3>2. \A e \in pipeN : e.fd[1] < lineNo
      BY <1>0, <1>1, <2>5 DEF Opened
    <3>3. pi # source
      <4>1. CASE source = pre /\ pre # NoPipe
        <5>1. pre = <<lineNo, stage - 1>>
          BY <1>0, <1>1, <4>1 DEF InHand
        <5> QED
          BY <1>2, <3>1, <4>1, <5>1 DEF Me
      <4>2. CASE \E e \in pipeN : source = e.fd
        BY <1>2, <3>1, <3>2, <4>2 DEF Me
      <4>3. CASE source = NoPipe
        BY <1>2, <3>1, <4>3
      <4> QED
        BY <1>6, <4>1, <4>2, <4>3
    <3>4. pre \in {source, NoPipe}
      BY <1>6
    <3>5. fds'[Shell] = (({e.fd : e \in pipeN'} \cup {pi}) \ {NoPipe}) \X {"r", "w"}
      BY <1>5, <2>1, <2>2, <2>3, <3>3, <3>4 DEF Ends
    <3> QED
      BY <1>1, <1>4, <2>5, <3>5 DEF ShellHolds
  <2> QED
    BY <2>4, <2>5
<1> QED
  BY <1>8, <1>9, <1>10, <1>11, <1>12, <1>13 DEF IInv

(* What neither the list nor the shell's ends nor its place depend on.      *)
LEMMA OthersIInv ==
  ASSUME IInv, TypeOK', UNCHANGED <<pc, lineNo, typed, stage, pre, pi, pipeN>>,
         fds'[Shell] = fds[Shell]
  PROVE  IInv'
BY DEF IInv, InLine, InHand, Opened, DistinctCounts, ShellHolds, line, Last, Me

(* Waiting for the children of a line.                                      *)
LEMMA WaitIInv == IInv /\ (WaitStage \/ WaitFile) => IInv'
<1> SUFFICES ASSUME IInv, WaitStage \/ WaitFile PROVE IInv'
  OBVIOUS
<1>0. TypeOK /\ InLine /\ InHand /\ Opened /\ DistinctCounts /\ ShellHolds
  BY DEF IInv
<1>1. /\ pc \in {"wait", "waitany"} /\ pc' \in {"wait", "waitany", "prompt"}
      /\ UNCHANGED <<lineNo, typed, pre, pi, pipeN, fds, stdin, stdout, todo, buf>>
  BY DEF WaitStage, WaitFile, procVars
<1>2. stage' = stage \/ (~Last /\ stage' = stage + 1)
  BY DEF WaitStage, WaitFile
<1>3. /\ Me \in Proc /\ stage \in Nat \ {0} /\ line.stages \in 1 .. MaxStages
      /\ ~Last => stage + 1 \in 1 .. MaxStages /\ stage + 1 <= line.stages
  BY <1>0, <1>1, MeProc
<1>4. st' \in [Proc -> {"none", "run", "zombie", "reaped"}]
  BY <1>0, <1>3 DEF WaitStage, WaitFile, WaitAnyChild, TypeOK
<1>5. TypeOK'
  <2>1. stage' \in 1 .. MaxStages
    BY <1>0, <1>2, <1>3 DEF TypeOK
  <2> QED
    BY <1>0, <1>1, <1>4, <2>1 DEF TypeOK
<1>6. InLine' /\ InHand' /\ Opened' /\ DistinctCounts'
  BY <1>0, <1>1, <1>2, <1>3 DEF InLine, InHand, Opened, DistinctCounts, line
<1>7. ShellHolds'
  BY <1>0, <1>1 DEF ShellHolds
<1> QED
  BY <1>5, <1>6, <1>7 DEF IInv

(* Reaping leaves the pipes alone.                                          *)
LEMMA ReapIInv == IInv /\ (ForkRetry \/ Reap) => IInv'
<1> SUFFICES ASSUME IInv, ForkRetry \/ Reap PROVE IInv'
  OBVIOUS
<1>1. UNCHANGED <<pc, lineNo, typed, stage, pre, pi, pipeN, fds, stdin, stdout, todo, buf>>
  BY DEF ForkRetry, Reap, shellVars, procVars
<1>2. st' \in [Proc -> {"none", "run", "zombie", "reaped"}]
  BY DEF ForkRetry, WaitAnyChild, Reap, IInv, TypeOK
<1>3. TypeOK'
  BY <1>1, <1>2 DEF IInv, TypeOK
<1> QED
  BY <1>1, <1>3, OthersIInv

(* A program touches its own ends and the content of its pipes only.        *)
LEMMA RunIInv == ASSUME NEW x \in Proc PROVE IInv /\ (Run(x) \/ Fail(x)) => IInv'
<1> SUFFICES ASSUME IInv, Run(x) \/ Fail(x) PROVE IInv'
  OBVIOUS
<1>0. TypeOK
  BY DEF IInv
<1>1. UNCHANGED <<pc, lineNo, typed, stage, pre, pi, pipeN, stdin, stdout>>
  BY DEF Run, Write, Read, Finish, Fail, Die, shellVars, procVars
<1>2. x # Shell
  BY DEF Proc, Shell
<1>3. fds'[Shell] = fds[Shell] /\ fds' \in [Proc \cup {Shell} -> SUBSET AllEnds]
  BY <1>0, <1>2 DEF Run, Write, Read, Finish, Fail, Die, TypeOK
<1>4. st' \in [Proc -> {"none", "run", "zombie", "reaped"}]
  BY <1>0 DEF Run, Write, Read, Finish, Fail, Die, TypeOK
<1>5. todo' \in [Proc -> Nat]
  <2>1. todo[x] \in Nat
    BY <1>0 DEF TypeOK
  <2>2. CASE Write(x)
    <3>1. todo[x] - 1 \in Nat
      BY <2>1, <2>2 DEF Write
    <3> QED
      BY <1>0, <2>2, <3>1 DEF Write, TypeOK
  <2>3. CASE Read(x)
    BY <1>0, <2>3 DEF Read, TypeOK
  <2>4. CASE Die(x)
    BY <1>0, <2>4 DEF Die, TypeOK
  <2> QED
    BY <2>2, <2>3, <2>4 DEF Run, Finish, Fail
<1>6. buf' \in [Proc -> 0 .. Cap]
  <2>1. CASE Write(x) /\ stdout[x] # NoPipe
    <3>1. stdout[x] \in Proc /\ buf[stdout[x]] + 1 \in 0 .. Cap
      BY <1>0, <2>1, NpShellAssumption DEF Write, TypeOK
    <3> QED
      BY <1>0, <2>1, <3>1 DEF Write, TypeOK
  <2>2. CASE Read(x)
    <3>1. stdin[x] \in Proc /\ buf[stdin[x]] - 1 \in 0 .. Cap
      BY <1>0, <2>2, NpShellAssumption DEF Read, TypeOK
    <3> QED
      BY <1>0, <2>2, <3>1 DEF Read, TypeOK
  <2>3. CASE buf' = buf
    BY <1>0, <2>3 DEF TypeOK
  <2> QED
    BY <2>1, <2>2, <2>3 DEF Run, Write, Finish, Fail, Die
<1>7. TypeOK'
  BY <1>0, <1>1, <1>3, <1>4, <1>5, <1>6 DEF TypeOK
<1> QED
  BY <1>1, <1>3, <1>7, OthersIInv

(* Every step of the shell keeps the invariant.                             *)
LEMMA NextIInv == IInv /\ [Next]_vars => IInv'
<1> SUFFICES ASSUME IInv, [Next]_vars PROVE IInv'
  OBVIOUS
<1>1. CASE ReadLine
  BY <1>1, ReadLineIInv
<1>2. CASE Exit
  BY <1>2, ExitIInv
<1>3. CASE OpenPipe
  BY <1>3, OpenPipeIInv
<1>4. CASE Fork
  BY <1>4, ForkIInv
<1>5. CASE WaitStage \/ WaitFile
  BY <1>5, WaitIInv
<1>6. CASE ForkRetry \/ Reap
  BY <1>6, ReapIInv
<1>7. ASSUME NEW x \in Proc, Run(x) \/ Fail(x) PROVE IInv'
  BY <1>7, RunIInv
<1>8. CASE UNCHANGED vars
  <2>1. TypeOK'
    BY <1>8 DEF vars, shellVars, procVars, IInv, TypeOK
  <2> QED
    BY <1>8, <2>1, OthersIInv DEF vars, shellVars
<1> QED
  BY <1>1, <1>2, <1>3, <1>4, <1>5, <1>6, <1>7, <1>8 DEF Next, ShellStep, Finished

-----------------------------------------------------------------------------
(* The invariant holds in every reachable state.                            *)
THEOREM Invariance == Spec => []IInv
<1> QED
  BY InitIInv, NextIInv, PTL DEF Spec

(* Every variable keeps its type.                                           *)
THEOREM TypeCorrect == Spec => []TypeOK
<1>1. IInv => TypeOK
  BY DEF IInv
<1> QED
  BY <1>1, Invariance, PTL

(* No two numbered pipes wait for the same line or are the same pipe: the   *)
(* first entry with count 0, which the code closes and deletes, is the only.*)
THEOREM CountsAlwaysDistinct == Spec => []DistinctCounts
<1>1. IInv => DistinctCounts
  BY DEF IInv
<1> QED
  BY <1>1, Invariance, PTL

(* The shell never leaks a pipe end and never closes one it still needs.    *)
THEOREM ShellAlwaysHolds == Spec => []ShellHolds
<1>1. IInv => ShellHolds
  BY DEF IInv
<1> QED
  BY <1>1, Invariance, PTL

(* Every step of the shell is one of the abstract promises or a stutter:    *)
(* reading a line is a tick, a new entry is a promise, the first stage takes *)
(* what is due and nothing else, exit drops the rest.                       *)
LEMMA PromiseStep == IInv /\ [Next]_vars => [Promises!Next]_(Promises!vars)
<1> DEFINE due == {lineNo + e.count : e \in pipeN}
<1> SUFFICES ASSUME IInv, [Next]_vars PROVE Promises!Next \/ UNCHANGED Promises!vars
  OBVIOUS
<1>0. TypeOK /\ InLine /\ DistinctCounts
  BY DEF IInv
<1>a. pipeN \in SUBSET [count : Int, fd : Proc] /\ lineNo \in Int
  BY <1>0, NpShellAssumption DEF TypeOK
<1>1. CASE ReadLine
  <2>1. lineNo' = lineNo + 1 /\ pipeN' = Countdown(pipeN)
    BY <1>1 DEF ReadLine
  <2>2. \A x \in pipeN' : \E e \in pipeN : lineNo' + x.count = lineNo + e.count
    <3> SUFFICES ASSUME NEW x \in pipeN'
                 PROVE  \E e \in pipeN : lineNo' + x.count = lineNo + e.count
      OBVIOUS
    <3>1. PICK e \in pipeN : x.count = e.count - 1
      BY <1>a, <2>1, CountdownList
    <3>2. e.count \in Int
      BY <1>a
    <3> QED
      BY <1>a, <2>1, <3>1, <3>2
  <2>3. \A e \in pipeN : \E x \in pipeN' : lineNo' + x.count = lineNo + e.count
    <3> SUFFICES ASSUME NEW e \in pipeN
                 PROVE  \E x \in pipeN' : lineNo' + x.count = lineNo + e.count
      OBVIOUS
    <3>1. [count |-> e.count - 1, fd |-> e.fd] \in pipeN'
      BY <1>a, <2>1, CountdownList
    <3>2. e.count \in Int
      BY <1>a
    <3> QED
      BY <1>a, <2>1, <3>1, <3>2
  <2>4. {lineNo' + x.count : x \in pipeN'} = due
    BY <2>2, <2>3
  <2> QED
    BY <2>1, <2>4 DEF Promises!Next, Promises!Tick
<1>2. CASE Exit
  BY <1>2 DEF Exit, Promises!Next, Promises!Quit
<1>3. CASE OpenPipe
  <2>1. lineNo' = lineNo
    BY <1>3 DEF OpenPipe
  <2>2. CASE pipeN' = pipeN
    BY <2>1, <2>2 DEF Promises!vars
  <2>3. CASE pipeN' = pipeN \cup {[count |-> line.n, fd |-> Me]}
    <3>1. line.n \in 0 .. MaxN
      BY <1>0, <1>3, MeProc DEF OpenPipe, LineType
    <3>2. {lineNo' + e.count : e \in pipeN'} = due \cup {lineNo + line.n}
      <4>1. [count |-> line.n, fd |-> Me].count = line.n
        OBVIOUS
      <4>2. {lineNo' + e.count : e \in pipeN'} \subseteq due \cup {lineNo + line.n}
        BY <2>1, <2>3, <4>1
      <4>3. ASSUME NEW m \in due \cup {lineNo + line.n}
            PROVE  m \in {lineNo' + e.count : e \in pipeN'}
        <5>1. CASE m = lineNo + line.n
          <6>1. [count |-> line.n, fd |-> Me] \in pipeN'
            BY <2>3
          <6> QED
            BY <2>1, <4>1, <5>1, <6>1
        <5>2. CASE m \in due
          <6>1. PICK e \in pipeN : m = lineNo + e.count
            BY <5>2
          <6>2. e \in pipeN'
            BY <2>3
          <6> QED
            BY <2>1, <6>1, <6>2
        <5> QED
          BY <5>1, <5>2
      <4> QED
        BY <4>2, <4>3
    <3> QED
      BY <2>1, <3>1, <3>2 DEF Promises!Next, Promises!Promise
  <2> QED
    BY <1>3, <2>2, <2>3 DEF OpenPipe
<1>4. CASE Fork
  <2>1. lineNo' = lineNo
    BY <1>4 DEF Fork
  <2>2. CASE pipeN' = pipeN
    BY <2>1, <2>2 DEF Promises!vars
  <2>3. ASSUME NEW e \in pipeN, e.count = 0, pipeN' = pipeN \ {e} PROVE Promises!Next
    <3>1. \A d \in pipeN' : d \in pipeN /\ d.count # 0 /\ d.count \in Int
      BY <1>0, <1>a, <2>3 DEF DistinctCounts
    <3>2. \A d \in pipeN : d.count \in Int /\ (d \in pipeN' \/ d = e)
      BY <1>a, <2>3
    <3>3. lineNo = lineNo + e.count
      BY <1>a, <2>3
    <3>4. {lineNo' + d.count : d \in pipeN'} = due \ {lineNo}
      <4>1. \A d \in pipeN' : lineNo + d.count # lineNo
        BY <1>a, <3>1
      <4>2. {lineNo' + d.count : d \in pipeN'} \subseteq due \ {lineNo}
        BY <2>1, <3>1, <4>1
      <4>3. ASSUME NEW m \in due \ {lineNo}
            PROVE  m \in {lineNo' + d.count : d \in pipeN'}
        <5>1. PICK d \in pipeN : m = lineNo + d.count
          OBVIOUS
        <5>2. d \in pipeN'
          BY <3>2, <3>3, <5>1
        <5> QED
          BY <2>1, <5>1, <5>2
      <4> QED
        BY <4>2, <4>3
    <3>5. lineNo \in due
      BY <2>3, <3>3
    <3> QED
      BY <2>1, <3>4, <3>5 DEF Promises!Next, Promises!Deliver
  <2> QED
    BY <1>4, <2>2, <2>3 DEF Fork
<1>5. CASE ForkRetry \/ WaitStage \/ WaitFile \/ Reap \/ UNCHANGED vars
  BY <1>5 DEF ForkRetry, WaitStage, WaitFile, Reap, vars, shellVars, Promises!vars
<1>6. ASSUME NEW x \in Proc, Run(x) \/ Fail(x) PROVE UNCHANGED Promises!vars
  BY <1>6 DEF Run, Write, Read, Finish, Fail, Die, shellVars, Promises!vars
<1> QED
  BY <1>1, <1>2, <1>3, <1>4, <1>5, <1>6 DEF Next, ShellStep, Finished

(* The list implements the abstract promises of NumberedPipes: a promise is *)
(* kept on its own line and on no other.                                    *)
THEOREM ListImplementsPromises == Spec => PromisesKept
<1>1. Init => Promises!Init
  BY DEF Init, Promises!Init
<1> QED
  BY <1>1, PromiseStep, Invariance, PTL DEF Spec, PromisesKept, Promises!Spec

-----------------------------------------------------------------------------
(* History: of the programs forked and the pipes they were given.  The lines *)
(* up to b are those of earlier shells (b = 0 in project 1).                *)
Forked(x) == st[x] # "none"

\* The first program of line l has been forked; someone reads pipe p.
Begun(l) == l \in 1 .. MaxLines /\ Forked(<<l, 1>>)
Reads(p) == \E y \in Proc : Forked(y) /\ stdin[y] = p

InStages == {"open", "fork"}

\* The programs are forked line by line and stage by stage.
Order(b) ==
  /\ b <= lineNo
  /\ pc \in {"open", "fork", "wait", "waitany"} => b < lineNo
  /\ \A x \in Proc : Forked(x) =>
       /\ x[1] <= lineNo /\ x[2] <= typed[x[1]].stages
       /\ x[1] = lineNo /\ pc \in InStages => x[2] < stage
       /\ \/ x[2] = typed[x[1]].stages
          \/ Forked(<<x[1], x[2] + 1>>)
          \/ x[1] = lineNo /\ x[2] = stage - 1 /\ pc \in InStages
  /\ pc \in InStages => \A k \in 1 .. stage - 1 : Forked(<<lineNo, k>>)
  /\ pc = "wait" => \A k \in 1 .. line.stages : Forked(<<lineNo, k>>)

\* The last stage is given the numbered pipe its line asks for.
Chosen ==
  pc = "fork" /\ Last =>
    IF line.out = "num" THEN \E e \in pipeN : e.fd = pi /\ e.count = line.n
    ELSE pi = NoPipe

\* The line a pipe of the list waits for.
Due(e) == lineNo + e.count

\* A pipe of the list is of this shell and has no reader, and the line it waits
\* for has not begun, but for a pipe that line has opened itself.
Waiting(b) ==
  \A e \in pipeN :
    /\ b < e.fd[1] /\ e.fd[1] <= lineNo /\ e.fd[2] = typed[e.fd[1]].stages
    /\ ~Reads(e.fd)
    /\ Begun(Due(e)) => Due(e) = e.fd[1]

\* What a program reads: the stage before it, or a numbered pipe; and as long
\* as it runs it holds the end it reads.
Sources ==
  \A y \in Proc : Forked(y) =>
    /\ y[2] > 1 => stdin[y] = <<y[1], y[2] - 1>>
    /\ y[2] = 1 /\ stdin[y] # NoPipe => /\ stdin[y] = y \/ stdin[y][1] < y[1]
                                        /\ stdin[y][2] = typed[stdin[y][1]].stages
    /\ st[y] = "run" /\ stdin[y] # NoPipe => <<stdin[y], "r">> \in fds[y]

OneReader ==
  \A y, z \in Proc :
    Forked(y) /\ Forked(z) /\ stdin[y] = stdin[z] /\ stdin[y] # NoPipe => y = z

\* What became of the pipe of a last stage: it waits for its line, or that line
\* reads it, or it was dropped with the list and nobody ever will.
Goal(x)   == x[1] + typed[x[1]].n
InList(x) == \E e \in pipeN : e.fd = stdout[x] /\ Due(e) = Goal(x)
Taken(x)  == Goal(x) # x[1] /\ Begun(Goal(x)) /\ stdin[<<Goal(x), 1>>] = stdout[x]
Dropped(x, b) ==
  /\ ~Reads(stdout[x])
  /\ x[1] <= b \/ (pc = "done" /\ (Goal(x) = x[1] \/ ~Begun(Goal(x))))

Sink(x, b) ==
  LET l == typed[x[1]] IN
  /\ x[2] < l.stages => stdout[x] = x
  /\ x[2] = l.stages /\ l.out # "num" => stdout[x] = NoPipe
  /\ x[2] = l.stages /\ l.out = "num" =>
       IF stdout[x] = NoPipe THEN l.n = 0
       ELSE stdout[x][1] <= x[1] /\ (InList(x) \/ Taken(x) \/ Dropped(x, b))

Sinks(b) == \A x \in Proc : Forked(x) => Sink(x, b)

(* All of it: the programs are forked in order, a pipe of the list has no   *)
(* reader, a pipe has one reader at most, and the pipe of a last stage is    *)
(* waiting, taken by its line, or dropped.                                  *)
History(b) == Order(b) /\ Chosen /\ Waiting(b) /\ Sources /\ OneReader /\ Sinks(b)

-----------------------------------------------------------------------------
(* Nothing has been forked.                                                 *)
LEMMA InitHistory == Init => History(0)
BY NpShellAssumption
   DEF Init, History, Order, Chosen, Waiting, Sources, OneReader, Sinks, Forked, InStages

(* Steps that fork nobody and leave the list, the lines and what is read    *)
(* and written alone.                                                       *)
LEMMA OthersHistory ==
  ASSUME NEW b \in Nat, TypeOK, History(b),
         UNCHANGED <<lineNo, typed, pi, pipeN, stdin, stdout>>,
         \/ pc' = pc /\ stage' = stage
         \/ /\ pc \in {"wait", "waitany"} /\ pc' \in {"wait", "waitany", "prompt"}
            /\ pc' = "wait" => pc = "wait",
         \A x \in Proc : Forked(x)' <=> Forked(x),
         \A x \in Proc : st'[x] = "run" => st[x] = "run" /\ fds'[x] = fds[x]
  PROVE  History(b)'
<1>1. \A l : Begun(l)' <=> Begun(l)
  <2>1. \A l \in 1 .. MaxLines : <<l, 1>> \in Proc
    BY NpShellAssumption DEF Proc
  <2> QED
    BY <2>1 DEF Begun
<1>2. \A p : Reads(p)' <=> Reads(p)
  BY DEF Reads
<1>3. \A x \in Proc : x[1] \in 1 .. MaxLines /\ x[2] \in 1 .. MaxStages /\ x = <<x[1], x[2]>>
  BY DEF Proc
<1>4. Order(b)'
  <2>1. \A k \in 1 .. MaxStages : \A l \in 1 .. MaxLines : <<l, k>> \in Proc
    BY DEF Proc
  <2>2. ASSUME NEW x \in Proc, Forked(x)
        PROVE  /\ x[1] <= lineNo /\ x[2] <= typed[x[1]].stages
               /\ x[1] = lineNo /\ pc' \in InStages => x[2] < stage'
               /\ \/ x[2] = typed[x[1]].stages
                  \/ Forked(<<x[1], x[2] + 1>>)'
                  \/ x[1] = lineNo /\ x[2] = stage' - 1 /\ pc' \in InStages
    <3>1. typed[x[1]].stages \in 1 .. MaxStages
      BY <1>3 DEF TypeOK, LineType
    <3>2. x[2] + 1 <= typed[x[1]].stages => <<x[1], x[2] + 1>> \in Proc
      BY <1>3, <2>1, <3>1, NpShellAssumption
    <3> QED
      BY <1>3, <2>2, <3>1, <3>2, NpShellAssumption DEF History, Order, InStages
  <2>3. pc' \in InStages => \A k \in 1 .. stage' - 1 : Forked(<<lineNo, k>>)'
    <3> SUFFICES ASSUME pc' \in InStages, NEW k \in 1 .. stage' - 1 PROVE Forked(<<lineNo, k>>)'
      OBVIOUS
    <3>1. pc' = pc /\ stage' = stage /\ pc \in InStages
      BY DEF InStages
    <3>2. stage \in 1 .. MaxStages /\ lineNo \in 0 .. MaxLines /\ b < lineNo
      BY <3>1 DEF TypeOK, History, Order, InStages
    <3>3. <<lineNo, k>> \in Proc
      BY <2>1, <3>1, <3>2, NpShellAssumption
    <3> QED
      BY <3>1, <3>3 DEF History, Order
  <2>4. pc' = "wait" => \A k \in 1 .. line.stages : Forked(<<lineNo, k>>)'
    <3> SUFFICES ASSUME pc' = "wait", NEW k \in 1 .. line.stages PROVE Forked(<<lineNo, k>>)'
      OBVIOUS
    <3>1. pc = "wait" /\ lineNo \in 0 .. MaxLines /\ b < lineNo
      BY DEF TypeOK, History, Order
    <3>2. line.stages \in 1 .. MaxStages
      BY <3>1, NpShellAssumption DEF TypeOK, LineType, line
    <3>3. <<lineNo, k>> \in Proc
      BY <2>1, <3>1, <3>2, NpShellAssumption
    <3> QED
      BY <3>1, <3>3 DEF History, Order
  <2>5. line' = line
    BY DEF line
  <2> QED
    BY <2>2, <2>3, <2>4, <2>5 DEF History, Order
<1>5. Chosen'
  BY DEF History, Chosen, Last, line
<1>6. Waiting(b)'
  BY <1>1, <1>2 DEF History, Waiting, Due
<1>7. Sources'
  BY DEF History, Sources
<1>8. OneReader'
  BY DEF History, OneReader
<1>9. \A x \in Proc : Sink(x, b) => Sink(x, b)'
  <2> SUFFICES ASSUME NEW x \in Proc, Sink(x, b) PROVE Sink(x, b)'
    OBVIOUS
  <2>1. InList(x)' <=> InList(x)
    BY DEF InList, Due, Goal
  <2>2. Taken(x)' <=> Taken(x)
    BY <1>1 DEF Taken, Goal
  <2>3. Dropped(x, b) => Dropped(x, b)'
    BY <1>1, <1>2 DEF Dropped, Goal
  <2> QED
    BY <2>1, <2>2, <2>3 DEF Sink
<1> QED
  BY <1>4, <1>5, <1>6, <1>7, <1>8, <1>9 DEF History, Sinks

(* A new line.                                                              *)
LEMMA ReadLineHistory ==
  ASSUME NEW b \in Nat, IInv, History(b), ReadLine PROVE History(b)'
<1>0. TypeOK /\ Opened
  BY DEF IInv
<1>1. /\ lineNo' = lineNo + 1 /\ pc = "prompt" /\ pc' \in {"open", "prompt"} /\ stage' = 1
      /\ pipeN' = Countdown(pipeN) /\ lineNo < MaxLines
      /\ UNCHANGED <<fds, stdin, stdout, st>>
  BY DEF ReadLine, procVars
<1>2. lineNo \in Nat /\ lineNo + 1 \in 1 .. MaxLines
  BY <1>0, <1>1, NpShellAssumption DEF TypeOK
<1>3. \A x \in Proc : x[1] \in 1 .. MaxLines /\ x[2] \in 1 .. MaxStages
  BY DEF Proc
<1>4. typed' \in [1 .. MaxLines -> LineType]
      /\ \A l \in 1 .. MaxLines : l <= lineNo => typed'[l] = typed[l]
  BY <1>0, <1>2, NpShellAssumption DEF ReadLine, TypeOK
<1>5. (\A l : Begun(l)' <=> Begun(l)) /\ (\A p : Reads(p)' <=> Reads(p))
      /\ \A x : Forked(x)' <=> Forked(x)
  BY <1>1 DEF Begun, Reads, Forked
<1>6. pipeN \in SUBSET [count : Int, fd : Proc]
  BY <1>0 DEF TypeOK
<1>7. \A x \in pipeN' : \E e \in pipeN : x.fd = e.fd /\ Due(x)' = Due(e)
  <2> SUFFICES ASSUME NEW x \in pipeN' PROVE \E e \in pipeN : x.fd = e.fd /\ Due(x)' = Due(e)
    OBVIOUS
  <2>1. PICK e \in pipeN : x.fd = e.fd /\ x.count = e.count - 1
    BY <1>1, <1>6, CountdownList
  <2>2. e.count \in Int
    BY <1>6
  <2> QED
    BY <1>1, <1>2, <2>1, <2>2 DEF Due
<1>8. \A e \in pipeN : \E x \in pipeN' : x.fd = e.fd /\ Due(x)' = Due(e)
  <2> SUFFICES ASSUME NEW e \in pipeN PROVE \E x \in pipeN' : x.fd = e.fd /\ Due(x)' = Due(e)
    OBVIOUS
  <2>1. [count |-> e.count - 1, fd |-> e.fd] \in pipeN'
    BY <1>1, <1>6, CountdownList
  <2>2. e.count \in Int
    BY <1>6
  <2> QED
    BY <1>1, <1>2, <2>1, <2>2 DEF Due
<1>9. Order(b)'
  <2>1. ASSUME NEW x \in Proc, Forked(x)
        PROVE  /\ x[1] <= lineNo /\ typed'[x[1]] = typed[x[1]]
               /\ x[2] <= typed[x[1]].stages
               /\ x[2] = typed[x[1]].stages \/ Forked(<<x[1], x[2] + 1>>)
    BY <1>1, <1>3, <1>4, <2>1 DEF History, Order, InStages
  <2>2. \A x \in Proc : Forked(x)' =>
          /\ x[1] <= lineNo' /\ x[2] <= typed'[x[1]].stages
          /\ x[1] # lineNo'
          /\ x[2] = typed'[x[1]].stages \/ Forked(<<x[1], x[2] + 1>>)'
    BY <1>1, <1>2, <1>3, <1>5, <2>1
  <2>3. b < lineNo' /\ \A k \in 1 .. stage' - 1 : FALSE
    BY <1>1, <1>2 DEF History, Order
  <2>4. b <= lineNo'
    BY <1>1, <1>2, <2>3
  <2>5. pc' # "wait"
    BY <1>1
  <2> QED
    BY <2>2, <2>3, <2>4, <2>5 DEF Order
<1>10. Waiting(b)'
  <2> SUFFICES ASSUME NEW x \in pipeN'
               PROVE  /\ b < x.fd[1] /\ x.fd[1] <= lineNo' /\ x.fd[2] = typed'[x.fd[1]].stages
                      /\ ~Reads(x.fd)'
                      /\ Begun(Due(x)') => Due(x)' = x.fd[1]
    BY <1>5 DEF Waiting
  <2>1. PICK e \in pipeN : x.fd = e.fd /\ Due(x)' = Due(e)
    BY <1>7
  <2>2. /\ b < e.fd[1] /\ e.fd[1] <= lineNo /\ e.fd[2] = typed[e.fd[1]].stages
        /\ ~Reads(e.fd)
        /\ Begun(Due(e)) => Due(e) = e.fd[1]
    BY DEF History, Waiting
  <2>3. e.fd[1] \in 1 .. MaxLines
    BY <1>3, <1>6
  <2>4. typed'[e.fd[1]] = typed[e.fd[1]] /\ e.fd[1] <= lineNo'
    BY <1>1, <1>2, <1>4, <2>2, <2>3
  <2>5. ~Reads(x.fd)'
    BY <1>1, <2>1, <2>2 DEF Reads, Forked
  <2>6. Begun(Due(x)') => Due(x)' = x.fd[1]
    BY <2>1, <2>2 DEF Begun
  <2> QED
    BY <2>1, <2>2, <2>4, <2>5, <2>6
<1>11. Sources'
  <2> SUFFICES ASSUME NEW y \in Proc, Forked(y), stdin[y] # NoPipe, y[2] = 1
               PROVE  stdin[y][2] = typed'[stdin[y][1]].stages
    BY <1>1, <1>5 DEF History, Sources, Forked
  <2>1. stdin[y] \in Proc /\ (stdin[y] = y \/ stdin[y][1] < y[1]) /\ y[1] <= lineNo
        /\ stdin[y][2] = typed[stdin[y][1]].stages
    BY <1>0 DEF History, Sources, Order, TypeOK
  <2> QED
    BY <1>2, <1>3, <1>4, <2>1
<1>12. OneReader' /\ Chosen'
  BY <1>1 DEF History, OneReader, Forked, Chosen
<1>13. Sinks(b)'
  <2> SUFFICES ASSUME NEW x \in Proc, Forked(x), Sink(x, b) PROVE Sink(x, b)'
    BY <1>5 DEF History, Sinks
  <2>1. typed'[x[1]] = typed[x[1]] /\ Goal(x)' = Goal(x)
    BY <1>3, <1>4 DEF History, Order, Goal
  <2>2. InList(x) => InList(x)'
    <3> SUFFICES ASSUME NEW e \in pipeN, e.fd = stdout[x], Due(e) = Goal(x)
                 PROVE  \E d \in pipeN' : d.fd = stdout'[x] /\ Due(d)' = Goal(x)'
      BY DEF InList
    <3> QED
      BY <1>1, <1>8, <2>1
  <2>3. Taken(x) => Taken(x)'
    BY <1>1, <1>5, <2>1 DEF Taken
  <2>4. Dropped(x, b) => Dropped(x, b)'
    BY <1>1, <1>5, <2>1 DEF Dropped
  <2> QED
    BY <1>1, <2>1, <2>2, <2>3, <2>4 DEF Sink
<1> QED
  BY <1>9, <1>10, <1>11, <1>12, <1>13 DEF History

(* The end of the shell: what its list held is dropped.                     *)
LEMMA ExitHistory ==
  ASSUME NEW b \in Nat, IInv, History(b), Exit PROVE History(b)'
<1>0. TypeOK
  BY DEF IInv
<1>1. /\ pc = "prompt" /\ pc' = "done" /\ pipeN' = {} /\ UNCHANGED <<lineNo, typed, stage, stdin, stdout, st>>
      /\ fds' = [fds EXCEPT ![Shell] = @ \ UNION {Ends(e.fd) : e \in pipeN}]
  BY DEF Exit, procVars
<1>2. \A x \in Proc : fds'[x] = fds[x]
  BY <1>0, <1>1 DEF TypeOK, Proc, Shell
<1>3. (\A l : Begun(l)' <=> Begun(l)) /\ (\A p : Reads(p)' <=> Reads(p))
      /\ \A x : (Forked(x)' <=> Forked(x)) /\ Goal(x)' = Goal(x)
  BY <1>1 DEF Begun, Reads, Forked, Goal
<1>4. Order(b)'
  BY <1>1, <1>3 DEF History, Order, InStages
<1>5. Chosen' /\ Waiting(b)' /\ OneReader'
  BY <1>1 DEF History, Chosen, Waiting, OneReader, Forked
<1>6. Sources'
  BY <1>1, <1>2 DEF History, Sources, Forked
<1>7. Sinks(b)'
  <2> SUFFICES ASSUME NEW x \in Proc, Forked(x), Sink(x, b) PROVE Sink(x, b)'
    BY <1>3 DEF History, Sinks
  <2>1. Taken(x) => Taken(x)'
    BY <1>1, <1>3 DEF Taken
  <2>2. Dropped(x, b) => Dropped(x, b)'
    BY <1>1, <1>3 DEF Dropped
  <2>3. ASSUME InList(x), stdout[x][1] <= x[1] PROVE Dropped(x, b)'
    <3>1. PICK e \in pipeN : e.fd = stdout[x] /\ Due(e) = Goal(x)
      BY <2>3 DEF InList
    <3>2. ~Reads(stdout[x]) /\ (Begun(Goal(x)) => Goal(x) = stdout[x][1])
      BY <3>1 DEF History, Waiting
    <3>3. Goal(x) >= x[1] /\ stdout[x][1] \in Int /\ x[1] \in Int /\ Goal(x) \in Int
      <4>1. x[1] \in 1 .. MaxLines /\ e.fd \in Proc
        BY <1>0 DEF Proc, TypeOK
      <4>2. typed[x[1]].n \in Nat
        BY <1>0, <4>1, NpShellAssumption DEF TypeOK, LineType
      <4> QED
        BY <3>1, <4>1, <4>2 DEF Goal, Proc
    <3>4. Begun(Goal(x)) => Goal(x) = x[1]
      BY <2>3, <3>2, <3>3
    <3> QED
      BY <1>1, <1>3, <3>2, <3>4 DEF Dropped
  <2> QED
    BY <1>1, <2>1, <2>2, <2>3 DEF Sink
<1> QED
  BY <1>4, <1>5, <1>6, <1>7 DEF History

(* The pipe of a stage is chosen: nobody has read it.                       *)
LEMMA OpenPipeHistory ==
  ASSUME NEW b \in Nat, IInv, History(b), OpenPipe PROVE History(b)'
<1>0. TypeOK /\ InLine /\ Opened
  BY DEF IInv
<1>1. /\ pc = "open" /\ pc' = "fork" /\ pre' = pi
      /\ UNCHANGED <<lineNo, typed, stage, stdin, stdout, st>>
  BY DEF OpenPipe, procVars
<1>2. /\ Me \in Proc /\ Me # NoPipe /\ Me # Shell /\ line \in LineType
      /\ stage \in Nat \ {0} /\ lineNo \in Nat
  BY <1>0, <1>1, MeProc
<1>3. line' = line /\ Last' = Last /\ Me' = Me
  BY <1>1 DEF line, Last, Me
<1>4. (\A l : Begun(l)' <=> Begun(l)) /\ (\A p : Reads(p)' <=> Reads(p))
      /\ \A x : (Forked(x)' <=> Forked(x)) /\ Goal(x)' = Goal(x)
  BY <1>1 DEF Begun, Reads, Forked, Goal
<1>5. \A x \in Proc : fds'[x] = fds[x]
  BY <1>0, <1>1 DEF OpenPipe, Opens, TypeOK, Proc, Shell
<1>6. \A x \in Proc : x[1] \in 1 .. MaxLines /\ x[2] \in 1 .. MaxStages /\ x = <<x[1], x[2]>>
  BY DEF Proc
<1>7. ~Reads(Me)
  <2> SUFFICES ASSUME NEW y \in Proc, Forked(y), stdin[y] = Me PROVE FALSE
    BY DEF Reads
  <2>1. y[1] <= lineNo /\ (y[1] = lineNo => y[2] < stage)
    BY <1>1 DEF History, Order, InStages
  <2>2. CASE y[2] > 1
    <3>1. Me = <<y[1], y[2] - 1>>
      BY <2>2 DEF History, Sources
    <3> QED
      BY <1>2, <1>6, <2>1, <3>1 DEF Me
  <2>3. CASE ~(y[2] > 1)
    <3>1. y[2] = 1
      BY <1>6, <2>3
    <3>2. Me = y \/ Me[1] < y[1]
      BY <1>2, <3>1 DEF History, Sources
    <3>3. Me = y => lineNo = y[1] /\ stage = y[2]
      BY DEF Me
    <3>4. Me[1] = lineNo /\ y[1] \in Nat /\ y[2] \in Nat
      BY <1>6 DEF Me
    <3> QED
      BY <1>2, <2>1, <3>2, <3>3, <3>4
  <2> QED
    BY <2>2, <2>3
<1>8. /\ \/ pipeN' = pipeN
         \/ Last /\ pipeN' = pipeN \cup {[count |-> line.n, fd |-> Me]}
      /\ Last => IF line.out = "num" THEN \E e \in pipeN' : e.fd = pi' /\ e.count = line.n
                 ELSE pi' = NoPipe
  <2>1. [count |-> line.n, fd |-> Me].fd = Me /\ [count |-> line.n, fd |-> Me].count = line.n
    OBVIOUS
  <2> QED
    BY <2>1 DEF OpenPipe
<1>9. Order(b)'
  BY <1>1, <1>3, <1>4 DEF History, Order, InStages
<1>10. Chosen'
  BY <1>3, <1>8 DEF Chosen
<1>11. Waiting(b)'
  <2>1. ASSUME NEW e \in pipeN
        PROVE  /\ b < e.fd[1] /\ e.fd[1] <= lineNo' /\ e.fd[2] = typed'[e.fd[1]].stages
               /\ ~Reads(e.fd)'
               /\ Begun(Due(e))' => Due(e)' = e.fd[1]
    BY <1>1, <1>4 DEF History, Waiting, Due, Begun, Forked
  <2>2. ASSUME NEW e, e = [count |-> line.n, fd |-> Me], Last
        PROVE  /\ b < e.fd[1] /\ e.fd[1] <= lineNo' /\ e.fd[2] = typed'[e.fd[1]].stages
               /\ ~Reads(e.fd)'
               /\ Begun(Due(e))' => Due(e)' = e.fd[1]
    <3>1. e.fd = Me /\ e.count = line.n /\ Me[1] = lineNo /\ Me[2] = stage
      BY <2>2 DEF Me
    <3>2. stage = typed[lineNo].stages /\ b < lineNo
      BY <1>1, <2>2 DEF Last, line, History, Order
    <3>3. ~Reads(e.fd)'
      BY <1>1, <1>7, <3>1 DEF Reads, Forked
    <3>4. ASSUME Begun(Due(e)) PROVE Due(e) = lineNo
      <4>1. line.n \in Nat
        BY <1>2, NpShellAssumption DEF LineType
      <4>2. Due(e) \in 1 .. MaxLines /\ Forked(<<Due(e), 1>>)
        BY <3>4 DEF Begun
      <4>3. <<Due(e), 1>> \in Proc
        BY <4>2, NpShellAssumption DEF Proc
      <4>4. Due(e) <= lineNo
        BY <4>2, <4>3 DEF History, Order
      <4> QED
        BY <1>2, <3>1, <4>1, <4>4 DEF Due
    <3>5. Begun(Due(e))' => Due(e)' = lineNo
      BY <1>1, <3>4 DEF Begun, Due, Forked
    <3> QED
      BY <1>1, <1>2, <3>1, <3>2, <3>3, <3>5
  <2> QED
    BY <1>8, <2>1, <2>2 DEF Waiting
<1>12. Sources'
  BY <1>1, <1>5 DEF History, Sources, Forked
<1>13. OneReader'
  BY <1>1 DEF History, OneReader, Forked
<1>14. Sinks(b)'
  <2> SUFFICES ASSUME NEW x \in Proc, Forked(x), Sink(x, b) PROVE Sink(x, b)'
    BY <1>4 DEF History, Sinks
  <2>1. Taken(x) => Taken(x)'
    BY <1>1, <1>4 DEF Taken, Begun, Forked, Goal
  <2>2. Dropped(x, b) => Dropped(x, b)'
    BY <1>1 DEF Dropped, Reads, Forked
  <2>3. InList(x) => InList(x)'
    BY <1>1, <1>8 DEF InList, Due, Goal
  <2> QED
    BY <1>1, <2>1, <2>2, <2>3 DEF Sink
<1> QED
  BY <1>9, <1>10, <1>11, <1>12, <1>13, <1>14 DEF History

(* What a new program reads has no reader yet, and is in the list no more.  *)
LEMMA SourceIsFree ==
  ASSUME NEW b \in Nat, IInv, History(b), pc = "fork", NEW source \in Proc \cup {NoPipe},
         NEW list \in SUBSET pipeN,
         \/ source = pre /\ pre # NoPipe /\ list = pipeN
         \/ pre = NoPipe /\ \E e \in pipeN : source = e.fd /\ e.count = 0 /\ list = pipeN \ {e}
         \/ source = NoPipe /\ pre = NoPipe /\ list = pipeN
  PROVE  /\ ~Forked(Me)
         /\ source # NoPipe => /\ ~Reads(source) /\ b < source[1]
                               /\ \A d \in list : d.fd # source
                               /\ source # Me \/ Last
         /\ stage > 1 => source = <<lineNo, stage - 1>> /\ list = pipeN
         /\ stage = 1 /\ source # NoPipe =>
              /\ source = Me \/ source[1] < lineNo
              /\ source[2] = typed[source[1]].stages
<1>0. TypeOK /\ InLine /\ InHand /\ Opened /\ DistinctCounts
  BY DEF IInv
<1>1. /\ Me \in Proc /\ Me # NoPipe /\ line \in LineType
      /\ stage \in Nat \ {0} /\ lineNo \in Nat /\ line.stages \in 1 .. MaxStages
      /\ stage <= line.stages
  BY <1>0, MeProc DEF InLine
<1>2. \A x \in Proc : x[1] \in 1 .. MaxLines /\ x[2] \in 1 .. MaxStages /\ x = <<x[1], x[2]>>
  BY DEF Proc
<1>3. Me[1] = lineNo /\ Me[2] = stage /\ NoPipe \notin Proc
  BY DEF Me, Proc, NoPipe
<1>a. \A x \in Proc : Forked(x) => x[1] <= lineNo /\ (x[1] = lineNo => x[2] < stage)
  BY DEF History, Order, InStages
<1>4. ~Forked(Me)
  BY <1>1, <1>3, <1>a DEF Forked
<1>5. pre = IF stage = 1 THEN NoPipe ELSE <<lineNo, stage - 1>>
  BY <1>0 DEF InHand
<1>6. \A d \in pipeN : d.fd \in Proc /\ (\/ d.fd[1] < lineNo
                                         \/ d.fd = <<lineNo, line.stages>> /\ Last)
  BY <1>0 DEF Opened, TypeOK
<1>7. b < lineNo
  BY DEF History, Order
<1>8. CASE stage # 1
  <2>1. pre = <<lineNo, stage - 1>>
    BY <1>5, <1>8
  <2>2. pre # NoPipe
    BY <1>1, <1>8, <2>1 DEF NoPipe
  <2>3. source = <<lineNo, stage - 1>> /\ list = pipeN /\ pre = source
    BY <2>1, <2>2
  <2>4. source \in Proc /\ source[1] = lineNo /\ source[2] = stage - 1
    BY <2>2, <2>3
  <2>5. ~Reads(source)
    <3> SUFFICES ASSUME NEW y \in Proc, Forked(y), stdin[y] = source PROVE FALSE
      BY DEF Reads
    <3>1. y[1] <= lineNo /\ y[1] \in Nat /\ y[2] \in Nat \ {0}
      BY <1>2, <1>a
    <3>2. CASE y[2] > 1
      <4>1. source = <<y[1], y[2] - 1>>
        BY <3>2 DEF History, Sources
      <4>2. y = Me
        BY <1>1, <1>2, <2>4, <3>1, <4>1 DEF Me
      <4> QED
        BY <1>4, <4>2
    <3>3. CASE ~(y[2] > 1)
      <4>1. y[2] = 1
        BY <3>1, <3>3
      <4>2. (source = y \/ source[1] < y[1]) /\ source[2] = typed[source[1]].stages
        BY <1>3, <2>4, <4>1 DEF History, Sources
      <4>3. source[2] = line.stages
        BY <2>4, <4>2 DEF line
      <4> QED
        BY <1>1, <2>4, <4>3
    <3> QED
      BY <3>2, <3>3
  <2>6. \A d \in list : d.fd # source
    <3> SUFFICES ASSUME NEW d \in list, d.fd = source PROVE FALSE
      OBVIOUS
    <3>1. source[1] < lineNo \/ source = <<lineNo, line.stages>>
      BY <1>6
    <3> QED
      BY <1>1, <2>4, <3>1
  <2>7. source # Me
    BY <1>1, <1>3, <2>4
  <2> QED
    BY <1>1, <1>4, <1>7, <1>8, <2>3, <2>4, <2>5, <2>6, <2>7
<1>9. CASE stage = 1
  <2>1. CASE source = NoPipe
    BY <1>4, <1>9, <2>1
  <2>2. ASSUME NEW e \in pipeN, source = e.fd, e.count = 0, list = pipeN \ {e}
        PROVE  /\ ~Reads(source) /\ b < source[1]
               /\ \A d \in list : d.fd # source
               /\ source # Me \/ Last
               /\ source = Me \/ source[1] < lineNo
               /\ source[2] = typed[source[1]].stages
    <3>1. ~Reads(source) /\ b < source[1] /\ source[2] = typed[source[1]].stages
      BY <2>2 DEF History, Waiting
    <3>2. \A d \in list : d.fd # source
      BY <1>0, <2>2 DEF DistinctCounts
    <3>3. source[1] < lineNo \/ (source = <<lineNo, line.stages>> /\ Last)
      BY <1>6, <2>2
    <3>4. Last => <<lineNo, line.stages>> = Me
      BY DEF Last, Me
    <3>5. source[1] < lineNo => source # Me
      BY <1>1, <1>3
    <3> QED
      BY <3>1, <3>2, <3>3, <3>4, <3>5
  <2>3. source # NoPipe => \E e \in pipeN : source = e.fd /\ e.count = 0 /\ list = pipeN \ {e}
    BY <1>5, <1>9
  <2> QED
    BY <1>4, <1>9, <2>1, <2>2, <2>3
<1> QED
  BY <1>8, <1>9

(* A program is forked.                                                     *)
LEMMA ForkHistory ==
  ASSUME NEW b \in Nat, IInv, History(b), Fork PROVE History(b)'
<1>0. TypeOK /\ InLine /\ InHand /\ Opened /\ DistinctCounts
  BY DEF IInv
<1>1. pc = "fork" /\ NextStage /\ UNCHANGED <<lineNo, typed, pre, pi, buf>>
  BY DEF Fork
<1>2. /\ Me \in Proc /\ Me # NoPipe /\ Me # Shell /\ line \in LineType
      /\ stage \in Nat \ {0} /\ lineNo \in Nat /\ line.stages \in 1 .. MaxStages
      /\ stage <= line.stages
  BY <1>0, <1>1, MeProc DEF InLine
<1>3. /\ pc' \in {"open", "prompt", "wait"}
      /\ ~Last => pc' = "open" /\ stage' = stage + 1
      /\ Last => pc' # "open"
      /\ line' = line
  BY <1>1 DEF NextStage, line
<1>4. \A x \in Proc : x[1] \in 1 .. MaxLines /\ x[2] \in 1 .. MaxStages /\ x = <<x[1], x[2]>>
  BY DEF Proc
<1>5. Me[1] = lineNo /\ Me[2] = stage /\ NoPipe \notin Proc /\ Shell \notin Proc
  BY DEF Me, Proc, NoPipe, Shell
<1>6. PICK source \in Proc \cup {NoPipe} :
        /\ Spawn(source)
        /\ \/ source = pre /\ pre # NoPipe /\ pipeN' = pipeN
           \/ /\ pre = NoPipe
              /\ \E e \in pipeN : source = e.fd /\ e.count = 0 /\ pipeN' = pipeN \ {e}
           \/ /\ source = NoPipe /\ pre = NoPipe /\ pipeN' = pipeN
              /\ \A e \in pipeN : e.count # 0
  BY <1>0 DEF Fork, TypeOK
<1>7. /\ ~Forked(Me)
      /\ source # NoPipe => /\ ~Reads(source) /\ b < source[1]
                            /\ \A d \in pipeN' : d.fd # source
                            /\ source # Me \/ Last
      /\ stage > 1 => source = <<lineNo, stage - 1>> /\ pipeN' = pipeN
      /\ stage = 1 /\ source # NoPipe => /\ source = Me \/ source[1] < lineNo
                                         /\ source[2] = typed[source[1]].stages
  <2>1. pipeN' \in SUBSET pipeN
    BY <1>6
  <2> QED
    BY <1>1, <1>6, <2>1, SourceIsFree
<1> DEFINE sink == IF source = pi THEN NoPipe ELSE pi
<1>8. /\ st' = [st EXCEPT ![Me] = "run"]
      /\ stdin' = [stdin EXCEPT ![Me] = source]
      /\ stdout' = [stdout EXCEPT ![Me] = sink]
      /\ fds' = [fds EXCEPT ![Me] = Inherited(source, sink), ![Shell] = @ \ Ends(source)]
  BY <1>6 DEF Spawn
<1> HIDE DEF sink
<1>9. /\ st'[Me] = "run" /\ stdin'[Me] = source /\ stdout'[Me] = sink
      /\ fds'[Me] = Inherited(source, sink)
      /\ \A x \in Proc \ {Me} : /\ st'[x] = st[x] /\ stdin'[x] = stdin[x]
                                /\ stdout'[x] = stdout[x] /\ fds'[x] = fds[x]
  BY <1>0, <1>2, <1>5, <1>8 DEF TypeOK
<1>10. \A x \in Proc : Forked(x)' <=> Forked(x) \/ x = Me
  BY <1>9 DEF Forked
<1>11. \A l : Begun(l)' <=> Begun(l) \/ (l = lineNo /\ stage = 1)
  <2>1. \A l \in 1 .. MaxLines : <<l, 1>> \in Proc /\ (<<l, 1>> = Me <=> l = lineNo /\ stage = 1)
    BY <1>2, NpShellAssumption DEF Proc, Me
  <2>2. lineNo \in 1 .. MaxLines
    BY <1>2, <1>4, <1>5
  <2> QED
    BY <1>10, <2>1, <2>2 DEF Begun
<1>12. \A p : Reads(p)' <=> Reads(p) \/ p = source
  BY <1>2, <1>7, <1>9, <1>10 DEF Reads, Forked
<1>a. /\ b < lineNo
      /\ \A x \in Proc : Forked(x) =>
           /\ x[1] <= lineNo /\ x[2] <= typed[x[1]].stages
           /\ x[1] = lineNo => x[2] < stage
           /\ \/ x[2] = typed[x[1]].stages
              \/ Forked(<<x[1], x[2] + 1>>)
              \/ x[1] = lineNo /\ x[2] = stage - 1
      /\ \A k \in 1 .. stage - 1 : Forked(<<lineNo, k>>)
  BY <1>1 DEF History, Order, InStages
<1>b. \A x \in Proc : Forked(x) => x[1] <= lineNo /\ x[2] <= typed[x[1]].stages
                                   /\ (x[1] = lineNo => x[2] < stage)
  BY <1>a
<1>13. Order(b)'
  <2>1. ASSUME NEW x \in Proc, Forked(x) \/ x = Me
        PROVE  /\ x[1] <= lineNo /\ x[2] <= typed[x[1]].stages
               /\ x[1] = lineNo => x[2] <= stage
               /\ \/ x[2] = typed[x[1]].stages
                  \/ Forked(<<x[1], x[2] + 1>>)'
                  \/ x[1] = lineNo /\ x[2] = stage /\ ~Last
    <3>1. CASE x = Me
      BY <1>2, <1>5, <3>1 DEF Last, line
    <3>2. CASE Forked(x)
      <4>a. typed[x[1]].stages \in 1 .. MaxStages
        BY <1>0, <1>4 DEF TypeOK, LineType
      <4>b. /\ x[1] <= lineNo /\ x[2] <= typed[x[1]].stages
            /\ (x[1] = lineNo => x[2] < stage)
        BY <1>b, <3>2
      <4>0. /\ x[1] <= lineNo /\ x[2] <= typed[x[1]].stages /\ x[1] \in Nat /\ x[2] \in Nat
            /\ (x[1] = lineNo => x[2] < stage)
            /\ typed[x[1]].stages \in 1 .. MaxStages
        BY <1>4, <4>a, <4>b
      <4>1. CASE x[1] = lineNo /\ x[2] = stage - 1
        <5>1. <<x[1], x[2] + 1>> = Me
          BY <1>2, <4>1 DEF Me
        <5>2. Forked(<<x[1], x[2] + 1>>)'
          BY <1>9, <5>1 DEF Forked
        <5> QED
          BY <1>2, <4>0, <4>1, <5>2
      <4>2. CASE Forked(<<x[1], x[2] + 1>>) /\ x[2] < typed[x[1]].stages
        <5>1. <<x[1], x[2] + 1>> \in Proc
          BY <1>4, <4>0, <4>2, NpShellAssumption DEF Proc
        <5>2. Forked(<<x[1], x[2] + 1>>)'
          BY <1>9, <4>2, <5>1 DEF Forked
        <5> QED
          BY <1>2, <4>0, <5>2
      <4>3. CASE x[2] = typed[x[1]].stages
        BY <1>2, <4>0, <4>3
      <4>4. x[2] < typed[x[1]].stages \/ x[2] = typed[x[1]].stages
        BY <4>0
      <4> QED
        BY <1>a, <3>2, <4>1, <4>2, <4>3, <4>4
    <3> QED
      BY <2>1, <3>1, <3>2
  <2>2. \A k \in 1 .. stage : Forked(<<lineNo, k>>)'
    <3> TAKE k \in 1 .. stage
    <3>1. <<lineNo, k>> \in Proc
      BY <1>2, <1>4, <1>5, NpShellAssumption DEF Proc
    <3>2. k = stage => <<lineNo, k>> = Me
      BY DEF Me
    <3>3. k # stage => Forked(<<lineNo, k>>) /\ <<lineNo, k>> # Me
      BY <1>2, <1>a DEF Me
    <3> QED
      BY <1>1, <1>9, <3>1, <3>2, <3>3 DEF Forked
  <2>3. CASE Last
    <3>1. stage = line.stages
      BY <2>3 DEF Last
    <3>2. b <= lineNo'
      BY <1>1, <1>2, <1>a
    <3>3. pc' \in {"prompt", "wait"} /\ line'.stages = stage
      BY <1>3, <2>3, <3>1
    <3>4. ASSUME NEW x \in Proc, Forked(x)'
          PROVE  /\ x[1] <= lineNo' /\ x[2] <= typed'[x[1]].stages
                 /\ x[2] = typed'[x[1]].stages \/ Forked(<<x[1], x[2] + 1>>)'
      BY <1>1, <1>10, <2>1, <2>3, <3>4
    <3> QED
      BY <1>1, <1>a, <2>2, <3>2, <3>3, <3>4 DEF Order, InStages
  <2>4. CASE ~Last
    <3>1. stage' = stage + 1 /\ pc' = "open" /\ stage' - 1 = stage
      BY <1>2, <1>3, <2>4
    <3>2. \A x \in Proc : x[2] <= stage => x[2] < stage'
      BY <1>2, <1>4, <3>1
    <3> QED
      BY <1>1, <1>2, <1>10, <1>a, <2>1, <2>2, <3>1, <3>2 DEF Order, InStages
  <2> QED
    BY <2>3, <2>4
<1>14. Chosen'
  BY <1>3 DEF Chosen
<1>15. Waiting(b)'
  <2> SUFFICES ASSUME NEW d \in pipeN'
               PROVE  /\ b < d.fd[1] /\ d.fd[1] <= lineNo' /\ d.fd[2] = typed'[d.fd[1]].stages
                      /\ ~Reads(d.fd)'
                      /\ Begun(Due(d))' => Due(d)' = d.fd[1]
    BY DEF Waiting
  <2>1. d \in pipeN /\ d.fd \in Proc /\ d.count \in Int
    BY <1>0, <1>6 DEF TypeOK
  <2>2. /\ b < d.fd[1] /\ d.fd[1] <= lineNo /\ d.fd[2] = typed[d.fd[1]].stages
        /\ ~Reads(d.fd)
        /\ Begun(Due(d)) => Due(d) = d.fd[1]
    BY <2>1 DEF History, Waiting
  <2>3. ~Reads(d.fd)'
    <3>1. d.fd # source
      BY <1>5, <1>7, <2>1
    <3> QED
      BY <1>12, <2>2, <3>1
  <2>4. Due(d)' = Due(d)
    BY <1>1 DEF Due
  <2>5. Begun(Due(d))' <=> Begun(Due(d)) \/ (Due(d) = lineNo /\ stage = 1)
    <3>1. PICK l : l = Due(d)
      OBVIOUS
    <3>2. Begun(l)' <=> Begun(l) \/ (l = lineNo /\ stage = 1)
      BY <1>11
    <3> QED
      BY <2>4, <3>1, <3>2 DEF Begun
  <2>6. ~(Due(d) = lineNo /\ stage = 1)
    <3> SUFFICES ASSUME Due(d) = lineNo, stage = 1 PROVE FALSE
      OBVIOUS
    <3>1. d.count = 0 /\ pre = NoPipe
      BY <1>0, <1>1, <1>2, <2>1 DEF Due, InHand
    <3>2. PICK e \in pipeN : e.count = 0 /\ pipeN' = pipeN \ {e}
      BY <1>6, <2>1, <3>1
    <3> QED
      BY <1>0, <2>1, <3>1, <3>2 DEF DistinctCounts
  <2> QED
    BY <1>1, <2>2, <2>3, <2>4, <2>5, <2>6
<1>16. Sources'
  <2>1. ASSUME NEW y \in Proc, Forked(y), y # Me
        PROVE  /\ y[2] > 1 => stdin'[y] = <<y[1], y[2] - 1>>
               /\ y[2] = 1 /\ stdin'[y] # NoPipe =>
                    /\ stdin'[y] = y \/ stdin'[y][1] < y[1]
                    /\ stdin'[y][2] = typed[stdin'[y][1]].stages
               /\ st'[y] = "run" /\ stdin'[y] # NoPipe => <<stdin'[y], "r">> \in fds'[y]
    BY <1>9, <2>1 DEF History, Sources
  <2>2. /\ stage > 1 => source = <<lineNo, stage - 1>>
        /\ stage = 1 /\ source # NoPipe => /\ source = Me \/ source[1] < lineNo
                                           /\ source[2] = typed[source[1]].stages
        /\ source # NoPipe => <<source, "r">> \in Inherited(source, sink)
    BY <1>7 DEF Inherited
  <2> QED
    BY <1>1, <1>5, <1>9, <1>10, <2>1, <2>2 DEF Sources
<1>17. OneReader'
  <2> SUFFICES ASSUME NEW y \in Proc, NEW z \in Proc, Forked(y)', Forked(z)',
                      stdin'[y] = stdin'[z], stdin'[y] # NoPipe
               PROVE  y = z
    BY DEF OneReader
  <2>1. CASE y # Me /\ z # Me
    BY <1>9, <1>10, <2>1 DEF History, OneReader
  <2>2. CASE y = Me /\ z # Me
    BY <1>7, <1>9, <1>10, <2>2 DEF Reads
  <2>3. CASE z = Me /\ y # Me
    BY <1>7, <1>9, <1>10, <2>3 DEF Reads
  <2> QED
    BY <2>1, <2>2, <2>3
<1>18. \A x : Goal(x)' = Goal(x)
  BY <1>1 DEF Goal
<1>19. ASSUME NEW x \in Proc, Forked(x), Sink(x, b) PROVE Sink(x, b)'
  <2>1. x # Me /\ stdout'[x] = stdout[x]
    BY <1>7, <1>9, <1>19 DEF Forked, Me
  <2>2. Taken(x) => Taken(x)'
    <3> SUFFICES ASSUME Taken(x) PROVE Taken(x)'
      OBVIOUS
    <3> DEFINE y == <<Goal(x), 1>>
    <3>1. Begun(Goal(x)) /\ y \in Proc /\ Forked(y) /\ stdin[y] = stdout[x]
      BY NpShellAssumption DEF Taken, Begun, Proc
    <3>2. y # Me
      BY <1>7, <3>1 DEF Forked
    <3>3. st'[y] = st[y] /\ stdin'[y] = stdin[y]
      BY <1>9, <3>1, <3>2
    <3> QED
      BY <1>18, <2>1, <3>1, <3>3 DEF Taken, Begun, Forked
  <2>3. ASSUME Dropped(x, b), stdout[x] # NoPipe, stdout[x][1] <= x[1] PROVE Dropped(x, b)'
    <3>1. x[1] <= b /\ ~Reads(stdout[x])
      BY <1>1, <2>3 DEF Dropped
    <3>2. stdout[x] # source
      <4>1. stdout[x] \in Proc
        BY <1>0, <2>3 DEF TypeOK
      <4>2. stdout[x][1] <= b
        BY <1>4, <2>3, <3>1, <4>1
      <4> QED
        BY <1>4, <1>7, <2>3, <4>1, <4>2
    <3>3. ~Reads(stdout[x])'
      BY <1>9, <1>10, <2>1, <3>1, <3>2 DEF Reads
    <3> QED
      BY <2>1, <3>1, <3>3 DEF Dropped
  <2>4. InList(x) => InList(x)' \/ Taken(x)'
    <3> SUFFICES ASSUME NEW d \in pipeN, d.fd = stdout[x], Due(d) = Goal(x)
                 PROVE  InList(x)' \/ Taken(x)'
      BY DEF InList
    <3>1. CASE d \in pipeN'
      BY <1>1, <1>18, <2>1, <3>1 DEF InList, Due
    <3>2. CASE d \notin pipeN'
      <4>1. pre = NoPipe /\ source = d.fd /\ d.count = 0
        BY <1>6, <3>2
      <4>2. stage = 1
        <5>1. <<lineNo, stage - 1>> # NoPipe \/ stage = 1
          BY <1>2 DEF NoPipe
        <5> QED
          BY <1>0, <1>1, <4>1, <5>1 DEF InHand
      <4>3. Goal(x) = lineNo
        BY <1>2, <4>1 DEF Due
      <4>4. x[1] # lineNo
        BY <1>4, <1>19, <1>b, <4>2
      <4>5. Me = <<Goal(x), 1>>
        BY <4>2, <4>3 DEF Me
      <4>6. lineNo \in 1 .. MaxLines
        BY <1>2, <1>4, <1>5
      <4> QED
        BY <1>9, <1>18, <2>1, <4>1, <4>3, <4>4, <4>5, <4>6 DEF Taken, Begun, Forked
    <3> QED
      BY <3>1, <3>2
  <2> QED
    BY <1>1, <1>19, <2>1, <2>2, <2>3, <2>4 DEF Sink
<1>20. ASSUME NEW x \in Proc, x = Me PROVE Sink(x, b)'
  <2>1. stdout'[x] = sink /\ x[1] = lineNo /\ x[2] = stage /\ typed'[x[1]] = line
    BY <1>1, <1>5, <1>9, <1>20 DEF line
  <2>2. stage < line.stages => sink = Me
    <3> SUFFICES ASSUME stage < line.stages PROVE sink = Me
      OBVIOUS
    <3>1. ~Last /\ pi = Me
      BY <1>0, <1>1, <1>2 DEF InHand, Last
    <3>2. source # Me
      BY <1>2, <1>7, <3>1
    <3> QED
      BY <3>1, <3>2 DEF sink
  <2>3. stage = line.stages /\ line.out # "num" => sink = NoPipe
    BY <1>1 DEF History, Chosen, Last, sink
  <2>4. ASSUME stage = line.stages, line.out = "num"
        PROVE  IF sink = NoPipe THEN line.n = 0
               ELSE sink[1] <= lineNo /\ \E d \in pipeN' : d.fd = sink /\ Due(d)' = lineNo + line.n
    <3>1. PICK d \in pipeN : d.fd = pi /\ d.count = line.n
      BY <1>1, <2>4 DEF History, Chosen, Last
    <3>2. pi \in Proc
      BY <1>0, <3>1 DEF TypeOK
    <3>3. CASE source = pi
      <4>1. d \notin pipeN'
        BY <1>5, <1>7, <3>1, <3>2, <3>3
      <4>2. d.count = 0
        BY <1>6, <4>1
      <4> QED
        BY <3>1, <3>3, <4>2 DEF sink
    <3>4. CASE source # pi
      <4>1. sink = pi /\ pi # NoPipe
        BY <1>5, <3>2, <3>4 DEF sink
      <4>2. d \in pipeN'
        BY <1>6, <3>1, <3>4
      <4>3. pi[1] <= lineNo
        BY <3>1 DEF History, Waiting
      <4>4. Due(d)' = lineNo + line.n
        BY <1>1, <3>1 DEF Due
      <4> QED
        BY <3>1, <4>1, <4>2, <4>3, <4>4
    <3> QED
      BY <3>3, <3>4
  <2>5. line.stages = stage \/ stage < line.stages
    BY <1>2
  <2>6. CASE stage < line.stages
    BY <1>2, <1>20, <2>1, <2>2, <2>6 DEF Sink
  <2>7. CASE stage = line.stages /\ line.out # "num"
    BY <1>2, <2>1, <2>3, <2>7 DEF Sink
  <2>8. CASE stage = line.stages /\ line.out = "num"
    <3>1. Goal(x)' = lineNo + line.n
      BY <1>1, <2>1 DEF Goal
    <3>2. sink # NoPipe => sink[1] <= x[1] /\ InList(x)'
      BY <2>1, <2>4, <2>8, <3>1 DEF InList
    <3> QED
      BY <1>2, <2>1, <2>4, <2>8, <3>2 DEF Sink
  <2> QED
    BY <2>5, <2>6, <2>7, <2>8
<1> QED
  BY <1>10, <1>13, <1>14, <1>15, <1>16, <1>17, <1>19, <1>20 DEF History, Sinks

(* A program that goes on or ends.                                          *)
LEMMA RunHistory ==
  ASSUME NEW b \in Nat, TypeOK, History(b), NEW x \in Proc, Run(x) \/ Fail(x) PROVE History(b)'
<1>1. UNCHANGED <<pc, stage, lineNo, typed, pi, pipeN, stdin, stdout>>
  BY DEF Run, Write, Read, Finish, Fail, Die, shellVars, procVars
<1>2. \A y \in Proc : (Forked(y)' <=> Forked(y))
                      /\ (st'[y] = "run" => st[y] = "run" /\ fds'[y] = fds[y])
  BY DEF Run, Write, Read, Finish, Fail, Die, Forked, TypeOK
<1> QED
  BY <1>1, <1>2, OthersHistory

(* Reaping: what was forked stays forked.                                   *)
LEMMA ReapHistory ==
  ASSUME NEW b \in Nat, TypeOK, History(b),
         UNCHANGED <<lineNo, typed, pi, pipeN, fds, stdin, stdout>>,
         \/ pc' = pc /\ stage' = stage
         \/ /\ pc \in {"wait", "waitany"} /\ pc' \in {"wait", "waitany", "prompt"}
            /\ pc' = "wait" => pc = "wait",
         \A x \in Proc : st'[x] = st[x] \/ (st[x] # "none" /\ st'[x] = "reaped")
  PROVE  History(b)'
<1>1. \A x \in Proc : (Forked(x)' <=> Forked(x))
                      /\ (st'[x] = "run" => st[x] = "run" /\ fds'[x] = fds[x])
  BY DEF Forked
<1> QED
  BY <1>1, OthersHistory

(* Waiting for a stage: all stages of the line have been forked.            *)
LEMMA WaitHistory ==
  ASSUME NEW b \in Nat, IInv, History(b), WaitStage PROVE History(b)'
<1>0. TypeOK /\ InLine
  BY DEF IInv
<1>1. /\ pc = "wait" /\ st' = [st EXCEPT ![Me] = "reaped"]
      /\ UNCHANGED <<lineNo, typed, pi, pipeN, fds, stdin, stdout>>
      /\ pc' \in {"wait", "waitany", "prompt"}
  BY DEF WaitStage, procVars
<1>2. Me \in Proc /\ stage \in 1 .. line.stages
  BY <1>0, <1>1, MeProc DEF InLine
<1>3. st[Me] # "none"
  BY <1>1, <1>2 DEF History, Order, Forked, Me
<1>4. \A x \in Proc : st'[x] = st[x] \/ (st[x] # "none" /\ st'[x] = "reaped")
  BY <1>0, <1>1, <1>2, <1>3 DEF TypeOK
<1> QED
  BY <1>0, <1>1, <1>4, ReapHistory

(* Every step of the shell keeps the history.                               *)
LEMMA NextHistory ==
  ASSUME NEW b \in Nat, IInv, History(b), [Next]_vars PROVE History(b)'
<1>0. TypeOK
  BY DEF IInv
<1>1. CASE ReadLine
  BY <1>1, ReadLineHistory
<1>2. CASE Exit
  BY <1>2, ExitHistory
<1>3. CASE OpenPipe
  BY <1>3, OpenPipeHistory
<1>4. CASE Fork
  BY <1>4, ForkHistory
<1>5. CASE WaitStage
  BY <1>5, WaitHistory
<1>6. CASE WaitFile \/ ForkRetry \/ Reap
  <2>1. UNCHANGED <<lineNo, typed, stage, pi, pipeN, fds, stdin, stdout>>
    BY <1>6 DEF WaitFile, ForkRetry, Reap, shellVars, procVars
  <2>2. pc' = pc \/ (pc = "waitany" /\ pc' = "prompt")
    BY <1>6 DEF WaitFile, ForkRetry, Reap, shellVars
  <2>3. \A x \in Proc : st'[x] = st[x] \/ (st[x] # "none" /\ st'[x] = "reaped")
    BY <1>0, <1>6 DEF WaitFile, ForkRetry, Reap, WaitAnyChild, TypeOK
  <2> QED
    BY <1>0, <2>1, <2>2, <2>3, ReapHistory
<1>7. ASSUME NEW x \in Proc, Run(x) \/ Fail(x) PROVE History(b)'
  BY <1>0, <1>7, RunHistory
<1>8. CASE UNCHANGED vars
  BY <1>0, <1>8, ReapHistory DEF vars, shellVars, procVars
<1> QED
  BY <1>1, <1>2, <1>3, <1>4, <1>5, <1>6, <1>7, <1>8 DEF Next, ShellStep, Finished

-----------------------------------------------------------------------------
(* What is known of a forked program.                                       *)
LEMMA ForkedProgram ==
  ASSUME NEW b \in Nat, TypeOK, History(b), NEW x \in Proc, Forked(x)
  PROVE  /\ x[1] \in 1 .. MaxLines /\ x[2] \in Nat \ {0} /\ x = <<x[1], x[2]>> /\ x # NoPipe
         /\ typed[x[1]].stages \in Nat /\ typed[x[1]].n \in Nat
         /\ x[2] <= typed[x[1]].stages
         /\ Sink(x, b)
<1>1. /\ x[1] \in 1 .. MaxLines /\ x[2] \in Nat \ {0} /\ x = <<x[1], x[2]>> /\ x # NoPipe
  BY DEF Proc, NoPipe
<1>2. typed[x[1]].stages \in Nat /\ typed[x[1]].n \in Nat
  <2>1. typed[x[1]] \in LineType
    BY <1>1 DEF TypeOK
  <2> QED
    BY <2>1, NpShellAssumption DEF LineType
<1> QED
  BY <1>1, <1>2 DEF History, Order, Sinks

(* Why output is on time: a pipe that is read has one reader, the next stage *)
(* or the line it was promised to; one that is not is in the list, and its  *)
(* line has not begun.                                                      *)
LEMMA HistoryOnTime == IInv /\ History(0) => OnTime
<1> SUFFICES ASSUME IInv, History(0), NEW x \in Proc, NEW y \in Proc, Forked(x), Forked(y)
             PROVE  Feeds(x, y) <=> Meant(x, y)
  BY DEF OnTime, Forked
<1> DEFINE l == typed[x[1]]
<1>0. TypeOK
  BY DEF IInv
<1>1. /\ x[1] \in 1 .. MaxLines /\ x[2] \in Nat \ {0} /\ x = <<x[1], x[2]>> /\ x # NoPipe
      /\ l.stages \in Nat /\ l.n \in Nat /\ x[2] <= l.stages /\ Sink(x, 0)
  BY <1>0, ForkedProgram
<1>2. y[1] \in 1 .. MaxLines /\ y[2] \in Nat \ {0} /\ y = <<y[1], y[2]>>
  BY <1>0, ForkedProgram
<1>3. CASE x[2] < l.stages
  <2>1. stdout[x] = x
    BY <1>1, <1>3 DEF Sink
  <2>2. stdin[y] = x <=> y = <<x[1], x[2] + 1>>
    <3>1. CASE y[2] > 1
      <4>1. stdin[y] = <<y[1], y[2] - 1>>
        BY <3>1 DEF History, Sources
      <4> QED
        BY <1>1, <1>2, <4>1
    <3>2. CASE y[2] = 1
      <4>1. stdin[y] # NoPipe => stdin[y][2] = typed[stdin[y][1]].stages
        BY <3>2 DEF History, Sources
      <4>2. stdin[y] # x
        BY <1>1, <1>3, <4>1
      <4> QED
        BY <1>1, <3>2, <4>2
    <3> QED
      BY <1>2, <3>1, <3>2
  <2> QED
    BY <1>1, <1>3, <2>1, <2>2 DEF Feeds, Meant
<1>4. CASE x[2] = l.stages /\ (l.out # "num" \/ stdout[x] = NoPipe)
  BY <1>1, <1>4 DEF Sink, Feeds, Meant
<1>5. CASE x[2] = l.stages /\ l.out = "num" /\ stdout[x] # NoPipe
  <2>1. stdout[x] \in Proc /\ stdout[x][1] \in Nat
    BY <1>0, <1>5 DEF TypeOK, Proc
  <2>2. stdout[x][1] <= x[1] /\ (InList(x) \/ Taken(x) \/ Dropped(x, 0))
    BY <1>1, <1>5 DEF Sink
  <2>3. Meant(x, y) <=> l.n > 0 /\ y = <<Goal(x), 1>>
    BY <1>1, <1>5 DEF Meant, Goal
  <2>4. y = <<Goal(x), 1>> => Begun(Goal(x))
    BY <1>2 DEF Begun
  <2>5. Goal(x) # x[1] <=> l.n > 0
    BY <1>1 DEF Goal
  <2>6. CASE Taken(x)
    <3>1. <<Goal(x), 1>> \in Proc
      BY <2>6, NpShellAssumption DEF Taken, Begun, Proc
    <3> QED
      BY <1>5, <2>3, <2>5, <2>6, <3>1 DEF Taken, Begun, History, OneReader, Feeds
  <2>7. CASE InList(x)
    <3>1. PICK e \in pipeN : e.fd = stdout[x] /\ Due(e) = Goal(x)
      BY <2>7 DEF InList
    <3>2. ~Feeds(x, y) /\ (Begun(Goal(x)) => Goal(x) = stdout[x][1])
      BY <3>1 DEF History, Waiting, Reads, Feeds
    <3>3. ~(Begun(Goal(x)) /\ l.n > 0)
      BY <1>1, <2>1, <2>2, <3>2 DEF Goal
    <3> QED
      BY <2>3, <2>4, <3>2, <3>3
  <2>8. CASE Dropped(x, 0)
    <3>1. ~Feeds(x, y) /\ ~(Begun(Goal(x)) /\ l.n > 0)
      BY <1>1, <2>5, <2>8 DEF Dropped, Reads, Feeds
    <3> QED
      BY <2>3, <2>4, <3>1
  <2> QED
    BY <2>2, <2>6, <2>7, <2>8
<1> QED
  BY <1>1, <1>3, <1>4, <1>5

(* What a program writes is read by exactly the program the lines say: the  *)
(* next stage, or the first of the N-th next line.                          *)
THEOREM AlwaysOnTime == Spec => []OnTime
<1>1. IInv /\ History(0) /\ [Next]_vars => (IInv /\ History(0))'
  <2>1. 0 \in Nat
    OBVIOUS
  <2> QED
    BY <2>1, NextIInv, NextHistory
<1> QED
  BY <1>1, InitIInv, InitHistory, HistoryOnTime, PTL DEF Spec

-----------------------------------------------------------------------------
(* The shell under the server.                                              *)
SInv ==
  /\ IInv /\ base \in Nat /\ History(base)
  /\ pc = "done" => pipeN = {}
  /\ server = "accept" => pc = "done"

(* Before the first client.                                                 *)
LEMMA ServerInitSInv == ServerInit => SInv
<1> SUFFICES ASSUME ServerInit PROVE SInv
  OBVIOUS
<1> USE DEF ServerInit
<1>1. TypeOK
  BY NpShellAssumption DEF TypeOK, LineType
<1>2. InLine /\ InHand /\ Opened /\ DistinctCounts /\ ShellHolds
  BY DEF InLine, InHand, Opened, DistinctCounts, ShellHolds, Shell
<1>3. History(0)
  BY NpShellAssumption
     DEF History, Order, Chosen, Waiting, Sources, OneReader, Sinks, Forked, InStages
<1> QED
  BY <1>1, <1>2, <1>3 DEF SInv, IInv

(* A new shell: all that was forked belongs to the shells before.           *)
LEMMA AcceptSInv == ASSUME SInv, NEW c \in Clients, Accept(c) PROVE SInv'
<1>1. /\ pc = "done" /\ pc' = "prompt" /\ server' = "wait" /\ base' = lineNo /\ pipeN = {}
      /\ UNCHANGED <<lineNo, typed, stage, pre, pi, pipeN, fds, stdin, stdout, st, todo, buf>>
  BY DEF Accept, NewShell, SInv, procVars
<1>2. TypeOK /\ lineNo \in Nat
  BY DEF SInv, IInv, TypeOK
<1>3. IInv'
  <2>1. TypeOK'
    BY <1>1, <1>2 DEF TypeOK
  <2>2. InLine' /\ InHand' /\ Opened' /\ DistinctCounts' /\ ShellHolds'
    BY <1>1 DEF SInv, IInv, InLine, InHand, Opened, DistinctCounts, ShellHolds
  <2> QED
    BY <2>1, <2>2 DEF IInv
<1>4. PICK b \in Nat : b = base /\ History(b)
  BY DEF SInv
<1>5. PICK m \in Nat : m = lineNo
  BY <1>2
<1>6. \A x \in Proc : Forked(x) => x[1] <= m
  BY <1>4, <1>5 DEF History, Order
<1>7. History(m)'
  <2>1. \A x : Forked(x)' <=> Forked(x)
    BY <1>1 DEF Forked
  <2>2. Order(m)'
    BY <1>1, <1>2, <1>4, <1>5, <2>1 DEF History, Order, InStages
  <2>3. Chosen' /\ Waiting(m)'
    BY <1>1 DEF Chosen, Waiting
  <2>4. Sources' /\ OneReader'
    BY <1>1, <1>4, <2>1 DEF History, Sources, OneReader
  <2>5. Sinks(m)'
    <3> SUFFICES ASSUME NEW x \in Proc, Forked(x), Sink(x, b) PROVE Sink(x, m)'
      BY <1>4, <2>1 DEF History, Sinks
    <3>1. ~InList(x)
      BY <1>1 DEF InList
    <3>2. Taken(x) => Taken(x)'
      BY <1>1 DEF Taken, Begun, Forked, Goal
    <3>3. Dropped(x, b) => Dropped(x, m)'
      BY <1>1, <1>6 DEF Dropped, Reads, Forked
    <3> QED
      BY <1>1, <3>1, <3>2, <3>3 DEF Sink
  <2> QED
    BY <2>2, <2>3, <2>4, <2>5 DEF History
<1> QED
  BY <1>1, <1>3, <1>5, <1>7 DEF SInv

(* The shell reaps its own children only, and init the others.              *)
LEMMA ReapMineSInv ==
  SInv /\ (Retry \/ WaitOutput \/ Reaped(TRUE) \/ Reaped(FALSE)) /\ UNCHANGED serverVars => SInv'
<1> SUFFICES ASSUME SInv, Retry \/ WaitOutput \/ Reaped(TRUE) \/ Reaped(FALSE), UNCHANGED serverVars
             PROVE  SInv'
  OBVIOUS
<1>0. IInv /\ TypeOK /\ ShellHolds
  BY DEF SInv, IInv
<1>1. /\ UNCHANGED <<lineNo, typed, stage, pre, pi, pipeN, fds, stdin, stdout, todo, buf>>
      /\ pc' = pc \/ (pc = "waitany" /\ pc' = "prompt")
  BY DEF Retry, WaitOutput, Reaped, shellVars, procVars
<1>2. /\ st' \in [Proc -> {"none", "run", "zombie", "reaped"}]
      /\ \A x \in Proc : st'[x] = st[x] \/ (st[x] # "none" /\ st'[x] = "reaped")
  BY <1>0 DEF Retry, WaitOutput, WaitMine, Reaped, TypeOK
<1>3. IInv'
  <2>1. TypeOK'
    BY <1>0, <1>1, <1>2 DEF TypeOK
  <2>2. InLine' /\ InHand' /\ Opened' /\ DistinctCounts' /\ ShellHolds'
    BY <1>0, <1>1 DEF IInv, InLine, InHand, Opened, DistinctCounts, ShellHolds, line, Last, Me
  <2> QED
    BY <2>1, <2>2 DEF IInv
<1>4. PICK b \in Nat : b = base /\ History(b)
  BY DEF SInv
<1>5. History(b)'
  BY <1>0, <1>1, <1>2, <1>4, ReapHistory
<1>6. base' = b /\ server' = server
  BY <1>4 DEF serverVars
<1> QED
  BY <1>1, <1>3, <1>5, <1>6 DEF SInv

(* The steps the shell of project 1 takes too.                              *)
LEMMA ShellSInv ==
  ASSUME SInv, UNCHANGED serverVars,
         \/ ReadLine \/ Exit \/ OpenPipe \/ Fork \/ WaitStage
         \/ \E x \in Proc : Run(x) \/ Fail(x)
  PROVE  SInv'
<1>1. Next
  BY DEF Next, ShellStep
<1>2. IInv'
  BY <1>1, NextIInv DEF SInv
<1>3. PICK b \in Nat : b = base /\ History(b)
  BY DEF SInv
<1>4. History(b)'
  BY <1>1, <1>3, NextHistory DEF SInv
<1>5. base' = b /\ server' = server
  BY <1>3 DEF serverVars
<1>6. pc' = "done" => (pc = "done" /\ pipeN' = pipeN) \/ pipeN' = {}
  BY DEF ReadLine, Exit, OpenPipe, Fork, NextStage, WaitStage,
         Run, Write, Read, Finish, Fail, Die, shellVars
<1>7. pc = "done" => pc' = "done"
  BY DEF ReadLine, Exit, OpenPipe, Fork, WaitStage,
         Run, Write, Read, Finish, Fail, Die, shellVars
<1> QED
  BY <1>2, <1>4, <1>5, <1>6, <1>7 DEF SInv

(* Steps of the server alone.                                               *)
LEMMA StillSInv ==
  ASSUME SInv, UNCHANGED <<vars, base>>, server' = "accept" => pc = "done" PROVE SInv'
<1>0. UNCHANGED <<pc, lineNo, typed, stage, pre, pi, pipeN, fds, stdin, stdout, st, todo, buf>>
  BY DEF vars, shellVars, procVars
<1>1. IInv'
  BY NextIInv DEF SInv
<1>2. PICK b \in Nat : b = base /\ History(b)
  BY DEF SInv
<1>3. History(b)'
  BY <1>2, NextHistory DEF SInv
<1>4. base' = b
  BY <1>2
<1> QED
  BY <1>0, <1>1, <1>3, <1>4 DEF SInv

(* Every step of server, shells and programs keeps the invariant.           *)
LEMMA ServerNextSInv == SInv /\ [ServerNext]_allVars => SInv'
<1> SUFFICES ASSUME SInv, [ServerNext]_allVars PROVE SInv'
  OBVIOUS
<1>1. ASSUME NEW c \in Clients, Accept(c) PROVE SInv'
  BY <1>1, AcceptSInv
<1>2. CASE (\E c \in Clients : Dial(c)) \/ WaitShell \/ Idle \/ UNCHANGED allVars
  <2>1. UNCHANGED <<vars, base>> /\ (server' = "accept" => pc = "done")
    BY <1>2 DEF Dial, WaitShell, Idle, allVars, serverVars, SInv
  <2> QED
    BY <2>1, StillSInv
<1>3. CASE ShellNext /\ UNCHANGED serverVars
  BY <1>3, ReapMineSInv, ShellSInv DEF ShellNext, Step
<1> QED
  BY <1>1, <1>2, <1>3 DEF ServerNext

(* The invariant holds in every reachable state of the server.              *)
THEOREM ServerInvariance == ServerSpec => []SInv
<1> QED
  BY ServerInitSInv, ServerNextSInv, PTL DEF ServerSpec

(* No pipe end leaks from line to line or from client to client.            *)
THEOREM ServerKeeps == ServerSpec => [](TypeOK /\ DistinctCounts /\ ShellHolds)
<1>1. SInv => TypeOK /\ DistinctCounts /\ ShellHolds
  BY DEF SInv, IInv
<1> QED
  BY <1>1, ServerInvariance, PTL

(* Why: until the reader is forked the shell has the read end, in its list  *)
(* or in hand, and from then on the reader has it, as long as it runs.      *)
LEMMA ReaderIsExpected == SInv => ReaderExpected
<1> SUFFICES ASSUME SInv, NEW x \in Proc, Mine(x), st[x] = "run", Broken(x)
             PROVE  \E y \in Proc : Meant(x, y) /\ st[y] \in {"zombie", "reaped"}
  BY DEF ReaderExpected
<1> DEFINE l == typed[x[1]]
           p == stdout[x]
<1>0. TypeOK /\ InHand /\ InLine /\ ShellHolds
  BY DEF SInv, IInv
<1>1. PICK b \in Nat : b = base /\ History(b)
  BY DEF SInv
<1>2. Forked(x)
  BY DEF Forked
<1>3. /\ x[1] \in 1 .. MaxLines /\ x[2] \in Nat \ {0} /\ x = <<x[1], x[2]>> /\ x # NoPipe
      /\ l.stages \in Nat /\ l.n \in Nat /\ x[2] <= l.stages /\ Sink(x, b)
  BY <1>0, <1>1, <1>2, ForkedProgram
<1>4. p # NoPipe /\ \A z \in Proc \cup {Shell} : <<p, "r">> \notin fds[z]
  BY <1>0 DEF Broken, Open, TypeOK
<1>5. ASSUME NEW y \in Proc, Forked(y), stdin[y] = p PROVE st[y] \in {"zombie", "reaped"}
  BY <1>0, <1>1, <1>4, <1>5 DEF History, Sources, Forked, TypeOK
<1>6. CASE x[2] < l.stages
  <2>1. p = x
    BY <1>3, <1>6 DEF Sink
  <2>2. CASE Forked(<<x[1], x[2] + 1>>)
    <3> DEFINE y == <<x[1], x[2] + 1>>
    <3>1. y \in Proc
      <4>1. l.stages \in 1 .. MaxStages
        BY <1>0, <1>3 DEF TypeOK, LineType
      <4> QED
        BY <1>3, <1>6, <4>1, NpShellAssumption DEF Proc
    <3>2. y[1] = x[1] /\ y[2] > 1 /\ y[2] - 1 = x[2]
      BY <1>3
    <3>3. stdin[y] = x
      BY <1>1, <1>3, <2>2, <3>1, <3>2 DEF History, Sources
    <3>4. Meant(x, y)
      BY <1>6 DEF Meant
    <3> QED
      BY <1>5, <2>1, <2>2, <3>1, <3>3, <3>4
  <2>3. CASE x[1] = lineNo /\ x[2] = stage - 1 /\ pc \in InStages
    <3>1. stage # 1 /\ x = <<lineNo, stage - 1>>
      BY <1>3, <2>3
    <3>2. \/ pc = "open" /\ pi = x
          \/ pc = "fork" /\ pre = x
      BY <1>0, <2>3, <3>1 DEF InHand, InStages
    <3>3. <<x, "r">> \in fds[Shell]
      BY <1>0, <1>3, <3>2 DEF ShellHolds
    <3> QED
      BY <1>4, <2>1, <3>3
  <2> QED
    BY <1>1, <1>2, <1>3, <1>6, <2>2, <2>3 DEF History, Order
<1>7. CASE x[2] = l.stages
  <2>1. l.out = "num" /\ (InList(x) \/ Taken(x) \/ Dropped(x, b))
    BY <1>3, <1>4, <1>7 DEF Sink
  <2>2. ~Dropped(x, b)
    BY <1>1, <1>3 DEF Dropped, Mine
  <2>3. ~InList(x)
    <3> SUFFICES ASSUME NEW e \in pipeN, e.fd = p PROVE FALSE
      BY DEF InList
    <3>1. <<p, "r">> \in fds[Shell]
      BY <1>0, <1>4 DEF ShellHolds
    <3> QED
      BY <1>4, <3>1
  <2>4. Taken(x)
    BY <2>1, <2>2, <2>3
  <2> DEFINE y == <<Goal(x), 1>>
  <2>5. y \in Proc /\ Forked(y) /\ stdin[y] = p /\ Goal(x) # x[1]
    BY <2>4, NpShellAssumption DEF Taken, Begun, Proc
  <2>6. Meant(x, y)
    BY <1>3, <1>7, <2>1, <2>5 DEF Meant, Goal
  <2> QED
    BY <1>5, <2>5, <2>6
<1> QED
  BY <1>3, <1>6, <1>7

(* A program of the present shell meets a broken pipe only when the program *)
(* meant to read its output has run and gone.                               *)
THEOREM ReaderAlwaysExpected == ServerSpec => []ReaderExpected
<1> QED
  BY ReaderIsExpected, ServerInvariance, PTL

(* From client to client the list keeps what it promises: a new shell starts *)
(* with none, and no step of the server touches it.                         *)
THEOREM ServerListImplementsPromises == ServerSpec => PromisesKept
<1>1. ServerInit => Promises!Init
  BY DEF ServerInit, Promises!Init
<1>2. SInv /\ [ServerNext]_allVars => [Promises!Next]_(Promises!vars)
  <2> SUFFICES ASSUME SInv, [ServerNext]_allVars PROVE [Promises!Next]_(Promises!vars)
    OBVIOUS
  <2>1. CASE \/ \E c \in Clients : Dial(c) \/ Accept(c)
             \/ WaitShell \/ Idle \/ UNCHANGED allVars
             \/ Retry \/ WaitOutput \/ Reaped(TRUE) \/ Reaped(FALSE)
    <3>1. UNCHANGED <<lineNo, pipeN>>
      BY <2>1 DEF Dial, Accept, WaitShell, Idle, Retry, WaitOutput, Reaped, allVars, vars, shellVars
    <3> QED
      BY <3>1 DEF Promises!vars
  <2>2. CASE \/ ReadLine \/ Exit \/ OpenPipe \/ Fork \/ WaitStage
             \/ \E x \in Proc : Run(x) \/ Fail(x)
    <3>1. Next
      BY <2>2 DEF Next, ShellStep
    <3> QED
      BY <3>1, PromiseStep DEF SInv
  <2> QED
    BY <2>1, <2>2 DEF ServerNext, ShellNext, Step
<1> QED
  BY <1>1, <1>2, ServerInvariance, PTL DEF ServerSpec, PromisesKept, Promises!Spec
=============================================================================

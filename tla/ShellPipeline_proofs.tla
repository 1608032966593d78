------------------------ MODULE ShellPipeline_proofs ------------------------
(***************************************************************************)
(* The ends of a pipe are where they belong, for every number of lines, of *)
(* commands and of descriptors.                                            *)
(***************************************************************************)
EXTENDS ShellPipeline, TLAPS

\* Lines and children that are still to come.
Future ==
    /\ \A l \in 1..Lines : l > cur => line[l] = <<>>
    /\ \A c \in Child : line[c[1]] = <<>> \/ c[2] > Len(line[c[1]]) => state[c] = "none"
    /\ pc \in {"pipe", "eval", "close", "wait"} =>
          cur \in 1..Lines /\ cmdcnt > 0 /\ idx <= cmdcnt

\* What a process holds is an end of a line that has been read.
HeldEnds == \A q \in Proc : \A e \in table[q] : e[2] < Len(line[e[1]])

\* The shell holds the ends of the line it sets up, and leaked ones.
ShellTable ==
    \A e \in table[Shell] : Leaks(e[1]) \/ (cur = e[1] /\ pc \in {"eval", "close"})

\* A child holds the leaked ones, and until exec those of its line.
ChildTable ==
    \A c \in Child : \A e \in table[c] :
        Leaks(e[1]) \/ (c[1] = e[1] /\ state[c] \in {"forked", "duped"})

\* A child's standard input and output are the terminal or its own pipes.
Standard ==
    \A c \in Child : /\ stdin[c] \in {Tty, <<c[1], c[2] - 1, "r">>}
                     /\ stdout[c] \in {Tty, <<c[1], c[2], "w">>}

PipeInv == TypeOK /\ Future /\ HeldEnds /\ ShellTable /\ ChildTable /\ Standard

-----------------------------------------------------------------------------
\* The shell is not one of its children, and the terminal is not a pipe.
LEMMA Apart ==
    /\ Shell \notin Child /\ Tty \notin End
    /\ \A l \in 1..Lines : Ends(l) \subseteq End
BY ConstantsOK DEF Shell, Child, Tty, End, Ends

\* A line is a sequence of at most MaxStages commands.
LEMMA LineIsSeq ==
    ASSUME TypeOK, NEW l \in 1..Lines
    PROVE  /\ line[l] \in Seq({"program", "builtin"})
           /\ Len(line[l]) \in 0..MaxStages
<1>1. line[l] \in Commands \cup {<<>>}
  BY DEF TypeOK
<1>2. CASE line[l] = <<>>
  BY <1>2, ConstantsOK
<1>3. CASE line[l] \in Commands
  <2>1. PICK k \in 1..MaxStages : line[l] \in [1..k -> {"program", "builtin"}]
    BY <1>3 DEF Commands
  <2>2. line[l] \in Seq({"program", "builtin"}) /\ Len(line[l]) = k
    BY <2>1
  <2> QED
    BY <2>2, ConstantsOK
<1> QED
  BY <1>1, <1>2, <1>3

LEMMA PipeInit == Init => PipeInv
<1> SUFFICES ASSUME Init PROVE PipeInv
  OBVIOUS
<1> USE DEF Init
<1>1. TypeOK
  <2>1. line \in [1..Lines -> Commands \cup {<<>>}]
    OBVIOUS
  <2>2. table \in [Proc -> SUBSET End]
    OBVIOUS
  <2>3. stdin \in [Child -> End \cup {Tty}] /\ stdout \in [Child -> End \cup {Tty}]
    OBVIOUS
  <2>4. data \in [Child -> 0..Cap] /\ item \in [Child -> BOOLEAN]
    BY ConstantsOK
  <2>5. pc = "prompt" /\ cur \in 0..Lines /\ idx \in 1..MaxStages
    BY ConstantsOK
  <2>6. bg \in BOOLEAN
    OBVIOUS
  <2>7. state \in [Child -> {"none", "forked", "duped", "running", "ended"}]
    OBVIOUS
  <2> HIDE DEF Init
  <2> QED
    BY <2>1, <2>2, <2>3, <2>4, <2>5, <2>6, <2>7 DEF TypeOK
<1>2. Future
  BY ConstantsOK DEF Future, Child
<1> QED
  BY <1>1, <1>2, Apart DEF PipeInv, HeldEnds, ShellTable, ChildTable, Standard, Proc

-----------------------------------------------------------------------------
\* The steps of the shell.

LEMMA ReadStep ==
    ASSUME PipeInv, NEW cmds \in Commands, NEW b \in BOOLEAN, ReadLine(cmds, b)
    PROVE  PipeInv'
<1> USE DEF PipeInv
<1>0. /\ cur \in Nat /\ cur < Lines /\ cur + 1 \in 1..Lines /\ line[cur + 1] = <<>>
      /\ line' = [line EXCEPT ![cur + 1] = cmds]
      /\ \A l \in 1..Lines : l # cur + 1 => line'[l] = line[l]
  <2>1. cur \in Nat /\ cur < Lines /\ cur + 1 \in 1..Lines
    BY ConstantsOK DEF TypeOK, ReadLine
  <2>2. line \in [1..Lines -> Commands \cup {<<>>}]
    BY DEF TypeOK
  <2>3. line' = [line EXCEPT ![cur + 1] = cmds]
    BY DEF ReadLine
  <2> QED
    BY <2>1, <2>2, <2>3 DEF Future
<1>1. TypeOK'
  <2>1. line' \in [1..Lines -> Commands \cup {<<>>}]
    BY <1>0 DEF TypeOK
  <2>2. pc' = "pipe" /\ cur' \in 0..Lines /\ idx' \in 1..MaxStages
    BY <1>0, ConstantsOK DEF ReadLine, TypeOK
  <2>3. bg' \in BOOLEAN
    BY DEF ReadLine
  <2>4. UNCHANGED <<state, table, stdin, stdout, data, item>>
    BY DEF ReadLine, files, flow
  <2> QED
    BY <2>1, <2>2, <2>3, <2>4 DEF TypeOK
<1>2. cmds \in Seq({"program", "builtin"}) /\ Len(cmds) \in 1..MaxStages
  <2>1. PICK k \in 1..MaxStages : cmds \in [1..k -> {"program", "builtin"}]
    BY DEF Commands
  <2> QED
    BY <2>1
<1>3. Future'
  <2>1. \A c \in Child : line[c[1]] = <<>> \/ c[2] > Len(line[c[1]]) => state[c] = "none"
    BY DEF Future
  <2>2. \A c \in Child : line'[c[1]] = <<>> \/ c[2] > Len(line'[c[1]]) => state'[c] = "none"
    BY <1>0, <2>1 DEF Child, ReadLine
  <2>3. line'[cur'] = cmds /\ cur' = cur + 1 /\ idx' = 1
    BY <1>0 DEF ReadLine, TypeOK
  <2> QED
    BY <1>0, <1>2, <2>2, <2>3 DEF Future, cmdcnt
<1>4. \A q \in Proc : \A e \in table[q] : e[1] \in 1..Lines /\ e[1] # cur + 1
  BY <1>0 DEF HeldEnds, TypeOK, End
<1>5. HeldEnds'
  BY <1>0, <1>4 DEF HeldEnds, ReadLine, files
<1>6. ShellTable' /\ ChildTable'
  <2>1. Shell \in Proc /\ Child \subseteq Proc
    BY DEF Proc
  <2> QED
    BY <1>0, <1>4, <2>1 DEF ShellTable, ChildTable, Leaks, ReadLine, files
<1>7. Standard'
  BY DEF Standard, ReadLine, files
<1> QED
  BY <1>1, <1>3, <1>5, <1>6, <1>7

LEMMA ShellSteps ==
    ASSUME PipeInv, MakePipes \/ Die \/ EvalBuiltin \/ CloseEnds \/ WaitLast
    PROVE  PipeInv'
<1> USE DEF PipeInv
<1>1. UNCHANGED <<cur, line, state, stdin, stdout, data, item>>
  BY DEF MakePipes, Die, EvalBuiltin, CloseEnds, WaitLast, files, flow
<1>2. Standard'
  BY <1>1 DEF Standard
<1>3. \A q \in Proc : q # Shell => table'[q] = table[q]
  BY DEF MakePipes, Die, EvalBuiltin, CloseEnds, WaitLast, files, TypeOK
<1>4. Shell \in Proc /\ (\A c \in Child : c \in Proc /\ c # Shell)
  BY Apart DEF Proc
<1>5. ChildTable'
  BY <1>1, <1>3, <1>4 DEF ChildTable, Leaks
<1>6. CASE MakePipes
  <2>1. cur \in 1..Lines /\ table' = [table EXCEPT ![Shell] = @ \cup Ends(cur)] /\ pc' = "eval"
    BY <1>6 DEF MakePipes, Future
  <2>2. TypeOK'
    BY <1>6, <2>1, <1>4, Apart DEF MakePipes, TypeOK, flow
  <2>3. Future'
    BY <1>6 DEF MakePipes, Future, cmdcnt
  <2>4. HeldEnds'
    BY <1>1, <1>3, <1>4, <2>1 DEF HeldEnds, Ends, TypeOK
  <2>5. ShellTable'
    BY <1>1, <1>4, <1>6, <2>1 DEF ShellTable, Ends, TypeOK, Leaks, MakePipes
  <2> QED
    BY <1>2, <1>5, <2>2, <2>3, <2>4, <2>5
<1>7. CASE Die
  <2>1. table' = [table EXCEPT ![Shell] = {}] /\ pc' = "dead"
    BY <1>7 DEF Die
  <2>2. TypeOK' /\ Future'
    BY <1>7, <1>4 DEF Die, TypeOK, Future, flow, cmdcnt
  <2>3. HeldEnds' /\ ShellTable'
    BY <1>1, <1>3, <1>4, <2>1 DEF HeldEnds, ShellTable, TypeOK
  <2> QED
    BY <1>2, <1>5, <2>2, <2>3
<1>8. CASE EvalBuiltin
  <2>1. /\ pc = "eval" /\ cur \in 1..Lines /\ line[cur][idx] = "builtin" /\ line[cur] # <<>>
        /\ cmdcnt \in 1..MaxStages /\ idx \in 1..cmdcnt /\ UNCHANGED table
    BY <1>8, LineIsSeq DEF EvalBuiltin, Evaluates, Future, cmdcnt, files, TypeOK
  <2>2. TypeOK'
    <3>1. pc' \in {"prompt", "eval"} /\ idx' \in 1..MaxStages
      BY <1>8, <2>1, ConstantsOK DEF EvalBuiltin
    <3> QED
      BY <1>8, <1>1, <2>1, <3>1 DEF EvalBuiltin, TypeOK
  <2>3. Future'
    BY <1>8, <2>1 DEF EvalBuiltin, Future, cmdcnt
  <2>4. HeldEnds'
    BY <1>1, <2>1 DEF HeldEnds
  <2>5. pc' = "prompt" => Leaks(cur)
    BY <1>8, <2>1 DEF EvalBuiltin, Leaks, cmdcnt
  <2>6. ShellTable'
    BY <1>8, <1>1, <2>1, <2>5 DEF ShellTable, EvalBuiltin, Leaks
  <2> QED
    BY <1>2, <1>5, <2>2, <2>3, <2>4, <2>6
<1>9. CASE CloseEnds
  <2>1. /\ cur \in 1..Lines /\ table' = [table EXCEPT ![Shell] = @ \ Ends(cur)]
        /\ pc' \in {"prompt", "wait"}
    BY <1>9 DEF CloseEnds, Future
  <2>2. TypeOK'
    BY <1>9, <2>1, <1>4 DEF CloseEnds, TypeOK, flow
  <2>3. Future'
    BY <1>9 DEF CloseEnds, Future, cmdcnt
  <2>4. HeldEnds'
    BY <1>1, <1>3, <1>4, <2>1 DEF HeldEnds, TypeOK
  <2>5. \A e \in table[Shell] : e \in Ends(e[1])
    BY <1>4 DEF HeldEnds, Ends, TypeOK
  <2>6. ShellTable'
    BY <1>1, <1>4, <2>1, <2>5 DEF ShellTable, TypeOK, Leaks
  <2> QED
    BY <1>2, <1>5, <2>2, <2>3, <2>4, <2>6
<1>10. CASE WaitLast
  BY <1>10, <1>2, <1>5 DEF WaitLast, TypeOK, Future, HeldEnds, ShellTable, Leaks, files, flow, cmdcnt
<1> QED
  BY <1>6, <1>7, <1>8, <1>9, <1>10

LEMMA ForkStep ==
    ASSUME PipeInv, Fork
    PROVE  PipeInv'
<1> USE DEF PipeInv
<1> DEFINE c == <<cur, idx>>
<1>1. /\ pc = "eval" /\ cur \in 1..Lines /\ cmdcnt \in 1..MaxStages /\ idx \in 1..cmdcnt
      /\ c \in Child /\ line[cur] # <<>>
  BY LineIsSeq DEF Fork, Evaluates, Future, cmdcnt, TypeOK, Child
<1>2. /\ state' = [state EXCEPT ![c] = "forked"] /\ table' = [table EXCEPT ![c] = table[Shell]]
      /\ UNCHANGED <<cur, line, bg, stdin, stdout, data, item>>
      /\ pc' \in {"eval", "close"}
  BY DEF Fork, flow
<1>3. Shell \in Proc /\ Shell # c /\ (\A d \in Child : d \in Proc)
  BY <1>1, Apart DEF Proc
<1>4. TypeOK'
  <2>1. idx' \in 1..MaxStages
    BY <1>1, ConstantsOK DEF Fork
  <2>2. state' \in [Child -> {"none", "forked", "duped", "running", "ended"}]
    BY <1>1, <1>2 DEF TypeOK
  <2>3. table' \in [Proc -> SUBSET End]
    BY <1>2, <1>3 DEF TypeOK
  <2> QED
    BY <1>2, <2>1, <2>2, <2>3 DEF TypeOK
<1>5. Future'
  <2>1. ~(line[c[1]] = <<>> \/ c[2] > Len(line[c[1]]))
    BY <1>1 DEF cmdcnt
  <2> QED
    BY <1>1, <1>2, <2>1 DEF Future, Fork, cmdcnt, TypeOK
<1>6. HeldEnds'
  BY <1>1, <1>2, <1>3 DEF HeldEnds, TypeOK
<1>7. ShellTable'
  BY <1>1, <1>2, <1>3 DEF ShellTable, TypeOK, Leaks
<1>8. ChildTable'
  <2>1. \A e \in table[Shell] : Leaks(e[1]) \/ e[1] = c[1]
    BY DEF ShellTable
  <2> QED
    BY <1>1, <1>2, <1>3, <2>1 DEF ChildTable, TypeOK, Leaks
<1>9. Standard'
  BY <1>2 DEF Standard
<1> QED
  BY <1>4, <1>5, <1>6, <1>7, <1>8, <1>9

-----------------------------------------------------------------------------
\* The steps of a child.

LEMMA SetUpSteps ==
    ASSUME PipeInv, NEW c \in Child, Dup2(c) \/ CloseInherited(c)
    PROVE  PipeInv'
<1> USE DEF PipeInv
<1>1. UNCHANGED <<pc, cur, line, idx, bg, data, item>> /\ state[c] \in {"forked", "duped"}
  BY DEF Dup2, CloseInherited, shell, flow
<1>2. c \in Proc /\ c # Shell /\ Shell \in Proc /\ (\A d \in Child : d \in Proc)
  BY Apart DEF Proc
<1>3. /\ c[1] \in 1..Lines /\ c[2] \in 1..MaxStages /\ c[2] \in 1..Len(line[c[1]])
      /\ Len(line[c[1]]) \in 0..MaxStages
  <2>1. c[1] \in 1..Lines /\ c[2] \in 1..MaxStages
    BY DEF Child
  <2>2. ~(line[c[1]] = <<>> \/ c[2] > Len(line[c[1]]))
    BY <1>1 DEF Future
  <2> QED
    BY <2>1, <2>2, LineIsSeq, ConstantsOK
<1>4. CASE Dup2(c)
  <2> DEFINE in  == IF c[2] > 1 THEN <<c[1], c[2] - 1, "r">> ELSE Tty
             out == IF c[2] < Len(line[c[1]]) THEN <<c[1], c[2], "w">> ELSE Tty
  <2>1. /\ stdin' = [stdin EXCEPT ![c] = in] /\ stdout' = [stdout EXCEPT ![c] = out]
        /\ state' = [state EXCEPT ![c] = "duped"] /\ UNCHANGED table
    BY <1>4 DEF Dup2
  <2>2. in \in End \cup {Tty} /\ out \in End \cup {Tty}
    BY <1>3, ConstantsOK DEF End
  <2>3. in \in {Tty, <<c[1], c[2] - 1, "r">>} /\ out \in {Tty, <<c[1], c[2], "w">>}
    OBVIOUS
  <2> HIDE DEF in, out
  <2>4. TypeOK'
    BY <1>1, <2>1, <2>2 DEF TypeOK
  <2>5. Future'
    BY <1>1, <2>1 DEF Future, cmdcnt, TypeOK
  <2>6. HeldEnds' /\ ShellTable' /\ ChildTable'
    BY <1>1, <2>1 DEF HeldEnds, ShellTable, ChildTable, Leaks, TypeOK
  <2>7. Standard'
    BY <2>1, <2>3 DEF Standard, TypeOK
  <2> QED
    BY <2>4, <2>5, <2>6, <2>7
<1>5. CASE CloseInherited(c)
  <2>1. /\ table' = [table EXCEPT ![c] = @ \ Ends(c[1])] /\ UNCHANGED <<stdin, stdout>>
        /\ state' = [state EXCEPT ![c] = "running"]
    BY <1>5 DEF CloseInherited
  <2>2. TypeOK'
    BY <1>1, <1>2, <2>1 DEF TypeOK
  <2>3. Future'
    BY <1>1, <2>1 DEF Future, cmdcnt, TypeOK
  <2>4. \A q \in Proc : table'[q] \subseteq table[q]
    BY <2>1 DEF TypeOK
  <2>5. HeldEnds' /\ ShellTable'
    BY <1>1, <1>2, <2>4 DEF HeldEnds, ShellTable, Leaks
  <2>6. ChildTable'
    <3>1. \A e \in table[c] : e[1] = c[1] => e \in Ends(c[1])
      BY <1>2 DEF HeldEnds, Ends, TypeOK
    <3>2. \A e \in table'[c] : Leaks(e[1])
      BY <1>2, <2>1, <3>1 DEF ChildTable, TypeOK
    <3> QED
      BY <1>1, <2>1, <2>4, <1>2, <3>2 DEF ChildTable, Leaks, TypeOK
  <2>7. Standard'
    BY <2>1 DEF Standard
  <2> QED
    BY <2>2, <2>3, <2>5, <2>6, <2>7
<1> QED
  BY <1>4, <1>5

LEMMA FlowSteps ==
    ASSUME PipeInv, NEW c \in Child, Read(c) \/ Write(c)
    PROVE  PipeInv'
<1> USE DEF PipeInv
<1>1. UNCHANGED <<pc, cur, line, idx, bg, state, table, stdin, stdout>>
  BY DEF Read, Write, shell, files
<1>2. \A e \in End : Pipe(e) \in Child
  BY DEF End, Pipe, Child
<1>3. item' \in [Child -> BOOLEAN]
  BY DEF Read, Write, TypeOK
<1>4. data' \in [Child -> 0..Cap]
  <2>1. data \in [Child -> 0..Cap] /\ stdin[c] \in End \cup {Tty} /\ stdout[c] \in End \cup {Tty}
    BY DEF TypeOK
  <2>2. CASE data' = data
    BY <2>1, <2>2
  <2>3. CASE /\ stdin[c] # Tty /\ data[Pipe(stdin[c])] > 0
             /\ data' = [data EXCEPT ![Pipe(stdin[c])] = @ - 1]
    BY <1>2, <2>1, <2>3, ConstantsOK
  <2>4. CASE /\ stdout[c] # Tty /\ data[Pipe(stdout[c])] < Cap
             /\ data' = [data EXCEPT ![Pipe(stdout[c])] = @ + 1]
    BY <1>2, <2>1, <2>4, ConstantsOK
  <2> QED
    BY <2>2, <2>3, <2>4 DEF Read, Write
<1>5. TypeOK'
  BY <1>1, <1>3, <1>4 DEF TypeOK
<1> QED
  BY <1>1, <1>5 DEF Future, HeldEnds, ShellTable, ChildTable, Standard, Leaks, cmdcnt

LEMMA EndStep ==
    ASSUME PipeInv, NEW c \in Child, Runs(c), Ended(c)
    PROVE  PipeInv'
<1> USE DEF PipeInv
<1>1. UNCHANGED <<pc, cur, line, idx, bg, data>>
  BY DEF Ended, shell
<1>2. /\ state' = [state EXCEPT ![c] = "ended"] /\ table' = [table EXCEPT ![c] = {}]
      /\ stdin' = [stdin EXCEPT ![c] = Tty] /\ stdout' = [stdout EXCEPT ![c] = Tty]
      /\ item' = [item EXCEPT ![c] = FALSE] /\ state[c] = "running"
  BY DEF Ended, Runs
<1>3. c \in Proc /\ c # Shell /\ Shell \in Proc /\ (\A d \in Child : d \in Proc)
  BY Apart DEF Proc
<1>4. TypeOK'
  <2>1. item' \in [Child -> BOOLEAN]
    BY <1>2 DEF TypeOK
  <2> QED
    BY <1>1, <1>2, <1>3, <2>1 DEF TypeOK
<1>5. Future'
  BY <1>1, <1>2 DEF Future, cmdcnt, TypeOK
<1>6. \A q \in Proc : table'[q] \subseteq table[q]
  BY <1>2 DEF TypeOK
<1>7. HeldEnds' /\ ShellTable'
  BY <1>1, <1>3, <1>6 DEF HeldEnds, ShellTable, Leaks
<1>8. ChildTable'
  BY <1>1, <1>2, <1>3 DEF ChildTable, Leaks, TypeOK
<1>9. Standard'
  BY <1>2 DEF Standard, TypeOK
<1> QED
  BY <1>4, <1>5, <1>7, <1>8, <1>9

LEMMA PipeStep == PipeInv /\ [Next]_vars => PipeInv'
<1> SUFFICES ASSUME PipeInv, [Next]_vars PROVE PipeInv'
  OBVIOUS
<1>1. CASE ShellStep
  BY <1>1, ShellSteps, ForkStep DEF ShellStep, PipeError
<1>2. CASE User
  BY <1>2, ShellSteps, ReadStep DEF User, Exit
<1>3. ASSUME NEW c \in Child, ChildStep(c) \/ Quit(c) PROVE PipeInv'
  BY <1>3, SetUpSteps, FlowSteps, EndStep DEF ChildStep, Quit, SeeEnd, TakeSigpipe, Runs
<1>4. CASE UNCHANGED vars
  BY <1>4 DEF vars, shell, files, flow, PipeInv, TypeOK, Future, HeldEnds, ShellTable,
              ChildTable, Standard, Leaks, cmdcnt
<1> QED
  BY <1>1, <1>2, <1>3, <1>4 DEF Next, Idle

LEMMA Belonging == PipeInv => EndsBelong
<1> SUFFICES ASSUME PipeInv, NEW l \in 1..Lines, ~Leaks(l), NEW e \in Ends(l), NEW q \in Proc,
                    Holds(q, e)
             PROVE  \/ q = <<l, IF e[3] = "w" THEN e[2] ELSE e[2] + 1>>
                    \/ SettingUp(q, l)
  BY DEF EndsBelong
<1> USE DEF PipeInv
<1>1. e \in End /\ e # Tty /\ e[1] = l
  BY Apart DEF Ends
<1>2. CASE q = Shell
  BY <1>1, <1>2 DEF Holds, ShellTable, SettingUp
<1>3. CASE q \in Child
  <2>1. CASE e \in table[q]
    BY <1>1, <1>3, <2>1, Apart DEF ChildTable, SettingUp
  <2>2. CASE e = stdin[q]
    <3>1. e = <<q[1], q[2] - 1, "r">>
      BY <1>1, <1>3, <2>2 DEF Standard
    <3>2. q = <<q[1], q[2]>> /\ q[2] \in Int
      BY <1>3, ConstantsOK DEF Child
    <3> QED
      BY <1>1, <3>1, <3>2
  <2>3. CASE e = stdout[q]
    <3>1. e = <<q[1], q[2], "w">>
      BY <1>1, <1>3, <2>3 DEF Standard
    <3>2. q = <<q[1], q[2]>>
      BY <1>3 DEF Child
    <3> QED
      BY <1>1, <3>1, <3>2
  <2> QED
    BY <2>1, <2>2, <2>3 DEF Holds
<1> QED
  BY <1>2, <1>3 DEF Proc

\* Types: among others, no pipe ever holds more than it can.
THEOREM TypeCorrect == Spec => []TypeOK
<1>1. Spec => []PipeInv
  BY PipeInit, PipeStep, PTL DEF Spec
<1>2. PipeInv => TypeOK
  BY DEF PipeInv
<1> QED
  BY <1>1, <1>2, PTL

\* Whatever lines are given, and however the shell, the set-up of the children
\* and the programs interleave, the ends of a pipe are with the commands on its
\* two sides only, once the line is set up (myshell.c:196-201, 239-244).
THEOREM EndsAreWhereTheyBelong == Spec => []EndsBelong
<1>1. Spec => []PipeInv
  BY PipeInit, PipeStep, PTL DEF Spec
<1> QED
  BY <1>1, Belonging, PTL
=============================================================================

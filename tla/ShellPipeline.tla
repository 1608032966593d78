--------------------------- MODULE ShellPipeline ---------------------------
(***************************************************************************)
(* The pipes of Lab 2/src/myshell.c: main makes the pipes of a line and    *)
(* calls eval for each command; eval forks a child, which puts the ends it *)
(* needs on its standard input and output and closes the rest, and closes  *)
(* the shell's own ends after the last command.                            *)
(*                                                                         *)
(* A pipe is an object of the kernel.  A reader sees its end only when no  *)
(* process holds a write end, a writer is stopped by SIGPIPE only when no  *)
(* process holds a read end, and every fork hands all the shell's ends to  *)
(* one more process.  Each child is a process of its own, interleaved with *)
(* the shell and the others.  The wait for the last command, its job and   *)
(* the signals are those of ShellJobs: here the wait is over when the last *)
(* command is.                                                             *)
(***************************************************************************)
EXTENDS Integers, Sequences, FiniteSets, Functions

CONSTANTS
    Lines,      \* bound: command lines
    MaxStages,  \* bound: commands of a line, at most MAX_PIPE
    MaxCommands,\* bound: commands of all lines together
    Cap,        \* bytes a pipe takes before its writer has to wait
    MaxEnds     \* descriptors the shell may have open besides the standard ones

ASSUME ConstantsOK ==
    /\ Lines \in Nat /\ MaxStages \in Nat \ {0} /\ MaxCommands \in Nat
    /\ Cap \in Nat \ {0} /\ MaxEnds \in Nat

Child == (1..Lines) \X (1..MaxStages)       \* <<line, stage>>
Shell == <<0, 0>>
Proc  == Child \cup {Shell}
Tty   == <<0, 0, "tty">>                   \* the terminal, never closed
End   == (1..Lines) \X (1..MaxStages) \X {"r", "w"}     \* of pipe fd[i-1] of a line

VARIABLES
    pc,         \* where the shell is; "dead" when it has ended
    cur,        \* number of the current line
    line,       \* the commands of each line: programs and builtins
    idx,        \* cmdidx
    bg,
    state,      \* of each child
    table,      \* the pipe ends each process has open, but for its
    stdin, stdout,
    data,       \* bytes in each pipe
    item        \* the program has a byte to write

shell == <<pc, cur, line, idx, bg>>
files == <<table, stdin, stdout>>
flow  == <<data, item>>
vars  == <<shell, state, files, flow>>

cmdcnt == Len(line[cur])
Ends(l) == {e \in End : e[1] = l /\ e[2] < Len(line[l])}
Pipe(e)  == <<e[1], e[2]>>
Other(e) == <<e[1], e[2], IF e[3] = "r" THEN "w" ELSE "r">>
Holds(q, e) == e \in table[q] \/ (q # Shell /\ e \in {stdin[q], stdout[q]})
Held(e) == \E q \in Proc : Holds(q, e)

Init ==
    /\ pc = "prompt" /\ cur = 0 /\ idx = 1 /\ bg = FALSE
    /\ line = [l \in 1..Lines |-> <<>>]
    /\ state = [c \in Child |-> "none"]
    /\ table = [q \in Proc |-> {}]
    /\ stdin = [c \in Child |-> Tty] /\ stdout = [c \in Child |-> Tty]
    /\ data = [p \in Child |-> 0] /\ item = [c \in Child |-> FALSE]

-----------------------------------------------------------------------------
\* The shell.

\* fgets and parse_pipe.  A line of more than MAX_PIPE commands is written
\* past the end of cmdpipe[] before main looks at its length, and is left out.
Commands == UNION {[1..n -> {"program", "builtin"}] : n \in 1..MaxStages}

CommandsRead == FoldFunction(LAMBDA cmds, total : Len(cmds) + total, 0, line)

ReadLine(cmds, b) ==
    /\ pc = "prompt" /\ cur < Lines
    /\ Len(cmds) <= MaxCommands - CommandsRead
    /\ cur' = cur + 1 /\ line' = [line EXCEPT ![cur + 1] = cmds]
    /\ idx' = 1 /\ bg' = b /\ pc' = "pipe"
    /\ UNCHANGED <<state, files, flow>>

MakePipes ==
    /\ pc = "pipe" /\ Cardinality(table[Shell] \cup Ends(cur)) <= MaxEnds
    /\ table' = [table EXCEPT ![Shell] = @ \cup Ends(cur)]
    /\ pc' = "eval"
    /\ UNCHANGED <<cur, line, idx, bg, state, stdin, stdout, flow>>

Die ==
    /\ pc' = "dead" /\ table' = [table EXCEPT ![Shell] = {}]
    /\ UNCHANGED <<cur, line, idx, bg, state, stdin, stdout, flow>>

PipeError == pc = "pipe" /\ Cardinality(table[Shell] \cup Ends(cur)) > MaxEnds /\ Die

Evaluates(kind) == pc = "eval" /\ line[cur][idx] = kind

\* A builtin, or an empty command, runs in the shell and eval returns.
EvalBuiltin ==
    /\ Evaluates("builtin")
    /\ pc' = IF idx = cmdcnt THEN "prompt" ELSE "eval"
    /\ idx' = IF idx = cmdcnt THEN idx ELSE idx + 1
    /\ UNCHANGED <<cur, line, bg, state, files, flow>>

\* The builtin is exit, or the prompt meets the end of its input.
Exit == (Evaluates("builtin") \/ pc = "prompt") /\ Die

Fork ==
    LET c == <<cur, idx>> IN
    /\ Evaluates("program")
    /\ state' = [state EXCEPT ![c] = "forked"]
    /\ table' = [table EXCEPT ![c] = table[Shell]]
    /\ pc' = IF idx = cmdcnt THEN "close" ELSE "eval"
    /\ idx' = IF idx = cmdcnt THEN idx ELSE idx + 1
    /\ UNCHANGED <<cur, line, bg, stdin, stdout, flow>>

CloseEnds_OffByOne ==       \* mutant: i < cmdcnt - 2
    /\ pc = "close"
    /\ table' = [table EXCEPT ![Shell] = @ \ {e \in Ends(cur) : e[2] < cmdcnt - 1}]
    /\ pc' = IF bg THEN "prompt" ELSE "wait"
    /\ UNCHANGED <<cur, line, idx, bg, state, stdin, stdout, flow>>

CloseEnds ==                \* and addjob
    /\ pc = "close"
    /\ table' = [table EXCEPT ![Shell] = @ \ Ends(cur)]
    /\ pc' = IF bg THEN "prompt" ELSE "wait"
    /\ UNCHANGED <<cur, line, idx, bg, state, stdin, stdout, flow>>

WaitLast ==                 \* sigsuspend until the handler has reaped last_pid
    /\ pc = "wait" /\ state[<<cur, cmdcnt>>] = "ended"
    /\ pc' = "prompt"
    /\ UNCHANGED <<cur, line, idx, bg, state, files, flow>>

-----------------------------------------------------------------------------
\* A child between fork and exec.

Dup2(c) ==
    LET l == c[1]
        n == Len(line[l])
    IN
    /\ state[c] = "forked"
    /\ stdin' = [stdin EXCEPT ![c] = IF c[2] > 1 THEN <<l, c[2] - 1, "r">> ELSE Tty]
    /\ stdout' = [stdout EXCEPT ![c] = IF c[2] < n THEN <<l, c[2], "w">> ELSE Tty]
    /\ state' = [state EXCEPT ![c] = "duped"]
    /\ UNCHANGED <<shell, table, flow>>

CloseInherited_Own(c) ==    \* mutant: only the ends of the child's own pipes
    /\ state[c] = "duped"
    /\ table' = [table EXCEPT ![c] = @ \ {e \in Ends(c[1]) : e[2] \in {c[2] - 1, c[2]}}]
    /\ state' = [state EXCEPT ![c] = "running"]
    /\ UNCHANGED <<shell, stdin, stdout, flow>>

CloseInherited_Writes(c) == \* mutant: close(fd[i][0]) missing
    /\ state[c] = "duped"
    /\ table' = [table EXCEPT ![c] = @ \ {e \in Ends(c[1]) : e[3] = "w"}]
    /\ state' = [state EXCEPT ![c] = "running"]
    /\ UNCHANGED <<shell, stdin, stdout, flow>>

\* What the shell had left open of earlier lines stays open, through exec.
CloseInherited(c) ==
    /\ state[c] = "duped"
    /\ table' = [table EXCEPT ![c] = @ \ Ends(c[1])]
    /\ state' = [state EXCEPT ![c] = "running"]
    /\ UNCHANGED <<shell, stdin, stdout, flow>>

-----------------------------------------------------------------------------
\* The programs.  A program with the terminal for input makes bytes, any
\* other copies its input to its output, byte by byte, up to the end.

Runs(c) == state[c] = "running"

Ended(c) ==
    /\ state' = [state EXCEPT ![c] = "ended"]
    /\ table' = [table EXCEPT ![c] = {}]
    /\ stdin' = [stdin EXCEPT ![c] = Tty] /\ stdout' = [stdout EXCEPT ![c] = Tty]
    /\ item' = [item EXCEPT ![c] = FALSE]
    /\ UNCHANGED <<shell, data>>

Read(c) ==
    /\ Runs(c) /\ ~item[c]
    /\ \/ stdin[c] = Tty /\ UNCHANGED data
       \/ /\ stdin[c] # Tty /\ data[Pipe(stdin[c])] > 0
          /\ data' = [data EXCEPT ![Pipe(stdin[c])] = @ - 1]
    /\ item' = [item EXCEPT ![c] = TRUE]
    /\ UNCHANGED <<shell, state, files>>

SeeEnd(c) ==
    /\ Runs(c) /\ ~item[c]
    /\ stdin[c] # Tty /\ data[Pipe(stdin[c])] = 0 /\ ~Held(Other(stdin[c]))
    /\ Ended(c)

Write(c) ==
    /\ Runs(c) /\ item[c]
    /\ \/ stdout[c] = Tty /\ UNCHANGED data
       \/ /\ stdout[c] # Tty /\ data[Pipe(stdout[c])] < Cap /\ Held(Other(stdout[c]))
          /\ data' = [data EXCEPT ![Pipe(stdout[c])] = @ + 1]
    /\ item' = [item EXCEPT ![c] = FALSE]
    /\ UNCHANGED <<shell, state, files>>

TakeSigpipe(c) ==
    /\ Runs(c) /\ item[c]
    /\ stdout[c] # Tty /\ ~Held(Other(stdout[c]))
    /\ Ended(c)

Quit(c) == Runs(c) /\ Ended(c)      \* it has done enough, or execvp failed

-----------------------------------------------------------------------------
ShellStep == MakePipes \/ PipeError \/ EvalBuiltin \/ Fork \/ CloseEnds \/ WaitLast

ChildStep(c) == \/ Dup2(c) \/ CloseInherited(c)
                \/ Read(c) \/ SeeEnd(c) \/ Write(c) \/ TakeSigpipe(c)

User == Exit \/ \E cmds \in Commands, b \in BOOLEAN : ReadLine(cmds, b)

Idle == pc \in {"prompt", "dead"} /\ UNCHANGED vars

Next == ShellStep \/ User \/ (\E c \in Child : ChildStep(c) \/ Quit(c)) \/ Idle

Spec == Init /\ [][Next]_vars

\* Every process runs whenever it can, and programs go on reading and writing.
FairSpec == Spec /\ WF_vars(ShellStep) /\ \A c \in Child : WF_vars(ChildStep(c))

-----------------------------------------------------------------------------
TypeOK ==
    /\ pc \in {"prompt", "pipe", "eval", "close", "wait", "dead"}
    /\ cur \in 0..Lines /\ line \in [1..Lines -> Commands \cup {<<>>}]
    /\ idx \in 1..MaxStages /\ bg \in BOOLEAN
    /\ state \in [Child -> {"none", "forked", "duped", "running", "ended"}]
    /\ table \in [Proc -> SUBSET End]
    /\ stdin \in [Child -> End \cup {Tty}] /\ stdout \in [Child -> End \cup {Tty}]
    /\ data \in [Child -> 0..Cap] /\ item \in [Child -> BOOLEAN]

\* eval closes the shell's ends only for a program: when the last command is a
\* builtin or empty they stay open for good.
Leaks(l) == line[l] # <<>> /\ line[l][Len(line[l])] = "builtin"

\* The shell while it forks the line, a child before its exec.
SettingUp(q, l) ==
    IF q = Shell THEN cur = l /\ pc \in {"eval", "close"}
    ELSE q[1] = l /\ state[q] \in {"forked", "duped"}

\* The ends of a pipe are with the commands on its two sides and with nobody
\* else: not with the shell once it has the prompt back or waits, not with
\* another command of the line, not with any command of another line, however
\* the children's set-up, the shell and a pipeline in the background
\* interleave (myshell.c:196-201, 239-244).
EndsBelong ==
    \A l \in 1..Lines : ~Leaks(l) =>
        \A e \in Ends(l), q \in Proc : Holds(q, e) =>
            \/ q = <<l, IF e[3] = "w" THEN e[2] ELSE e[2] + 1>>
            \/ SettingUp(q, l)

Over(l, i) == state[<<l, i>>] = "ended" \/ line[l][i] = "builtin"

\* Once one command of a line is over the whole line comes to its end: those
\* after it meet the end of their input, those before it the broken pipe, one
\* after the other, whatever ends of the line the shell and other commands
\* held when they were forked.  (A builtin that is exit leaves the commands
\* after it unforked.)
LineEnds ==
    \A l \in 1..Lines :
        (~Leaks(l) /\ \E i \in 1..Len(line[l]) : Over(l, i))
            ~> \A i \in 1..Len(line[l]) :
                  Over(l, i) \/ (pc = "dead" /\ state[<<l, i>>] = "none")
=============================================================================

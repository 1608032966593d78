------------------------------ MODULE ShellJobs ------------------------------
(***************************************************************************)
(* Job control of Lab 2/src/myshell.c: the table jobs[], eval with its     *)
(* foreground wait, fg, bg and kill, and the SIGCHLD handler, which runs   *)
(* between any two steps of the shell at which the signal is not blocked.  *)
(*                                                                         *)
(* A step of the shell is the stretch between two points where SIGCHLD may *)
(* be delivered or a call may block.  SIGCHLD is one pending bit.  A child *)
(* may end, stop or go on at any moment: by itself, by ^C or ^Z, which     *)
(* reach every child because all share the shell's process group, or by a  *)
(* signal from another terminal.  SIGINT and SIGTSTP do nothing to a shell *)
(* that is not at its prompt.  Of a JOB the text of its command and the    *)
(* flag bg, which nothing reads, are left out; a pipeline's descriptors    *)
(* are too.                                                                *)
(***************************************************************************)
EXTENDS Integers, FiniteSets

CONSTANTS
    Pid,        \* process numbers; the kernel gives one out again once it is reaped
    None,       \* pid 0: a free slot
    MaxJobs,    \* MAX_JOBS
    MaxStages,  \* bound: commands of a pipeline
    Stops       \* bound: times a child is stopped

ASSUME ConstantsOK ==
    /\ IsFiniteSet(Pid) /\ None \notin Pid
    /\ MaxJobs \in Nat \ {0, 1} /\ MaxStages \in Nat \ {0} /\ Stops \in Nat

VARIABLES
    proc,           \* the shell: "running" or "dead"
    pc,             \* where its main program is
    reg,            \* the local variable pid of eval, fg_run, bg_wake, kill_job,
                    \* None once it is not used again
    bg,             \* eval's bg
    stages,         \* commands of the pipeline still to be forked before the last
    jobnum,         \* parse_job's, from its check of the slot to its return; 0: none
    blocked,        \* SIGCHLD is blocked by the main program
    pending,        \* SIGCHLD is pending
    handler,        \* "no", or where sigchld_handler is
    jobs, now,
    explicit_wait, last_pid,
    child,          \* per process: "none", "running", "stopped", "zombie"
    news,           \* it stopped or went on and no waitpid has reported that
    stops

local == <<bg, stages, jobnum>>
main  == <<pc, reg, local>>
table == <<jobs, now>>
wait  == <<explicit_wait, last_pid>>
kids  == <<child, news, stops>>
vars  == <<proc, main, blocked, pending, handler, table, wait, kids>>

Slot     == 0..MaxJobs-1
Children == {p \in Pid : child[p] # "none"}

Init ==
    /\ proc = "running" /\ pc = "prompt" /\ reg = None /\ bg = FALSE /\ stages = 0
    /\ jobnum = 0
    /\ blocked = FALSE /\ pending = FALSE /\ handler = "no"
    /\ jobs = [i \in Slot |-> [pid |-> None, state |-> "SUSPEND"]] /\ now = 0
    /\ explicit_wait = FALSE /\ last_pid = None
    /\ child = [p \in Pid |-> "none"] /\ news = [p \in Pid |-> FALSE] /\ stops = 0

-----------------------------------------------------------------------------
\* The children, external to the shell.  Each change of state sends SIGCHLD
\* and replaces a change that has not been reported.

Becomes(p, s, fresh) ==
    /\ child' = [child EXCEPT ![p] = s] /\ news' = [news EXCEPT ![p] = fresh]
    /\ pending' = TRUE

ChildEnds(p) ==
    /\ child[p] \in {"running", "stopped"}
    /\ Becomes(p, "zombie", FALSE)
    /\ UNCHANGED <<proc, main, blocked, handler, table, wait, stops>>

ChildStops(p) ==
    /\ child[p] = "running" /\ stops < Stops
    /\ Becomes(p, "stopped", TRUE) /\ stops' = stops + 1
    /\ UNCHANGED <<proc, main, blocked, handler, table, wait>>

ChildContinues(p) ==    \* by a signal from outside the shell
    /\ child[p] = "stopped"
    /\ Becomes(p, "running", TRUE)
    /\ UNCHANGED <<proc, main, blocked, handler, table, wait, stops>>

-----------------------------------------------------------------------------
\* The table.

\* jobs[] and now after addjob(p).  A full table ends the shell; when `now'
\* has reached a slot in use the job is left out.
addjob(p) ==
    LET free  == {i \in Slot \ {0} : jobs[i].pid = None}
        first == {i \in free : \A j \in free : i <= j}
        at    == IF now < MaxJobs THEN now
                 ELSE IF first = {} THEN MaxJobs ELSE CHOOSE i \in first : TRUE
    IN  IF at = MaxJobs THEN [full |-> TRUE, jobs |-> jobs, now |-> at]
        ELSE IF jobs[at].pid # None THEN [full |-> FALSE, jobs |-> jobs, now |-> at]
        ELSE [full |-> FALSE, now |-> at + 1,
              jobs |-> [jobs EXCEPT ![at] = [pid |-> p, state |-> "RUNNING"]]]

update(p, s) == [i \in Slot |-> IF jobs[i].pid = p THEN [jobs[i] EXCEPT !.state = s] ELSE jobs[i]]
delete(p)    == [i \in Slot |-> IF jobs[i].pid = p THEN [jobs[i] EXCEPT !.pid = None] ELSE jobs[i]]

\* The first slot of p, which find_jobnum returns; without one it runs off its
\* end and returns no slot at all.
find_jobnum(p) ==
    {i \in Slot \ {0} : jobs[i].pid = p /\ \A j \in 1..i-1 : jobs[j].pid # p}

-----------------------------------------------------------------------------
\* eval: a command of n stages.  SIGCHLD is blocked from the fork of the last
\* stage until its job is in the table and, in the foreground, until
\* sigsuspend.

Prompt == proc = "running" /\ handler = "no" /\ pc = "prompt"
Main(l) == proc = "running" /\ handler = "no" /\ pc = l

Run(n, b) ==
    /\ Prompt /\ Cardinality(Pid \ Children) >= n      \* bound: Pid
    /\ bg' = b /\ stages' = n - 1 /\ pc' = "fork"
    /\ UNCHANGED <<proc, reg, jobnum, blocked, pending, handler, table, wait, kids>>

\* The kernel's fork: a child under a number not in use.
Forked(p) ==
    /\ child[p] = "none"
    /\ child' = [child EXCEPT ![p] = "running"] /\ news' = [news EXCEPT ![p] = FALSE]
    /\ UNCHANGED stops

ForkStage(p) ==     \* a stage before the last, which no table knows
    /\ Main("fork") /\ stages > 0
    /\ Forked(p) /\ stages' = stages - 1
    /\ UNCHANGED <<proc, pc, reg, bg, jobnum, blocked, pending, handler, table, wait>>

Fork_Unmasked(p) == \* mutant: the last fork without Sigprocmask
    /\ Main("fork") /\ stages = 0
    /\ Forked(p) /\ reg' = p /\ pc' = "add"
    /\ UNCHANGED <<proc, local, blocked, pending, handler, table, wait>>

Fork(p) ==
    /\ Main("fork") /\ stages = 0
    /\ Forked(p) /\ reg' = p /\ pc' = "add" /\ blocked' = TRUE
    /\ UNCHANGED <<proc, local, pending, handler, table, wait>>

AddJob_NoFlag ==    \* mutant: explicit_wait is not set
    /\ Main("add") /\ reg' = None
    /\ LET t == addjob(reg) IN
       /\ jobs' = t.jobs /\ now' = t.now
       /\ \/ t.full /\ proc' = "dead" /\ UNCHANGED <<pc, blocked, last_pid>>
          \/ ~t.full /\ ~bg /\ last_pid' = reg /\ pc' = "suspend" /\ UNCHANGED <<proc, blocked>>
          \/ ~t.full /\ bg /\ blocked' = FALSE /\ pc' = "prompt" /\ UNCHANGED <<proc, last_pid>>
    /\ UNCHANGED <<local, pending, handler, explicit_wait, kids>>

AddJob ==
    /\ Main("add") /\ reg' = None
    /\ LET t == addjob(reg) IN
       /\ jobs' = t.jobs /\ now' = t.now
       /\ \/ t.full /\ proc' = "dead" /\ UNCHANGED <<pc, blocked, wait>>
          \/ ~t.full /\ ~bg /\ last_pid' = reg /\ explicit_wait' = TRUE /\ pc' = "suspend"
             /\ UNCHANGED <<proc, blocked>>
          \/ ~t.full /\ bg /\ blocked' = FALSE /\ pc' = "prompt" /\ UNCHANGED <<proc, wait>>
    /\ UNCHANGED <<local, pending, handler, kids>>

-----------------------------------------------------------------------------
\* kill, bg and fg of %n.  parse_job looks at jobs[n].pid and reads it again
\* to return it, and SIGCHLD may come between the two, when the handler makes
\* it 0, and again before it is used.

Builtin(n, l) ==    \* if (jobs[jobnum].pid == 0)
    /\ Prompt /\ jobs[n].pid # None
    /\ jobnum' = n /\ pc' = l
    /\ UNCHANGED <<proc, reg, bg, stages, blocked, pending, handler, table, wait, kids>>

KillJob(n) == Builtin(n, "kill")
BgWake(n)  == Builtin(n, "wake")
FgRun(n)   == Builtin(n, "fg")

Target ==           \* return jobs[jobnum].pid
    /\ \E l \in {"kill", "wake", "fg"} : Main(l)
    /\ jobnum # 0 /\ jobnum' = 0 /\ reg' = jobs[jobnum].pid
    /\ UNCHANGED <<proc, pc, bg, stages, blocked, pending, handler, table, wait, kids>>

\* Whom kill and waitpid mean: by 0 every child, as all are in the shell's
\* own process group, and kill also the shell.
Group(p) == IF p = None THEN Pid ELSE {p}

SendKill ==
    /\ Main("kill") /\ jobnum = 0 /\ pc' = "prompt" /\ reg' = None
    /\ \/ reg = None /\ proc' = "dead" /\ UNCHANGED <<pending, child, news>>
       \/ reg # None /\ child[reg] \in {"running", "stopped"}
             /\ Becomes(reg, "zombie", FALSE) /\ UNCHANGED proc
       \/ reg # None /\ child[reg] \in {"zombie", "none"} /\ UNCHANGED <<proc, pending, child, news>>
    /\ UNCHANGED <<local, blocked, handler, table, wait, stops>>

\* kill(pid, SIGCONT) and sleep(1), which any SIGCHLD cuts short.
SendCont ==
    /\ \/ Main("wake") /\ jobnum = 0 /\ pc' = "prompt" /\ reg' = None
       \/ Main("fgWake") /\ pc' = "arm" /\ reg' = reg
    /\ LET woken == {p \in Group(reg) : child[p] = "stopped"} IN
       /\ child' = [p \in Pid |-> IF p \in woken THEN "running" ELSE child[p]]
       /\ news' = [p \in Pid |-> p \in woken \/ news[p]]
       /\ pending' = (pending \/ woken # {})
    /\ UNCHANGED <<proc, local, blocked, handler, table, wait, stops>>

\* jobs[find_jobnum(pid)].state: of a job gone meanwhile it is any value.
FgBranch ==
    /\ Main("fg") /\ jobnum = 0
    /\ \/ \E i \in find_jobnum(reg) : pc' = IF jobs[i].state = "SUSPEND" THEN "fgWake" ELSE "arm"
       \/ find_jobnum(reg) = {} /\ pc' \in {"fgWake", "arm"}
    /\ UNCHANGED <<proc, reg, local, blocked, pending, handler, table, wait, kids>>

Arm ==              \* last_pid = pid; explicit_wait = 1; SIGCHLD is not blocked
    /\ Main("arm") /\ pc' = "armed" /\ reg' = None
    /\ last_pid' = reg /\ explicit_wait' = TRUE
    /\ UNCHANGED <<proc, local, blocked, pending, handler, table, kids>>

FgSuspend ==
    /\ Main("armed") /\ pc' = "suspend"
    /\ UNCHANGED <<proc, reg, local, blocked, pending, handler, table, wait, kids>>

Exit ==
    /\ Prompt /\ proc' = "dead"
    /\ UNCHANGED <<main, blocked, pending, handler, table, wait, kids>>

-----------------------------------------------------------------------------
\* sigchld_handler.  sigsuspend unblocks SIGCHLD while it waits; the handler
\* itself runs with SIGCHLD blocked.

Deliver ==
    /\ proc = "running" /\ handler = "no" /\ pending
    /\ pc = "suspend" \/ ~blocked
    /\ pending' = FALSE /\ handler' = IF explicit_wait THEN "wait" ELSE "loop"
    /\ UNCHANGED <<proc, main, blocked, table, wait, kids>>

Reaped(p) ==
    /\ child' = [child EXCEPT ![p] = "none"] /\ jobs' = delete(p) /\ UNCHANGED news

\* waitpid(last_pid, .., WUNTRACED) and what follows it; it blocks while no
\* child it waits for has ended or stopped, and fails, which ends the shell,
\* when there is none.
WaitForeground ==
    /\ proc = "running" /\ handler = "wait"
    /\ \/ /\ \A p \in Group(last_pid) : child[p] = "none"
          /\ proc' = "dead"
          /\ UNCHANGED <<handler, jobs, explicit_wait, child, news>>
       \/ \E p \in Group(last_pid) :
             /\ \/ child[p] = "zombie" /\ Reaped(p)
                \/ /\ child[p] = "stopped" /\ news[p]
                   /\ news' = [news EXCEPT ![p] = FALSE] /\ jobs' = update(p, "SUSPEND")
                   /\ UNCHANGED child
             /\ explicit_wait' = FALSE /\ handler' = "loop" /\ UNCHANGED proc
    /\ UNCHANGED <<main, blocked, pending, now, last_pid, stops>>

\* What waitpid(-1, .., WNOHANG | WCONTINUED) can report.
Reportable == {p \in Pid : child[p] = "zombie" \/ (child[p] = "running" /\ news[p])}

WaitAny_Silent(p) ==    \* mutant: no branch for WIFCONTINUED
    /\ proc = "running" /\ handler = "loop" /\ p \in Reportable
    /\ IF child[p] = "zombie" THEN Reaped(p)
       ELSE news' = [news EXCEPT ![p] = FALSE] /\ UNCHANGED <<child, jobs>>
    /\ UNCHANGED <<proc, main, blocked, pending, handler, now, wait, stops>>

WaitAny(p) ==
    /\ proc = "running" /\ handler = "loop" /\ p \in Reportable
    /\ \/ child[p] = "zombie" /\ Reaped(p)
       \/ /\ child[p] = "running"
          /\ news' = [news EXCEPT ![p] = FALSE] /\ jobs' = update(p, "RUNNING")
          /\ UNCHANGED child
    /\ UNCHANGED <<proc, main, blocked, pending, handler, now, wait, stops>>

HandlerEnd_Once ==  \* mutant: if for while, one waitpid per signal
    /\ proc = "running" /\ handler = "loop"
    /\ handler' = "no"
    /\ IF pc = "suspend" THEN pc' = "prompt" /\ blocked' = FALSE ELSE UNCHANGED <<pc, blocked>>
    /\ UNCHANGED <<proc, reg, local, pending, table, wait, kids>>

HandlerEnd_Blocks ==    \* mutant: no WNOHANG
    /\ proc = "running" /\ handler = "loop" /\ Children = {}
    /\ handler' = "no"
    /\ IF pc = "suspend" THEN pc' = "prompt" /\ blocked' = FALSE ELSE UNCHANGED <<pc, blocked>>
    /\ UNCHANGED <<proc, reg, local, pending, table, wait, kids>>

\* After the handler sigsuspend returns and the mask is as it was before.
HandlerEnd ==
    /\ proc = "running" /\ handler = "loop" /\ Reportable = {}
    /\ handler' = "no"
    /\ IF pc = "suspend" THEN pc' = "prompt" /\ blocked' = FALSE ELSE UNCHANGED <<pc, blocked>>
    /\ UNCHANGED <<proc, reg, local, pending, table, wait, kids>>

-----------------------------------------------------------------------------
Shell ==
    \/ \E p \in Pid : ForkStage(p) \/ Fork(p)
    \/ AddJob \/ Target \/ SendKill \/ SendCont \/ FgBranch \/ Arm \/ FgSuspend

Handler == Deliver \/ WaitForeground \/ (\E p \in Pid : WaitAny(p)) \/ HandlerEnd

User ==
    \/ \E n \in 1..MaxStages, b \in BOOLEAN : Run(n, b)
    \/ \E n \in Slot \ {0} : KillJob(n) \/ BgWake(n) \/ FgRun(n)
    \/ Exit

Kids == \E p \in Pid : ChildEnds(p) \/ ChildStops(p) \/ ChildContinues(p)

\* Nothing more can happen: the shell has ended, or fg has it wait for a
\* signal after its last child has been reaped.
Ended ==
    /\ proc = "dead" \/ (pc = "suspend" /\ handler = "no" /\ ~pending /\ Children = {})
    /\ UNCHANGED vars

Next == (proc = "running" /\ (Shell \/ Handler \/ User \/ Kids)) \/ Ended

Spec == Init /\ [][Next]_vars

\* The shell and its handler run whenever they can.
FairSpec == Spec /\ WF_vars(proc = "running" /\ (Shell \/ Handler))

-----------------------------------------------------------------------------
TypeOK ==
    /\ proc \in {"running", "dead"}
    /\ pc \in {"prompt", "fork", "add", "suspend", "kill", "wake", "fg", "fgWake", "arm", "armed"}
    /\ reg \in Pid \cup {None} /\ bg \in BOOLEAN /\ stages \in 0..MaxStages-1
    /\ jobnum \in Slot
    /\ blocked \in BOOLEAN /\ pending \in BOOLEAN /\ handler \in {"no", "wait", "loop"}
    /\ jobs \in [Slot -> [pid : Pid \cup {None}, state : {"SUSPEND", "RUNNING"}]]
    /\ now \in 0..MaxJobs
    /\ explicit_wait \in BOOLEAN /\ last_pid \in Pid \cup {None}
    /\ child \in [Pid -> {"none", "running", "stopped", "zombie"}]
    /\ news \in [Pid -> BOOLEAN] /\ stops \in 0..Stops

\* Every process in the table is a child that has not been reaped, in one
\* slot only: the handler never meets a job before addjob has entered it, and
\* %n never names a number the kernel may have given to another process.
JobTableSound ==
    /\ \A i \in Slot : jobs[i].pid # None => child[jobs[i].pid] # "none"
    /\ \A i, j \in Slot : jobs[i].pid = jobs[j].pid /\ jobs[i].pid # None => i = j

Quiet == proc = "running" /\ handler = "no" /\ ~pending

\* Once SIGCHLD has been handled no child is left a zombie and no ended job is
\* left in the table, although signals of several children merge into one.
AllReaped ==
    Quiet => \A p \in Pid : child[p] # "zombie"

\* A job that `jobs' shows as suspended when there is nothing left to handle
\* is stopped.
SuspendedIsStopped ==
    Quiet => \A i \in Slot : jobs[i].pid # None /\ jobs[i].state = "SUSPEND"
                                 => child[jobs[i].pid] = "stopped"

\* The sigsuspend of eval misses nothing: while it waits the handler is told
\* to look for the foreground child, that child has not been reaped by
\* anyone, and its end or stop is still to be signalled.
EvalWaitArmed ==
    (proc = "running" /\ pc = "suspend" /\ blocked /\ handler # "loop") =>
        /\ explicit_wait /\ child[last_pid] # "none"
        /\ (child[last_pid] = "zombie" \/ (child[last_pid] = "stopped" /\ news[last_pid]))
              => pending \/ handler = "wait"

-----------------------------------------------------------------------------
\* A foreground command that has ended gives the prompt back.
CommandReturns ==
    (pc = "suspend" /\ blocked /\ child[last_pid] = "zombie")
        ~> (pc = "prompt" \/ proc = "dead")

\* So does every job that fg has brought to the foreground, once it has ended
\* or been stopped (myshell.c:651: the handler deletes and reaps it).
ForegroundReturns ==
    (pc = "suspend" /\ last_pid # None /\ child[last_pid] \in {"zombie", "none"})
        ~> (pc = "prompt" \/ proc = "dead")
=============================================================================

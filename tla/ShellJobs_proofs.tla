-------------------------- MODULE ShellJobs_proofs --------------------------
(***************************************************************************)
(* Proofs about the shell's job control, for every number of processes,    *)
(* slots and pipeline stages.                                              *)
(***************************************************************************)
EXTENDS ShellJobs, TLAPS

\* What addjob returns: the table as it was, or with p in a slot that was free.
LEMMA AddjobResult ==
    ASSUME TypeOK, NEW p \in Pid
    PROVE  /\ addjob(p).full \in BOOLEAN /\ addjob(p).now \in 0..MaxJobs
           /\ addjob(p).full => addjob(p).jobs = jobs
           /\ \/ addjob(p).jobs = jobs
              \/ \E i \in Slot : /\ jobs[i].pid = None
                                 /\ addjob(p).jobs = [jobs EXCEPT ![i] = [pid |-> p, state |-> "RUNNING"]]
<1> DEFINE free  == {i \in Slot \ {0} : jobs[i].pid = None}
           first == {i \in free : \A j \in free : i <= j}
           at    == IF now < MaxJobs THEN now
                    ELSE IF first = {} THEN MaxJobs ELSE CHOOSE i \in first : TRUE
<1>1. at \in Slot \cup {MaxJobs}
  <2>1. CASE now < MaxJobs  BY <2>1, ConstantsOK DEF TypeOK, Slot
  <2>2. CASE ~(now < MaxJobs) /\ first # {}
    <3>1. (CHOOSE i \in first : TRUE) \in first  BY <2>2
    <3>2. QED  BY <2>2, <3>1
  <2>3. CASE ~(now < MaxJobs) /\ first = {}  BY <2>3
  <2>4. QED  BY <2>1, <2>2, <2>3
<1>2. addjob(p) =
        IF at = MaxJobs THEN [full |-> TRUE, jobs |-> jobs, now |-> at]
        ELSE IF jobs[at].pid # None THEN [full |-> FALSE, jobs |-> jobs, now |-> at]
        ELSE [full |-> FALSE, now |-> at + 1,
              jobs |-> [jobs EXCEPT ![at] = [pid |-> p, state |-> "RUNNING"]]]
  BY Zenon DEF addjob
<1> HIDE DEF at
<1>3. CASE at = MaxJobs  BY <1>2, <1>3, ConstantsOK
<1>4. CASE at # MaxJobs /\ jobs[at].pid # None  BY <1>1, <1>2, <1>4, ConstantsOK DEF Slot
<1>5. CASE at # MaxJobs /\ jobs[at].pid = None
  <2>1. at \in Slot  BY <1>1, <1>5
  <2>2. at + 1 \in 0..MaxJobs  BY <2>1, ConstantsOK DEF Slot
  <2>3. addjob(p) = [full |-> FALSE, now |-> at + 1,
                     jobs |-> [jobs EXCEPT ![at] = [pid |-> p, state |-> "RUNNING"]]]
    BY <1>2, <1>5
  <2>4. addjob(p).now = at + 1 /\ addjob(p).full = FALSE
        /\ addjob(p).jobs = [jobs EXCEPT ![at] = [pid |-> p, state |-> "RUNNING"]]
    BY <2>3
  <2>5. QED  BY <1>5, <2>1, <2>2, <2>4
<1>6. QED  BY <1>3, <1>4, <1>5

\* delete frees the slots of p and update sets their state; nothing else changes.
LEMMA Deleted ==
    ASSUME TypeOK, NEW p \in Pid
    PROVE  /\ delete(p) \in [Slot -> [pid : Pid \cup {None}, state : {"SUSPEND", "RUNNING"}]]
           /\ \A i \in Slot : /\ delete(p)[i].pid = IF jobs[i].pid = p THEN None ELSE jobs[i].pid
                              /\ delete(p)[i].state = jobs[i].state
BY DEF delete, TypeOK

LEMMA Updated ==
    ASSUME TypeOK, NEW p \in Pid, NEW s \in {"SUSPEND", "RUNNING"}
    PROVE  /\ update(p, s) \in [Slot -> [pid : Pid \cup {None}, state : {"SUSPEND", "RUNNING"}]]
           /\ \A i \in Slot : /\ update(p, s)[i].pid = jobs[i].pid
                              /\ update(p, s)[i].state = IF jobs[i].pid = p THEN s ELSE jobs[i].state
BY DEF update, TypeOK

-----------------------------------------------------------------------------
\* eval has a process to enter, and the handler waits for one only when told to.
RegistersHeld ==
    /\ proc = "running" /\ pc = "add" => reg \in Pid
    /\ handler = "wait" => explicit_wait

\* Between its fork and addjob a job is known to nobody else: SIGCHLD is
\* blocked, so its end waits for the handler.
NewJobHidden ==
    proc = "running" /\ pc = "add" =>
        /\ blocked /\ handler = "no"
        /\ reg \in Pid /\ child[reg] # "none" /\ \A i \in Slot : jobs[i].pid # reg
        /\ (child[reg] = "zombie" \/ (child[reg] = "stopped" /\ news[reg])) => pending

\* What is left to report is signalled or being handled.
NewsSignalled == (handler = "no" /\ ~pending) => Reportable = {}

\* A suspended job is stopped, or the handler will hear that it is not.
SuspendedTold ==
    \A i \in Slot : (jobs[i].pid # None /\ jobs[i].state = "SUSPEND") =>
        \/ child[jobs[i].pid] \in {"stopped", "zombie"}
        \/ child[jobs[i].pid] = "running" /\ news[jobs[i].pid]

\* EvalWaitArmed in any state of the shell's process, with the only places
\* where SIGCHLD is blocked.
WaitArmed ==
    /\ blocked => pc \in {"add", "suspend"}
    /\ (pc = "suspend" /\ blocked /\ handler # "loop") =>
          /\ explicit_wait /\ last_pid \in Pid /\ child[last_pid] # "none"
          /\ (child[last_pid] = "zombie" \/ (child[last_pid] = "stopped" /\ news[last_pid]))
                => pending \/ handler = "wait"

IInv ==
    /\ TypeOK /\ RegistersHeld /\ JobTableSound /\ NewJobHidden /\ NewsSignalled
    /\ SuspendedTold /\ WaitArmed

\* Every step of the shell, of its handler, of its user and of a child keeps
\* the invariant.
LEMMA Steps ==
    ASSUME IInv, [Next]_vars
    PROVE  IInv'
<1> USE ConstantsOK DEF IInv, TypeOK, Main, Prompt, main, local, table, wait, kids
<1>1. ASSUME NEW p \in Pid, ForkStage(p)
      PROVE  IInv'
  <2>1. TypeOK'  BY <1>1 DEF ForkStage, Forked
  <2>2. RegistersHeld'  BY <1>1 DEF ForkStage, Forked, RegistersHeld
  <2>3. JobTableSound'  BY <1>1 DEF ForkStage, Forked, JobTableSound
  <2>4. NewJobHidden'  BY <1>1 DEF ForkStage, Forked, NewJobHidden
  <2>5. NewsSignalled'  BY <1>1 DEF ForkStage, Forked, NewsSignalled, Reportable
  <2>6. SuspendedTold'  BY <1>1 DEF ForkStage, Forked, SuspendedTold, JobTableSound
  <2>7. WaitArmed'  BY <1>1 DEF ForkStage, Forked, WaitArmed
  <2> QED  BY <2>1, <2>2, <2>3, <2>4, <2>5, <2>6, <2>7
<1>2. ASSUME NEW p \in Pid, Fork(p)
      PROVE  IInv'
  <2>1. TypeOK'  BY <1>2 DEF Fork, Forked
  <2>2. RegistersHeld'  BY <1>2 DEF Fork, Forked, RegistersHeld
  <2>3. JobTableSound'  BY <1>2 DEF Fork, Forked, JobTableSound
  <2>4. NewJobHidden'  BY <1>2 DEF Fork, Forked, NewJobHidden, JobTableSound
  <2>5. NewsSignalled'  BY <1>2 DEF Fork, Forked, NewsSignalled, Reportable
  <2>6. SuspendedTold'  BY <1>2 DEF Fork, Forked, SuspendedTold, JobTableSound
  <2>7. WaitArmed'  BY <1>2 DEF Fork, Forked, WaitArmed
  <2> QED  BY <2>1, <2>2, <2>3, <2>4, <2>5, <2>6, <2>7
<1>3. CASE AddJob
  <2>a. reg \in Pid  BY <1>3 DEF AddJob, RegistersHeld
  <2>b. jobs' = addjob(reg).jobs /\ now' = addjob(reg).now  BY <1>3 DEF AddJob
  <2>c. PICK i \in Slot : \/ jobs' = jobs
                         \/ /\ jobs[i].pid = None
                            /\ jobs' = [jobs EXCEPT ![i] = [pid |-> reg, state |-> "RUNNING"]]
    BY <2>a, <2>b, AddjobResult DEF Slot
  <2>d. now' \in 0..MaxJobs /\ (addjob(reg).full => jobs' = jobs)  BY <2>a, <2>b, AddjobResult
  <2>e. jobs' \in [Slot -> [pid : Pid \cup {None}, state : {"SUSPEND", "RUNNING"}]]  BY <2>a, <2>c
  <2>f. \A j \in Slot : jobs'[j] = jobs[j]
                       \/ (j = i /\ jobs[i].pid = None /\ jobs'[j].pid = reg /\ jobs'[j].state = "RUNNING")
    BY <2>a, <2>c
  <2>1. TypeOK'  BY <1>3, <2>a, <2>d, <2>e, <2>f DEF AddJob
  <2>2. RegistersHeld'  BY <1>3, <2>a, <2>d, <2>e, <2>f DEF AddJob, RegistersHeld
  <2>3. JobTableSound'  BY <1>3, <2>a, <2>d, <2>e, <2>f DEF AddJob, JobTableSound, NewJobHidden
  <2>4. NewJobHidden'  BY <1>3, <2>a, <2>d, <2>e, <2>f DEF AddJob, NewJobHidden
  <2>5. NewsSignalled'  BY <1>3, <2>a, <2>d, <2>e, <2>f DEF AddJob, NewsSignalled, Reportable
  <2>6. SuspendedTold'  BY <1>3, <2>a, <2>d, <2>e, <2>f DEF AddJob, SuspendedTold, NewJobHidden
  <2>7. WaitArmed'  BY <1>3, <2>a, <2>d, <2>e, <2>f DEF AddJob, WaitArmed, NewJobHidden
  <2> QED  BY <2>1, <2>2, <2>3, <2>4, <2>5, <2>6, <2>7
<1>4. CASE SendKill
  <2>1. TypeOK'  BY <1>4 DEF SendKill, Becomes
  <2>2. RegistersHeld'  BY <1>4 DEF SendKill, Becomes, RegistersHeld
  <2>3. JobTableSound'  BY <1>4 DEF SendKill, Becomes, JobTableSound
  <2>4. NewJobHidden'  BY <1>4 DEF SendKill, Becomes, NewJobHidden
  <2>5. NewsSignalled'  BY <1>4 DEF SendKill, Becomes, NewsSignalled, Reportable
  <2>6. SuspendedTold'  BY <1>4 DEF SendKill, Becomes, SuspendedTold
  <2>7. WaitArmed'  BY <1>4 DEF SendKill, Becomes, WaitArmed
  <2> QED  BY <2>1, <2>2, <2>3, <2>4, <2>5, <2>6, <2>7
<1>5. CASE SendCont
  <2> DEFINE woken == {p \in Group(reg) : child[p] = "stopped"}
  <2>a. /\ child' = [p \in Pid |-> IF p \in woken THEN "running" ELSE child[p]]
        /\ news' = [p \in Pid |-> p \in woken \/ news[p]]
        /\ pending' = (pending \/ woken # {})
        /\ pc' \in {"prompt", "arm"} /\ pc \in {"wake", "fgWake"} /\ handler = "no" /\ reg' \in {None, reg}
        /\ UNCHANGED <<proc, local, blocked, handler, table, wait, stops>>
    BY <1>5 DEF SendCont
  <2>b. \A p \in woken : p \in Pid /\ child[p] = "stopped"  BY DEF Group
  <2> HIDE DEF woken
  <2>c. /\ child' \in [Pid -> {"none", "running", "stopped", "zombie"}]
        /\ \A p \in Pid : /\ child'[p] = IF p \in woken THEN "running" ELSE child[p]
                          /\ p \in woken => news'[p]
    BY <2>a
  <2>d. news' \in [Pid -> BOOLEAN] /\ \A p \in Pid : p \notin woken => (news'[p] <=> news[p])
    <3>1. \A p \in Pid : (p \in woken \/ news[p]) \in BOOLEAN  BY Zenon
    <3>2. news' \in [Pid -> BOOLEAN]  BY <2>a, <3>1, Zenon
    <3>3. QED  BY <2>a, <3>2
  <2>e. pending' \in BOOLEAN /\ (pending' <=> pending \/ woken # {})  BY <2>a, Zenon
  <2>1. TypeOK'  BY <2>a, <2>c, <2>d, <2>e
  <2>2. RegistersHeld'  BY <2>a DEF RegistersHeld
  <2>3. JobTableSound'  BY <2>a, <2>b, <2>c DEF JobTableSound
  <2>4. NewJobHidden'  BY <2>a DEF NewJobHidden
  <2>5. NewsSignalled'  BY <2>a, <2>c, <2>d, <2>e DEF NewsSignalled, Reportable
  <2>6. SuspendedTold'  BY <2>a, <2>b, <2>c, <2>d DEF SuspendedTold
  <2>7. WaitArmed'  BY <2>a DEF WaitArmed
  <2> QED  BY <2>1, <2>2, <2>3, <2>4, <2>5, <2>6, <2>7
<1>6. CASE FgBranch
  <2>1. TypeOK'  BY <1>6 DEF FgBranch
  <2>2. RegistersHeld'  BY <1>6 DEF FgBranch, RegistersHeld
  <2>3. JobTableSound'  BY <1>6 DEF FgBranch, JobTableSound
  <2>4. NewJobHidden'  BY <1>6 DEF FgBranch, NewJobHidden
  <2>5. NewsSignalled'  BY <1>6 DEF FgBranch, NewsSignalled, Reportable
  <2>6. SuspendedTold'  BY <1>6 DEF FgBranch, SuspendedTold
  <2>7. WaitArmed'  BY <1>6 DEF FgBranch, WaitArmed
  <2> QED  BY <2>1, <2>2, <2>3, <2>4, <2>5, <2>6, <2>7
<1>7. CASE Arm
  <2>1. TypeOK'  BY <1>7 DEF Arm
  <2>2. RegistersHeld'  BY <1>7 DEF Arm, RegistersHeld
  <2>3. JobTableSound'  BY <1>7 DEF Arm, JobTableSound
  <2>4. NewJobHidden'  BY <1>7 DEF Arm, NewJobHidden
  <2>5. NewsSignalled'  BY <1>7 DEF Arm, NewsSignalled, Reportable
  <2>6. SuspendedTold'  BY <1>7 DEF Arm, SuspendedTold
  <2>7. WaitArmed'  BY <1>7 DEF Arm, WaitArmed
  <2> QED  BY <2>1, <2>2, <2>3, <2>4, <2>5, <2>6, <2>7
<1>8. CASE FgSuspend
  <2>1. TypeOK'  BY <1>8 DEF FgSuspend
  <2>2. RegistersHeld'  BY <1>8 DEF FgSuspend, RegistersHeld
  <2>3. JobTableSound'  BY <1>8 DEF FgSuspend, JobTableSound
  <2>4. NewJobHidden'  BY <1>8 DEF FgSuspend, NewJobHidden
  <2>5. NewsSignalled'  BY <1>8 DEF FgSuspend, NewsSignalled, Reportable
  <2>6. SuspendedTold'  BY <1>8 DEF FgSuspend, SuspendedTold
  <2>7. WaitArmed'  BY <1>8 DEF FgSuspend, WaitArmed
  <2> QED  BY <2>1, <2>2, <2>3, <2>4, <2>5, <2>6, <2>7
<1>9. CASE Deliver
  <2>1. TypeOK'  BY <1>9 DEF Deliver
  <2>2. RegistersHeld'  BY <1>9 DEF Deliver, RegistersHeld, WaitArmed
  <2>3. JobTableSound'  BY <1>9 DEF Deliver, JobTableSound
  <2>4. NewJobHidden'  BY <1>9 DEF Deliver, NewJobHidden
  <2>5. NewsSignalled'  BY <1>9 DEF Deliver, NewsSignalled, Reportable
  <2>6. SuspendedTold'  BY <1>9 DEF Deliver, SuspendedTold
  <2>7. WaitArmed'  BY <1>9 DEF Deliver, WaitArmed
  <2> QED  BY <2>1, <2>2, <2>3, <2>4, <2>5, <2>6, <2>7
<1>10. CASE WaitForeground
  <2>a. handler = "wait" /\ UNCHANGED <<pc, reg, bg, stages, jobnum, blocked, pending, now, last_pid, stops>>
    BY <1>10 DEF WaitForeground
  <2>b. explicit_wait  BY <2>a DEF RegistersHeld
  <2>1. CASE proc' = "dead" /\ UNCHANGED <<handler, jobs, explicit_wait, child, news>>
    <3>1. TypeOK'  BY <2>1, <2>a
    <3>2. RegistersHeld'  BY <2>1, <2>a, <2>b DEF RegistersHeld
    <3>3. JobTableSound'  BY <2>1, <2>a DEF JobTableSound
    <3>4. NewJobHidden'  BY <2>1, <2>a DEF NewJobHidden
    <3>5. NewsSignalled'  BY <2>1, <2>a DEF NewsSignalled, Reportable
    <3>6. SuspendedTold'  BY <2>1, <2>a DEF SuspendedTold
    <3>7. WaitArmed'  BY <2>1, <2>a DEF WaitArmed
    <3> QED  BY <3>1, <3>2, <3>3, <3>4, <3>5, <3>6, <3>7
  <2>2. ASSUME NEW p \in Group(last_pid), explicit_wait' = FALSE, handler' = "loop", proc' = proc,
               \/ child[p] = "zombie" /\ Reaped(p)
               \/ /\ child[p] = "stopped" /\ news' = [news EXCEPT ![p] = FALSE]
                  /\ jobs' = update(p, "SUSPEND") /\ child' = child
        PROVE  IInv'
    <3>a. p \in Pid /\ (last_pid \in Pid => p = last_pid)  BY <2>2 DEF Group
    <3>b. /\ jobs' \in [Slot -> [pid : Pid \cup {None}, state : {"SUSPEND", "RUNNING"}]]
          /\ \/ /\ child[p] = "zombie" /\ child' = [child EXCEPT ![p] = "none"] /\ news' = news
                /\ \A i \in Slot : /\ jobs'[i].pid = IF jobs[i].pid = p THEN None ELSE jobs[i].pid
                                   /\ jobs'[i].state = jobs[i].state
             \/ /\ child[p] = "stopped" /\ child' = child /\ news' = [news EXCEPT ![p] = FALSE]
                /\ \A i \in Slot : /\ jobs'[i].pid = jobs[i].pid
                                   /\ jobs'[i].state = IF jobs[i].pid = p THEN "SUSPEND" ELSE jobs[i].state
      BY <2>2, <3>a, Deleted, Updated DEF Reaped
    <3>1. TypeOK'  BY <2>2, <2>a, <3>a, <3>b
    <3>2. RegistersHeld'  BY <2>2, <2>a DEF RegistersHeld
    <3>3. JobTableSound'  BY <2>a, <3>a, <3>b DEF JobTableSound
    <3>4. NewJobHidden'  BY <2>2, <2>a DEF NewJobHidden
    <3>5. NewsSignalled'  BY <2>2 DEF NewsSignalled, Reportable
    <3>6. SuspendedTold'  BY <3>a, <3>b DEF SuspendedTold
    <3>7. WaitArmed'  BY <2>2, <2>a DEF WaitArmed
    <3> QED  BY <3>1, <3>2, <3>3, <3>4, <3>5, <3>6, <3>7
  <2> QED  BY <1>10, <2>1, <2>2 DEF WaitForeground
<1>11. ASSUME NEW p \in Pid, WaitAny(p)
      PROVE  IInv'
  <2>a. /\ jobs' \in [Slot -> [pid : Pid \cup {None}, state : {"SUSPEND", "RUNNING"}]]
        /\ \/ /\ child[p] = "zombie" /\ child' = [child EXCEPT ![p] = "none"] /\ news' = news
              /\ \A i \in Slot : /\ jobs'[i].pid = IF jobs[i].pid = p THEN None ELSE jobs[i].pid
                                 /\ jobs'[i].state = jobs[i].state
           \/ /\ child[p] = "running" /\ child' = child /\ news' = [news EXCEPT ![p] = FALSE]
              /\ \A i \in Slot : /\ jobs'[i].pid = jobs[i].pid
                                 /\ jobs'[i].state = IF jobs[i].pid = p THEN "RUNNING" ELSE jobs[i].state
    BY <1>11, Deleted, Updated DEF WaitAny, Reaped
  <2>b. handler = "loop" /\ UNCHANGED <<proc, pc, reg, bg, stages, jobnum, blocked, pending, handler, now,
                                        explicit_wait, last_pid, stops>>
    BY <1>11 DEF WaitAny
  <2>1. TypeOK'  BY <2>a, <2>b
  <2>2. RegistersHeld'  BY <2>a, <2>b DEF RegistersHeld
  <2>3. JobTableSound'  BY <2>a, <2>b DEF JobTableSound
  <2>4. NewJobHidden'  BY <2>a, <2>b DEF NewJobHidden
  <2>5. NewsSignalled'  BY <2>a, <2>b DEF NewsSignalled, Reportable
  <2>6. SuspendedTold'  BY <2>a, <2>b DEF SuspendedTold
  <2>7. WaitArmed'  BY <2>a, <2>b DEF WaitArmed
  <2> QED  BY <2>1, <2>2, <2>3, <2>4, <2>5, <2>6, <2>7
<1>12. CASE HandlerEnd
  <2>1. TypeOK'  BY <1>12 DEF HandlerEnd
  <2>2. RegistersHeld'  BY <1>12 DEF HandlerEnd, RegistersHeld
  <2>3. JobTableSound'  BY <1>12 DEF HandlerEnd, JobTableSound
  <2>4. NewJobHidden'  BY <1>12 DEF HandlerEnd, NewJobHidden
  <2>5. NewsSignalled'  BY <1>12 DEF HandlerEnd, NewsSignalled, Reportable
  <2>6. SuspendedTold'  BY <1>12 DEF HandlerEnd, SuspendedTold
  <2>7. WaitArmed'  BY <1>12 DEF HandlerEnd, WaitArmed
  <2> QED  BY <2>1, <2>2, <2>3, <2>4, <2>5, <2>6, <2>7
<1>13. ASSUME NEW n \in 1..MaxStages, NEW b \in BOOLEAN, Run(n, b)
      PROVE  IInv'
  <2>1. TypeOK'  BY <1>13 DEF Run
  <2>2. RegistersHeld'  BY <1>13 DEF Run, RegistersHeld
  <2>3. JobTableSound'  BY <1>13 DEF Run, JobTableSound
  <2>4. NewJobHidden'  BY <1>13 DEF Run, NewJobHidden
  <2>5. NewsSignalled'  BY <1>13 DEF Run, NewsSignalled, Reportable
  <2>6. SuspendedTold'  BY <1>13 DEF Run, SuspendedTold
  <2>7. WaitArmed'  BY <1>13 DEF Run, WaitArmed
  <2> QED  BY <2>1, <2>2, <2>3, <2>4, <2>5, <2>6, <2>7
<1>14. ASSUME NEW n \in Slot, KillJob(n)
      PROVE  IInv'
  <2>1. TypeOK'  BY <1>14 DEF KillJob, Builtin
  <2>2. RegistersHeld'  BY <1>14 DEF KillJob, Builtin, RegistersHeld
  <2>3. JobTableSound'  BY <1>14 DEF KillJob, Builtin, JobTableSound
  <2>4. NewJobHidden'  BY <1>14 DEF KillJob, Builtin, NewJobHidden
  <2>5. NewsSignalled'  BY <1>14 DEF KillJob, Builtin, NewsSignalled, Reportable
  <2>6. SuspendedTold'  BY <1>14 DEF KillJob, Builtin, SuspendedTold
  <2>7. WaitArmed'  BY <1>14 DEF KillJob, Builtin, WaitArmed
  <2> QED  BY <2>1, <2>2, <2>3, <2>4, <2>5, <2>6, <2>7
<1>23. CASE Target
  <2>a. 0 \in Slot  BY DEF Slot
  <2>1. TypeOK'  BY <1>23, <2>a DEF Target
  <2>2. RegistersHeld'  BY <1>23 DEF Target, RegistersHeld
  <2>3. JobTableSound'  BY <1>23 DEF Target, JobTableSound
  <2>4. NewJobHidden'  BY <1>23 DEF Target, NewJobHidden
  <2>5. NewsSignalled'  BY <1>23 DEF Target, NewsSignalled, Reportable
  <2>6. SuspendedTold'  BY <1>23 DEF Target, SuspendedTold
  <2>7. WaitArmed'  BY <1>23 DEF Target, WaitArmed
  <2> QED  BY <2>1, <2>2, <2>3, <2>4, <2>5, <2>6, <2>7
<1>15. ASSUME NEW n \in Slot, BgWake(n)
      PROVE  IInv'
  <2>1. TypeOK'  BY <1>15 DEF BgWake, Builtin
  <2>2. RegistersHeld'  BY <1>15 DEF BgWake, Builtin, RegistersHeld
  <2>3. JobTableSound'  BY <1>15 DEF BgWake, Builtin, JobTableSound
  <2>4. NewJobHidden'  BY <1>15 DEF BgWake, Builtin, NewJobHidden
  <2>5. NewsSignalled'  BY <1>15 DEF BgWake, Builtin, NewsSignalled, Reportable
  <2>6. SuspendedTold'  BY <1>15 DEF BgWake, Builtin, SuspendedTold
  <2>7. WaitArmed'  BY <1>15 DEF BgWake, Builtin, WaitArmed
  <2> QED  BY <2>1, <2>2, <2>3, <2>4, <2>5, <2>6, <2>7
<1>16. ASSUME NEW n \in Slot, FgRun(n)
      PROVE  IInv'
  <2>1. TypeOK'  BY <1>16 DEF FgRun, Builtin
  <2>2. RegistersHeld'  BY <1>16 DEF FgRun, Builtin, RegistersHeld
  <2>3. JobTableSound'  BY <1>16 DEF FgRun, Builtin, JobTableSound
  <2>4. NewJobHidden'  BY <1>16 DEF FgRun, Builtin, NewJobHidden
  <2>5. NewsSignalled'  BY <1>16 DEF FgRun, Builtin, NewsSignalled, Reportable
  <2>6. SuspendedTold'  BY <1>16 DEF FgRun, Builtin, SuspendedTold
  <2>7. WaitArmed'  BY <1>16 DEF FgRun, Builtin, WaitArmed
  <2> QED  BY <2>1, <2>2, <2>3, <2>4, <2>5, <2>6, <2>7
<1>17. CASE Exit
  <2>1. TypeOK'  BY <1>17 DEF Exit
  <2>2. RegistersHeld'  BY <1>17 DEF Exit, RegistersHeld
  <2>3. JobTableSound'  BY <1>17 DEF Exit, JobTableSound
  <2>4. NewJobHidden'  BY <1>17 DEF Exit, NewJobHidden
  <2>5. NewsSignalled'  BY <1>17 DEF Exit, NewsSignalled, Reportable
  <2>6. SuspendedTold'  BY <1>17 DEF Exit, SuspendedTold
  <2>7. WaitArmed'  BY <1>17 DEF Exit, WaitArmed
  <2> QED  BY <2>1, <2>2, <2>3, <2>4, <2>5, <2>6, <2>7
<1>18. ASSUME NEW p \in Pid, ChildEnds(p)
      PROVE  IInv'
  <2>1. TypeOK'  BY <1>18 DEF ChildEnds, Becomes
  <2>2. RegistersHeld'  BY <1>18 DEF ChildEnds, Becomes, RegistersHeld
  <2>3. JobTableSound'  BY <1>18 DEF ChildEnds, Becomes, JobTableSound
  <2>4. NewJobHidden'  BY <1>18 DEF ChildEnds, Becomes, NewJobHidden
  <2>5. NewsSignalled'  BY <1>18 DEF ChildEnds, Becomes, NewsSignalled, Reportable
  <2>6. SuspendedTold'  BY <1>18 DEF ChildEnds, Becomes, SuspendedTold
  <2>7. WaitArmed'  BY <1>18 DEF ChildEnds, Becomes, WaitArmed
  <2> QED  BY <2>1, <2>2, <2>3, <2>4, <2>5, <2>6, <2>7
<1>19. ASSUME NEW p \in Pid, ChildStops(p)
      PROVE  IInv'
  <2>1. TypeOK'  BY <1>19 DEF ChildStops, Becomes
  <2>2. RegistersHeld'  BY <1>19 DEF ChildStops, Becomes, RegistersHeld
  <2>3. JobTableSound'  BY <1>19 DEF ChildStops, Becomes, JobTableSound
  <2>4. NewJobHidden'  BY <1>19 DEF ChildStops, Becomes, NewJobHidden
  <2>5. NewsSignalled'  BY <1>19 DEF ChildStops, Becomes, NewsSignalled, Reportable
  <2>6. SuspendedTold'  BY <1>19 DEF ChildStops, Becomes, SuspendedTold
  <2>7. WaitArmed'  BY <1>19 DEF ChildStops, Becomes, WaitArmed
  <2> QED  BY <2>1, <2>2, <2>3, <2>4, <2>5, <2>6, <2>7
<1>20. ASSUME NEW p \in Pid, ChildContinues(p)
      PROVE  IInv'
  <2>1. TypeOK'  BY <1>20 DEF ChildContinues, Becomes
  <2>2. RegistersHeld'  BY <1>20 DEF ChildContinues, Becomes, RegistersHeld
  <2>3. JobTableSound'  BY <1>20 DEF ChildContinues, Becomes, JobTableSound
  <2>4. NewJobHidden'  BY <1>20 DEF ChildContinues, Becomes, NewJobHidden
  <2>5. NewsSignalled'  BY <1>20 DEF ChildContinues, Becomes, NewsSignalled, Reportable
  <2>6. SuspendedTold'  BY <1>20 DEF ChildContinues, Becomes, SuspendedTold
  <2>7. WaitArmed'  BY <1>20 DEF ChildContinues, Becomes, WaitArmed
  <2> QED  BY <2>1, <2>2, <2>3, <2>4, <2>5, <2>6, <2>7
<1>21. CASE UNCHANGED vars
  BY <1>21 DEF RegistersHeld, JobTableSound, NewJobHidden, NewsSignalled, SuspendedTold,
     WaitArmed, Reportable, vars
<1>22. QED
  BY <1>1, <1>2, <1>3, <1>4, <1>5, <1>6, <1>7, <1>8, <1>9, <1>10, <1>11, <1>12, <1>13,
     <1>14, <1>23, <1>15, <1>16, <1>17, <1>18, <1>19, <1>20, <1>21
  DEF Next, Shell, Handler, User, Kids, Ended

\* The invariant holds from the start.
LEMMA InvariantHolds == Spec => []IInv
<1>1. Init => TypeOK
  <2>1. 0 \in 0..MaxStages-1 /\ 0 \in 0..MaxJobs /\ 0 \in 0..Stops /\ 0 \in Slot
    BY ConstantsOK DEF Slot
  <2>2. Init => /\ jobs \in [Slot -> [pid : Pid \cup {None}, state : {"SUSPEND", "RUNNING"}]]
                /\ child \in [Pid -> {"none", "running", "stopped", "zombie"}]
    BY DEF Init
  <2>3. Init => news \in [Pid -> BOOLEAN]  BY Zenon DEF Init
  <2>4. Init => bg \in BOOLEAN /\ blocked \in BOOLEAN /\ pending \in BOOLEAN /\ explicit_wait \in BOOLEAN
    BY Zenon DEF Init
  <2>5. Init => /\ stages \in 0..MaxStages-1 /\ now \in 0..MaxJobs /\ stops \in 0..Stops
                /\ proc = "running" /\ pc = "prompt" /\ handler = "no" /\ reg = None /\ last_pid = None
                /\ jobnum \in Slot
    BY <2>1 DEF Init
  <2>6. QED  BY <2>2, <2>3, <2>4, <2>5 DEF TypeOK
<1>2. Init => RegistersHeld /\ NewJobHidden /\ WaitArmed
  BY DEF Init, RegistersHeld, NewJobHidden, WaitArmed
<1>3. Init => JobTableSound /\ NewsSignalled /\ SuspendedTold
  BY DEF Init, JobTableSound, NewsSignalled, SuspendedTold, Reportable
<1>4. QED  BY <1>1, <1>2, <1>3, Steps, PTL DEF Spec, IInv

\* Every variable keeps its type.
THEOREM TypeCorrect == Spec => []TypeOK
<1>1. IInv => TypeOK  BY DEF IInv
<1>2. QED  BY <1>1, InvariantHolds, PTL

\* The table holds children only, each once: nothing is in it that the
\* handler has reaped, whatever the moment SIGCHLD comes (eval blocks it from
\* the fork to addjob).
THEOREM TableCorrect == Spec => []JobTableSound
<1>1. IInv => JobTableSound  BY DEF IInv
<1>2. QED  BY <1>1, InvariantHolds, PTL

\* When all SIGCHLD have been handled no ended child is left, in the table or
\* as a zombie, however many of them one signal stood for.
THEOREM NoZombieLeft == Spec => []AllReaped
<1>1. IInv => AllReaped  BY DEF IInv, NewsSignalled, AllReaped, Quiet, Reportable
<1>2. QED  BY <1>1, InvariantHolds, PTL

\* A job shown as suspended is stopped once all SIGCHLD have been handled.
THEOREM SuspendedCorrect == Spec => []SuspendedIsStopped
<1>1. IInv => SuspendedIsStopped
  BY DEF IInv, TypeOK, NewsSignalled, SuspendedTold, SuspendedIsStopped, Quiet, Reportable
<1>2. QED  BY <1>1, InvariantHolds, PTL

\* The foreground wait of eval misses no SIGCHLD of its child.
THEOREM EvalWaitCorrect == Spec => []EvalWaitArmed
<1>1. IInv => EvalWaitArmed  BY DEF IInv, WaitArmed, EvalWaitArmed
<1>2. QED  BY <1>1, InvariantHolds, PTL
=============================================================================

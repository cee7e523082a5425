-------------------------------- MODULE Jobs --------------------------------
(***************************************************************************)
(* Job control of the C shell: the job table, the SIGCHLD handler,         *)
(* foreground and background commands, resume (fg, bg, --timeout), ping,   *)
(* snoop, and end of file at the prompt.                                   *)
(* Source: src/c-shell/src/d1d2.c, resume.c, execute.c, c3c4.c, ping.c,    *)
(* snoop.c, main.c.                                                        *)
(*                                                                         *)
(* run_tokens() and runbuff() block SIGCHLD, so the handler runs at the    *)
(* prompt only, and to its end.  The processes and what waitpid(), kill()  *)
(* and setitimer() do with them are modelled from how the shell uses them: *)
(* a process has at most one pending stop or continue report, the latest,  *)
(* and one exit report, its being a zombie.                                *)
(***************************************************************************)
EXTENDS Integers, Sequences, FiniteSets

CONSTANTS Groups,     \* bound: process groups the shell starts, 1 .. n
          MaxProcs,   \* bound: processes it starts, in all groups
          Sizes,      \* processes of a command: 1, or 2 for a pipeline
          Timeouts,   \* values of --timeout: 0 is none
          MAX_JOBS

ASSUME JobsAssumption ==
  /\ Groups \in Nat \ {0} /\ MaxProcs \in Nat /\ MAX_JOBS \in Nat
  /\ Sizes \subseteq {1, 2} /\ Timeouts \subseteq {0, 1}

Group == 1 .. Groups
Member == {1, 2}             \* 1 is the leader, whose pid is the group's id

VARIABLES ps,        \* ps[g][k]: "none", "run", "stop", "zombie" or "gone"
          news,      \* news[g][k]: unreported "stop" or "cont", or ""
          young,     \* foreground children that have not yet run giveterminal()
          sigchld,   \* SIGCHLD is pending
          alarm,     \* "off", "set" (it will fire, and fire again), "fired"
          tty,       \* the foreground process group, 0 the shell's
          jobs,      \* the job table
          pc,        \* what the shell does
          cur,       \* group it waits for, or traces a process of
          k,         \* child pipeline() waits for next, or snoop traces
          stopped,   \* stopped in pipeline()
          index,     \* index in run_resume()
          timeout,   \* timeout in run_resume()
          eof,       \* eof_after_stopped in main()
          lost       \* history: <<why, g>>, the groups of which the table is wrong

osVars == <<ps, news, young, sigchld>>
shellVars == <<jobs, pc, cur, k, stopped, index, timeout, eof, lost>>
vars == <<osVars, alarm, tty, shellVars>>

Init ==
  /\ ps = [g \in Group |-> [m \in Member |-> "none"]]
  /\ news = [g \in Group |-> [m \in Member |-> ""]]
  /\ young = {}
  /\ sigchld = FALSE
  /\ alarm = "off"
  /\ tty = 0
  /\ jobs = <<>>
  /\ pc = "prompt" /\ cur = 0 /\ k = 1 /\ stopped = 0 /\ index = 0 /\ timeout = 0
  /\ eof = 0 /\ lost = {}

-----------------------------------------------------------------------------
(* The operating system's side. *)

Exists(g) == \E m \in Member : ps[g][m] \in {"run", "stop", "zombie"}

\* SIGSTOP or SIGCONT to the processes T of group g: those in state `from`
\* change to state `to`, and the shell is to be told `what`.
Signal(g, T, from, to, what) ==
  LET hit == {m \in T : ps[g][m] = from} IN
    /\ ps' = [ps EXCEPT ![g] = [m \in Member |-> IF m \in hit THEN to ELSE ps[g][m]]]
    /\ news' = [news EXCEPT ![g] = [m \in Member |-> IF m \in hit THEN what ELSE news[g][m]]]
    /\ sigchld' = (sigchld \/ hit # {})
    /\ UNCHANGED young

Stop(g, T) == Signal(g, T, "run", "stop", "stop")
Continue(g, T) == Signal(g, T, "stop", "run", "cont")

\* snoop traces process m of group g.
Traced(g, m) == pc \in {"attached", "traced"} /\ cur = g /\ k = m

\* A process ends: of itself, by Ctrl-C, or by a signal of ping or resume that
\* it does not ignore.
ProcessExit(g, m) ==
  /\ ps[g][m] \in {"run", "stop"} /\ <<g, m>> \notin young
  /\ ps' = [ps EXCEPT ![g][m] = "zombie"]
  /\ news' = [news EXCEPT ![g][m] = ""]
  /\ sigchld' = TRUE
  /\ UNCHANGED <<young, alarm, tty, shellVars>>

\* It stops: Ctrl-Z, a read of the terminal from the background, a signal.
\* (Until it has executed its command it catches SIGTSTP as the shell does,
\* and nobody is assumed to send it SIGSTOP.  The stop of a traced process is
\* reported to trace(), which lets it run on at once.)
ProcessStop(g, m) ==
  /\ ps[g][m] = "run" /\ <<g, m>> \notin young /\ ~Traced(g, m)
  /\ Stop(g, {m})
  /\ UNCHANGED <<alarm, tty, shellVars>>

\* A foreground child, in run_external() or pipeline(), gives its own group
\* the terminal before it executes the command.
ChildTakesTerminal(g, m) ==
  /\ <<g, m>> \in young /\ ps[g][m] = "run"
  /\ young' = young \ {<<g, m>>}
  /\ tty' = g
  /\ UNCHANGED <<ps, news, sigchld, alarm, shellVars>>

\* Mutant: a timer without it_interval.
AlarmFiresOnce ==
  /\ alarm = "set"
  /\ alarm' = "fired"
  /\ pc' = IF pc = "rwait" THEN "rcheck" ELSE pc
  /\ UNCHANGED <<osVars, tty, jobs, cur, k, stopped, index, timeout, eof, lost>>

\* The timer of start_job_timer() fires, and again every 50 ms: it interrupts
\* waitpid().
AlarmFires ==
  /\ alarm # "off"
  /\ alarm' = "fired"
  /\ pc' = IF pc = "rwait" THEN "rcheck" ELSE pc
  /\ UNCHANGED <<osVars, tty, jobs, cur, k, stopped, index, timeout, eof, lost>>

-----------------------------------------------------------------------------
(* The SIGCHLD handler. *)

\* Mutant: WIFCONTINUED is not looked at.
NotedStopOnly(j) ==
  IF j.live = 0 THEN j
  ELSE [j EXCEPT !.stopped = IF news[j.pgid][1] = "stop" THEN 1 ELSE @,
                 !.done = IF ps[j.pgid][1] = "zombie" THEN 1 ELSE @]

\* The entry of a job once every report of its leader has been taken.
Noted(j) ==
  IF j.live = 0 THEN j
  ELSE [j EXCEPT !.stopped = IF news[j.pgid][1] = "stop" THEN 1
                             ELSE IF news[j.pgid][1] = "cont" THEN 0 ELSE @,
                 !.done = IF ps[j.pgid][1] = "zombie" THEN 1 ELSE @]

\* Mutant: the group is not asked for when the leader is done.
FinishedNever(j) == j

\* It is dead when its leader is done and kill(-pgid, 0) finds no process.
Finished(j) ==
  IF j.live = 1 /\ j.done = 1 /\ ~\E m \in Member : ps[j.pgid][m] \in {"run", "stop"}
    THEN [j EXCEPT !.live = 0, !.stopped = 0] ELSE j

\* Mutant: one waitpid() per SIGCHLD.
ReapedOne ==
  LET Z == {p \in Group \X Member : ps[p[1]][p[2]] = "zombie"}
      one == CHOOSE p \in Group \X Member : Z # {} => p \in Z
  IN  [g \in Group |-> [m \in Member |->
         IF <<g, m>> = one /\ Z # {} THEN "gone" ELSE ps[g][m]]]

Reaped == [g \in Group |-> [m \in Member |->
             IF ps[g][m] = "zombie" THEN "gone" ELSE ps[g][m]]]

HandleSigchld ==
  /\ pc = "prompt" /\ sigchld
  /\ ps' = Reaped
  /\ news' = [g \in Group |-> [m \in Member |-> ""]]
  /\ sigchld' = FALSE
  /\ UNCHANGED young
  /\ jobs' = [i \in DOMAIN jobs |-> Finished(Noted(jobs[i]))]
  /\ UNCHANGED <<alarm, tty, pc, cur, k, stopped, index, timeout, eof, lost>>

-----------------------------------------------------------------------------
(* Commands. *)

Prompt == pc = "prompt" /\ ~sigchld

Started(g, n) == [ps EXCEPT ![g] = [m \in Member |-> IF m <= n THEN "run" ELSE "none"]]

\* g is the next group to be started, and n more processes are within the bound.
Fresh(g, n) ==
  /\ ps[g][1] = "none" /\ \A h \in 1 .. g - 1 : ps[h][1] # "none"
  /\ Cardinality({p \in Group \X Member : ps[p[1]][p[2]] # "none"}) + n <= MaxProcs

Entry(g, s) == [pgid |-> g, live |-> 1, stopped |-> s, done |-> 0]

\* command &.  (With the table full nothing is started, as in OtherLine.)
RunBackground(g, n) ==
  /\ Prompt
  /\ Len(jobs) < MAX_JOBS
  /\ Fresh(g, n)
  /\ ps' = Started(g, n)
  /\ jobs' = Append(jobs, Entry(g, 0))
  /\ eof' = 0
  /\ UNCHANGED <<news, young, sigchld, alarm, tty, pc, cur, k, stopped, index, timeout, lost>>

\* A command or a pipeline in the foreground.
RunForeground(g, n) ==
  /\ Prompt
  /\ Fresh(g, n)
  /\ ps' = Started(g, n)
  /\ young' = young \cup {<<g, m>> : m \in 1 .. n}
  /\ tty' = g
  /\ pc' = "fgwait" /\ cur' = g /\ k' = 1 /\ stopped' = 0
  /\ eof' = 0
  /\ UNCHANGED <<news, sigchld, alarm, jobs, index, timeout, lost>>

ChildLeft == IF k > 2 THEN FALSE ELSE ps[cur][k] # "none"

\* Mutant: only the last child's status is looked at.
WaitChildLast ==
  /\ pc = "fgwait" /\ ChildLeft
  /\ \/ /\ ps[cur][k] = "zombie"
        /\ ps' = [ps EXCEPT ![cur][k] = "gone"]
        /\ stopped' = 0
        /\ UNCHANGED news
     \/ /\ news[cur][k] = "stop"
        /\ news' = [news EXCEPT ![cur][k] = ""]
        /\ stopped' = 1
        /\ UNCHANGED ps
  /\ k' = k + 1
  /\ UNCHANGED <<young, sigchld, alarm, tty, jobs, pc, cur, index, timeout, eof, lost>>

\* waitpid(children[k], &status, WUNTRACED)
WaitChild ==
  /\ pc = "fgwait" /\ ChildLeft
  /\ \/ /\ ps[cur][k] = "zombie"
        /\ ps' = [ps EXCEPT ![cur][k] = "gone"]
        /\ UNCHANGED <<news, stopped>>
     \/ /\ news[cur][k] = "stop"
        /\ news' = [news EXCEPT ![cur][k] = ""]
        /\ stopped' = 1
        /\ UNCHANGED ps
  /\ k' = k + 1
  /\ UNCHANGED <<young, sigchld, alarm, tty, jobs, pc, cur, index, timeout, eof, lost>>

\* All children have been waited for; add_stopped_job() when one has stopped,
\* which fails when the table is full.
EndForeground ==
  /\ pc = "fgwait" /\ ~ChildLeft
  /\ tty' = 0
  /\ \/ stopped = 0 /\ UNCHANGED <<jobs, lost>>
     \/ /\ stopped = 1 /\ Len(jobs) < MAX_JOBS
        /\ jobs' = Append(jobs, Entry(cur, 1))
        /\ UNCHANGED lost
     \/ /\ stopped = 1 /\ Len(jobs) = MAX_JOBS
        /\ lost' = lost \cup {<<"full", cur>>}
        /\ UNCHANGED jobs
  /\ pc' = "prompt" /\ cur' = 0 /\ k' = 1 /\ stopped' = 0
  /\ UNCHANGED <<osVars, alarm, index, timeout, eof>>

\* find_job()
FindJob(i) == i \in DOMAIN jobs /\ jobs[i].live = 1

ResumeBackground(i) ==
  /\ Prompt /\ FindJob(i)
  /\ jobs' = [jobs EXCEPT ![i].stopped = 0]
  /\ Continue(jobs[i].pgid, Member)
  /\ eof' = 0
  /\ UNCHANGED <<alarm, tty, pc, cur, k, stopped, index, timeout, lost>>

\* Mutant: the job's number is taken for its index.
ResumeForegroundNumber(i, t) ==
  /\ Prompt /\ FindJob(i)
  /\ tty' = jobs[i].pgid
  /\ jobs' = [jobs EXCEPT ![i].stopped = 0]
  /\ Continue(jobs[i].pgid, Member)
  /\ pc' = "rcheck" /\ cur' = jobs[i].pgid /\ index' = i + 1 /\ timeout' = t
  /\ alarm' = IF t > 0 THEN "set" ELSE "off"
  /\ eof' = 0
  /\ UNCHANGED <<k, stopped, lost>>

ResumeForeground(i, t) ==
  /\ Prompt /\ FindJob(i)
  /\ tty' = jobs[i].pgid
  /\ jobs' = [jobs EXCEPT ![i].stopped = 0]
  /\ Continue(jobs[i].pgid, Member)
  /\ pc' = "rcheck" /\ cur' = jobs[i].pgid /\ index' = i /\ timeout' = t
  /\ alarm' = IF t > 0 THEN "set" ELSE "off"
  /\ eof' = 0
  /\ UNCHANGED <<k, stopped, lost>>

\* ping, to a group (%i) or to one tracked process of it.  A signal that ends
\* a process is ProcessExit.
Ping(i, T) ==
  /\ Prompt /\ FindJob(i)
  /\ \E m \in T : ps[jobs[i].pgid][m] \in {"run", "stop"}
  /\ Stop(jobs[i].pgid, T) \/ Continue(jobs[i].pgid, T)
  /\ eof' = 0
  /\ UNCHANGED <<alarm, tty, jobs, pc, cur, k, stopped, index, timeout, lost>>

\* Mutant: the terminal stays with a job that has stopped again.
EndResumeKeepsTerminal(j) ==
  /\ tty' = IF j.live = 1 THEN tty ELSE 0
  /\ jobs' = [jobs EXCEPT ![index] = j]
  /\ pc' = "prompt" /\ cur' = 0 /\ index' = 0 /\ timeout' = 0
  /\ alarm' = "off"
  /\ UNCHANGED <<k, stopped, eof>>

\* What run_resume() does after wait_group().
EndResume(j) ==
  /\ tty' = 0
  /\ jobs' = [jobs EXCEPT ![index] = j]
  /\ pc' = "prompt" /\ cur' = 0 /\ index' = 0 /\ timeout' = 0
  /\ alarm' = "off"
  /\ UNCHANGED <<k, stopped, eof>>

\* The test at the head of the loop of wait_group().
CheckTimer ==
  /\ pc = "rcheck" /\ ~(timeout > 0 /\ alarm = "fired")
  /\ pc' = "renter"
  /\ UNCHANGED <<osVars, alarm, tty, jobs, cur, k, stopped, index, timeout, eof, lost>>

\* The job has run out of time: SIGTERM ends the processes D, the others ignore
\* it or are stopped.
TimedOut(D) ==
  /\ pc = "rcheck" /\ timeout > 0 /\ alarm = "fired"
  /\ Signal(cur, D, "run", "zombie", "")
  /\ lost' = lost \cup {<<"timeout", cur>>}
  /\ EndResume([jobs[index] EXCEPT !.live = 0, !.stopped = 0])

\* The shell enters waitpid(-pgid, &status, WUNTRACED): a timer that fires
\* before this does not interrupt it.
EnterWait ==
  /\ pc = "renter"
  /\ pc' = "rwait"
  /\ UNCHANGED <<osVars, alarm, tty, jobs, cur, k, stopped, index, timeout, eof, lost>>

\* It returns a child.
WaitGroup(m) ==
  /\ pc = "rwait"
  /\ \/ /\ ps[cur][m] = "zombie"
        /\ ps' = [ps EXCEPT ![cur][m] = "gone"]
        /\ pc' = "rcheck"
        /\ UNCHANGED <<news, alarm, tty, jobs, cur, k, stopped, index, timeout, eof>>
     \/ /\ news[cur][m] = "stop"
        /\ news' = [news EXCEPT ![cur][m] = ""]
        /\ EndResume([jobs[index] EXCEPT !.stopped = 1])
        /\ UNCHANGED ps
  /\ UNCHANGED <<young, sigchld, lost>>

\* It fails: no child is left in the group.
WaitGroupDone ==
  /\ pc = "rwait" /\ ~Exists(cur)
  /\ EndResume([jobs[index] EXCEPT !.live = 0, !.stopped = 0])
  /\ UNCHANGED <<osVars, lost>>

-----------------------------------------------------------------------------
(* snoop. *)

\* snoop -p pid: the shell attaches to a process, which runs on also when it
\* was stopped; that it continues is reported once it is let go.
SnoopAttach(g, m) ==
  /\ Prompt /\ ps[g][m] \in {"run", "stop"}
  /\ Continue(g, {m})
  /\ pc' = "attached" /\ cur' = g /\ k' = m
  /\ eof' = 0
  /\ UNCHANGED <<alarm, tty, jobs, stopped, index, timeout, lost>>

\* snoop command: a group of its own that has the terminal but no entry.
SnoopCommand(g) ==
  /\ Prompt /\ Fresh(g, 1)
  /\ ps' = Started(g, 1)
  /\ tty' = g
  /\ pc' = "traced" /\ cur' = g /\ k' = 1
  /\ eof' = 0
  /\ UNCHANGED <<news, young, sigchld, alarm, jobs, stopped, index, timeout, lost>>

\* Mutant: the exit of a traced leader is not noted.
NoteTracedExitNever(j) == j

\* note_traced_exit(), for the entry j: only the leader's exit is noted, and
\* the job is dead when no process of the group is left, a zombie included.
NoteTracedExit(j) ==
  IF j.live = 1 /\ j.pgid = cur /\ k = 1 /\ j.done = 0
    THEN IF \E m \in Member \ {1} : ps[cur][m] \in {"run", "stop", "zombie"}
           THEN [j EXCEPT !.done = 1]
           ELSE [j EXCEPT !.done = 1, !.live = 0, !.stopped = 0]
    ELSE j

EndSnoop ==
  /\ tty' = 0
  /\ pc' = "prompt" /\ cur' = 0 /\ k' = 1
  /\ UNCHANGED <<young, sigchld, alarm, stopped, index, timeout, eof>>

\* trace() waits for the process that ends; or it was killed and ptrace() fails,
\* and the process is left to handle_sigchld().
SnoopExit ==
  /\ pc \in {"attached", "traced"} /\ ps[cur][k] = "zombie"
  /\ \/ /\ ps' = [ps EXCEPT ![cur][k] = "gone"]
        /\ jobs' = IF pc = "traced" THEN jobs
                   ELSE [i \in DOMAIN jobs |-> NoteTracedExit(jobs[i])]
     \/ UNCHANGED <<ps, jobs>>
  /\ EndSnoop
  /\ UNCHANGED <<news, lost>>

\* Ctrl-C lets the process go.  When it has just ended, the waitpid() of
\* detach() takes its exit, and no one tells the table.
SnoopDetach ==
  /\ pc = "attached"
  /\ \/ /\ ps[cur][k] = "zombie"
        /\ ps' = [ps EXCEPT ![cur][k] = "gone"]
        /\ lost' = lost \cup {<<"detach", cur>>}
     \/ /\ ps[cur][k] # "zombie"
        /\ UNCHANGED <<ps, lost>>
  /\ EndSnoop
  /\ UNCHANGED <<news, jobs>>

-----------------------------------------------------------------------------
(* End of file. *)

HasStoppedJobs == \E i \in DOMAIN jobs : jobs[i].live = 1 /\ jobs[i].stopped = 1

\* End of file at the prompt while jobs are stopped: one warning.
EndOfFileWarns ==
  /\ Prompt /\ HasStoppedJobs /\ eof = 0
  /\ eof' = 1
  /\ UNCHANGED <<osVars, alarm, tty, jobs, pc, cur, k, stopped, index, timeout, lost>>

\* Mutant: only the jobs job_stopped knows of are continued.
ShutdownStoppedJobs ==
  LET pgids == {jobs[i].pgid :
                  i \in {j \in DOMAIN jobs : jobs[j].live = 1 /\ jobs[j].stopped = 1}} IN
    ps' = [g \in Group |-> [m \in Member |->
             IF g \in pgids /\ ps[g][m] = "stop" THEN "run" ELSE ps[g][m]]]

\* shutdown_jobs(): SIGHUP, which ends a process or does not, and SIGCONT.
ShutdownJobs ==
  LET pgids == {jobs[i].pgid : i \in {j \in DOMAIN jobs : jobs[j].live = 1}} IN
    ps' = [g \in Group |-> [m \in Member |->
             IF g \in pgids /\ ps[g][m] = "stop" THEN "run" ELSE ps[g][m]]]

EndOfFile ==
  /\ Prompt /\ (HasStoppedJobs => eof = 1)
  /\ ShutdownJobs
  /\ pc' = "ended"
  /\ UNCHANGED <<news, young, sigchld, alarm, tty, jobs, cur, k, stopped,
                 index, timeout, eof, lost>>

\* A line that does nothing to jobs.
OtherLine ==
  /\ Prompt
  /\ eof' = 0
  /\ UNCHANGED <<osVars, alarm, tty, jobs, pc, cur, k, stopped, index, timeout, lost>>

-----------------------------------------------------------------------------
Waiting ==
  \/ WaitChild \/ EndForeground
  \/ CheckTimer \/ EnterWait \/ WaitGroupDone
  \/ \E m \in Member : WaitGroup(m)
  \/ \E D \in SUBSET Member : TimedOut(D)
  \/ SnoopExit

Next ==
  \/ \E g \in Group, m \in Member :
       /\ pc # "ended"
       /\ ProcessExit(g, m) \/ ProcessStop(g, m) \/ ChildTakesTerminal(g, m)
  \/ AlarmFires
  \/ HandleSigchld
  \/ \E g \in Group, n \in Sizes : RunBackground(g, n) \/ RunForeground(g, n)
  \/ \E i \in DOMAIN jobs :
       \/ ResumeBackground(i)
       \/ \E T \in SUBSET Member : Ping(i, T)
       \/ \E t \in Timeouts : ResumeForeground(i, t)
  \/ \E g \in Group : SnoopCommand(g) \/ \E m \in Member : SnoopAttach(g, m)
  \/ SnoopDetach
  \/ Waiting
  \/ EndOfFileWarns \/ EndOfFile \/ OtherLine

Spec == Init /\ [][Next]_vars

\* The shell goes on when it can, and a timer that is set fires.
Fairness == WF_vars(Waiting) /\ WF_vars(AlarmFires)
FairSpec == Spec /\ Fairness

-----------------------------------------------------------------------------
(* Properties. *)

\* The processes, the job table of d1d2.c and the shell's variables: the table
\* never outgrows MAX_JOBS, and index is that of a job.
TypeOK ==
  /\ ps \in [Group -> [Member -> {"none", "run", "stop", "zombie", "gone"}]]
  /\ news \in [Group -> [Member -> {"", "stop", "cont"}]]
  /\ young \subseteq Group \X Member
  /\ sigchld \in BOOLEAN
  /\ alarm \in {"off", "set", "fired"}
  /\ tty \in {0} \cup Group
  /\ Len(jobs) <= MAX_JOBS
  /\ \A i \in DOMAIN jobs : jobs[i] \in
       [pgid : Group, live : {0, 1}, stopped : {0, 1}, done : {0, 1}]
  /\ pc \in {"prompt", "fgwait", "rcheck", "renter", "rwait", "attached", "traced", "ended"}
  /\ cur \in {0} \cup Group /\ k \in 1 .. 3 /\ stopped \in {0, 1}
  /\ index \in 0 .. Len(jobs) /\ timeout \in {0, 1} /\ eof \in {0, 1}
  /\ lost \subseteq {"timeout", "full", "detach"} \X Group

\* At the prompt, once handle_sigchld() has run, no child is left unreaped:
\* SIGCHLDs of several children merge while it is blocked, and the handler's
\* loop takes them all.
NoZombies == Prompt => \A g \in Group, m \in Member : ps[g][m] # "zombie"

\* The groups the code itself keeps no entry for: resume has given up waiting
\* for them at the timeout, or they stopped when the table was full.
GivenUp == {g \in Group : <<"timeout", g>> \in lost \/ <<"full", g>> \in lost}

\* At the prompt every process the shell has started and that has not ended
\* belongs to a job that runactivity() lists, unless it is given up; and none
\* is given up for want of an entry while the table has one.
ActiveListed ==
  /\ Prompt => \A g \in Group \ GivenUp : Exists(g) =>
                 \E i \in DOMAIN jobs : jobs[i].live = 1 /\ jobs[i].pgid = g
  /\ \A g \in Group : <<"full", g>> \in lost => Len(jobs) = MAX_JOBS

Single(g) == ps[g][2] = "none"

\* At the prompt a job of one process that job_live says is live has its
\* process, whoever reaps it: the handler, run_external(), wait_group() or
\* trace(), all but detach().
NoPhantomJob ==
  Prompt => \A i \in DOMAIN jobs :
              jobs[i].live = 1 /\ Single(jobs[i].pgid) =>
                Exists(jobs[i].pgid) \/ <<"detach", jobs[i].pgid>> \in lost

\* At the prompt job_stopped says which of them are stopped, through resume,
\* ping, Ctrl-Z, snoop and the reports that wait while SIGCHLD is blocked.
StoppedKnown ==
  Prompt => \A i \in DOMAIN jobs :
              jobs[i].live = 1 /\ Single(jobs[i].pgid) /\ Exists(jobs[i].pgid) =>
                (jobs[i].stopped = 1 <=> ps[jobs[i].pgid][1] = "stop")

\* At the prompt the shell has the terminal: no child's own giveterminal()
\* comes after the shell's.
TerminalReturned == pc = "prompt" => tty = 0

\* When the shell has ended it has left no process of its jobs stopped, not
\* one job_stopped does not know of either.  (A group that is given up is no
\* job: shutdown_jobs() has no entry to continue it from.)
NothingLeftStopped ==
  pc = "ended" => \A g \in Group \ GivenUp, m \in Member : ps[g][m] # "stop"

\* resume --timeout gives the prompt back, whatever the job does and whenever
\* the timer fires, between the test of alarm_fired and waitpid() too.
TimeoutEnds ==
  pc \in {"rcheck", "renter", "rwait"} /\ timeout > 0 ~> pc = "prompt"

\* The shell's view and the kernel's agree: no zombie at the prompt, every live
\* process listed, every single-process entry true, the terminal returned.
JobsInv ==
  /\ TypeOK /\ NoZombies /\ ActiveListed /\ NoPhantomJob /\ StoppedKnown
  /\ TerminalReturned
=============================================================================
